------------------------------ MODULE DeskProofs -----------------------------
(***************************************************************************)
(* Settings, Charts and StoreMigration for every value of the constants:   *)
(* any number of sessions, saves and kills, all thresholds and readings,   *)
(* all dates and ranges; any batch size, retention, number of rows and of  *)
(* migrations, each failing anywhere beside a stack that runs or does not. *)
(***************************************************************************)
EXTENDS MCDesk, SelectionProofs

LEMMA FileTypes ==
  /\ Empty \in [text : {"whole", "empty", "mangled"}, thr : Profiles, rest : BOOLEAN]
  /\ Mangled \in [text : {"whole", "empty", "mangled"}, thr : Profiles, rest : BOOLEAN]
  /\ Resting \in [pc : {"idle", "read", "open"}, thr : Profiles, rest : BOOLEAN]
  /\ Reload \in Nat /\ Reload > 0 /\ MaxSaves \in Nat /\ MaxCrashes \in Nat /\ Default \in Profiles
  BY SettingsConstants DEF SettingsConstants, Empty, Mangled, Resting

LEMMA LoadType == SettingsTypeOK => load_runtime_config \in Profiles
  BY FileTypes DEF SettingsTypeOK, load_runtime_config

\* While nothing was damaged, a session writes alone, and holds what it read of
\* the other sections.
SectionsInv ==
  ~damaged =>
    /\ \A s \in Sessions : saver[s].pc # "idle" => saver[s].rest
    /\ \A s, t \in Sessions : Writing(s) /\ Writing(t) => s = t
    /\ (\E s \in Sessions : Writing(s)) => file = Empty
    /\ (\A s \in Sessions : ~Writing(s)) => file.text = "whole" /\ file.rest

\* The file last changed after the collector last read it, and the read is not due.
DueInv ==
  Readable =>
    \/ limits = {load_runtime_config}
    \/ settled <= due /\ settled <= Reload /\ (cycled => due < Reload \/ settled = 0)

SettingsInv == SettingsTypeOK /\ SectionsInv /\ DueInv

LEMMA SettingsStart == SettingsInit => SettingsInv
  <1> SUFFICES ASSUME SettingsInit PROVE SettingsInv
    OBVIOUS
  <1>1. SettingsTypeOK
    <2>1. 0 \in 0..(Reload + 1) /\ 0 \in 0..MaxSaves /\ 0 \in 0..MaxCrashes
      BY FileTypes
    <2>2. {Default} \in {{p} : p \in Profiles}
      BY FileTypes
    <2> QED
      BY <2>1, <2>2, FileTypes DEF SettingsInit, SettingsTypeOK
  <1>2. SectionsInv
    BY DEF SettingsInit, SectionsInv, Writing, Resting
  <1>3. DueInv
    BY DEF SettingsInit, DueInv, load_runtime_config
  <1> QED
    BY <1>1, <1>2, <1>3 DEF SettingsInv

-----------------------------------------------------------------------------
(* The dashboard's sessions.                                               *)

LEMMA FormStep ==
  ASSUME SettingsInv, NEW s \in Sessions, NEW p \in Profiles, form' = [form EXCEPT ![s] = p],
         UNCHANGED <<file, saver, gui, startup, collector, settled, damaged, saves, kills>>
  PROVE  SettingsInv'
  <1>1. SettingsTypeOK'
    BY DEF SettingsInv, SettingsTypeOK, collector
  <1>2. SectionsInv' /\ DueInv'
    BY DEF SettingsInv, SectionsInv, DueInv, Writing, Readable, load_runtime_config, collector
  <1> QED
    BY <1>1, <1>2 DEF SettingsInv

LEMMA ReadStep ==
  ASSUME SettingsInv, NEW s \in Sessions, ReadText(s)
  PROVE  SettingsInv'
  <1>k. KeptSections \in BOOLEAN /\ OthersWrite(s) \in BOOLEAN
    BY DEF SettingsInv, SettingsTypeOK, KeptSections, OthersWrite
  <1>d. damaged' \in BOOLEAN
    BY <1>k DEF ReadText, SettingsInv, SettingsTypeOK
  <1>1. SettingsTypeOK'
    <2>1. saver' \in [Sessions -> [pc : {"idle", "read", "open"}, thr : Profiles, rest : BOOLEAN]]
      BY <1>k DEF ReadText, SettingsInv, SettingsTypeOK
    <2>2. saves' \in 0..MaxSaves
      BY FileTypes DEF ReadText, SettingsInv, SettingsTypeOK
    <2> QED
      BY <1>d, <2>1, <2>2 DEF ReadText, SettingsInv, SettingsTypeOK, collector
  <1>2. SectionsInv'
    <2> SUFFICES ASSUME ~damaged' PROVE SectionsInv'
      BY DEF SectionsInv
    <2>1. ~damaged /\ ~OthersWrite(s) /\ saver[s].pc = "idle"
      BY DEF ReadText
    <2>2. \A t \in Sessions : ~Writing(t)
      BY <2>1 DEF OthersWrite, Writing
    <2>3. KeptSections
      BY <2>1, <2>2 DEF SettingsInv, SectionsInv, KeptSections
    <2>4. /\ saver'[s].pc = "read" /\ saver'[s].rest
          /\ \A t \in Sessions \ {s} : saver'[t] = saver[t]
      BY <2>3 DEF ReadText, SettingsInv, SettingsTypeOK
    <2>5. \A t \in Sessions : ~Writing(t)'
      BY <2>2, <2>4 DEF Writing
    <2>6. file' = file
      BY DEF ReadText
    <2> QED
      BY <2>1, <2>2, <2>4, <2>5, <2>6 DEF SettingsInv, SectionsInv
  <1>3. DueInv'
    BY DEF ReadText, SettingsInv, DueInv, Readable, load_runtime_config, collector
  <1> QED
    BY <1>1, <1>2, <1>3 DEF SettingsInv

LEMMA OpenStep ==
  ASSUME SettingsInv, NEW s \in Sessions, OpenText(s)
  PROVE  SettingsInv'
  <1>k. OthersWrite(s) \in BOOLEAN
    BY DEF OthersWrite
  <1>d. damaged' \in BOOLEAN
    BY <1>k DEF OpenText, SettingsInv, SettingsTypeOK
  <1>s. saver' \in [Sessions -> [pc : {"idle", "read", "open"}, thr : Profiles, rest : BOOLEAN]]
    BY DEF OpenText, SettingsInv, SettingsTypeOK
  <1>1. SettingsTypeOK'
    BY <1>d, <1>s, FileTypes DEF OpenText, SettingsInv, SettingsTypeOK, collector
  <1>2. SectionsInv'
    <2> SUFFICES ASSUME ~damaged' PROVE SectionsInv'
      BY DEF SectionsInv
    <2>1. ~damaged /\ ~OthersWrite(s) /\ saver[s].pc = "read"
      BY DEF OpenText
    <2>2. /\ saver'[s].pc = "open" /\ saver'[s].rest = saver[s].rest
          /\ \A t \in Sessions \ {s} : saver'[t] = saver[t]
      BY DEF OpenText, SettingsInv, SettingsTypeOK
    <2>3. \A t \in Sessions : Writing(t)' <=> t = s
      BY <2>1, <2>2 DEF OthersWrite, Writing
    <2>4. file' = Empty
      BY DEF OpenText
    <2>5. \A t \in Sessions : saver'[t].pc # "idle" => saver'[t].rest
      BY <2>1, <2>2 DEF SettingsInv, SectionsInv
    <2> QED
      BY <2>3, <2>4, <2>5 DEF SectionsInv, Empty
  <1>3. DueInv'
    BY FileTypes DEF OpenText, SettingsInv, SettingsTypeOK, DueInv, collector
  <1> QED
    BY <1>1, <1>2, <1>3 DEF SettingsInv

LEMMA WriteStep ==
  ASSUME SettingsInv, NEW s \in Sessions, WriteText(s)
  PROVE  SettingsInv'
  <1> DEFINE own == [text |-> "whole", thr |-> saver[s].thr, rest |-> saver[s].rest]
  <1>o. own \in [text : {"whole", "empty", "mangled"}, thr : Profiles, rest : BOOLEAN]
    BY DEF SettingsInv, SettingsTypeOK
  <1>s. /\ saver' \in [Sessions -> [pc : {"idle", "read", "open"}, thr : Profiles, rest : BOOLEAN]]
        /\ saver'[s] = Resting /\ \A t \in Sessions \ {s} : saver'[t] = saver[t]
    BY FileTypes DEF WriteText, SettingsInv, SettingsTypeOK
  <1>f. /\ file' = own \/ file' = Mangled
        /\ file = Empty => file' = own
    BY DEF WriteText
  <1>1. SettingsTypeOK'
    <2>1. file' \in [text : {"whole", "empty", "mangled"}, thr : Profiles, rest : BOOLEAN]
      BY <1>o, <1>f, FileTypes
    <2> QED
      BY <1>s, <2>1, FileTypes DEF WriteText, SettingsInv, SettingsTypeOK, collector
  <1>2. SectionsInv'
    <2> SUFFICES ASSUME ~damaged' PROVE SectionsInv'
      BY DEF SectionsInv
    <2>1. ~damaged /\ Writing(s)
      BY DEF WriteText
    <2>2. file' = own /\ saver[s].rest
      BY <1>f, <2>1 DEF SettingsInv, SectionsInv, Writing
    <2>3. \A t \in Sessions : ~Writing(t)'
      BY <1>s, <2>1 DEF SettingsInv, SectionsInv, Writing, Resting
    <2>4. \A t \in Sessions : saver'[t].pc # "idle" => saver'[t].rest
      BY <1>s, <2>1 DEF SettingsInv, SectionsInv, Resting
    <2> QED
      BY <2>2, <2>3, <2>4 DEF SectionsInv
  <1>3. DueInv'
    BY FileTypes DEF WriteText, SettingsInv, SettingsTypeOK, DueInv, collector
  <1> QED
    BY <1>1, <1>2, <1>3 DEF SettingsInv

LEMMA KilledStep == SettingsInv /\ GuiKilled => SettingsInv'
  <1> SUFFICES ASSUME SettingsInv, GuiKilled PROVE SettingsInv'
    OBVIOUS
  <1>k. (\E s \in Sessions : Writing(s)) \in BOOLEAN
    OBVIOUS
  <1>d. damaged' \in BOOLEAN
    BY <1>k DEF GuiKilled, SettingsInv, SettingsTypeOK
  <1>s. /\ saver' \in [Sessions -> [pc : {"idle", "read", "open"}, thr : Profiles, rest : BOOLEAN]]
        /\ \A t \in Sessions : saver'[t] = Resting
    BY FileTypes DEF GuiKilled
  <1>1. SettingsTypeOK'
    BY <1>d, <1>s, FileTypes DEF GuiKilled, SettingsInv, SettingsTypeOK, collector
  <1>2. SectionsInv'
    <2> SUFFICES ASSUME ~damaged' PROVE SectionsInv'
      BY DEF SectionsInv
    <2>1. ~damaged /\ file' = file /\ \A s \in Sessions : ~Writing(s)
      BY DEF GuiKilled
    <2>2. \A s \in Sessions : ~Writing(s)' /\ saver'[s].pc = "idle"
      BY <1>s DEF Writing, Resting
    <2> QED
      BY <2>1, <2>2 DEF SettingsInv, SectionsInv
  <1>3. DueInv'
    BY DEF GuiKilled, SettingsInv, DueInv, Readable, load_runtime_config, collector
  <1> QED
    BY <1>1, <1>2, <1>3 DEF SettingsInv

LEMMA StartsStep == SettingsInv /\ GuiStarts => SettingsInv'
  <1> SUFFICES ASSUME SettingsInv, GuiStarts PROVE SettingsInv'
    OBVIOUS
  <1>1. SettingsTypeOK'
    BY LoadType DEF GuiStarts, SettingsInv, SettingsTypeOK, collector
  <1>2. SectionsInv' /\ DueInv'
    BY DEF GuiStarts, SettingsInv, SectionsInv, DueInv, Writing, Readable, load_runtime_config, collector
  <1> QED
    BY <1>1, <1>2 DEF SettingsInv

-----------------------------------------------------------------------------
(* The collector.                                                          *)

LEMMA CycleStep == SettingsInv /\ Cycle => SettingsInv'
  <1> SUFFICES ASSUME SettingsInv, Cycle PROVE SettingsInv'
    OBVIOUS
  <1>1. SettingsTypeOK'
    <2>1. CASE Due /\ Readable
      BY <2>1, LoadType, FileTypes DEF Cycle, SettingsInv, SettingsTypeOK, dashboard
    <2>2. CASE ~(Due /\ Readable)
      BY <2>2 DEF Cycle, SettingsInv, SettingsTypeOK, dashboard
    <2> QED
      BY <2>1, <2>2
  <1>2. SectionsInv'
    BY DEF Cycle, SettingsInv, SectionsInv, Writing, dashboard
  <1>3. DueInv'
    <2>1. file' = file /\ settled' = settled
      BY DEF Cycle
    <2>2. CASE Due /\ Readable
      BY <2>1, <2>2 DEF Cycle, DueInv, Readable, load_runtime_config
    <2>3. CASE ~Readable
      BY <2>1, <2>3 DEF DueInv, Readable
    <2>4. CASE Readable /\ ~Due
      BY <2>1, <2>4, FileTypes
      DEF Cycle, Due, SettingsInv, SettingsTypeOK, DueInv, Readable, load_runtime_config
    <2> QED
      BY <2>2, <2>3, <2>4
  <1> QED
    BY <1>1, <1>2, <1>3 DEF SettingsInv

LEMMA RestartStep == SettingsInv /\ CollectorRestarts => SettingsInv'
  <1> SUFFICES ASSUME SettingsInv, CollectorRestarts PROVE SettingsInv'
    OBVIOUS
  <1>1. SettingsTypeOK'
    <2>1. limits' \in {{}} \cup {{p} : p \in Profiles}
      BY LoadType DEF CollectorRestarts, SettingsInv
    <2>2. due' \in 0..(Reload + 1) /\ kills' \in 0..MaxCrashes
      BY FileTypes DEF CollectorRestarts, SettingsInv, SettingsTypeOK
    <2> QED
      BY <2>1, <2>2 DEF CollectorRestarts, SettingsInv, SettingsTypeOK, dashboard
  <1>2. SectionsInv'
    BY DEF CollectorRestarts, SettingsInv, SectionsInv, Writing, dashboard
  <1>3. DueInv'
    BY DEF CollectorRestarts, DueInv, Readable, load_runtime_config
  <1> QED
    BY <1>1, <1>2, <1>3 DEF SettingsInv

LEMMA ClockStep == SettingsInv /\ SettingsTick => SettingsInv'
  <1> SUFFICES ASSUME SettingsInv, SettingsTick PROVE SettingsInv'
    OBVIOUS
  <1>1. SettingsTypeOK'
    <2>1. \A n \in 0..(Reload + 1) : UpTo(n + 1, Reload + 1) \in 0..(Reload + 1)
      BY FileTypes DEF UpTo
    <2>2. due' \in 0..(Reload + 1) /\ settled' \in 0..(Reload + 1)
      BY <2>1 DEF SettingsTick, SettingsInv, SettingsTypeOK
    <2> QED
      BY <2>2 DEF SettingsTick, SettingsInv, SettingsTypeOK, dashboard
  <1>2. SectionsInv'
    BY DEF SettingsTick, SettingsInv, SectionsInv, Writing, dashboard
  <1>3. DueInv'
    <2> SUFFICES ASSUME Readable, limits # {load_runtime_config}
                 PROVE  settled' <= due' /\ settled' <= Reload /\ ~cycled'
      BY DEF SettingsTick, DueInv, Readable, load_runtime_config
    <2>1. settled <= due /\ settled <= Reload /\ (due < Reload \/ settled = 0)
      BY DEF SettingsTick, SettingsInv, DueInv
    <2>2. due \in Nat /\ settled \in Nat
      BY FileTypes DEF SettingsInv, SettingsTypeOK
    <2> QED
      BY <2>1, <2>2, FileTypes DEF SettingsTick, UpTo
  <1> QED
    BY <1>1, <1>2, <1>3 DEF SettingsInv

LEMMA SettingsStep == SettingsInv /\ [SettingsNext]_settingsVars => SettingsInv'
  <1> SUFFICES ASSUME SettingsInv, [SettingsNext]_settingsVars PROVE SettingsInv'
    OBVIOUS
  <1>1. ASSUME NEW s \in Sessions, OpenSession(s) PROVE SettingsInv'
    <2>1. startup \in Profiles
      BY DEF SettingsInv, SettingsTypeOK
    <2> QED
      BY <1>1, <2>1, FormStep DEF OpenSession
  <1>2. ASSUME NEW s \in Sessions, NEW p \in Profiles, EditForm(s, p) PROVE SettingsInv'
    BY <1>2, FormStep DEF EditForm
  <1>3. ASSUME NEW s \in Sessions, ReadText(s) \/ OpenText(s) \/ WriteText(s) PROVE SettingsInv'
    BY <1>3, ReadStep, OpenStep, WriteStep
  <1>4. CASE GuiKilled \/ GuiStarts
    BY <1>4, KilledStep, StartsStep
  <1>5. CASE Cycle \/ CollectorRestarts \/ SettingsTick
    BY <1>5, CycleStep, RestartStep, ClockStep
  <1>6. CASE UNCHANGED settingsVars
    <2>1. SettingsTypeOK'
      BY <1>6 DEF settingsVars, SettingsInv, SettingsTypeOK
    <2>2. SectionsInv' /\ DueInv'
      BY <1>6 DEF settingsVars, SettingsInv, SectionsInv, DueInv, Writing, Readable, load_runtime_config
    <2> QED
      BY <2>1, <2>2 DEF SettingsInv
  <1> QED
    BY <1>1, <1>2, <1>3, <1>4, <1>5, <1>6 DEF SettingsNext

LEMMA SettingsHold == SettingsSpec => []SettingsInv
  BY SettingsStart, SettingsStep, PTL DEF SettingsSpec

-----------------------------------------------------------------------------
(* The three judges.                                                       *)

LEMMA Judges ==
  ASSUME NEW r \in Readings, NEW f \in Forecasts, NEW p \in Profiles
  PROVE  /\ \A m \in _check_thresholds(r, p) :
              \E a \in build_recommendations(r, f, p) : a.of = m /\ a.severity # "info"
         /\ \A a \in build_recommendations(r, f, p) :
              a.of # "forecast" => on_live_tick(r, p)[a.of] \in {"warn", "alert"}
  <1>1. /\ r \in [Metrics -> Int] /\ p \in Thresholds
    BY SettingsConstants DEF SettingsConstants
  <1>2. /\ r.temp_c \in Int /\ r.humidity_pct \in Int /\ r.mq2_raw \in Int
        /\ r.current_ma \in Int /\ r.lux \in Int
    BY <1>1 DEF Metrics
  <1>3. /\ p.temp_c_max \in Int /\ p.temp_c_min \in Int /\ p.humidity_pct_max \in Int
        /\ p.mq2_raw_warn \in Int /\ p.mq2_raw_alert \in Int /\ p.current_ma_max \in Int
        /\ p.lux_min \in Int
    BY <1>1 DEF Thresholds
  <1>4. ASSUME NEW m \in _check_thresholds(r, p)
        PROVE  \E a \in build_recommendations(r, f, p) : a.of = m /\ a.severity # "info"
    <2>1. CASE m = "temp_c"
      <3>1. Known(r.temp_c) /\ (r.temp_c > p.temp_c_max \/ r.temp_c < p.temp_c_min)
        BY <1>4, <2>1 DEF _check_thresholds
      <3>2. \/ [of |-> m, severity |-> "alert"] \in build_recommendations(r, f, p)
            \/ [of |-> m, severity |-> "warn"] \in build_recommendations(r, f, p)
        BY <2>1, <3>1 DEF build_recommendations, Advice
      <3> QED
        BY <3>2
    <2>2. CASE m = "mq2_raw"
      <3>1. Known(r.mq2_raw) /\ r.mq2_raw > p.mq2_raw_alert
        BY <1>4, <2>2 DEF _check_thresholds
      <3>2. [of |-> m, severity |-> "alert"] \in build_recommendations(r, f, p)
        BY <2>2, <3>1 DEF build_recommendations, Advice
      <3> QED
        BY <3>2
    <2>3. CASE m = "current_ma"
      <3>1. Known(r.current_ma) /\ r.current_ma > p.current_ma_max
        BY <1>4, <2>3 DEF _check_thresholds
      <3>2. [of |-> m, severity |-> "alert"] \in build_recommendations(r, f, p)
        BY <2>3, <3>1 DEF build_recommendations, Advice
      <3> QED
        BY <3>2
    <2>4. m \in {"temp_c", "mq2_raw", "current_ma"}
      BY <1>4 DEF _check_thresholds, Metrics
    <2> QED
      BY <2>1, <2>2, <2>3, <2>4
  <1>5. ASSUME NEW a \in build_recommendations(r, f, p), a.of # "forecast"
        PROVE  on_live_tick(r, p)[a.of] \in {"warn", "alert"}
    <2>1. \/ /\ a.of = "temp_c" /\ Known(r.temp_c)
             /\ r.temp_c > p.temp_c_max \/ r.temp_c < p.temp_c_min
          \/ a.of = "humidity_pct" /\ Known(r.humidity_pct) /\ r.humidity_pct > p.humidity_pct_max
          \/ /\ a.of = "mq2_raw" /\ Known(r.mq2_raw)
             /\ r.mq2_raw > p.mq2_raw_alert \/ r.mq2_raw > p.mq2_raw_warn
          \/ a.of = "current_ma" /\ Known(r.current_ma) /\ r.current_ma > p.current_ma_max
          \/ a.of = "lux" /\ Known(r.lux) /\ r.lux < p.lux_min
      BY <1>5 DEF build_recommendations, Advice
    <2>2. CASE a.of = "temp_c"
      BY <1>2, <1>3, <2>1, <2>2 DEF on_live_tick, _temp_severity, Level, Known
    <2>3. CASE a.of = "humidity_pct"
      BY <1>2, <1>3, <2>1, <2>3 DEF on_live_tick, _humidity_severity, Level, Known
    <2>4. CASE a.of = "mq2_raw"
      BY <1>2, <1>3, <2>1, <2>4 DEF on_live_tick, _mq2_severity, Level, Known
    <2>5. CASE a.of = "current_ma"
      BY <1>2, <1>3, <2>1, <2>5 DEF on_live_tick, _current_severity, Level, Known
    <2>6. CASE a.of = "lux"
      BY <1>2, <1>3, <2>1, <2>6 DEF on_live_tick, _lux_severity, Level, Known
    <2> QED
      BY <2>1, <2>2, <2>3, <2>4, <2>5, <2>6
  <1> QED
    BY <1>4, <1>5

-----------------------------------------------------------------------------
(* Theorems.                                                               *)

\* However many sessions save, and wherever the GUI or the collector is killed,
\* the collector goes by the file within one interval of its last change
\* (collector.py 655-660, web.py 659-679).
THEOREM ChangesApply == SettingsSpec => []AppliesInTime
  <1>1. SettingsInv => AppliesInTime
    BY FileTypes DEF SettingsInv, SettingsTypeOK, DueInv, AppliesInTime
  <1> QED
    BY <1>1, SettingsHold, PTL

\* Only saves that overlap, or a kill between truncating and writing, cost the
\* sections fan_auto and ai, or leave a file that cannot be read (web.py 659-679).
THEOREM SectionsAreKept == SettingsSpec => []SectionsKept
  <1>1. SettingsInv => SectionsKept
    <2> SUFFICES ASSUME SettingsInv, ~damaged
                 PROVE  \/ file.text = "whole" /\ file.rest
                        \/ file.text = "empty" /\ \E s \in Sessions : Writing(s)
      BY DEF SectionsKept
    <2> QED
      BY DEF SettingsInv, SectionsInv, Empty
  <1> QED
    BY <1>1, SettingsHold, PTL

\* For all thresholds, in whatever order, and all readings: no event without
\* advice, and no advice on a present value beside a green dot (collector.py
\* 289-308, data_access.py 168-288, web.py 147-192).
THEOREM JudgesAgree == SettingsSpec => []VerdictsAgree
  <1>1. SettingsInv => VerdictsAgree
    BY Judges DEF SettingsInv, SettingsTypeOK, VerdictsAgree
  <1> QED
    BY <1>1, SettingsHold, PTL

-----------------------------------------------------------------------------
(* The charts of a session: its selection and its redraws.                 *)

\* The label and the mode were chosen by the same callback.
LabelInv ==
  IF chart_use_custom_range
    THEN chart_range_label \in [from : Int, to : Int]
         /\ NoDate \notin {chart_range_label.from, chart_range_label.to}
    ELSE chart_range_label = Last(chart_range_minutes)

\* A query that nothing has overtaken was made for the present variables.
DrawInv ==
  /\ click.pc = "draw" => click.range = _build_charts_from_state
  /\ refresh.pc = "draw" /\ ~refresh.old => refresh.range = _build_charts_from_state
  /\ ~stale /\ ~late => figures = _build_charts_from_state

\* Between the assignments of _set_quick_range the label is of the former mode.
ModeInv == click.pc = "set" => chart_use_custom_range = FALSE

ChartsInv == ChartsTypeOK /\ ModeInv /\ (click.pc # "set" => LabelInv /\ DrawInv)

LEMMA BuildType == ChartsTypeOK => _build_charts_from_state \in Ranges
  <1> SUFFICES ASSUME ChartsTypeOK PROVE _build_charts_from_state \in Ranges
    OBVIOUS
  <1>1. CASE ~chart_use_custom_range
    BY <1>1 DEF ChartsTypeOK, _build_charts_from_state, Ranges
  <1>2. CASE NoDate \in {chart_date_from, chart_date_to}
    BY <1>2, ChartConstants DEF ChartsTypeOK, _build_charts_from_state, Ranges, ChartConstants
  <1>3. CASE chart_use_custom_range /\ NoDate \notin {chart_date_from, chart_date_to}
    <2>1. chart_date_from \in Int /\ chart_date_to \in Int
      BY <1>3 DEF ChartsTypeOK
    <2>2. CustomRange(chart_date_from, chart_date_to) \in [from : Int, to : Int]
      BY <2>1, StoreConstants DEF CustomRange, StoreConstants
    <2> QED
      BY <1>3, <2>2 DEF _build_charts_from_state, Between, Ranges
  <1> QED
    BY <1>1, <1>2, <1>3 DEF ChartsTypeOK

LEMMA OutdatedType == ChartsTypeOK /\ Outdated => refresh' \in Redraws /\ stale' \in BOOLEAN
  <1> SUFFICES ASSUME ChartsTypeOK, Outdated PROVE refresh' \in Redraws /\ stale' \in BOOLEAN
    OBVIOUS
  <1>1. (refresh.pc = "draw") \in BOOLEAN
    OBVIOUS
  <1> QED
    BY <1>1 DEF Outdated, ChartsTypeOK, Redraws

LEMMA WaitingType ==
  /\ Waiting \in Redraws
  /\ \A r \in Ranges : [Waiting EXCEPT !.pc = "draw", !.range = r] \in Redraws
  <1>1. Hour \in QuickRanges /\ Last(Hour) \in Ranges
    BY ChartConstants DEF ChartConstants, Ranges
  <1> QED
    BY <1>1 DEF Waiting, Redraws

LEMMA ChartsStart == ChartsInit => ChartsInv
  <1> SUFFICES ASSUME ChartsInit PROVE ChartsInv
    OBVIOUS
  <1>1. Last(Hour) \in Ranges /\ Hour \in QuickRanges /\ Hour \in Int
    BY ChartConstants DEF ChartConstants, Ranges
  <1>2. chart_date_from \in Int /\ chart_date_to \in Int
    BY <1>1, ChartConstants DEF ChartsInit, ChartConstants
  <1>3. ChartsTypeOK
    BY <1>1, <1>2 DEF ChartsInit, ChartsTypeOK, Redraws, Waiting
  <1> QED
    BY <1>3 DEF ChartsInv, ModeInv, ChartsInit, LabelInv, DrawInv, Waiting, _build_charts_from_state

LEMMA ChartsStep == ChartsInv /\ [ChartsNext]_chartVars => ChartsInv'
  <1> SUFFICES ASSUME ChartsInv, [ChartsNext]_chartVars PROVE ChartsInv'
    OBVIOUS
  <1> USE DEF ChartsInv, ModeInv
  <1>b. _build_charts_from_state \in Ranges
    BY BuildType
  <1>1. ASSUME NEW f \in Dates \cup {NoDate}, NEW t \in Dates \cup {NoDate}, PickDates(f, t)
        PROVE ChartsInv'
    <2>t. refresh' \in Redraws /\ stale' \in BOOLEAN
      BY <1>1, OutdatedType DEF PickDates, ChartsTypeOK
    <2>1. ChartsTypeOK'
      BY <1>1, <2>t, ChartConstants DEF PickDates, ChartsTypeOK, mode, ChartConstants
    <2>2. LabelInv'
      BY <1>1 DEF PickDates, mode, LabelInv
    <2>3. DrawInv'
      BY <1>1 DEF PickDates, Outdated, mode, DrawInv, ChartsTypeOK, Redraws, _build_charts_from_state
    <2>4. click'.pc = "idle"
      BY <1>1 DEF PickDates
    <2> QED
      BY <2>1, <2>2, <2>3, <2>4
  <1>2. ASSUME NEW m \in QuickRanges, _set_quick_range(m) PROVE ChartsInv'
    <2>1. ChartsTypeOK'
      BY <1>2 DEF _set_quick_range, pickers, ChartsTypeOK, Redraws
    <2>2. click'.pc = "set" /\ chart_use_custom_range' = FALSE
      BY <1>2 DEF _set_quick_range, ChartsTypeOK, Redraws
    <2> QED
      BY <2>1, <2>2
  <1>3. ASSUME NEW now \in Dates, SetMinutes(now) PROVE ChartsInv'
    <2>q. click.minutes \in QuickRanges
      BY DEF ChartsTypeOK, Redraws
    <2>r. QuickRanges \subseteq Int /\ Dates \subseteq Int
      BY ChartConstants DEF ChartConstants
    <2>1. click.minutes \in QuickRanges /\ click.minutes \in Int /\ now \in Int
      BY <2>q, <2>r
    <2>2. ChartsTypeOK'
      <3>1. Last(click.minutes) \in Ranges
        BY <2>1 DEF Ranges
      <3>2. click' \in Redraws
        BY <1>3 DEF SetMinutes, ChartsTypeOK, Redraws
      <3> QED
        BY <1>3, <2>1, <3>1, <3>2, OutdatedType DEF SetMinutes, ChartsTypeOK
    <2>3. LabelInv'
      <3>1. chart_use_custom_range = FALSE
        BY <1>3 DEF SetMinutes
      <3> QED
        BY <1>3, <3>1 DEF SetMinutes, LabelInv
    <2>4. DrawInv'
      BY <1>3 DEF SetMinutes, Outdated, ChartsTypeOK, Redraws, DrawInv
    <2>5. click'.pc = "build"
      BY <1>3 DEF SetMinutes, ChartsTypeOK, Redraws
    <2> QED
      BY <2>2, <2>3, <2>4, <2>5
  <1>4. CASE on_apply_date_range
    <2>1. chart_date_from \in Int /\ chart_date_to \in Int
      BY <1>4 DEF on_apply_date_range, ChartsTypeOK
    <2>2. /\ chart_range_label' \in [from : Int, to : Int]
          /\ chart_range_label'.from = chart_date_from /\ chart_range_label'.to = chart_date_to
      BY <1>4, <2>1 DEF on_apply_date_range, Between
    <2>3. ChartsTypeOK'
      BY <1>4, <2>2 DEF on_apply_date_range, Outdated, pickers, ChartsTypeOK, Redraws, Ranges
    <2>4. LabelInv'
      BY <1>4, <2>2 DEF on_apply_date_range, LabelInv
    <2>5. DrawInv' /\ click'.pc = "build"
      BY <1>4 DEF on_apply_date_range, Outdated, ChartsTypeOK, Redraws, DrawInv
    <2> QED
      BY <2>3, <2>4, <2>5
  <1>5. CASE on_refresh_chart
    <2>1. ChartsTypeOK'
      BY <1>5 DEF on_refresh_chart, mode, pickers, ChartsTypeOK, Redraws
    <2> QED
      BY <1>5, <2>1 DEF on_refresh_chart, mode, pickers, ChartsTypeOK, Redraws, LabelInv, DrawInv,
         _build_charts_from_state
  <1>6. CASE QueryStore
    <2>1. CASE click' = Waiting
      <3>1. ChartsTypeOK'
        BY <1>6, <2>1, WaitingType DEF QueryStore, mode, pickers, ChartsTypeOK
      <3>2. click'.pc = "idle"
        BY <2>1 DEF Waiting
      <3> QED
        BY <1>6, <3>1, <3>2 DEF QueryStore, mode, pickers, LabelInv, DrawInv, _build_charts_from_state
    <2>2. CASE click' = [click EXCEPT !.pc = "draw", !.range = _build_charts_from_state]
      <3>1. click' \in Redraws
        BY <1>b, <2>2 DEF ChartsTypeOK, Redraws
      <3>2. ChartsTypeOK'
        BY <1>6, <3>1 DEF QueryStore, mode, pickers, ChartsTypeOK
      <3>3. click'.pc = "draw" /\ click'.range = _build_charts_from_state
        BY <2>2 DEF ChartsTypeOK, Redraws
      <3> QED
        BY <1>6, <3>2, <3>3 DEF QueryStore, mode, pickers, LabelInv, DrawInv, _build_charts_from_state
    <2> QED
      BY <1>6, <2>1, <2>2 DEF QueryStore
  <1>k. ASSUME UNCHANGED <<mode, pickers>>
        PROVE  /\ _build_charts_from_state' = _build_charts_from_state
               /\ LabelInv' <=> LabelInv
    BY <1>k DEF mode, pickers, _build_charts_from_state, LabelInv
  <1>7. CASE _refresh_all_charts
    <2>0. /\ UNCHANGED <<mode, pickers, refresh>> /\ click' = Waiting /\ click.pc = "draw"
          /\ figures' = click.range /\ stale' = FALSE /\ late' = FALSE
      BY <1>7 DEF _refresh_all_charts
    <2>1. click.range \in Ranges /\ click' \in Redraws
      BY <2>0, WaitingType DEF ChartsTypeOK, Redraws
    <2>2. ChartsTypeOK'
      BY <2>0, <2>1 DEF mode, pickers, ChartsTypeOK
    <2>3. click'.pc = "idle"
      BY <2>0 DEF Waiting
    <2>4. LabelInv'
      BY <1>k, <2>0
    <2>5. DrawInv'
      BY <1>k, <2>0, <2>3 DEF DrawInv
    <2> QED
      BY <2>2, <2>3, <2>4, <2>5
  <1>8. CASE _slow_refresh_loop
    <2>0. /\ UNCHANGED <<mode, pickers, figures, click, stale, late>>
          /\ refresh' = [Waiting EXCEPT !.pc = "draw", !.range = _build_charts_from_state]
      BY <1>8 DEF _slow_refresh_loop
    <2>1. refresh' \in Redraws /\ refresh'.range = _build_charts_from_state
      BY <1>b, <2>0, WaitingType DEF Waiting
    <2>2. ChartsTypeOK'
      BY <2>0, <2>1 DEF mode, pickers, ChartsTypeOK
    <2>3. ASSUME click.pc # "set" PROVE LabelInv'
      BY <1>k, <2>0, <2>3
    <2>4. ASSUME click.pc # "set" PROVE DrawInv'
      BY <1>k, <2>0, <2>1, <2>4 DEF DrawInv
    <2>5. ModeInv'
      BY <2>0 DEF mode
    <2> QED
      BY <2>0, <2>2, <2>3, <2>4, <2>5
  <1>9. CASE _broadcast_slow
    <2>0. /\ UNCHANGED <<mode, pickers, click>> /\ refresh.pc = "draw" /\ refresh' = Waiting
          /\ figures' = refresh.range /\ stale' = (stale /\ refresh.old) /\ late' = refresh.old
      BY <1>9 DEF _broadcast_slow
    <2>1. refresh.range \in Ranges /\ refresh.old \in BOOLEAN /\ refresh' \in Redraws
      BY <2>0, WaitingType DEF ChartsTypeOK, Redraws
    <2>2. ChartsTypeOK'
      BY <2>0, <2>1 DEF mode, pickers, ChartsTypeOK
    <2>3. refresh'.pc = "idle"
      BY <2>0 DEF Waiting
    <2>4. ASSUME click.pc # "set" PROVE LabelInv'
      BY <1>k, <2>0, <2>4
    <2>5. ASSUME click.pc # "set" PROVE DrawInv'
      BY <1>k, <2>0, <2>3, <2>5 DEF DrawInv
    <2>6. ModeInv'
      BY <2>0 DEF mode
    <2> QED
      BY <2>0, <2>2, <2>4, <2>5, <2>6
  <1>10. CASE UNCHANGED chartVars
    BY <1>10 DEF chartVars, mode, pickers, ChartsTypeOK, LabelInv, DrawInv, _build_charts_from_state
  <1> QED
    BY <1>1, <1>2, <1>3, <1>4, <1>5, <1>6, <1>7, <1>8, <1>9, <1>10 DEF ChartsNext

LEMMA LabelHolds == ChartsInv => LabelNamesRange
  <1> SUFFICES ASSUME ChartsInv, ~stale, ~late, click.pc # "set", ~(chart_use_custom_range /\ Edited)
               PROVE figures = Named
    BY DEF LabelNamesRange
  <1>1. LabelInv /\ figures = _build_charts_from_state
    BY DEF ChartsInv, DrawInv
  <1>2. CASE chart_use_custom_range
    <2>1. chart_date_from = chart_range_label.from /\ chart_date_to = chart_range_label.to
      BY <1>2 DEF Edited, pickers
    <2>2. "minutes" \notin DOMAIN chart_range_label
      BY <1>1, <1>2 DEF LabelInv
    <2> QED
      BY <1>1, <1>2, <2>1, <2>2 DEF LabelInv, _build_charts_from_state, Named
  <1>3. CASE ~chart_use_custom_range
    BY <1>1, <1>3 DEF LabelInv, _build_charts_from_state, Named, Last
  <1> QED
    BY <1>2, <1>3 DEF ChartsInv, ChartsTypeOK

\* Whatever the dates and the ranges: once a selection has been drawn, the
\* figures of a session show the range its page names, unless the pickers were
\* changed in custom mode, or a redraw that had read the former selection was
\* the last to draw (web.py 247-265, 501-565, 844-857).
THEOREM ChartsKeepSelection == ChartsSpec => []LabelNamesRange
  <1>1. ChartsSpec => []ChartsInv
    BY ChartsStart, ChartsStep, PTL DEF ChartsSpec
  <1> QED
    BY <1>1, LabelHolds, PTL

-----------------------------------------------------------------------------
(* The two stores: what is known of them in every state.                   *)

Commands   == [id : 1..MaxCommands, status : {"pending", "applied"}]
Pending(c) == [id |-> c, status |-> "pending"]

Typed(s) ==
  /\ DOMAIN s = AllTables
  /\ s["readings"] \in Seq(0..MaxTime) /\ s["commands"] \in Seq(Commands)
  /\ s["proofs"] \in Seq(1..MaxProofs)

MigrationTypes ==
  /\ mig \in 0..3 /\ runs \in Nat /\ result \in {"none", "running", "ok", "failed"}
  /\ (mig = 1 => left \in Seq(0..MaxTime)) /\ (mig = 2 => left \in Seq(Commands))
  /\ mig \in {0, 3} => left = <<>>
  /\ (result = "running") = (mig > 0)
  /\ mig > 0 \/ result = "ok" => runs > 0
  /\ backend = "postgres" => runs > 0

StoreTypes ==
  /\ Typed(lite) /\ Typed(pg) /\ Typed(base) /\ MigrationTypes
  /\ backend \in {"sqlite", "postgres"} /\ stack \in {"up", "down"} /\ time \in 0..MaxTime
  /\ dirty \in BOOLEAN /\ acted \in [1..MaxCommands -> Nat]

\* No row of SQLite twice, no proof of PostgreSQL twice; a command's id is its place.
KeysInv ==
  /\ Distinct(lite["readings"]) /\ Distinct(lite["proofs"]) /\ Distinct(pg["proofs"])
  /\ \A i \in DOMAIN lite["commands"] : lite["commands"][i].id = i

\* What has left SQLite since the migration was started does not come back.
BaseInv ==
  /\ \A i \in DOMAIN base["readings"] :
       base["readings"][i] < time \/ base["readings"][i] \in RowsOf(lite, "readings")
  /\ \A i \in DOMAIN base["commands"] :
       /\ i \in DOMAIN lite["commands"] /\ base["commands"][i].id = i
       /\ base["commands"][i].status = "applied" => lite["commands"][i].status = "applied"
  /\ RowsOf(base, "proofs") \in SUBSET RowsOf(lite, "proofs")

\* Each run copies a row at most once, and the run that is under way or ended
\* well has it in PostgreSQL or still in its cursor.
Number(t)      == IF t = "readings" THEN 1 ELSE 2
AnyRow(t)      == IF t = "readings" THEN 0..MaxTime ELSE Commands
ToCome(t, row) == IF mig = Number(t) THEN Occ(left, row) ELSE 0
RunsFor(t)     == IF 0 < mig /\ mig < Number(t) THEN runs - 1 ELSE runs

CopyInv ==
  /\ mig > 0 => Distinct(left)
  /\ \A t \in {"readings", "commands"} :
       /\ \A row \in AnyRow(t) : Occ(pg[t], row) + ToCome(t, row) <= RunsFor(t)
       /\ mig >= Number(t) \/ result = "ok" =>
            \A row \in RowsOf(base, t) \cap RowsOf(lite, t) : Occ(pg[t], row) + ToCome(t, row) >= 1
  /\ result = "ok" => RowsOf(base, "proofs") \in SUBSET RowsOf(pg, "proofs")

\* Before the switch: a command was executed when its row says so, and unless the
\* stack changed SQLite after a copy, the copy says so too.
Executed(c) == c \in DOMAIN lite["commands"] /\ lite["commands"][c].status = "applied"
Copied      == RowsOf(pg, "commands") \cup (IF mig = 2 THEN {left[i] : i \in DOMAIN left} ELSE {})

SqliteInv ==
  /\ CopyInv
  /\ \A c \in 1..MaxCommands : acted[c] = IF Executed(c) THEN 1 ELSE 0
  /\ \A r \in Copied : r.id \in DOMAIN lite["commands"]
  /\ ~dirty => \A c \in 1..MaxCommands : acted[c] > 0 => Pending(c) \notin Copied

\* After it: each copy that is pending, or to come, may cost one more execution.
IdsOf(rows) == {rows[i].id : i \in DOMAIN rows}
Ids == IdsOf(lite["commands"]) \cup IdsOf(pg["commands"])

ToExecute(c) == Occ(pg["commands"], Pending(c)) + ToCome("commands", Pending(c))

PgInv ==
  /\ RunsFor("commands") >= 1 /\ Ids = 1..Cardinality(Ids)
  /\ \A c \in 1..MaxCommands :
       /\ acted[c] > 0 => c \in Ids
       /\ acted[c] + ToExecute(c) <= RunsFor("commands") + (IF dirty THEN 1 ELSE 0)
  /\ mig = 2 => IdsOf(left) \in SUBSET Ids

StoreInv ==
  /\ StoreTypes /\ KeysInv /\ BaseInv
  /\ backend = "sqlite" => SqliteInv
  /\ backend = "postgres" => PgInv

LEMMA StoreStart == StoreInit => StoreInv
  <1> SUFFICES ASSUME StoreInit PROVE StoreInv
    OBVIOUS
  <1>1. \A t \in AllTables : NoRows[t] = <<>> /\ DOMAIN NoRows = AllTables
    BY DEF NoRows
  <1>2. NoRows["readings"] = <<>> /\ NoRows["commands"] = <<>> /\ NoRows["proofs"] = <<>>
    BY <1>1 DEF AllTables
  <1>3. \A S : <<>> \in Seq(S)
    BY EmptySeq
  <1>4. DOMAIN <<>> = {}
    OBVIOUS
  <1>5. StoreTypes
    <2>1. Typed(NoRows)
      BY <1>1, <1>2, <1>3 DEF Typed, AllTables
    <2>2. acted \in [1..MaxCommands -> Nat]
      BY DEF StoreInit
    <2>3. 0 \in 0..MaxTime
      BY StoreConstants DEF StoreConstants
    <2>4. MigrationTypes
      BY DEF StoreInit, MigrationTypes
    <2> QED
      BY <2>1, <2>2, <2>3, <2>4 DEF StoreInit, StoreTypes
  <1>6. KeysInv /\ BaseInv
    BY <1>2, <1>4 DEF StoreInit, KeysInv, BaseInv, Distinct, RowsOf
  <1>7. SqliteInv
    <2>1. \A row : Occ(<<>>, row) = 0
      <3>1. \A row : Places(<<>>, row) = {}
        BY <1>4 DEF Places
      <3> QED
        BY <3>1, FS_EmptySet DEF Occ
    <2>2. CopyInv
      BY <1>2, <2>1 DEF StoreInit, CopyInv, ToCome, RunsFor, Number
    <2>3. Copied = {}
      BY <1>2, <1>4 DEF StoreInit, Copied, RowsOf
    <2>4. \A c \in 1..MaxCommands : acted[c] = IF Executed(c) THEN 1 ELSE 0
      BY <1>2, <1>4 DEF StoreInit, Executed
    <2> QED
      BY <2>2, <2>3, <2>4 DEF SqliteInv
  <1> QED
    BY <1>5, <1>6, <1>7 DEF StoreInv, StoreInit

\* An operation of the stack changes one table of the store in use.
LEMMA PutSqlite ==
  ASSUME StoreTypes, NEW table \in AllTables, NEW rows, Put(table, rows), backend = "sqlite"
  PROVE  /\ pg' = pg /\ DOMAIN lite' = AllTables /\ lite'[table] = rows
         /\ \A t \in AllTables : t # table => lite'[t] = lite[t]
         /\ dirty' = (dirty \/ runs > 0)
  BY DEF StoreTypes, Typed, Put

LEMMA PutPostgres ==
  ASSUME StoreTypes, NEW table \in AllTables, NEW rows, Put(table, rows), backend = "postgres"
  PROVE  /\ lite' = lite /\ DOMAIN pg' = AllTables /\ pg'[table] = rows
         /\ \A t \in AllTables : t # table => pg'[t] = pg[t]
         /\ dirty' = dirty
  BY DEF StoreTypes, Typed, Put

\* What a stack on SQLite does leaves the copies alone.
LEMMA CopyStays ==
  ASSUME CopyInv, UNCHANGED <<pg, mig, left, runs, result, base>>,
         \A t \in {"readings", "commands"} : RowsOf(base, t) \cap RowsOf(lite', t) \in SUBSET RowsOf(lite, t)
  PROVE  CopyInv'
  <1>1. /\ \A t \in {"readings", "commands"} : RunsFor(t)' = RunsFor(t)
        /\ \A t \in {"readings", "commands"} : \A row : ToCome(t, row)' = ToCome(t, row)
    BY DEF ToCome, RunsFor
  <1>2. \A t \in AllTables : RowsOf(base, t)' = RowsOf(base, t) /\ RowsOf(pg, t)' = RowsOf(pg, t)
    BY DEF RowsOf
  <1>3. \A t \in {"readings", "commands"} : RowsOf(lite, t)' = RowsOf(lite', t)
    BY DEF RowsOf
  <1>4. \A t \in {"readings", "commands"} : t \in AllTables
    BY DEF AllTables
  <1>5. ASSUME NEW t \in {"readings", "commands"}
        PROVE  /\ \A row \in AnyRow(t) : Occ(pg'[t], row) + ToCome(t, row)' <= RunsFor(t)'
               /\ mig' >= Number(t) \/ result' = "ok" =>
                    \A row \in RowsOf(base, t)' \cap RowsOf(lite, t)' : Occ(pg'[t], row) + ToCome(t, row)' >= 1
    BY <1>1, <1>2, <1>3, <1>4, <1>5 DEF CopyInv
  <1>6. mig' > 0 => Distinct(left')
    BY DEF CopyInv
  <1>7. result' = "ok" => RowsOf(base, "proofs")' \in SUBSET RowsOf(pg, "proofs")'
    BY <1>2 DEF CopyInv, AllTables
  <1> QED
    BY <1>5, <1>6, <1>7 DEF CopyInv, AnyRow, Number

\* ... and, unless it executes a command, what is known of the executed ones.
LEMMA SqliteStays ==
  ASSUME StoreTypes, SqliteInv, UNCHANGED <<pg, mig, left, runs, result, base, acted>>,
         \A t \in {"readings", "commands"} : RowsOf(base, t) \cap RowsOf(lite', t) \in SUBSET RowsOf(lite, t),
         lite'["commands"] = lite["commands"], ~dirty' => ~dirty
  PROVE  SqliteInv'
  <1>1. CopyInv'
    BY CopyStays DEF SqliteInv
  <1>2. Copied' = Copied
    BY DEF Copied, RowsOf
  <1>3. \A c \in 1..MaxCommands : Executed(c)' = Executed(c)
    BY DEF Executed
  <1> QED
    BY <1>1, <1>2, <1>3 DEF SqliteInv

LEMMA PgStays ==
  ASSUME StoreTypes, PgInv, UNCHANGED <<lite, acted, mig, left, runs, dirty>>,
         pg'["commands"] = pg["commands"]
  PROVE  PgInv'
  <1>1. Ids' = Ids /\ IdsOf(left)' = IdsOf(left)
    BY DEF Ids, IdsOf
  <1>2. RunsFor("commands")' = RunsFor("commands")
    BY DEF RunsFor, Number
  <1>3. \A c \in 1..MaxCommands : ToExecute(c)' = ToExecute(c)
    BY DEF ToExecute, ToCome, Number
  <1> QED
    BY <1>1, <1>2, <1>3 DEF PgInv

LEMMA Counts ==
  ASSUME StoreTypes, NEW row
  PROVE  /\ Occ(pg["commands"], row) \in Nat /\ ToCome("commands", row) \in Nat
         /\ RunsFor("commands") \in Int /\ RunsFor("commands") <= runs
  <1>1. /\ pg["commands"] \in Seq(Commands) /\ runs \in Nat
        /\ mig = 2 => left \in Seq(Commands)
    BY DEF StoreTypes, Typed, MigrationTypes
  <1>2. Occ(pg["commands"], row) \in Nat
    BY <1>1, PlacesFinite
  <1>3. mig = 2 => Occ(left, row) \in Nat
    BY <1>1, PlacesFinite
  <1> QED
    BY <1>1, <1>2, <1>3 DEF ToCome, RunsFor, Number

-----------------------------------------------------------------------------
(* The stack on one of the stores.                                         *)

LEMMA StackTypes ==
  ASSUME StoreTypes, Typed(lite)', Typed(pg)', dirty' \in BOOLEAN,
         UNCHANGED <<backend, stack, time, migration>>, acted' \in [1..MaxCommands -> Nat]
  PROVE  StoreTypes'
  <1>1. Typed(base)'
    BY DEF StoreTypes, Typed, migration
  <1>2. MigrationTypes'
    BY DEF StoreTypes, MigrationTypes, migration
  <1> QED
    BY <1>1, <1>2 DEF StoreTypes

\* Nothing the stack does to PostgreSQL disturbs what is known of SQLite.
LEMMA PostgresKeys ==
  ASSUME KeysInv, BaseInv, UNCHANGED <<lite, base, time>>, Distinct(pg'["proofs"])
  PROVE  KeysInv' /\ BaseInv'
  <1>1. KeysInv'
    BY DEF KeysInv, Distinct
  <1>2. \A t \in AllTables : RowsOf(lite, t)' = RowsOf(lite, t) /\ RowsOf(base, t)' = RowsOf(base, t)
    BY DEF RowsOf
  <1>3. BaseInv'
    BY <1>2 DEF BaseInv, AllTables
  <1> QED
    BY <1>1, <1>3

LEMMA InsertStep == StoreInv /\ insert_reading => StoreInv'
  <1> SUFFICES ASSUME StoreInv, insert_reading PROVE StoreInv'
    OBVIOUS
  <1>0. /\ StoreTypes /\ KeysInv /\ BaseInv
        /\ UNCHANGED <<backend, stack, time, migration, acted>>
        /\ UNCHANGED <<mig, left, runs, result, base>>
        /\ Put("readings", Append(Store["readings"], time)) /\ "readings" \in AllTables
    BY DEF StoreInv, insert_reading, AllTables, migration
  <1>1. CASE backend = "sqlite"
    <2>1. PICK r : r = lite["readings"]
      OBVIOUS
    <2>2. /\ r \in Seq(0..MaxTime) /\ time \in 0..MaxTime /\ \A i \in DOMAIN r : r[i] < time
      BY <1>0, <1>1, <2>1 DEF StoreTypes, Typed, insert_reading, Store
    <2>3. /\ Append(r, time) \in Seq(0..MaxTime) /\ DOMAIN Append(r, time) = 1..(Len(r) + 1)
          /\ \A i \in 1..Len(r) : Append(r, time)[i] = r[i]
          /\ Append(r, time)[Len(r) + 1] = time /\ Len(r) \in Nat /\ DOMAIN r = 1..Len(r)
      BY <2>2, AppendProperties, LenProperties
    <2>4. /\ pg' = pg /\ DOMAIN lite' = AllTables /\ lite'["readings"] = Append(r, time)
          /\ lite'["commands"] = lite["commands"] /\ lite'["proofs"] = lite["proofs"]
          /\ dirty' = (dirty \/ runs > 0)
      BY <1>0, <1>1, <2>1, PutSqlite DEF Store, AllTables
    <2>5. StoreTypes'
      <3>1. Typed(lite)' /\ Typed(pg)'
        BY <1>0, <2>3, <2>4 DEF StoreTypes, Typed
      <3>2. dirty' \in BOOLEAN /\ acted' \in [1..MaxCommands -> Nat]
        BY <1>0, <2>4 DEF StoreTypes
      <3> QED
        BY <1>0, <3>1, <3>2, StackTypes
    <2>6. KeysInv'
      <3>1. \A i, j \in 1..Len(r) : r[i] = r[j] => i = j
        BY <1>0, <2>1, <2>3 DEF KeysInv, Distinct
      <3>2. \A i \in 1..Len(r) : r[i] # time
        BY <2>2, <2>3
      <3>3. Distinct(Append(r, time))
        BY <2>3, <3>1, <3>2 DEF Distinct
      <3> QED
        BY <1>0, <2>4, <3>3 DEF KeysInv
    <2>7. \A row : row \in RowsOf(lite', "readings") <=> row \in RowsOf(lite, "readings") \/ row = time
      BY <2>1, <2>3, <2>4 DEF RowsOf
    <2>8. time \notin RowsOf(base, "readings") \/ time \in RowsOf(lite, "readings")
      <3>1. \A i \in DOMAIN base["readings"] : base["readings"][i] < time \/ base["readings"][i] \in RowsOf(lite, "readings")
        BY <1>0 DEF BaseInv
      <3>2. time \in Int
        BY <2>2
      <3> QED
        BY <3>1, <3>2 DEF RowsOf
    <2>9. BaseInv'
      <3>1. RowsOf(lite, "readings")' = RowsOf(lite', "readings") /\ RowsOf(lite, "proofs")' = RowsOf(lite, "proofs")
            /\ RowsOf(base, "proofs")' = RowsOf(base, "proofs")
        BY <1>0, <2>4 DEF RowsOf
      <3> QED
        BY <1>0, <2>4, <2>7, <3>1 DEF BaseInv
    <2>10. SqliteInv'
      <3>1. \A t \in {"readings", "commands"} :
              RowsOf(base, t) \cap RowsOf(lite', t) \in SUBSET RowsOf(lite, t)
        BY <2>4, <2>7, <2>8 DEF RowsOf
      <3> QED
        BY <1>0, <1>1, <2>4, <3>1, SqliteStays DEF StoreInv
    <2> QED
      BY <1>0, <1>1, <2>5, <2>6, <2>9, <2>10 DEF StoreInv
  <1>2. CASE backend = "postgres"
    <2>1. PICK r : r = pg["readings"]
      OBVIOUS
    <2>2. /\ r \in Seq(0..MaxTime) /\ time \in 0..MaxTime
      BY <1>0, <2>1 DEF StoreTypes, Typed
    <2>3. Append(r, time) \in Seq(0..MaxTime)
      BY <2>2, AppendProperties
    <2>4. /\ lite' = lite /\ DOMAIN pg' = AllTables /\ pg'["readings"] = Append(r, time)
          /\ pg'["commands"] = pg["commands"] /\ pg'["proofs"] = pg["proofs"] /\ dirty' = dirty
      BY <1>0, <1>2, <2>1, PutPostgres DEF Store, AllTables
    <2>5. StoreTypes'
      <3>1. Typed(lite)' /\ Typed(pg)'
        BY <1>0, <2>3, <2>4 DEF StoreTypes, Typed
      <3> QED
        BY <1>0, <2>4, <3>1, StackTypes DEF StoreTypes
    <2>6. KeysInv' /\ BaseInv'
      <3>1. Distinct(pg'["proofs"])
        BY <1>0, <2>4 DEF KeysInv
      <3> QED
        BY <1>0, <2>4, <3>1, PostgresKeys
    <2>7. PgInv'
      BY <1>0, <1>2, <2>4, PgStays DEF StoreInv
    <2> QED
      BY <1>0, <1>2, <2>5, <2>6, <2>7 DEF StoreInv
  <1> QED
    BY <1>0, <1>1, <1>2 DEF StoreTypes

LEMMA CreateStep == StoreInv /\ create_command => StoreInv'
  <1> SUFFICES ASSUME StoreInv, create_command PROVE StoreInv'
    OBVIOUS
  <1>0. /\ StoreTypes /\ KeysInv /\ BaseInv
        /\ UNCHANGED <<backend, stack, time, migration, acted>>
        /\ UNCHANGED <<mig, left, runs, result, base>> /\ "commands" \in AllTables
    BY DEF StoreInv, create_command, AllTables, migration
  <1>ids. UNION {{s["commands"][i].id : i \in DOMAIN s["commands"]} : s \in {lite, pg}} = Ids
    BY DEF Ids, IdsOf
  <1>1. PICK new : /\ new = Cardinality(Ids) + 1 /\ new <= MaxCommands
                   /\ Put("commands", Append(Store["commands"], [id |-> new, status |-> "pending"]))
    BY <1>ids DEF create_command
  <1>a. PICK a : a = [id |-> new, status |-> "pending"]
    OBVIOUS
  <1>2. CASE backend = "sqlite"
    <2>1. PICK r : r = lite["commands"]
      OBVIOUS
    <2>2. r \in Seq(Commands) /\ Len(r) \in Nat /\ DOMAIN r = 1..Len(r)
      BY <1>0, <2>1, LenProperties DEF StoreTypes, Typed
    <2>3. Ids = 1..Len(r)
      <3>1. IdsOf(r) = 1..Len(r)
        BY <1>0, <2>1, <2>2 DEF KeysInv, IdsOf
      <3>2. IdsOf(pg["commands"]) \in SUBSET (1..Len(r))
        <4>1. ASSUME NEW i \in DOMAIN pg["commands"]
              PROVE  pg["commands"][i].id \in DOMAIN lite["commands"]
          <5>1. pg["commands"][i] \in Copied
            BY DEF Copied, RowsOf
          <5> QED
            BY <1>2, <5>1 DEF StoreInv, SqliteInv
        <4> QED
          BY <2>1, <2>2, <4>1 DEF IdsOf
      <3> QED
        BY <2>1, <3>1, <3>2 DEF Ids
    <2>4. new = Len(r) + 1
      <3>1. Cardinality(1..Len(r)) = Len(r)
        BY <2>2, FS_Interval
      <3> QED
        BY <1>1, <2>3, <3>1
    <2>5. a \in Commands
      BY <1>1, <1>a, <2>2, <2>4, StoreConstants DEF Commands, StoreConstants
    <2>6. /\ Append(r, a) \in Seq(Commands) /\ DOMAIN Append(r, a) = 1..(Len(r) + 1)
          /\ \A i \in 1..Len(r) : Append(r, a)[i] = r[i]
          /\ Append(r, a)[Len(r) + 1] = a
      BY <2>2, <2>5, AppendProperties, LenProperties
    <2>7. /\ pg' = pg /\ DOMAIN lite' = AllTables /\ lite'["commands"] = Append(r, a)
          /\ lite'["readings"] = lite["readings"] /\ lite'["proofs"] = lite["proofs"]
          /\ dirty' = (dirty \/ runs > 0)
      BY <1>0, <1>1, <1>a, <1>2, <2>1, PutSqlite DEF Store, AllTables
    <2>8. StoreTypes'
      <3>1. Typed(lite)' /\ Typed(pg)'
        BY <1>0, <2>6, <2>7 DEF StoreTypes, Typed
      <3>2. dirty' \in BOOLEAN /\ acted' \in [1..MaxCommands -> Nat]
        BY <1>0, <2>7 DEF StoreTypes
      <3> QED
        BY <1>0, <3>1, <3>2, StackTypes
    <2>9. KeysInv'
      <3>1. \A i \in 1..(Len(r) + 1) : Append(r, a)[i].id = i
        BY <1>0, <1>a, <2>1, <2>2, <2>4, <2>6 DEF KeysInv
      <3> QED
        BY <1>0, <2>6, <2>7, <3>1 DEF KeysInv
    <2>10. BaseInv'
      <3>1. \A t \in {"readings", "proofs"} : RowsOf(lite, t)' = RowsOf(lite, t) /\ RowsOf(base, t)' = RowsOf(base, t)
        BY <1>0, <2>7 DEF RowsOf
      <3>2. \A i \in DOMAIN base["commands"] : i \in 1..Len(r) /\ i \in 1..(Len(r) + 1)
        BY <1>0, <2>1, <2>2 DEF BaseInv
      <3> QED
        BY <1>0, <2>1, <2>6, <2>7, <3>1, <3>2 DEF BaseInv
    <2>11. SqliteInv'
      <3>1. \A t \in {"readings", "commands"} :
              RowsOf(base, t) \cap RowsOf(lite', t) \in SUBSET RowsOf(lite, t)
        <4>1. RowsOf(lite', "readings") = RowsOf(lite, "readings")
          BY <2>7 DEF RowsOf
        <4>2. a \notin RowsOf(base, "commands")
          <5>1. \A i \in DOMAIN base["commands"] : base["commands"][i].id \in 1..Len(r)
            BY <1>0, <2>1, <2>2 DEF BaseInv
          <5> QED
            BY <1>a, <2>2, <2>4, <5>1 DEF RowsOf
        <4>3. \A row \in RowsOf(lite', "commands") : row = a \/ row \in RowsOf(lite, "commands")
          BY <2>1, <2>2, <2>6, <2>7 DEF RowsOf
        <4> QED
          BY <4>1, <4>2, <4>3
      <3>2. CopyInv'
        BY <1>0, <1>2, <2>7, <3>1, CopyStays DEF StoreInv, SqliteInv
      <3>3. Copied' = Copied
        BY <1>0, <2>7 DEF Copied, RowsOf
      <3>4. \A c \in 1..MaxCommands : Executed(c)' = Executed(c)
        BY <1>a, <2>1, <2>2, <2>6, <2>7 DEF Executed
      <3>5. \A i \in DOMAIN lite["commands"] : i \in DOMAIN lite'["commands"]
        BY <2>1, <2>2, <2>6, <2>7
      <3> QED
        BY <1>0, <1>2, <2>7, <3>2, <3>3, <3>4, <3>5 DEF StoreInv, SqliteInv
    <2> QED
      BY <1>0, <1>2, <2>8, <2>9, <2>10, <2>11 DEF StoreInv
  <1>3. CASE backend = "postgres"
    <2>1. PICK r : r = pg["commands"]
      OBVIOUS
    <2>2. r \in Seq(Commands) /\ Len(r) \in Nat /\ DOMAIN r = 1..Len(r)
      BY <1>0, <2>1, LenProperties DEF StoreTypes, Typed
    <2>3. Ids = 1..(new - 1) /\ new \in Int /\ new >= 1
      <3>1. PICK K : K = Ids
        OBVIOUS
      <3>2. IsFiniteSet(IdsOf(lite["commands"])) /\ IsFiniteSet(IdsOf(pg["commands"]))
        <4>1. IsFiniteSet(1..MaxCommands)
          BY StoreConstants, FS_Interval DEF StoreConstants
        <4>2. /\ IdsOf(lite["commands"]) \in SUBSET (1..MaxCommands)
              /\ IdsOf(pg["commands"]) \in SUBSET (1..MaxCommands)
          <5>1. ASSUME NEW r1 \in Seq(Commands) PROVE IdsOf(r1) \in SUBSET (1..MaxCommands)
            <6>1. DOMAIN r1 = 1..Len(r1) /\ \A i \in 1..Len(r1) : r1[i] \in Commands
              BY LenProperties, ElementOfSeq
            <6> QED
              BY <6>1 DEF IdsOf, Commands
          <5> QED
            BY <1>0, <5>1 DEF StoreTypes, Typed
        <4> QED
          BY <4>1, <4>2, FS_Subset
      <3>3. Cardinality(Ids) \in Nat
        BY <3>2, FS_Union, FS_CardinalityType DEF Ids
      <3> QED
        BY <1>1, <1>3, <3>3 DEF StoreInv, PgInv
    <2>4. a \in Commands /\ new \in 1..MaxCommands
      BY <1>1, <1>a, <2>3, StoreConstants DEF Commands, StoreConstants
    <2>5. /\ Append(r, a) \in Seq(Commands) /\ DOMAIN Append(r, a) = 1..(Len(r) + 1)
          /\ \A i \in 1..Len(r) : Append(r, a)[i] = r[i]
          /\ Append(r, a)[Len(r) + 1] = a
      BY <2>2, <2>4, AppendProperties, LenProperties
    <2>6. /\ lite' = lite /\ DOMAIN pg' = AllTables /\ pg'["commands"] = Append(r, a)
          /\ pg'["readings"] = pg["readings"] /\ pg'["proofs"] = pg["proofs"] /\ dirty' = dirty
      BY <1>0, <1>1, <1>a, <1>3, <2>1, PutPostgres DEF Store, AllTables
    <2>7. StoreTypes'
      <3>1. Typed(lite)' /\ Typed(pg)'
        BY <1>0, <2>5, <2>6 DEF StoreTypes, Typed
      <3> QED
        BY <1>0, <2>6, <3>1, StackTypes DEF StoreTypes
    <2>8. KeysInv' /\ BaseInv'
      <3>1. Distinct(pg'["proofs"])
        BY <1>0, <2>6 DEF KeysInv
      <3> QED
        BY <1>0, <2>6, <3>1, PostgresKeys
    <2>9. PgInv'
      <3>1. Ids' = 1..new
        <4>1. IdsOf(pg'["commands"]) = IdsOf(pg["commands"]) \cup {new}
          BY <1>a, <2>1, <2>2, <2>5, <2>6 DEF IdsOf
        <4>2. Ids' = Ids \cup {new}
          BY <2>6, <4>1 DEF Ids
        <4> QED
          BY <2>3, <4>2
      <3>2. Cardinality(Ids') = new
        <4>1. Cardinality(1..new) = new
          BY <2>3, FS_Interval
        <4> QED
          BY <3>1, <4>1
      <3>3. ASSUME NEW c \in 1..MaxCommands
            PROVE  /\ acted'[c] > 0 => c \in Ids'
                   /\ acted'[c] + ToExecute(c)' <= RunsFor("commands") + (IF dirty THEN 1 ELSE 0)
        <4>0. /\ acted' = acted /\ dirty' = dirty /\ acted[c] \in Nat /\ RunsFor("commands") \in Int
              /\ RunsFor("commands") >= 1
          BY <1>0, <1>3, <2>6, Counts DEF StoreTypes, StoreInv, PgInv
        <4>k. PICK k \in Nat : k = ToCome("commands", Pending(c)) /\ k = ToCome("commands", Pending(c))'
          BY <1>0, Counts DEF ToCome
        <4>e. /\ ToExecute(c) = Occ(r, Pending(c)) + k
              /\ ToExecute(c)' = Occ(pg'["commands"], Pending(c)) + k
          BY <2>1, <4>k DEF ToExecute
        <4>1. /\ acted[c] > 0 => c \in Ids
              /\ acted[c] + (Occ(r, Pending(c)) + k) <= RunsFor("commands") + (IF dirty THEN 1 ELSE 0)
          BY <1>3, <4>e DEF StoreInv, PgInv
        <4>2. CASE c # new
          <5>1. Places(Append(r, a), Pending(c)) = Places(r, Pending(c))
            <6>1. a # Pending(c)
              BY <1>a, <4>2 DEF Pending
            <6> QED
              BY <2>2, <2>5, <6>1 DEF Places
          <5> QED
            BY <2>3, <2>6, <3>1, <4>0, <4>1, <4>e, <5>1 DEF Occ
        <4>3. CASE c = new
          <5>1. acted[c] = 0
            BY <2>3, <4>0, <4>1, <4>3
          <5>3. k = 0
            <6>1. mig = 2 => left \in Seq(Commands) /\ IdsOf(left) \in SUBSET Ids
              BY <1>0, <1>3 DEF StoreTypes, MigrationTypes, StoreInv, PgInv
            <6>2. mig = 2 => ~\E i \in DOMAIN left : left[i] = Pending(c)
              <7>1. new \notin Ids
                BY <2>3
              <7>2. ASSUME mig = 2, NEW i \in DOMAIN left PROVE left[i] # Pending(c)
                <8>1. left[i].id \in Ids
                  BY <6>1, <7>2 DEF IdsOf
                <8>2. Pending(c).id = new
                  BY <4>3 DEF Pending
                <8> QED
                  BY <7>1, <8>1, <8>2
              <7> QED
                BY <7>2
            <6>3. mig = 2 => Occ(left, Pending(c)) = 0
              <7>1. mig = 2 => ~(Occ(left, Pending(c)) >= 1) /\ Occ(left, Pending(c)) \in Nat
                BY <6>1, <6>2, OccMember, PlacesFinite
              <7> QED
                BY <7>1
            <6> QED
              BY <4>k, <6>3 DEF ToCome, Number
          <5>2. Occ(pg'["commands"], Pending(c)) = 1
            <6>1. \A i \in 1..Len(r) : r[i] # Pending(c)
              <7>1. \A i \in 1..Len(r) : r[i].id \in Ids
                BY <2>1, <2>2 DEF Ids, IdsOf
              <7> QED
                BY <2>3, <4>3, <7>1 DEF Pending
            <6>2. a = Pending(c)
              BY <1>a, <4>3 DEF Pending
            <6>3. Places(Append(r, a), Pending(c)) = {Len(r) + 1}
              BY <2>2, <2>5, <6>1, <6>2 DEF Places
            <6>4. Cardinality({Len(r) + 1}) = 1
              BY FS_Singleton
            <6> QED
              BY <2>6, <6>3, <6>4 DEF Occ
          <5> QED
            BY <3>1, <4>0, <4>e, <5>1, <5>2, <5>3
        <4> QED
          BY <4>2, <4>3
      <3>4. /\ RunsFor("commands")' = RunsFor("commands") /\ IdsOf(left)' = IdsOf(left) /\ dirty' = dirty
            /\ Ids \in SUBSET Ids'
        BY <1>0, <2>3, <2>6, <3>1 DEF RunsFor, IdsOf
      <3> QED
        BY <1>0, <1>3, <3>1, <3>2, <3>3, <3>4 DEF StoreInv, PgInv
    <2> QED
      BY <1>0, <1>3, <2>7, <2>8, <2>9 DEF StoreInv
  <1> QED
    BY <1>0, <1>2, <1>3 DEF StoreTypes

\* The place of the oldest pending row, and what the update makes of the table.
LEMMA UpdateStep == StoreInv /\ update_command_status => StoreInv'
  <1> SUFFICES ASSUME StoreInv, update_command_status PROVE StoreInv'
    OBVIOUS
  <1>0. /\ StoreTypes /\ KeysInv /\ BaseInv /\ UNCHANGED <<backend, stack, time, migration>>
        /\ UNCHANGED <<mig, left, runs, result, base>> /\ "commands" \in AllTables
        /\ acted \in [1..MaxCommands -> Nat]
    BY DEF StoreInv, StoreTypes, update_command_status, AllTables, migration
  <1>r. PICK r : r = Store["commands"]
    OBVIOUS
  <1>1. PICK p \in DOMAIN r : /\ r[p].status = "pending"
                              /\ Put("commands", [r EXCEPT ![p].status = "applied"])
                              /\ acted' = [acted EXCEPT ![r[p].id] = @ + 1]
    BY <1>r DEF update_command_status, fetch_pending_commands
  <1>2. r \in Seq(Commands) /\ Len(r) \in Nat /\ DOMAIN r = 1..Len(r) /\ p \in 1..Len(r)
    BY <1>0, <1>1, <1>r, LenProperties DEF StoreTypes, Typed, Store
  <1>3. PICK c : c = r[p].id
    OBVIOUS
  <1>4. r[p] \in Commands /\ r[p] = Pending(c) /\ c \in 1..MaxCommands
    <2>1. r[p] \in Commands
      BY <1>2, ElementOfSeq
    <2>2. r[p] = [id |-> r[p].id, status |-> r[p].status] /\ r[p].id \in 1..MaxCommands
      BY <2>1 DEF Commands
    <2> QED
      BY <1>1, <1>3, <2>1, <2>2 DEF Pending
  <1>5. PICK a : a = [id |-> c, status |-> "applied"]
    OBVIOUS
  <1>6. PICK s : s = [r EXCEPT ![p].status = "applied"]
    OBVIOUS
  <1>7. s = [r EXCEPT ![p] = a] /\ a \in Commands /\ a # Pending(c)
    <2>1. [r[p] EXCEPT !.status = "applied"] = a
      BY <1>4, <1>5 DEF Pending
    <2>2. s = [r EXCEPT ![p] = [r[p] EXCEPT !.status = "applied"]]
      BY <1>2, <1>6
    <2>3. a \in Commands /\ a # Pending(c)
      BY <1>4, <1>5 DEF Pending, Commands
    <2> QED
      BY <2>1, <2>2, <2>3
  <1>8. /\ s \in Seq(Commands) /\ DOMAIN s = 1..Len(r)
        /\ s[p] = a /\ \A i \in 1..Len(r) : i # p => s[i] = r[i]
    BY <1>2, <1>7, ExceptSeq, LenProperties
  <1>9. acted' \in [1..MaxCommands -> Nat] /\ acted'[c] = acted[c] + 1
        /\ \A d \in 1..MaxCommands : d # c => acted'[d] = acted[d]
    BY <1>0, <1>1, <1>3, <1>4
  <1>10. \A i \in 1..Len(r) : s[i].id = r[i].id
    BY <1>2, <1>3, <1>4, <1>5, <1>8
  <1>11. CASE backend = "sqlite"
    <2>1. /\ pg' = pg /\ DOMAIN lite' = AllTables /\ lite'["commands"] = s /\ r = lite["commands"]
          /\ lite'["readings"] = lite["readings"] /\ lite'["proofs"] = lite["proofs"]
          /\ dirty' = (dirty \/ runs > 0)
      BY <1>0, <1>1, <1>6, <1>r, <1>11, PutSqlite DEF Store, AllTables
    <2>2. StoreTypes'
      <3>1. Typed(lite)' /\ Typed(pg)'
        BY <1>0, <1>8, <2>1 DEF StoreTypes, Typed
      <3>2. dirty' \in BOOLEAN
        BY <1>0, <2>1 DEF StoreTypes
      <3> QED
        BY <1>0, <1>9, <3>1, <3>2, StackTypes
    <2>3. \A i \in 1..Len(r) : r[i].id = i
      BY <1>0, <1>2, <2>1 DEF KeysInv
    <2>p. p = c
      BY <1>2, <1>3, <2>3
    <2>4. KeysInv'
      BY <1>0, <1>8, <1>10, <2>1, <2>3 DEF KeysInv, Distinct
    <2>5. BaseInv'
      <3>1. \A t \in {"readings", "proofs"} : RowsOf(lite, t)' = RowsOf(lite, t) /\ RowsOf(base, t)' = RowsOf(base, t)
        BY <1>0, <2>1 DEF RowsOf
      <3>2. \A i \in DOMAIN base["commands"] :
              /\ i \in 1..Len(r) /\ base["commands"][i].id = i
              /\ base["commands"][i].status = "applied" => r[i].status = "applied"
        BY <1>0, <1>2, <2>1 DEF BaseInv
      <3>3. \A i \in 1..Len(r) : r[i].status = "applied" => s[i].status = "applied"
        BY <1>1, <1>8
      <3> QED
        BY <1>0, <1>8, <2>1, <3>1, <3>2, <3>3 DEF BaseInv
    <2>6. SqliteInv'
      <3>0. SqliteInv
        BY <1>11 DEF StoreInv
      <3>1. \A t \in {"readings", "commands"} :
              RowsOf(base, t) \cap RowsOf(lite', t) \in SUBSET RowsOf(lite, t)
        <4>1. RowsOf(lite', "readings") = RowsOf(lite, "readings")
          BY <2>1 DEF RowsOf
        <4>2. a \notin RowsOf(base, "commands")
          <5>1. \A i \in DOMAIN base["commands"] : base["commands"][i] # a
            <6>1. SUFFICES ASSUME NEW i \in DOMAIN base["commands"], base["commands"][i] = a PROVE FALSE
              OBVIOUS
            <6>2. i = c /\ r[i].status = "applied"
              BY <1>0, <1>5, <2>1, <6>1 DEF BaseInv
            <6> QED
              BY <1>1, <2>p, <6>2
          <5> QED
            BY <5>1 DEF RowsOf
        <4>3. \A row \in RowsOf(lite', "commands") : row = a \/ row \in RowsOf(lite, "commands")
          BY <1>2, <1>8, <2>1 DEF RowsOf
        <4> QED
          BY <4>1, <4>2, <4>3
      <3>2. CopyInv'
        BY <1>0, <2>1, <3>0, <3>1, CopyStays DEF SqliteInv
      <3>3. Copied' = Copied
        BY <1>0, <2>1 DEF Copied, RowsOf
      <3>4. \A d \in 1..MaxCommands : acted'[d] = IF Executed(d)' THEN 1 ELSE 0
        <4>1. ASSUME NEW d \in 1..MaxCommands, d # c
              PROVE  acted'[d] = IF Executed(d)' THEN 1 ELSE 0
          <5>1. Executed(d)' = Executed(d)
            BY <1>2, <1>8, <2>1, <2>p, <4>1 DEF Executed
          <5> QED
            BY <1>9, <3>0, <4>1, <5>1 DEF SqliteInv
        <4>2. acted'[c] = 1 /\ Executed(c)'
          <5>1. ~Executed(c) /\ Executed(c)'
            BY <1>1, <1>2, <1>5, <1>8, <2>1, <2>p DEF Executed
          <5>2. acted[c] = 0
            BY <1>4, <3>0, <5>1 DEF SqliteInv
          <5> QED
            BY <1>9, <5>1, <5>2
        <4> QED
          BY <4>1, <4>2
      <3>5. \A i \in DOMAIN lite["commands"] : i \in DOMAIN lite'["commands"]
        BY <1>2, <1>8, <2>1
      <3>6. ~dirty' => \A d \in 1..MaxCommands : Pending(d) \notin Copied
        <4> SUFFICES ASSUME ~dirty', NEW d \in 1..MaxCommands PROVE Pending(d) \notin Copied
          OBVIOUS
        <4>1. runs = 0 /\ mig = 0
          <5>1. ~(runs > 0)
            BY <2>1
          <5>2. runs \in Nat /\ mig \in 0..3 /\ (mig > 0 => runs > 0)
            BY <1>0 DEF StoreTypes, MigrationTypes
          <5> QED
            BY <5>1, <5>2
        <4>2. Pending(d) \in Commands
          BY DEF Pending, Commands
        <4>3. pg["commands"] \in Seq(Commands)
          BY <1>0 DEF StoreTypes, Typed
        <4>4. Occ(pg["commands"], Pending(d)) <= 0
          <5>1. ToCome("commands", Pending(d)) = 0 /\ RunsFor("commands") = 0
            BY <4>1 DEF ToCome, RunsFor, Number
          <5>2. Occ(pg["commands"], Pending(d)) + ToCome("commands", Pending(d)) <= RunsFor("commands")
            BY <3>0, <4>2 DEF SqliteInv, CopyInv, AnyRow
          <5>3. Occ(pg["commands"], Pending(d)) \in Nat
            BY <4>3, PlacesFinite
          <5> QED
            BY <5>1, <5>2, <5>3
        <4>5. ~\E i \in DOMAIN pg["commands"] : pg["commands"][i] = Pending(d)
          <5>1. ~(Occ(pg["commands"], Pending(d)) >= 1)
            BY <4>3, <4>4, PlacesFinite
          <5> QED
            BY <4>3, <5>1, OccMember
        <4> QED
          BY <4>1, <4>5 DEF Copied, RowsOf
      <3> QED
        BY <2>1, <3>0, <3>2, <3>3, <3>4, <3>5, <3>6 DEF SqliteInv
    <2> QED
      BY <1>0, <1>11, <2>2, <2>4, <2>5, <2>6 DEF StoreInv
  <1>12. CASE backend = "postgres"
    <2>1. /\ lite' = lite /\ DOMAIN pg' = AllTables /\ pg'["commands"] = s /\ r = pg["commands"]
          /\ pg'["readings"] = pg["readings"] /\ pg'["proofs"] = pg["proofs"] /\ dirty' = dirty
      BY <1>0, <1>1, <1>6, <1>r, <1>12, PutPostgres DEF Store, AllTables
    <2>2. StoreTypes'
      <3>1. Typed(lite)' /\ Typed(pg)'
        BY <1>0, <1>8, <2>1 DEF StoreTypes, Typed
      <3> QED
        BY <1>0, <1>9, <2>1, <3>1, StackTypes DEF StoreTypes
    <2>3. KeysInv' /\ BaseInv'
      <3>1. Distinct(pg'["proofs"])
        BY <1>0, <2>1 DEF KeysInv
      <3> QED
        BY <1>0, <2>1, <3>1, PostgresKeys
    <2>4. PgInv'
      <3>0. PgInv
        BY <1>12 DEF StoreInv
      <3>1. Ids' = Ids /\ c \in Ids
        <4>1. IdsOf(s) = IdsOf(r) /\ c \in IdsOf(r)
          BY <1>2, <1>3, <1>8, <1>10 DEF IdsOf
        <4> QED
          BY <2>1, <4>1 DEF Ids
      <3>2. ASSUME NEW d \in 1..MaxCommands, d # c
            PROVE  Occ(s, Pending(d)) = Occ(r, Pending(d)) /\ acted'[d] = acted[d]
        <4>1. a # Pending(d) /\ r[p] # Pending(d)
          BY <1>4, <1>5, <3>2 DEF Pending
        <4>2. Places(s, Pending(d)) = Places(r, Pending(d))
          BY <1>2, <1>8, <4>1 DEF Places
        <4> QED
          BY <1>9, <3>2, <4>2 DEF Occ
      <3>3. Occ(s, Pending(c)) = Occ(r, Pending(c)) - 1
        <4>1. Places(s, Pending(c)) = Places(r, Pending(c)) \ {p} /\ p \in Places(r, Pending(c))
          BY <1>2, <1>4, <1>7, <1>8 DEF Places
        <4>2. IsFiniteSet(Places(r, Pending(c)))
          BY <1>2, PlacesFinite
        <4> QED
          BY <4>1, <4>2, FS_RemoveElement DEF Occ
      <3>4. Occ(r, Pending(c)) \in Nat /\ acted[c] \in Nat
        BY <1>0, <1>2, <1>4, PlacesFinite
      <3>5. ASSUME NEW d \in 1..MaxCommands
            PROVE  /\ acted'[d] > 0 => d \in Ids'
                   /\ acted'[d] + ToExecute(d)' <= RunsFor("commands") + (IF dirty THEN 1 ELSE 0)
        <4>k. PICK k \in Nat : k = ToCome("commands", Pending(d)) /\ k = ToCome("commands", Pending(d))'
          BY <1>0, Counts DEF ToCome
        <4>e. ToExecute(d) = Occ(r, Pending(d)) + k /\ ToExecute(d)' = Occ(s, Pending(d)) + k
          BY <2>1, <4>k DEF ToExecute
        <4>1. /\ acted[d] > 0 => d \in Ids
              /\ acted[d] + (Occ(r, Pending(d)) + k) <= RunsFor("commands") + (IF dirty THEN 1 ELSE 0)
          BY <3>0, <4>e DEF PgInv
        <4>2. CASE d # c
          BY <3>1, <3>2, <4>1, <4>2, <4>e
        <4>3. CASE d = c
          <5>1. acted'[c] + (Occ(s, Pending(c)) + k) = acted[c] + (Occ(r, Pending(c)) + k)
            BY <1>9, <3>3, <3>4
          <5> QED
            BY <3>1, <4>1, <4>3, <4>e, <5>1
        <4> QED
          BY <4>2, <4>3
      <3>6. RunsFor("commands")' = RunsFor("commands") /\ IdsOf(left)' = IdsOf(left) /\ dirty' = dirty
        BY <1>0, <2>1 DEF RunsFor, IdsOf
      <3> QED
        BY <1>0, <3>0, <3>1, <3>5, <3>6 DEF PgInv
    <2> QED
      BY <1>0, <1>12, <2>2, <2>3, <2>4 DEF StoreInv
  <1> QED
    BY <1>0, <1>11, <1>12 DEF StoreTypes

LEMMA ProofStep == ASSUME StoreInv, NEW k \in 1..MaxProofs, insert_proof(k) PROVE StoreInv'
  <1>0. /\ StoreTypes /\ KeysInv /\ BaseInv
        /\ UNCHANGED <<backend, stack, time, migration, acted>>
        /\ UNCHANGED <<mig, left, runs, result, base>> /\ "proofs" \in AllTables
    <2>1. UNCHANGED <<backend, stack, time, migration, acted>>
      BY DEF insert_proof
    <2> QED
      BY <2>1 DEF StoreInv, AllTables, migration
  <1>r. PICK r : r = Store["proofs"]
    OBVIOUS
  <1>1. /\ r \in Seq(1..MaxProofs) /\ Distinct(r)
    <2>1. r = lite["proofs"] \/ r = pg["proofs"]
      BY <1>r DEF Store
    <2> QED
      BY <1>0, <2>1 DEF StoreTypes, Typed, KeysInv
  <1>2. /\ Append(r, k) \in Seq(1..MaxProofs) /\ DOMAIN Append(r, k) = 1..(Len(r) + 1)
        /\ \A i \in 1..Len(r) : Append(r, k)[i] = r[i]
        /\ Append(r, k)[Len(r) + 1] = k /\ Len(r) \in Nat /\ DOMAIN r = 1..Len(r)
    BY <1>1, AppendProperties, LenProperties
  <1>3. Put("proofs", Append(r, k)) /\ \A i \in DOMAIN r : r[i] # k
    BY <1>r DEF insert_proof
  <1>4. Distinct(Append(r, k))
    BY <1>1, <1>2, <1>3 DEF Distinct
  <1>5. CASE backend = "sqlite"
    <2>1. /\ pg' = pg /\ DOMAIN lite' = AllTables /\ lite'["proofs"] = Append(r, k) /\ r = lite["proofs"]
          /\ lite'["commands"] = lite["commands"] /\ lite'["readings"] = lite["readings"]
          /\ dirty' = (dirty \/ runs > 0)
      BY <1>0, <1>3, <1>5, <1>r, PutSqlite DEF Store, AllTables
    <2>2. StoreTypes'
      <3>1. Typed(lite)' /\ Typed(pg)'
        BY <1>0, <1>2, <2>1 DEF StoreTypes, Typed
      <3>2. dirty' \in BOOLEAN /\ acted' \in [1..MaxCommands -> Nat]
        BY <1>0, <2>1 DEF StoreTypes
      <3> QED
        BY <1>0, <3>1, <3>2, StackTypes
    <2>3. KeysInv'
      BY <1>0, <1>4, <2>1 DEF KeysInv
    <2>4. BaseInv'
      <3>1. RowsOf(lite, "proofs") \in SUBSET RowsOf(lite', "proofs")
        BY <1>2, <2>1 DEF RowsOf
      <3>2. /\ RowsOf(lite, "readings")' = RowsOf(lite, "readings") /\ RowsOf(base, "proofs")' = RowsOf(base, "proofs")
            /\ RowsOf(lite, "proofs")' = RowsOf(lite', "proofs")
        BY <1>0, <2>1 DEF RowsOf
      <3> QED
        BY <1>0, <2>1, <3>1, <3>2 DEF BaseInv
    <2>5. SqliteInv'
      <3>1. \A t \in {"readings", "commands"} :
              RowsOf(base, t) \cap RowsOf(lite', t) \in SUBSET RowsOf(lite, t)
        BY <2>1 DEF RowsOf
      <3> QED
        BY <1>0, <1>5, <2>1, <3>1, SqliteStays DEF StoreInv
    <2> QED
      BY <1>0, <1>5, <2>2, <2>3, <2>4, <2>5 DEF StoreInv
  <1>6. CASE backend = "postgres"
    <2>1. /\ lite' = lite /\ DOMAIN pg' = AllTables /\ pg'["proofs"] = Append(r, k)
          /\ pg'["commands"] = pg["commands"] /\ pg'["readings"] = pg["readings"] /\ dirty' = dirty
      BY <1>0, <1>3, <1>6, <1>r, PutPostgres DEF Store, AllTables
    <2>2. StoreTypes'
      <3>1. Typed(lite)' /\ Typed(pg)'
        BY <1>0, <1>2, <2>1 DEF StoreTypes, Typed
      <3> QED
        BY <1>0, <2>1, <3>1, StackTypes DEF StoreTypes
    <2>3. KeysInv' /\ BaseInv'
      BY <1>0, <1>4, <2>1, PostgresKeys
    <2>4. PgInv'
      BY <1>0, <1>6, <2>1, PgStays DEF StoreInv
    <2> QED
      BY <1>0, <1>6, <2>2, <2>3, <2>4 DEF StoreInv
  <1> QED
    BY <1>0, <1>5, <1>6 DEF StoreTypes

LEMMA CleanupStep == StoreInv /\ cleanup_old_readings => StoreInv'
  <1> SUFFICES ASSUME StoreInv, cleanup_old_readings PROVE StoreInv'
    OBVIOUS
  <1>0. /\ StoreTypes /\ KeysInv /\ BaseInv
        /\ UNCHANGED <<backend, stack, time, migration, acted>>
        /\ UNCHANGED <<mig, left, runs, result, base>> /\ "readings" \in AllTables
    BY DEF StoreInv, cleanup_old_readings, AllTables, migration
  <1>r. PICK r : r = Store["readings"]
    OBVIOUS
  <1>K. PICK K : K = {i \in DOMAIN r : r[i] >= time - Retention}
    OBVIOUS
  <1>1. r \in Seq(0..MaxTime) /\ K \in SUBSET DOMAIN r /\ DOMAIN r = 1..Len(r) /\ Len(r) \in Nat
    BY <1>0, <1>r, <1>K, LenProperties DEF StoreTypes, Typed, Store
  <1>2. PICK s : s = Rows(r, K)
    OBVIOUS
  <1>3. /\ s \in Seq(0..MaxTime) /\ (Distinct(r) => Distinct(s))
        /\ \A i \in DOMAIN s : \E k \in K : s[i] = r[k]
        /\ \A k \in K : \E i \in DOMAIN s : s[i] = r[k]
    BY <1>1, <1>2, RowsKept
  <1>4. Put("readings", s)
    BY <1>r, <1>K, <1>2 DEF cleanup_old_readings
  <1>5. CASE backend = "sqlite"
    <2>1. /\ pg' = pg /\ DOMAIN lite' = AllTables /\ lite'["readings"] = s /\ r = lite["readings"]
          /\ lite'["commands"] = lite["commands"] /\ lite'["proofs"] = lite["proofs"]
          /\ dirty' = (dirty \/ runs > 0)
      BY <1>0, <1>4, <1>5, <1>r, PutSqlite DEF Store, AllTables
    <2>2. StoreTypes'
      <3>1. Typed(lite)' /\ Typed(pg)'
        BY <1>0, <1>3, <2>1 DEF StoreTypes, Typed
      <3>2. dirty' \in BOOLEAN /\ acted' \in [1..MaxCommands -> Nat]
        BY <1>0, <2>1 DEF StoreTypes
      <3> QED
        BY <1>0, <3>1, <3>2, StackTypes
    <2>3. KeysInv'
      BY <1>0, <1>3, <2>1 DEF KeysInv
    <2>4. \A row \in RowsOf(lite', "readings") : row \in RowsOf(lite, "readings")
      BY <1>1, <1>3, <2>1 DEF RowsOf
    <2>5. \A row \in RowsOf(lite, "readings") : row < time \/ row \in RowsOf(lite', "readings")
      <3> SUFFICES ASSUME NEW i \in DOMAIN r, ~(r[i] < time) PROVE r[i] \in RowsOf(lite', "readings")
        BY <2>1 DEF RowsOf
      <3>1. r[i] \in 0..MaxTime /\ time \in 0..MaxTime /\ Retention \in Nat
        BY <1>0, <1>1, ElementOfSeq, StoreConstants DEF StoreTypes, StoreConstants
      <3>2. i \in K
        BY <1>K, <3>1
      <3> QED
        BY <1>3, <2>1, <3>2 DEF RowsOf
    <2>6. BaseInv'
      <3>1. /\ RowsOf(lite, "proofs")' = RowsOf(lite, "proofs") /\ RowsOf(base, "proofs")' = RowsOf(base, "proofs")
            /\ RowsOf(lite, "readings")' = RowsOf(lite', "readings")
        BY <1>0, <2>1 DEF RowsOf
      <3> QED
        BY <1>0, <2>1, <2>5, <3>1 DEF BaseInv
    <2>7. SqliteInv'
      <3>1. \A t \in {"readings", "commands"} :
              RowsOf(base, t) \cap RowsOf(lite', t) \in SUBSET RowsOf(lite, t)
        BY <2>1, <2>4 DEF RowsOf
      <3> QED
        BY <1>0, <1>5, <2>1, <3>1, SqliteStays DEF StoreInv
    <2> QED
      BY <1>0, <1>5, <2>2, <2>3, <2>6, <2>7 DEF StoreInv
  <1>6. CASE backend = "postgres"
    <2>1. /\ lite' = lite /\ DOMAIN pg' = AllTables /\ pg'["readings"] = s
          /\ pg'["commands"] = pg["commands"] /\ pg'["proofs"] = pg["proofs"] /\ dirty' = dirty
      BY <1>0, <1>4, <1>6, <1>r, PutPostgres DEF Store, AllTables
    <2>2. StoreTypes'
      <3>1. Typed(lite)' /\ Typed(pg)'
        BY <1>0, <1>3, <2>1 DEF StoreTypes, Typed
      <3> QED
        BY <1>0, <2>1, <3>1, StackTypes DEF StoreTypes
    <2>3. KeysInv' /\ BaseInv'
      <3>1. Distinct(pg'["proofs"])
        BY <1>0, <2>1 DEF KeysInv
      <3> QED
        BY <1>0, <2>1, <3>1, PostgresKeys
    <2>4. PgInv'
      BY <1>0, <1>6, <2>1, PgStays DEF StoreInv
    <2> QED
      BY <1>0, <1>6, <2>2, <2>3, <2>4 DEF StoreInv
  <1> QED
    BY <1>0, <1>5, <1>6 DEF StoreTypes

LEMMA TickStep == StoreInv /\ StoreTick => StoreInv'
  <1> SUFFICES ASSUME StoreInv, StoreTick PROVE StoreInv'
    OBVIOUS
  <1>0. /\ StoreTypes /\ KeysInv /\ BaseInv
        /\ UNCHANGED <<lite, pg, backend, stack, mig, left, runs, result, base, acted, dirty>>
        /\ time \in 0..MaxTime /\ time < MaxTime /\ time' = time + 1 /\ MaxTime \in Nat
    BY StoreConstants DEF StoreInv, StoreTypes, StoreTick, migration, StoreConstants
  <1>1. StoreTypes'
    <2>1. MigrationTypes'
      BY <1>0 DEF StoreTypes, MigrationTypes
    <2>2. Typed(lite)' /\ Typed(pg)' /\ Typed(base)'
      BY <1>0 DEF StoreTypes, Typed
    <2>3. time' \in 0..MaxTime
      BY <1>0
    <2> QED
      BY <1>0, <2>1, <2>2, <2>3 DEF StoreTypes
  <1>2. KeysInv'
    BY <1>0 DEF KeysInv, Distinct
  <1>3. BaseInv'
    <2>1. \A t \in AllTables : RowsOf(lite, t)' = RowsOf(lite, t) /\ RowsOf(base, t)' = RowsOf(base, t)
      BY <1>0 DEF RowsOf
    <2>2. \A i \in DOMAIN base["readings"] : base["readings"][i] \in Int
      BY <1>0, ElementOfSeq, LenProperties DEF StoreTypes, Typed
    <2>3. \A i \in DOMAIN base["readings"] : base["readings"][i] < time => base["readings"][i] < time'
      BY <1>0, <2>2
    <2> QED
      BY <1>0, <2>1, <2>3 DEF BaseInv, AllTables
  <1>4. backend = "sqlite" => SqliteInv'
    <2>1. \A t \in {"readings", "commands"} : RowsOf(base, t) \cap RowsOf(lite', t) \in SUBSET RowsOf(lite, t)
      BY <1>0 DEF RowsOf
    <2> QED
      BY <1>0, <2>1, SqliteStays DEF StoreInv
  <1>5. backend = "postgres" => PgInv'
    BY <1>0, PgStays DEF StoreInv
  <1> QED
    BY <1>0, <1>1, <1>2, <1>3, <1>4, <1>5 DEF StoreInv

\* A step that leaves the tables, the migration and the executions alone.
LEMMA StillStep ==
  ASSUME StoreInv, UNCHANGED <<lite, pg, time, migration, acted, dirty>>,
         stack' \in {"up", "down"}, backend' \in {"sqlite", "postgres"},
         backend' = "sqlite" => backend = "sqlite",
         backend' = "postgres" => runs > 0 /\ PgInv
  PROVE  StoreInv'
  <1>0. /\ StoreTypes /\ KeysInv /\ BaseInv
        /\ UNCHANGED <<lite, pg, time, mig, left, runs, result, base, acted, dirty>>
    BY DEF StoreInv, migration
  <1>1. StoreTypes'
    <2>1. MigrationTypes'
      BY <1>0 DEF StoreTypes, MigrationTypes
    <2>2. Typed(lite)' /\ Typed(pg)' /\ Typed(base)'
      BY <1>0 DEF StoreTypes, Typed
    <2> QED
      BY <1>0, <2>1, <2>2 DEF StoreTypes
  <1>2. KeysInv' /\ BaseInv'
    <2>1. Distinct(pg'["proofs"])
      BY <1>0 DEF KeysInv
    <2> QED
      BY <1>0, <2>1, PostgresKeys
  <1>3. backend = "sqlite" => SqliteInv'
    <2>1. \A t \in {"readings", "commands"} : RowsOf(base, t) \cap RowsOf(lite', t) \in SUBSET RowsOf(lite, t)
      BY <1>0 DEF RowsOf
    <2> QED
      BY <1>0, <2>1, SqliteStays DEF StoreInv
  <1>4. PgInv => PgInv'
    BY <1>0, PgStays DEF StoreInv
  <1> QED
    BY <1>0, <1>1, <1>2, <1>3, <1>4 DEF StoreInv

LEMMA SwitchKeeps ==
  ASSUME StoreInv, backend = "sqlite", result = "ok", mig = 0
  PROVE  runs > 0 /\ PgInv
  <1>0. StoreTypes /\ KeysInv /\ SqliteInv
    BY DEF StoreInv
  <1>1. runs \in Nat /\ runs > 0 /\ pg["commands"] \in Seq(Commands) /\ lite["commands"] \in Seq(Commands)
    BY <1>0 DEF StoreTypes, MigrationTypes, Typed
  <1>2. PICK n \in Nat : DOMAIN lite["commands"] = 1..n
    BY <1>1, LenProperties
  <1>3. Ids = 1..n
    <2>1. IdsOf(lite["commands"]) = 1..n
      BY <1>0, <1>2 DEF KeysInv, IdsOf
    <2>2. IdsOf(pg["commands"]) \in SUBSET (1..n)
      BY <1>0, <1>2 DEF SqliteInv, Copied, RowsOf, IdsOf
    <2> QED
      BY <2>1, <2>2 DEF Ids
  <1>4. Cardinality(Ids) = n
    <2>1. Cardinality(1..n) = n
      BY FS_Interval
    <2> QED
      BY <1>3, <2>1
  <1>5. ASSUME NEW c \in 1..MaxCommands
        PROVE  /\ acted[c] > 0 => c \in Ids
               /\ acted[c] + ToExecute(c) <= RunsFor("commands") + (IF dirty THEN 1 ELSE 0)
    <2>0. ToCome("commands", Pending(c)) = 0 /\ RunsFor("commands") = runs
      BY DEF ToCome, RunsFor, Number
    <2>1. acted[c] = IF Executed(c) THEN 1 ELSE 0
      BY <1>0 DEF SqliteInv
    <2>2. Occ(pg["commands"], Pending(c)) <= runs /\ Occ(pg["commands"], Pending(c)) \in Nat
      <3>1. Pending(c) \in Commands
        BY DEF Pending, Commands
      <3>2. ToCome("commands", Pending(c)) = 0 /\ RunsFor("commands") = runs
        BY DEF ToCome, RunsFor, Number
      <3>3. Occ(pg["commands"], Pending(c)) + ToCome("commands", Pending(c)) <= RunsFor("commands")
        BY <1>0, <3>1 DEF SqliteInv, CopyInv, AnyRow
      <3>4. Occ(pg["commands"], Pending(c)) \in Nat
        BY <1>1, PlacesFinite
      <3> QED
        BY <3>2, <3>3, <3>4
    <2>3. ~dirty /\ acted[c] > 0 => Occ(pg["commands"], Pending(c)) = 0
      <3> SUFFICES ASSUME ~dirty, acted[c] > 0 PROVE ~(Occ(pg["commands"], Pending(c)) >= 1)
        BY <2>2
      <3>1. Pending(c) \notin RowsOf(pg, "commands")
        BY <1>0 DEF SqliteInv, Copied
      <3> QED
        BY <1>1, <3>1, OccMember DEF RowsOf
    <2>4. acted[c] > 0 => c \in Ids
      BY <1>2, <1>3, <2>1 DEF Executed
    <2>5. acted[c] \in {0, 1}
      BY <2>1
    <2> QED
      BY <1>1, <2>0, <2>2, <2>3, <2>4, <2>5 DEF ToExecute
  <1>6. RunsFor("commands") = runs
    BY DEF RunsFor
  <1> QED
    BY <1>1, <1>3, <1>4, <1>5, <1>6 DEF PgInv

LEMMA StackStep == StoreInv /\ (StopStack \/ StartStack) => StoreInv'
  <1> SUFFICES ASSUME StoreInv, StopStack \/ StartStack PROVE StoreInv'
    OBVIOUS
  <1>0. /\ backend \in {"sqlite", "postgres"} /\ (backend = "postgres" => runs > 0 /\ PgInv)
    BY DEF StoreInv, StoreTypes, MigrationTypes
  <1>1. CASE StopStack
    BY <1>0, <1>1, StillStep DEF StopStack
  <1>2. CASE StartStack
    <2>1. /\ UNCHANGED <<lite, pg, time, migration, acted, dirty>> /\ stack' = "up"
          /\ backend' = backend \/ (backend' = "postgres" /\ result = "ok" /\ mig = 0)
      BY <1>2 DEF StartStack
    <2>2. CASE backend' = backend
      BY <1>0, <2>1, <2>2, StillStep
    <2>3. CASE backend' # backend
      <3>1. backend = "sqlite" /\ backend' = "postgres" /\ runs > 0 /\ PgInv /\ mig = 0
        BY <1>0, <2>1, <2>3, SwitchKeeps
      <3> QED
        BY <2>1, <3>1, StillStep
    <2> QED
      BY <2>2, <2>3
  <1> QED
    BY <1>1, <1>2

-----------------------------------------------------------------------------
(* The migration.                                                          *)

LEMMA TableNames == Len(Tables) = 2 /\ Tables[1] = "readings" /\ Tables[2] = "commands"
  BY DEF Tables

LEMMA NoOcc == \A row : Occ(<<>>, row) = 0
  <1>1. \A row : Places(<<>>, row) = {}
    BY DEF Places
  <1> QED
    BY <1>1, FS_EmptySet DEF Occ

LEMMA BeginStep == StoreInv /\ StartMigration => StoreInv'
  <1> SUFFICES ASSUME StoreInv, StartMigration PROVE StoreInv'
    OBVIOUS
  <1>0. /\ StoreTypes /\ KeysInv /\ BaseInv
        /\ mig = 0 /\ mig' = 1 /\ left' = lite["readings"]
        /\ runs' = runs + 1 /\ runs \in Nat /\ result' = "running" /\ base' = lite
        /\ UNCHANGED <<lite, pg, backend, stack, time, acted, dirty>>
    BY TableNames DEF StoreInv, StartMigration, SqliteInv, StoreTypes, MigrationTypes, Open
  <1>s. backend = "sqlite" => SqliteInv /\ CopyInv
    BY DEF StoreInv, SqliteInv
  <1>1. StoreTypes'
    <2>1. MigrationTypes'
      BY <1>0 DEF StoreTypes, Typed, MigrationTypes
    <2>2. Typed(lite)' /\ Typed(pg)' /\ Typed(base)'
      BY <1>0 DEF StoreTypes, Typed
    <2> QED
      BY <1>0, <2>1, <2>2 DEF StoreTypes
  <1>2. KeysInv'
    BY <1>0 DEF KeysInv, Distinct
  <1>3. BaseInv'
    <2>1. \A t \in AllTables : RowsOf(lite, t)' = RowsOf(lite, t) /\ RowsOf(base, t)' = RowsOf(lite, t)
      BY <1>0 DEF RowsOf
    <2>2. \A i \in DOMAIN lite["readings"] : lite["readings"][i] \in RowsOf(lite, "readings")
      BY DEF RowsOf
    <2> QED
      BY <1>0, <2>1, <2>2 DEF BaseInv, KeysInv, AllTables
  <1>4. ASSUME backend = "sqlite" PROVE SqliteInv'
    <2>1. lite["readings"] \in Seq(0..MaxTime) /\ pg["readings"] \in Seq(0..MaxTime) /\ pg["commands"] \in Seq(Commands)
      BY <1>0 DEF StoreTypes, Typed
    <2>2. Distinct(left')
      BY <1>0 DEF KeysInv
    <2>3. ASSUME NEW row \in 0..MaxTime
          PROVE  Occ(pg'["readings"], row) + ToCome("readings", row)' <= RunsFor("readings")'
      <3>1. Occ(pg["readings"], row) + ToCome("readings", row) <= RunsFor("readings")
        BY <1>4, <1>s DEF CopyInv, AnyRow
      <3>2. ToCome("readings", row) = 0 /\ RunsFor("readings") = runs
        BY <1>0 DEF ToCome, RunsFor, Number
      <3>3. ToCome("readings", row)' = Occ(left', row) /\ RunsFor("readings")' = runs + 1
        BY <1>0 DEF ToCome, RunsFor, Number
      <3>4. Occ(left', row) <= 1 /\ Occ(left', row) \in Nat /\ Occ(pg["readings"], row) \in Nat
        BY <1>0, <2>1, <2>2, OccDistinct, PlacesFinite DEF Distinct
      <3> QED
        BY <1>0, <3>1, <3>2, <3>3, <3>4
    <2>4. ASSUME NEW row \in Commands
          PROVE  Occ(pg'["commands"], row) + ToCome("commands", row)' <= RunsFor("commands")'
      <3>1. Occ(pg["commands"], row) + ToCome("commands", row) <= RunsFor("commands")
        BY <1>4, <1>s DEF CopyInv, AnyRow
      <3>2. /\ ToCome("commands", row) = 0 /\ RunsFor("commands") = runs
            /\ ToCome("commands", row)' = 0 /\ RunsFor("commands")' = runs
        BY <1>0 DEF ToCome, RunsFor, Number
      <3> QED
        BY <1>0, <3>1, <3>2
    <2>5. ASSUME NEW row \in RowsOf(lite, "readings")
          PROVE  Occ(pg'["readings"], row) + ToCome("readings", row)' >= 1
      <3>1. \E i \in DOMAIN left' : left'[i] = row
        BY <1>0 DEF RowsOf
      <3>2. Occ(left', row) >= 1 /\ Occ(left', row) \in Nat /\ Occ(pg["readings"], row) \in Nat
        BY <1>0, <2>1, <3>1, OccMember, PlacesFinite
      <3>3. ToCome("readings", row)' = Occ(left', row)
        BY <1>0 DEF ToCome, Number
      <3> QED
        BY <1>0, <3>2, <3>3
    <2>6. CopyInv'
      <3>1. RowsOf(lite, "readings")' = RowsOf(lite, "readings")
        BY <1>0 DEF RowsOf
      <3> QED
        BY <1>0, <1>4, <1>s, <2>2, <2>3, <2>4, <2>5, <3>1 DEF CopyInv, AnyRow, Number
    <2>7. Copied' = Copied
      BY <1>0 DEF Copied, RowsOf
    <2>8. \A c \in 1..MaxCommands : Executed(c)' = Executed(c)
      BY <1>0 DEF Executed
    <2> QED
      BY <1>0, <1>4, <1>s, <2>6, <2>7, <2>8 DEF SqliteInv
  <1>5. ASSUME backend = "postgres" PROVE PgInv'
    <2>1. PgInv /\ Ids' = Ids
      BY <1>0, <1>5 DEF StoreInv, Ids, IdsOf
    <2>2. RunsFor("commands") = runs /\ RunsFor("commands")' = runs
      BY <1>0 DEF RunsFor, Number
    <2>3. \A c \in 1..MaxCommands : ToExecute(c)' = ToExecute(c)
      BY <1>0 DEF ToExecute, ToCome, Number
    <2> QED
      BY <1>0, <2>1, <2>2, <2>3 DEF PgInv
  <1> QED
    BY <1>0, <1>1, <1>2, <1>3, <1>4, <1>5 DEF StoreInv

LEMMA FailStep == StoreInv /\ MigrationFails => StoreInv'
  <1> SUFFICES ASSUME StoreInv, MigrationFails PROVE StoreInv'
    OBVIOUS
  <1>0. /\ StoreTypes /\ KeysInv /\ BaseInv
        /\ mig \in 1..3 /\ mig' = 0 /\ left' = <<>>
        /\ runs \in Nat /\ runs > 0 /\ result' = "failed"
        /\ UNCHANGED <<lite, pg, backend, stack, time, runs, base, acted, dirty>>
    BY DEF StoreInv, MigrationFails, SqliteInv, StoreTypes, MigrationTypes
  <1>s. backend = "sqlite" => SqliteInv /\ CopyInv
    BY DEF StoreInv, SqliteInv
  <1>1. StoreTypes'
    <2>1. MigrationTypes'
      BY <1>0 DEF MigrationTypes
    <2>2. Typed(lite)' /\ Typed(pg)' /\ Typed(base)'
      BY <1>0 DEF StoreTypes, Typed
    <2> QED
      BY <1>0, <2>1, <2>2 DEF StoreTypes
  <1>2. KeysInv' /\ BaseInv'
    <2>1. Distinct(pg'["proofs"])
      BY <1>0 DEF KeysInv
    <2> QED
      BY <1>0, <2>1, PostgresKeys
  <1>3. ASSUME backend = "sqlite" PROVE CopyInv'
    <2>1. ASSUME NEW t \in {"readings", "commands"}, NEW row \in AnyRow(t)
          PROVE  Occ(pg'[t], row) + ToCome(t, row)' <= RunsFor(t)'
      <3>1. Occ(pg[t], row) + ToCome(t, row) <= RunsFor(t)
        BY <1>3, <1>s DEF CopyInv
      <3>2. ToCome(t, row)' = 0 /\ RunsFor(t)' = runs /\ RunsFor(t) <= runs /\ RunsFor(t) \in Int
        BY <1>0 DEF ToCome, RunsFor, Number
      <3>3. ToCome(t, row) \in Nat /\ Occ(pg[t], row) \in Nat
        <4>1. \E S : pg[t] \in Seq(S)
          BY <1>0 DEF StoreTypes, Typed
        <4>2. mig = Number(t) => \E S : left \in Seq(S)
          BY <1>0 DEF StoreTypes, MigrationTypes, Number
        <4>3. mig = Number(t) => Occ(left, row) \in Nat
          BY <4>2, PlacesFinite
        <4>4. Occ(pg[t], row) \in Nat
          BY <4>1, PlacesFinite
        <4> QED
          BY <4>3, <4>4 DEF ToCome
      <3> QED
        BY <1>0, <3>1, <3>2, <3>3
    <2> QED
      BY <1>0, <1>3, <1>s, <2>1 DEF CopyInv, AnyRow, Number
  <1>4. ASSUME backend = "sqlite" PROVE SqliteInv'
    <2>1. Copied' \in SUBSET Copied
      BY <1>0 DEF Copied, RowsOf
    <2>2. \A c \in 1..MaxCommands : Executed(c)' = Executed(c)
      BY <1>0 DEF Executed
    <2> QED
      BY <1>0, <1>3, <1>4, <1>s, <2>1, <2>2 DEF SqliteInv
  <1>5. ASSUME backend = "postgres" PROVE PgInv'
    <2>1. PgInv /\ Ids' = Ids
      BY <1>0, <1>5 DEF StoreInv, Ids, IdsOf
    <2>2. RunsFor("commands")' = runs
      BY <1>0 DEF RunsFor
    <2>3. ASSUME NEW c \in 1..MaxCommands
          PROVE  acted[c] + ToExecute(c)' <= RunsFor("commands")' + (IF dirty THEN 1 ELSE 0)
      <3>1. PICK k \in Nat, o \in Nat : k = ToCome("commands", Pending(c)) /\ o = Occ(pg["commands"], Pending(c))
        BY <1>0, Counts
      <3>2. PICK n \in Int : n = RunsFor("commands") /\ n <= runs
        BY <1>0, Counts
      <3>3. ToExecute(c) = o + k /\ ToExecute(c)' = o + 0
        BY <1>0, <3>1 DEF ToExecute, ToCome, Number
      <3>4. acted[c] + (o + k) <= n + (IF dirty THEN 1 ELSE 0) /\ acted[c] \in Nat
        BY <1>0, <2>1, <3>2, <3>3 DEF PgInv, StoreTypes
      <3> QED
        BY <1>0, <2>2, <3>2, <3>3, <3>4
    <2> QED
      BY <1>0, <2>1, <2>2, <2>3 DEF PgInv
  <1> QED
    BY <1>0, <1>1, <1>2, <1>4, <1>5 DEF StoreInv

LEMMA ProofsStep == StoreInv /\ _migrate_proofs => StoreInv'
  <1> SUFFICES ASSUME StoreInv, _migrate_proofs PROVE StoreInv'
    OBVIOUS
  <1>0. /\ StoreTypes /\ KeysInv /\ BaseInv
        /\ mig = 3 /\ mig' = 0 /\ left = <<>> /\ left' = left
        /\ runs \in Nat /\ runs > 0 /\ result' = "ok"
        /\ pg' = [pg EXCEPT !["proofs"] = @ \o NewProofs]
        /\ UNCHANGED <<lite, backend, stack, time, runs, base, acted, dirty>>
    BY TableNames DEF StoreInv, _migrate_proofs, SqliteInv, StoreTypes, MigrationTypes
  <1>s. backend = "sqlite" => SqliteInv /\ CopyInv
    BY DEF StoreInv, SqliteInv
  <1>r. PICK r : r = pg["proofs"]
    OBVIOUS
  <1>l. PICK l : l = lite["proofs"]
    OBVIOUS
  <1>K. PICK K : K = {i \in DOMAIN l : l[i] \notin {r[j] : j \in DOMAIN r}}
    OBVIOUS
  <1>n. PICK new : new = Rows(l, K)
    OBVIOUS
  <1>1. NewProofs = new
    BY <1>r, <1>l, <1>K, <1>n DEF NewProofs
  <1>2. /\ r \in Seq(1..MaxProofs) /\ l \in Seq(1..MaxProofs) /\ Distinct(r) /\ Distinct(l)
        /\ K \in SUBSET DOMAIN l
    BY <1>0, <1>r, <1>l, <1>K DEF StoreTypes, Typed, KeysInv
  <1>3. /\ new \in Seq(1..MaxProofs) /\ Distinct(new)
        /\ \A i \in DOMAIN new : \E k \in K : new[i] = l[k]
        /\ \A k \in K : \E i \in DOMAIN new : new[i] = l[k]
    BY <1>2, <1>n, RowsKept
  <1>4. PICK s : s = r \o new
    OBVIOUS
  <1>5. /\ s \in Seq(1..MaxProofs) /\ Len(r) \in Nat /\ Len(new) \in Nat
        /\ DOMAIN r = 1..Len(r) /\ DOMAIN new = 1..Len(new) /\ DOMAIN s = 1..(Len(r) + Len(new))
        /\ \A i \in 1..(Len(r) + Len(new)) : s[i] = IF i <= Len(r) THEN r[i] ELSE new[i - Len(r)]
    BY <1>2, <1>3, <1>4, ConcatProperties, LenProperties
  <1>6. \A i \in DOMAIN r, j \in DOMAIN new : r[i] # new[j]
    BY <1>3, <1>K
  <1>7. Distinct(s)
    <2> SUFFICES ASSUME NEW i \in 1..(Len(r) + Len(new)), NEW j \in 1..(Len(r) + Len(new)), s[i] = s[j], i # j
                 PROVE  FALSE
      BY <1>5 DEF Distinct
    <2>1. CASE i <= Len(r) /\ j <= Len(r)
      BY <1>2, <1>5, <2>1 DEF Distinct
    <2>2. CASE i <= Len(r) /\ j > Len(r)
      <3>1. s[i] = r[i] /\ s[j] = new[j - Len(r)] /\ i \in DOMAIN r /\ j - Len(r) \in DOMAIN new
        BY <1>5, <2>2
      <3> QED
        BY <1>6, <3>1
    <2>3. CASE i > Len(r) /\ j <= Len(r)
      <3>1. s[j] = r[j] /\ s[i] = new[i - Len(r)] /\ j \in DOMAIN r /\ i - Len(r) \in DOMAIN new
        BY <1>5, <2>3
      <3> QED
        BY <1>6, <3>1
    <2>4. CASE i > Len(r) /\ j > Len(r)
      <3>1. s[i] = new[i - Len(r)] /\ s[j] = new[j - Len(r)] /\ i - Len(r) \in DOMAIN new /\ j - Len(r) \in DOMAIN new
        BY <1>5, <2>4
      <3>2. i - Len(r) = j - Len(r)
        BY <1>3, <3>1 DEF Distinct
      <3> QED
        BY <1>5, <3>2
    <2> QED
      BY <1>5, <2>1, <2>2, <2>3, <2>4
  <1>8. \A k \in DOMAIN l : \E i \in DOMAIN s : s[i] = l[k]
    <2> SUFFICES ASSUME NEW k \in DOMAIN l PROVE \E i \in DOMAIN s : s[i] = l[k]
      OBVIOUS
    <2>1. CASE k \in K
      <3>1. PICK j \in DOMAIN new : new[j] = l[k]
        BY <1>3, <2>1
      <3>2. j + Len(r) \in DOMAIN s /\ s[j + Len(r)] = new[j]
        BY <1>5
      <3> QED
        BY <3>1, <3>2
    <2>2. CASE k \notin K
      <3>1. PICK j \in DOMAIN r : r[j] = l[k]
        BY <1>K, <2>2
      <3>2. j \in DOMAIN s /\ s[j] = r[j]
        BY <1>5
      <3> QED
        BY <3>1, <3>2
    <2> QED
      BY <2>1, <2>2
  <1>9. /\ DOMAIN pg' = AllTables /\ pg'["proofs"] = s
        /\ pg'["readings"] = pg["readings"] /\ pg'["commands"] = pg["commands"]
    BY <1>0, <1>1, <1>4, <1>r DEF StoreTypes, Typed, AllTables
  <1>10. StoreTypes'
    <2>1. MigrationTypes'
      BY <1>0 DEF MigrationTypes
    <2>2. Typed(lite)' /\ Typed(pg)' /\ Typed(base)'
      BY <1>0, <1>5, <1>9 DEF StoreTypes, Typed
    <2> QED
      BY <1>0, <2>1, <2>2 DEF StoreTypes
  <1>11. KeysInv' /\ BaseInv'
    BY <1>0, <1>7, <1>9, PostgresKeys
  <1>12. ASSUME backend = "sqlite" PROVE CopyInv'
    <2>1. \A t \in {"readings", "commands"} : \A row :
            /\ RunsFor(t)' = RunsFor(t) /\ ToCome(t, row)' = ToCome(t, row) /\ pg'[t] = pg[t]
      BY <1>0, <1>9 DEF RunsFor, ToCome, Number
    <2>2. \A t \in {"readings", "commands"} : RowsOf(base, t)' = RowsOf(base, t) /\ RowsOf(lite, t)' = RowsOf(lite, t)
      BY <1>0 DEF RowsOf
    <2>3. RowsOf(base, "proofs")' \in SUBSET RowsOf(pg, "proofs")'
      <3>1. RowsOf(lite, "proofs") = {l[i] : i \in DOMAIN l} /\ RowsOf(pg', "proofs") = {s[i] : i \in DOMAIN s}
        BY <1>9, <1>l DEF RowsOf
      <3>2. RowsOf(lite, "proofs") \in SUBSET RowsOf(pg', "proofs")
        BY <1>8, <3>1
      <3>3. RowsOf(base, "proofs")' = RowsOf(base, "proofs") /\ RowsOf(pg, "proofs")' = RowsOf(pg', "proofs")
        BY <1>0 DEF RowsOf
      <3> QED
        BY <1>0, <3>2, <3>3 DEF BaseInv
    <2>4. ASSUME NEW t \in {"readings", "commands"}
          PROVE  /\ \A row \in AnyRow(t) : Occ(pg'[t], row) + ToCome(t, row)' <= RunsFor(t)'
                 /\ mig' >= Number(t) \/ result' = "ok" =>
                      \A row \in RowsOf(base, t)' \cap RowsOf(lite, t)' : Occ(pg'[t], row) + ToCome(t, row)' >= 1
      <3>1. mig >= Number(t)
        BY <1>0 DEF Number
      <3> QED
        BY <1>0, <1>12, <1>s, <2>1, <2>2, <3>1 DEF CopyInv
    <2>5. mig' > 0 => Distinct(left')
      BY <1>0
    <2> QED
      BY <2>3, <2>4, <2>5 DEF CopyInv, AnyRow, Number
  <1>13. ASSUME backend = "sqlite" PROVE SqliteInv'
    <2>1. Copied' = Copied
      BY <1>0, <1>9 DEF Copied, RowsOf
    <2>2. \A c \in 1..MaxCommands : Executed(c)' = Executed(c)
      BY <1>0 DEF Executed
    <2> QED
      BY <1>0, <1>12, <1>13, <1>s, <2>1, <2>2 DEF SqliteInv
  <1>14. ASSUME backend = "postgres" PROVE PgInv'
    <2>1. PgInv /\ Ids' = Ids
      BY <1>9, <1>0, <1>14 DEF StoreInv, Ids, IdsOf
    <2>2. RunsFor("commands")' = RunsFor("commands")
      BY <1>0 DEF RunsFor, Number
    <2>3. \A c \in 1..MaxCommands : ToExecute(c)' = ToExecute(c)
      BY <1>0, <1>9 DEF ToExecute, ToCome, Number
    <2> QED
      BY <1>0, <2>1, <2>2, <2>3 DEF PgInv
  <1> QED
    BY <1>0, <1>10, <1>11, <1>13, <1>14 DEF StoreInv

LEMMA BatchStep ==
  ASSUME StoreInv, _migrate_table, left # <<>> /\ BatchRows > 0 PROVE StoreInv'
  <1>t. PICK t : t = Tables[mig]
    OBVIOUS
  <1>S. PICK S : S = AnyRow(t)
    OBVIOUS
  <1>s. backend = "sqlite" => SqliteInv /\ CopyInv
    BY DEF StoreInv, SqliteInv
  <1>0. /\ StoreTypes /\ KeysInv /\ BaseInv
        /\ mig \in {1, 2} /\ mig = Number(t) /\ t \in {"readings", "commands"}
        /\ left \in Seq(S) /\ pg[t] \in Seq(S)
        /\ UNCHANGED <<lite, mig, backend, stack, time, runs, result, base, acted, dirty>>
    <2>1. /\ StoreTypes /\ KeysInv /\ BaseInv
          /\ mig \in 1..2 /\ UNCHANGED <<lite, mig, backend, stack, time, runs, result, base, acted, dirty>>
      BY TableNames DEF StoreInv, _migrate_table, SqliteInv, StoreTypes, MigrationTypes
    <2>2. CASE mig = 1
      BY <1>t, <1>S, <2>1, <2>2, TableNames DEF Number, AnyRow, StoreTypes, Typed, MigrationTypes
    <2>3. CASE mig = 2
      BY <1>t, <1>S, <2>1, <2>3, TableNames DEF Number, AnyRow, StoreTypes, Typed, MigrationTypes
    <2> QED
      BY <2>1, <2>2, <2>3
  <1>l. Len(left) \in Nat /\ DOMAIN left = 1..Len(left)
    BY <1>0, LenProperties
  <1>n. PICK n \in 1..Len(left) : n = BatchRows
    <2>1. BatchRows \in 1..Len(left)
      BY <1>l, StoreConstants DEF BatchRows, StoreConstants
    <2> QED
      BY <2>1
  <1>1. Len(left) \in Nat /\ DOMAIN left = 1..Len(left) /\ n \in 1..Len(left) /\ n \in Nat
    BY <1>l, <1>n
  <1>f. PICK first : first = SubSeq(left, 1, n)
    OBVIOUS
  <1>g. PICK rest : rest = SubSeq(left, n + 1, Len(left))
    OBVIOUS
  <1>m. left \in Seq(S)
    BY <1>0
  <1>2. /\ first \in Seq(S) /\ rest \in Seq(S) /\ left = first \o rest
        /\ Len(first) = n /\ \A i \in 1..n : first[i] = left[i]
        /\ Len(rest) = Len(left) - n /\ \A i \in 1..(Len(left) - n) : rest[i] = left[n + i]
    <2>1. Halves(first, rest, left, S, n)
      BY <1>n, <1>f, <1>g, <1>m, Slices
    <2> QED
      BY <2>1 DEF Halves
  <1>3. first \in Seq(S) /\ rest \in Seq(S) /\ Len(first) = n /\ left = first \o rest
    BY <1>2
  <1>4. first \in Seq(S) /\ rest \in Seq(S)
    BY <1>2
  <1>6. /\ left' = rest /\ DOMAIN pg' = AllTables /\ pg'[t] = pg[t] \o first
        /\ \A u \in AllTables : u # t => pg'[u] = pg[u]
    <2>1. pg' = [pg EXCEPT ![t] = @ \o first] /\ left' = rest
      BY <1>t, <1>n, <1>f, <1>g DEF _migrate_table, Columns
    <2> QED
      BY <1>0, <2>1 DEF StoreTypes, Typed, AllTables
  <1>7. pg[t] \o first \in Seq(S)
    BY <1>0, <1>4, ConcatProperties
  <1>8. StoreTypes'
    <2>1. MigrationTypes'
      BY <1>0, <1>2, <1>6, <1>S DEF StoreTypes, MigrationTypes, Number, AnyRow
    <2>2. Typed(pg)'
      BY <1>0, <1>6, <1>7, <1>S DEF StoreTypes, Typed, AnyRow, AllTables
    <2>3. Typed(lite)' /\ Typed(base)'
      BY <1>0 DEF StoreTypes, Typed
    <2> QED
      BY <1>0, <2>1, <2>2, <2>3 DEF StoreTypes
  <1>9. KeysInv' /\ BaseInv'
    <2>1. Distinct(pg'["proofs"])
      BY <1>0, <1>6 DEF KeysInv, AllTables
    <2> QED
      BY <1>0, <2>1, PostgresKeys
  <1>10. \A row : Occ(pg'[t], row) + Occ(left', row) = Occ(pg[t], row) + Occ(left, row)
    <2> SUFFICES ASSUME NEW row
                 PROVE  Occ(pg'[t], row) + Occ(left', row) = Occ(pg[t], row) + Occ(left, row)
      OBVIOUS
    <2>1. Occ(pg[t] \o first, row) = Occ(pg[t], row) + Occ(first, row)
      BY <1>0, <1>4, OccConcat
    <2>2. Occ(left, row) = Occ(first, row) + Occ(rest, row)
      <3>1. Occ(first \o rest, row) = Occ(first, row) + Occ(rest, row)
        BY <1>4, OccConcat
      <3> QED
        BY <1>3, <3>1
    <2>3. Occ(pg[t], row) \in Nat /\ Occ(first, row) \in Nat /\ Occ(rest, row) \in Nat
      BY <1>0, <1>4, PlacesFinite
    <2> QED
      BY <1>6, <2>1, <2>2, <2>3
  <1>11. ASSUME backend = "sqlite" PROVE CopyInv'
    <2>1. ASSUME NEW u \in {"readings", "commands"}, NEW row
          PROVE  Occ(pg'[u], row) + ToCome(u, row)' = Occ(pg[u], row) + ToCome(u, row)
      <3>1. CASE u = t
        BY <1>0, <1>10, <3>1 DEF ToCome
      <3>2. CASE u # t
        <4>1. pg'[u] = pg[u] /\ ToCome(u, row)' = 0 /\ ToCome(u, row) = 0
          BY <1>0, <1>6, <2>1, <3>2 DEF ToCome, Number, AllTables
        <4> QED
          BY <4>1
      <3> QED
        BY <3>1, <3>2
    <2>2. \A u \in {"readings", "commands"} :
            /\ RunsFor(u)' = RunsFor(u) /\ RowsOf(base, u)' = RowsOf(base, u) /\ RowsOf(lite, u)' = RowsOf(lite, u)
      BY <1>0 DEF RunsFor, RowsOf
    <2>3. ASSUME NEW u \in {"readings", "commands"}
          PROVE  /\ \A row \in AnyRow(u) : Occ(pg'[u], row) + ToCome(u, row)' <= RunsFor(u)'
                 /\ mig' >= Number(u) \/ result' = "ok" =>
                      \A row \in RowsOf(base, u)' \cap RowsOf(lite, u)' : Occ(pg'[u], row) + ToCome(u, row)' >= 1
      BY <1>0, <1>11, <1>s, <2>1, <2>2 DEF CopyInv
    <2>4. Distinct(left')
      <3>1. Distinct(left)
        BY <1>0, <1>11, <1>s DEF CopyInv
      <3>2. DOMAIN rest = 1..(Len(left) - n)
        BY <1>2, LenProperties
      <3> SUFFICES ASSUME NEW i \in 1..(Len(left) - n), NEW j \in 1..(Len(left) - n), rest[i] = rest[j]
                   PROVE  i = j
        BY <1>6, <3>2 DEF Distinct
      <3>3. left[n + i] = left[n + j] /\ n + i \in DOMAIN left /\ n + j \in DOMAIN left
        BY <1>1, <1>2
      <3>4. n + i = n + j
        BY <3>1, <3>3 DEF Distinct
      <3> QED
        BY <1>1, <3>4
    <2>5. result' # "ok"
      BY <1>0 DEF StoreTypes, MigrationTypes
    <2> QED
      BY <1>0, <2>3, <2>4, <2>5 DEF CopyInv, AnyRow, Number
  <1>13. Copied' \in SUBSET Copied
    <2>1. CASE mig = 1
      <3>1. pg'["commands"] = pg["commands"]
        BY <1>0, <1>6, <2>1 DEF Number, AllTables
      <3> QED
        BY <1>0, <2>1, <3>1 DEF Copied, RowsOf
    <2>2. CASE mig = 2
      <3>1. t = "commands"
        BY <1>0, <2>2 DEF Number
      <3>2. ASSUME NEW i \in DOMAIN left' PROVE left'[i] \in Copied
        <4>1. n + i \in DOMAIN left /\ rest[i] = left[n + i]
          <5>1. DOMAIN rest = 1..Len(rest)
            BY <1>4, LenProperties
          <5> QED
            BY <1>1, <1>2, <1>6, <3>2, <5>1
        <4> QED
          BY <1>6, <2>2, <4>1 DEF Copied
      <3>3. ASSUME NEW i \in DOMAIN pg'["commands"] PROVE pg'["commands"][i] \in Copied
        <4>1. PICK r : r = pg["commands"]
          OBVIOUS
        <4>2. /\ r \in Seq(S) /\ Len(r) \in Nat /\ DOMAIN r = 1..Len(r)
              /\ i \in 1..(Len(r) + n)
              /\ pg'["commands"][i] = IF i <= Len(r) THEN r[i] ELSE first[i - Len(r)]
          <5>1. r \in Seq(S) /\ Len(r) \in Nat /\ DOMAIN r = 1..Len(r)
            BY <1>0, <3>1, <4>1, LenProperties
          <5>2. /\ r \o first \in Seq(S) /\ Len(r \o first) = Len(r) + n
                /\ \A k \in 1..(Len(r) + n) :
                     (r \o first)[k] = IF k <= Len(r) THEN r[k] ELSE first[k - Len(r)]
            <6>1. /\ r \o first \in Seq(S) /\ Len(r \o first) = Len(r) + Len(first)
                  /\ \A k \in 1..(Len(r) + Len(first)) :
                       (r \o first)[k] = IF k <= Len(r) THEN r[k] ELSE first[k - Len(r)]
              BY <1>4, <5>1, ConcatProperties
            <6> QED
              BY <1>3, <6>1
          <5>3. DOMAIN (r \o first) = 1..(Len(r) + n)
            BY <5>2, LenProperties
          <5>4. pg'["commands"] = r \o first
            BY <1>6, <3>1, <4>1
          <5> QED
            BY <3>3, <5>1, <5>2, <5>3, <5>4
        <4>3. CASE i <= Len(r)
          <5>1. i \in DOMAIN r /\ pg'["commands"][i] = r[i]
            BY <3>3, <4>2, <4>3
          <5> QED
            BY <4>1, <5>1 DEF Copied, RowsOf
        <4>4. CASE i > Len(r)
          <5>1. i - Len(r) \in DOMAIN left /\ pg'["commands"][i] = left[i - Len(r)]
            BY <1>1, <1>2, <4>2, <4>4
          <5> QED
            BY <2>2, <5>1 DEF Copied
        <4> QED
          BY <4>2, <4>3, <4>4
      <3> QED
        BY <1>0, <2>2, <3>2, <3>3 DEF Copied, RowsOf
    <2> QED
      BY <1>0, <2>1, <2>2
  <1>12. ASSUME backend = "sqlite" PROVE SqliteInv'
    <2>2. \A c \in 1..MaxCommands : Executed(c)' = Executed(c)
      BY <1>0 DEF Executed
    <2> QED
      BY <1>0, <1>11, <1>12, <1>13, <1>s, <2>2 DEF SqliteInv
  <1>14. ASSUME backend = "postgres" PROVE PgInv'
    <2>1. PgInv
      BY <1>14 DEF StoreInv
    <2>2. RunsFor("commands")' = RunsFor("commands")
      BY <1>0 DEF RunsFor
    <2>3. \A row : Occ(pg'["commands"], row) + ToCome("commands", row)'
                     = Occ(pg["commands"], row) + ToCome("commands", row)
      <3>1. CASE mig = 1
        <4>1. pg'["commands"] = pg["commands"]
          BY <1>0, <1>6, <3>1 DEF Number, AllTables
        <4> QED
          BY <1>0, <3>1, <4>1 DEF ToCome, Number
      <3>2. CASE mig = 2
        <4>1. t = "commands"
          BY <1>0, <3>2 DEF Number
        <4> QED
          BY <1>0, <1>10, <3>2, <4>1 DEF ToCome, Number
      <3> QED
        BY <1>0, <3>1, <3>2
    <2>4. \A c \in 1..MaxCommands : ToExecute(c)' = ToExecute(c)
      BY <2>3 DEF ToExecute
    <2>5. Ids' \in SUBSET Ids /\ (mig = 2 => IdsOf(left') \in SUBSET Ids)
      <3>1. \A r \in Copied : r.id \in Ids
        BY <2>1 DEF PgInv, Copied, RowsOf, Ids, IdsOf
      <3>2. /\ \A i \in DOMAIN pg'["commands"] : pg'["commands"][i] \in Copied'
            /\ mig = 2 => \A i \in DOMAIN left' : left'[i] \in Copied'
        BY <1>0 DEF Copied, RowsOf
      <3> QED
        BY <1>0, <1>13, <3>1, <3>2 DEF Ids, IdsOf
    <2>6. Ids \in SUBSET Ids'
      <3>1. \A i \in DOMAIN pg["commands"] : \E k \in DOMAIN pg'["commands"] : pg'["commands"][k] = pg["commands"][i]
        <4>1. CASE mig = 1
          BY <1>0, <1>6, <4>1 DEF Number, AllTables
        <4>2. CASE mig = 2
          <5>1. t = "commands"
            BY <1>0, <4>2 DEF Number
          <5>2. PICK r : r = pg["commands"]
            OBVIOUS
          <5>3. r \in Seq(S) /\ Len(r) \in Nat /\ DOMAIN r = 1..Len(r)
            BY <1>0, <5>1, <5>2, LenProperties
          <5>4. PICK b : b = r \o first
            OBVIOUS
          <5>5. /\ b \in Seq(S) /\ Len(b) = Len(r) + Len(first)
                /\ \A k \in 1..(Len(r) + Len(first)) : b[k] = IF k <= Len(r) THEN r[k] ELSE first[k - Len(r)]
            BY <1>4, <5>3, <5>4, ConcatProperties
          <5>6. DOMAIN b = 1..(Len(r) + n) /\ \A k \in 1..Len(r) : b[k] = r[k]
            BY <1>2, <1>3, <5>3, <5>5, LenProperties
          <5>7. pg'["commands"] = b
            BY <1>6, <5>1, <5>2, <5>4
          <5>8. \A i \in DOMAIN r : i \in DOMAIN b /\ b[i] = r[i]
            BY <1>1, <5>3, <5>6
          <5>9. pg["commands"] = r
            BY <5>2
          <5> QED
            BY <5>7, <5>8, <5>9
        <4> QED
          BY <1>0, <4>1, <4>2
      <3> QED
        BY <1>0, <3>1 DEF Ids, IdsOf
    <2> QED
      BY <1>0, <2>1, <2>2, <2>4, <2>5, <2>6 DEF PgInv
  <1> QED
    BY <1>0, <1>8, <1>9, <1>12, <1>14 DEF StoreInv, StoreTypes

LEMMA NextTableStep ==
  ASSUME StoreInv, _migrate_table, ~(left # <<>> /\ BatchRows > 0) PROVE StoreInv'
  <1>s. backend = "sqlite" => SqliteInv /\ CopyInv
    BY DEF StoreInv, SqliteInv
  <1>0. /\ StoreTypes /\ KeysInv /\ BaseInv
        /\ mig \in {1, 2} /\ mig' = mig + 1
        /\ left' = (IF mig = 1 THEN lite["commands"] ELSE <<>>)
        /\ UNCHANGED <<lite, pg, backend, stack, time, runs, result, base, acted, dirty>>
    <2>1. /\ StoreTypes /\ KeysInv /\ BaseInv /\ mig \in 1..2
      BY TableNames DEF StoreInv, _migrate_table, SqliteInv, StoreTypes, MigrationTypes
    <2>2. /\ Open(mig + 1)
          /\ UNCHANGED <<lite, pg, backend, stack, time, runs, result, base, acted, dirty>>
      BY DEF _migrate_table
    <2>3. mig' = mig + 1 /\ left' = (IF mig = 1 THEN lite["commands"] ELSE <<>>)
      <3>1. CASE mig = 1
        BY <2>2, <3>1, TableNames DEF Open
      <3>2. CASE mig = 2
        BY <2>2, <3>2, TableNames DEF Open
      <3> QED
        BY <2>1, <3>1, <3>2
    <2> QED
      BY <2>1, <2>2, <2>3
  <1>1. left = <<>>
    <2>1. \E S : left \in Seq(S)
      BY <1>0 DEF StoreTypes, MigrationTypes
    <2>2. left # <<>> => Len(left) \in Nat \ {0}
      BY <2>1, EmptySeq
    <2> QED
      BY <2>2, StoreConstants DEF BatchRows, StoreConstants
  <1>2. lite["commands"] \in Seq(Commands) /\ Distinct(lite["commands"]) /\ pg["commands"] \in Seq(Commands)
    BY <1>0 DEF StoreTypes, Typed, KeysInv, Distinct
  <1>3. StoreTypes'
    <2>1. MigrationTypes'
      BY <1>0, <1>2 DEF StoreTypes, MigrationTypes
    <2>2. Typed(lite)' /\ Typed(pg)' /\ Typed(base)'
      BY <1>0 DEF StoreTypes, Typed
    <2> QED
      BY <1>0, <2>1, <2>2 DEF StoreTypes
  <1>4. KeysInv' /\ BaseInv'
    <2>1. Distinct(pg'["proofs"])
      BY <1>0 DEF KeysInv
    <2> QED
      BY <1>0, <2>1, PostgresKeys
  <1>5. ASSUME backend = "sqlite" PROVE CopyInv'
    <2>0. \A t \in {"readings", "commands"} :
            RowsOf(base, t)' = RowsOf(base, t) /\ RowsOf(lite, t)' = RowsOf(lite, t)
      BY <1>0 DEF RowsOf
    <2>1. \A row : ToCome("readings", row) = 0 /\ ToCome("readings", row)' = 0 /\ ToCome("commands", row) = 0
      BY <1>0, <1>1, NoOcc DEF ToCome, Number
    <2>2. RunsFor("readings") = runs /\ RunsFor("readings")' = runs
      BY <1>0 DEF RunsFor, Number
    <2>3. /\ mig = 1 => RunsFor("commands") = runs - 1
          /\ mig = 2 => RunsFor("commands") = runs
          /\ RunsFor("commands")' = runs
      BY <1>0 DEF RunsFor, Number
    <2>4. \A row : ToCome("commands", row)' = IF mig = 1 THEN Occ(lite["commands"], row) ELSE 0
      BY <1>0 DEF ToCome, Number
    <2>5. \A row : /\ Occ(lite["commands"], row) \in Nat /\ Occ(lite["commands"], row) <= 1
                   /\ Occ(pg["commands"], row) \in Nat
                   /\ row \in RowsOf(lite, "commands") => Occ(lite["commands"], row) >= 1
      BY <1>2, OccDistinct, PlacesFinite, OccMember DEF Distinct, RowsOf
    <2>6. ASSUME NEW row \in 0..MaxTime
          PROVE  Occ(pg'["readings"], row) + ToCome("readings", row)' <= RunsFor("readings")'
      <3>1. Occ(pg["readings"], row) + ToCome("readings", row) <= RunsFor("readings")
        BY <1>5, <1>s DEF CopyInv, AnyRow
      <3> QED
        BY <1>0, <2>1, <2>2, <3>1
    <2>7. ASSUME NEW row \in Commands
          PROVE  Occ(pg'["commands"], row) + ToCome("commands", row)' <= RunsFor("commands")'
      <3>1. Occ(pg["commands"], row) + ToCome("commands", row) <= RunsFor("commands")
        BY <1>5, <1>s DEF CopyInv, AnyRow
      <3>2. runs \in Nat
        BY <1>0 DEF StoreTypes, MigrationTypes
      <3> QED
        BY <1>0, <2>1, <2>3, <2>4, <2>5, <3>1, <3>2
    <2>8. ASSUME NEW row \in RowsOf(base, "readings")' \cap RowsOf(lite, "readings")'
          PROVE  Occ(pg'["readings"], row) + ToCome("readings", row)' >= 1
      <3>1. Occ(pg["readings"], row) + ToCome("readings", row) >= 1
        BY <1>0, <1>5, <1>s, <2>0, <2>8 DEF CopyInv, Number
      <3> QED
        BY <1>0, <2>1, <3>1
    <2>9. ASSUME NEW row \in RowsOf(base, "commands")' \cap RowsOf(lite, "commands")'
          PROVE  Occ(pg'["commands"], row) + ToCome("commands", row)' >= 1
      <3>1. CASE mig = 1
        BY <1>0, <2>0, <2>4, <2>5, <2>9, <3>1
      <3>2. CASE mig = 2
        <4>1. Occ(pg["commands"], row) + ToCome("commands", row) >= 1
          BY <1>0, <1>5, <1>s, <2>0, <2>9, <3>2 DEF CopyInv, Number
        <4> QED
          BY <1>0, <2>1, <2>4, <3>2, <4>1
      <3> QED
        BY <1>0, <3>1, <3>2
    <2>10. Distinct(left')
      BY <1>0, <1>2 DEF Distinct
    <2>11. result' # "ok"
      BY <1>0 DEF StoreTypes, MigrationTypes
    <2> QED
      BY <2>6, <2>7, <2>8, <2>9, <2>10, <2>11 DEF CopyInv, AnyRow
  <1>6. ASSUME backend = "sqlite" PROVE SqliteInv'
    <2>1. \A r \in Copied' : r \in RowsOf(pg, "commands") \/ r \in RowsOf(lite, "commands")
      BY <1>0 DEF Copied, RowsOf
    <2>2. \A c \in 1..MaxCommands : Executed(c)' = Executed(c)
      BY <1>0 DEF Executed
    <2>3. \A r \in Copied' : r.id \in DOMAIN lite["commands"]
      <3>1. \A r \in RowsOf(lite, "commands") : r.id \in DOMAIN lite["commands"]
        BY <1>0 DEF KeysInv, RowsOf
      <3>2. \A r \in RowsOf(pg, "commands") : r.id \in DOMAIN lite["commands"]
        BY <1>0, <1>6, <1>s DEF SqliteInv, Copied
      <3> QED
        BY <2>1, <3>1, <3>2
    <2>4. ~dirty => \A c \in 1..MaxCommands : acted[c] > 0 => Pending(c) \notin Copied'
      <3> SUFFICES ASSUME ~dirty, NEW c \in 1..MaxCommands, acted[c] > 0, Pending(c) \in Copied' PROVE FALSE
        OBVIOUS
      <3>1. Pending(c) \notin RowsOf(pg, "commands")
        BY <1>0, <1>6, <1>s DEF SqliteInv, Copied
      <3>2. PICK i \in DOMAIN lite["commands"] : lite["commands"][i] = Pending(c)
        BY <2>1, <3>1 DEF RowsOf
      <3>3. i = c /\ lite["commands"][c].status = "pending"
        BY <1>0, <3>2 DEF KeysInv, Pending
      <3>4. Executed(c)
        BY <1>0, <1>6, <1>s DEF SqliteInv
      <3> QED
        BY <3>3, <3>4 DEF Executed
    <2> QED
      BY <1>0, <1>5, <1>6, <1>s, <2>2, <2>3, <2>4 DEF SqliteInv
  <1>7. ASSUME backend = "postgres" PROVE PgInv'
    <2>1. PgInv /\ Ids' = Ids
      BY <1>0, <1>7 DEF StoreInv, Ids, IdsOf
    <2>2. mig' = 2 => IdsOf(left') \in SUBSET Ids
      BY <1>0 DEF Ids
    <2>3. CASE mig = 1
      <3>1. RunsFor("commands") = runs - 1 /\ RunsFor("commands")' = runs /\ runs \in Nat
        BY <1>0, <2>3 DEF RunsFor, Number, StoreTypes, MigrationTypes
      <3>2. ASSUME NEW c \in 1..MaxCommands
            PROVE  acted[c] + ToExecute(c)' <= runs + (IF dirty THEN 1 ELSE 0)
        <4>1. PICK o \in Nat, k \in Nat :
                o = Occ(pg["commands"], Pending(c)) /\ k = Occ(lite["commands"], Pending(c)) /\ k <= 1
          BY <1>2, OccDistinct, PlacesFinite DEF Distinct
        <4>2. ToExecute(c) = o + 0 /\ ToExecute(c)' = o + k
          BY <1>0, <2>3, <4>1 DEF ToExecute, ToCome, Number
        <4>3. PICK n \in Nat, d \in Nat, u \in Nat :
                n = acted[c] /\ d = (IF dirty THEN 1 ELSE 0) /\ u = runs
          BY <1>0, <3>1 DEF StoreTypes
        <4>4. n + (o + 0) <= u - 1 + d
          <5>1. acted[c] + ToExecute(c) <= RunsFor("commands") + (IF dirty THEN 1 ELSE 0)
            BY <2>1 DEF PgInv
          <5> QED
            BY <3>1, <4>2, <4>3, <5>1
        <4>5. n + (o + k) <= u + d
          <5>1. k <= 1
            BY <4>1
          <5> QED
            BY <4>4, <5>1
        <4> QED
          BY <4>2, <4>3, <4>5
      <3>3. \A c \in 1..MaxCommands : acted[c] > 0 => c \in Ids
        BY <2>1 DEF PgInv
      <3> QED
        BY <1>0, <2>1, <2>2, <3>1, <3>2, <3>3 DEF PgInv
    <2>4. CASE mig = 2
      <3>1. RunsFor("commands")' = RunsFor("commands")
        BY <1>0, <2>4 DEF RunsFor, Number
      <3>2. \A c \in 1..MaxCommands : ToExecute(c)' = ToExecute(c)
        BY <1>0, <1>1, <2>4, NoOcc DEF ToExecute, ToCome, Number
      <3> QED
        BY <1>0, <2>1, <2>2, <2>4, <3>1, <3>2 DEF PgInv
    <2> QED
      BY <1>0, <2>3, <2>4
  <1> QED
    BY <1>0, <1>3, <1>4, <1>6, <1>7 DEF StoreInv, StoreTypes

-----------------------------------------------------------------------------
(* Every step, and what it proves.                                         *)

LEMMA StoreStep == StoreInv /\ [StoreNext]_storeVars => StoreInv'
  <1> SUFFICES ASSUME StoreInv, [StoreNext]_storeVars PROVE StoreInv'
    OBVIOUS
  <1>1. CASE insert_reading
    BY <1>1, InsertStep
  <1>2. CASE create_command
    BY <1>2, CreateStep
  <1>3. CASE update_command_status
    BY <1>3, UpdateStep
  <1>4. CASE cleanup_old_readings
    BY <1>4, CleanupStep
  <1>5. CASE \E k \in 1..MaxProofs : insert_proof(k)
    BY <1>5, ProofStep
  <1>6. CASE StoreTick
    BY <1>6, TickStep
  <1>7. CASE StopStack \/ StartStack
    BY <1>7, StackStep
  <1>8. CASE StartMigration
    BY <1>8, BeginStep
  <1>9. CASE _migrate_table
    BY <1>9, BatchStep, NextTableStep
  <1>10. CASE _migrate_proofs
    BY <1>10, ProofsStep
  <1>11. CASE MigrationFails
    BY <1>11, FailStep
  <1>12. CASE UNCHANGED storeVars
    <2>1. UNCHANGED <<lite, pg, time, migration, acted, dirty>> /\ stack' = stack /\ backend' = backend
      BY <1>12 DEF storeVars, migration
    <2>2. /\ backend \in {"sqlite", "postgres"} /\ stack \in {"up", "down"}
          /\ backend = "postgres" => runs > 0 /\ PgInv
      BY DEF StoreInv, StoreTypes, MigrationTypes
    <2> QED
      BY <2>1, <2>2, StillStep
  <1> QED
    BY <1>1, <1>2, <1>3, <1>4, <1>5, <1>6, <1>7, <1>8, <1>9, <1>10, <1>11, <1>12 DEF StoreNext

LEMMA StoreHolds == StoreSpec => []StoreInv
  BY StoreStart, StoreStep, PTL DEF StoreSpec

LEMMA StoreTyped == StoreInv => StoreTypeOK
  <1> SUFFICES ASSUME StoreInv PROVE StoreTypeOK
    OBVIOUS
  <1>0. StoreTypes /\ KeysInv
    BY DEF StoreInv
  <1>1. ASSUME NEW s \in {lite, pg}
        PROVE  /\ \A i \in DOMAIN s["readings"] : s["readings"][i] \in 0..MaxTime
               /\ \A i \in DOMAIN s["commands"] : s["commands"][i] \in Commands
               /\ \A i, j \in DOMAIN s["proofs"] : s["proofs"][i] = s["proofs"][j] => i = j
    <2>1. s["readings"] \in Seq(0..MaxTime) /\ s["commands"] \in Seq(Commands)
      BY <1>0 DEF StoreTypes, Typed
    <2>2. Distinct(s["proofs"])
      BY <1>0 DEF KeysInv
    <2> QED
      BY <2>1, <2>2, ElementOfSeq, LenProperties DEF Distinct
  <1>2. Len(Tables) = 2
    BY TableNames
  <1>3. /\ backend \in {"sqlite", "postgres"} /\ stack \in {"up", "down"}
        /\ mig \in 0..(Len(Tables) + 1) /\ (mig = 0 => left = <<>>)
    BY <1>0, <1>2 DEF StoreTypes, MigrationTypes
  <1> QED
    BY <1>1, <1>3 DEF StoreTypeOK, Commands

LEMMA CopiesOcc == \A t, row : Copies(t, row) = Occ(pg[t], row)
  BY DEF Copies, Occ, Places

\* For batches of any size, however many runs failed anywhere, beside a stack that
\* wrote and cleaned up meanwhile: after a run that reported DONE each row that
\* SQLite held when it was started, and still holds, is in PostgreSQL, a proof
\* once and another row at most once for each run (migrate_sqlite_to_postgres.py 33-94).
THEOREM NothingIsLost == StoreSpec => []NothingLost
  <1>1. StoreInv => NothingLost
    <2> SUFFICES ASSUME StoreInv, result = "ok", backend = "sqlite", NEW t \in AllTables,
                        NEW row \in RowsOf(base, t) \cap RowsOf(lite, t)
                 PROVE  Copies(t, row) \in 1..(IF t = "proofs" THEN 1 ELSE runs)
      BY DEF NothingLost
    <2>0. StoreTypes /\ KeysInv /\ SqliteInv /\ CopyInv
      BY DEF StoreInv, SqliteInv
    <2>1. CASE t \in {"readings", "commands"}
      <3>1. mig = 0 /\ runs \in Nat
        BY <2>0 DEF StoreTypes, MigrationTypes
      <3>2. ToCome(t, row) = 0 /\ RunsFor(t) = runs
        BY <2>1, <3>1 DEF ToCome, RunsFor, Number
      <3>3. row \in AnyRow(t)
        <4>1. \A i \in DOMAIN lite[t] : lite[t][i] \in AnyRow(t)
          <5>1. lite[t] \in Seq(AnyRow(t))
            BY <2>0, <2>1 DEF StoreTypes, Typed, AnyRow
          <5> QED
            BY <5>1, ElementOfSeq, LenProperties
        <4> QED
          BY <4>1 DEF RowsOf
      <3>4. Occ(pg[t], row) + ToCome(t, row) <= RunsFor(t) /\ Occ(pg[t], row) + ToCome(t, row) >= 1
        BY <2>0, <2>1, <3>3 DEF CopyInv
      <3>5. Occ(pg[t], row) \in Nat
        <4>1. \E S : pg[t] \in Seq(S)
          BY <2>0, <2>1 DEF StoreTypes, Typed
        <4> QED
          BY <4>1, PlacesFinite
      <3> QED
        BY <2>1, <3>1, <3>2, <3>4, <3>5, CopiesOcc
    <2>2. CASE t = "proofs"
      <3>1. \E i \in DOMAIN pg["proofs"] : pg["proofs"][i] = row
        BY <2>0, <2>2 DEF CopyInv, RowsOf
      <3>2. pg["proofs"] \in Seq(1..MaxProofs) /\ \A i, j \in DOMAIN pg["proofs"] : pg["proofs"][i] = pg["proofs"][j] => i = j
        BY <2>0 DEF StoreTypes, Typed, KeysInv, Distinct
      <3>3. Occ(pg["proofs"], row) >= 1 /\ Occ(pg["proofs"], row) <= 1 /\ Occ(pg["proofs"], row) \in Nat
        BY <3>1, <3>2, OccMember, OccDistinct, PlacesFinite
      <3> QED
        BY <2>2, <3>3, CopiesOcc
    <2> QED
      BY <2>1, <2>2 DEF AllTables
  <1> QED
    BY <1>1, StoreHolds, PTL

\* For any number of commands and of migrations: a command has been executed at
\* most once for each run that may have copied it while it was pending, plus once
\* if the stack changed SQLite after the first copy, on both stores together; so
\* one run beside a stopped stack repeats none (postgres_backend.py 197-218).
THEOREM NothingIsReplayed == StoreSpec => []NoReplay
  <1>1. StoreInv => NoReplay
    <2> SUFFICES ASSUME StoreInv, NEW c \in 1..MaxCommands
                 PROVE  /\ acted[c] <= runs + (IF dirty \/ runs = 0 THEN 1 ELSE 0)
                        /\ runs = 1 /\ ~dirty => acted[c] <= 1
      BY DEF NoReplay
    <2>0. /\ backend \in {"sqlite", "postgres"} /\ runs \in Nat /\ acted[c] \in Nat
          /\ backend = "postgres" => runs > 0
      BY DEF StoreInv, StoreTypes, MigrationTypes
    <2>1. CASE backend = "sqlite"
      <3>1. acted[c] <= 1
        BY <2>0, <2>1 DEF StoreInv, SqliteInv
      <3> QED
        BY <2>0, <3>1
    <2>2. CASE backend = "postgres"
      <3>1. acted[c] + ToExecute(c) <= RunsFor("commands") + (IF dirty THEN 1 ELSE 0)
        BY <2>2 DEF StoreInv, PgInv
      <3>2. ToExecute(c) \in Nat /\ RunsFor("commands") \in Int /\ RunsFor("commands") <= runs
        BY Counts DEF StoreInv, ToExecute
      <3> QED
        BY <2>0, <2>2, <3>1, <3>2
    <2> QED
      BY <2>0, <2>1, <2>2
  <1> QED
    BY <1>1, StoreHolds, PTL

-----------------------------------------------------------------------------
(* The rows of a chart.                                                    *)

LEMMA Quotient ==
  ASSUME NEW num \in Nat, NEW den \in Nat \ {0}
  PROVE  /\ num \div den \in Nat /\ num % den \in 0..(den - 1)
         /\ num = den * (num \div den) + (num % den)
  <1>1. den \in Nat /\ den > 0
    OBVIOUS
  <1>2. num = den * (num \div den) + (num % den) /\ num \div den \in Nat
    BY <1>1
  <1>3. num % den \in 0..(den - 1)
    BY <1>1
  <1> QED
    BY <1>2, <1>3, Zenon

\* The group of a quotient, cut off or rounded to the even neighbour.
Rounded(num, den) ==
  IF 2 * (num % den) > den \/ (2 * (num % den) = den /\ (num \div den) % 2 = 1)
    THEN num \div den + 1 ELSE num \div den

LEMMA Monotone ==
  ASSUME NEW a \in Nat, NEW b \in Nat, NEW d \in Nat, a <= b
  PROVE  d * a <= d * b /\ d * a \in Nat /\ d * b \in Nat
  OBVIOUS

\* The quotient of a range of n steps is at most n, and n only at its very end.
LEMMA CutOff ==
  ASSUME NEW num \in Nat, NEW den \in Nat \ {0}, NEW n \in Nat, num <= den * n
  PROVE  /\ num \div den \in 0..n
         /\ num % den # 0 => num \div den < n
  <1>1. PICK q \in Nat, m \in 0..(den - 1) :
          /\ q = num \div den /\ m = num % den /\ num = den * q + m
    BY Quotient
  <1>2. q <= n
    <2> SUFFICES ASSUME q > n PROVE FALSE
      BY <1>1
    <2>1. n + 1 <= q /\ n + 1 \in Nat
      BY <1>1
    <2>2. den * (n + 1) <= den * q
      BY <1>1, <2>1, Monotone
    <2>3. den * (n + 1) = den * n + den
      OBVIOUS
    <2> QED
      BY <1>1, <2>2, <2>3
  <1>3. m # 0 => q # n
    BY <1>1
  <1> QED
    BY <1>1, <1>2, <1>3

LEMMA RoundedRange ==
  ASSUME NEW num \in Nat, NEW den \in Nat \ {0}, NEW n \in Nat, num <= den * n
  PROVE  Rounded(num, den) \in 0..n
  <1>1. PICK q \in Nat : q = num \div den
    BY Quotient
  <1>2. PICK m \in 0..(den - 1) : m = num % den
    BY Quotient
  <1>3. q <= n /\ (m # 0 => q < n)
    BY <1>1, <1>2, CutOff
  <1>4. Rounded(num, den) = q + 1 => 2 * m >= den
    BY <1>1, <1>2 DEF Rounded
  <1>5. Rounded(num, den) \in {q, q + 1}
    BY <1>1, <1>2 DEF Rounded
  <1> QED
    BY <1>1, <1>2, <1>3, <1>4, <1>5

\* Numbers of one group are at most a step apart.
LEMMA RoundedNear ==
  ASSUME NEW a \in Nat, NEW b \in Nat, NEW den \in Nat \ {0}, Rounded(a, den) = Rounded(b, den)
  PROVE  a - b <= den /\ b - a <= den
  <1>1. ASSUME NEW num \in Nat
        PROVE  \E g \in Nat : /\ g = Rounded(num, den)
                              /\ 2 * (den * g) - den <= 2 * num /\ 2 * num <= 2 * (den * g) + den
    <2>1. PICK q \in Nat : q = num \div den
      BY Quotient
    <2>2. PICK m \in 0..(den - 1) : m = num % den /\ num = den * q + m
      BY <2>1, Quotient
    <2>3. CASE Rounded(num, den) = q + 1 /\ 2 * m >= den
      <3>1. den * (q + 1) = den * q + den
        OBVIOUS
      <3> QED
        BY <2>1, <2>2, <2>3, <3>1
    <2>4. CASE Rounded(num, den) = q /\ 2 * m <= den
      BY <2>1, <2>2, <2>4
    <2> QED
      BY <2>1, <2>2, <2>3, <2>4 DEF Rounded
  <1>2. PICK g \in Nat : /\ g = Rounded(a, den)
                         /\ 2 * (den * g) - den <= 2 * a /\ 2 * a <= 2 * (den * g) + den
    BY <1>1
  <1>3. 2 * (den * g) - den <= 2 * b /\ 2 * b <= 2 * (den * g) + den
    BY <1>1, <1>2
  <1>4. den * g \in Nat
    OBVIOUS
  <1> QED
    BY <1>2, <1>3, <1>4

LEMMA CutOffNear ==
  ASSUME NEW a \in Nat, NEW b \in Nat, NEW den \in Nat \ {0}, a \div den = b \div den
  PROVE  a - b <= den /\ b - a <= den
  <1>1. PICK q \in Nat, m \in 0..(den - 1) : q = a \div den /\ m = a % den /\ a = den * q + m
    BY Quotient
  <1>2. PICK p \in Nat, k \in 0..(den - 1) : p = b \div den /\ k = b % den /\ b = den * p + k
    BY Quotient
  <1>3. p = q /\ den * q \in Nat
    BY <1>1, <1>2
  <1> QED
    BY <1>1, <1>2, <1>3

-----------------------------------------------------------------------------
LEMMA IntervalSize ==
  ASSUME NEW a \in Int, NEW b \in Int, a <= b
  PROVE  IsFiniteSet(a..b) /\ Cardinality(a..b) = b - a + 1
  BY FS_Interval

\* What get_readings_range_df shows of a range, on either backend.
LEMMA Shown ==
  ASSUME NEW rows \in Seq(0..MaxTime), NEW f \in 0..time, NEW t \in 0..time, time \in 0..MaxTime,
         backend \in {"sqlite", "postgres"}, NEW r, r = CustomRange(f, t),
         NEW shown, shown = fetch_readings_range(rows, r)
  PROVE  /\ Cardinality(shown) <= MaxPoints + 1 \/ (Duplicated(rows) /\ ~Downsampled(r))
         /\ \A i \in InRange(rows, r) : \E j \in shown : Gap(rows[i], rows[j]) * MaxPoints <= Span(r)
  <1>1. PICK a \in Nat, b \in Nat : r.from = a /\ r.to = b /\ a <= b
    <2>1. f \in Nat /\ t \in Nat /\ MinSpan \in Nat
      BY StoreConstants DEF StoreConstants
    <2> QED
      BY <2>1 DEF CustomRange
  <1>2. PICK n \in Nat : n = MaxPoints /\ n > 0
    BY StoreConstants DEF StoreConstants
  <1>3. PICK den \in Nat \ {0} : den = Span(r) /\ b - a <= den /\ (den > 1 => den = b - a)
    <2>1. Span(r) = IF b - a < 1 THEN 1 ELSE b - a
      BY <1>1 DEF Span
    <2>2. /\ Span(r) \in Nat \ {0} /\ b - a <= Span(r)
          /\ Span(r) > 1 => Span(r) = b - a
      BY <1>1, <2>1
    <2> QED
      BY <2>2
  <1>4. PICK K : K = InRange(rows, r)
    OBVIOUS
  <1>5. /\ K = {i \in DOMAIN rows : a <= rows[i] /\ rows[i] <= b} /\ DOMAIN rows = 1..Len(rows)
        /\ Len(rows) \in Nat /\ \A i \in DOMAIN rows : rows[i] \in Nat
    <2>1. DOMAIN rows = 1..Len(rows) /\ Len(rows) \in Nat /\ \A i \in 1..Len(rows) : rows[i] \in 0..MaxTime
      BY LenProperties, ElementOfSeq
    <2>2. K = {i \in DOMAIN rows : a <= rows[i] /\ rows[i] <= b}
      BY <1>1, <1>4 DEF InRange
    <2> QED
      BY <2>1, <2>2
  <1>6. CASE ~Downsampled(r)
    <2>1. shown = K /\ den <= n
      BY <1>2, <1>3, <1>4, <1>6 DEF fetch_readings_range, Downsampled
    <2>2. ~Duplicated(rows) => Cardinality(K) <= n + 1
      <3> SUFFICES ASSUME ~Duplicated(rows) PROVE Cardinality(K) <= n + 1
        OBVIOUS
      <3>1. PICK T : T = a..b
        OBVIOUS
      <3>2. IsFiniteSet(T) /\ Cardinality(T) <= n + 1
        <4>1. a \in Int /\ b \in Int /\ a <= b
          BY <1>1
        <4>2. IsFiniteSet(a..b) /\ Cardinality(a..b) = b - a + 1
          BY <4>1, IntervalSize, Zenon
        <4> QED
          BY <1>1, <1>3, <2>1, <3>1, <4>2
      <3>3. PICK g : g = [i \in K |-> rows[i]]
        OBVIOUS
      <3>4. g \in Injection(K, T)
        BY <1>5, <3>1, <3>3 DEF Injection, IsInjective, Duplicated
      <3>5. Cardinality(K) <= Cardinality(T) /\ IsFiniteSet(K)
        BY <3>2, <3>4, FS_Injection
      <3>6. Cardinality(K) \in Nat /\ Cardinality(T) \in Nat
        BY <3>2, <3>5, FS_CardinalityType
      <3> QED
        BY <3>2, <3>5, <3>6
    <2>3. \A i \in K : i \in shown /\ Gap(rows[i], rows[i]) = 0
      BY <1>5, <2>1 DEF Gap
    <2>4. ASSUME NEW i \in K PROVE \E j \in shown : Gap(rows[i], rows[j]) * MaxPoints <= Span(r)
      <3>1. Gap(rows[i], rows[i]) * MaxPoints = 0
        BY <1>2, <2>3
      <3> QED
        BY <1>3, <2>3, <3>1
    <2> QED
      BY <1>2, <1>4, <1>6, <2>1, <2>2, <2>4
  <1>7. CASE Downsampled(r)
    <2>0. den > n /\ den = b - a
      BY <1>2, <1>3, <1>7 DEF Downsampled
    <2>1. PICK num : num = [i \in K |-> (rows[i] - a) * n]
      OBVIOUS
    <2>2. \A i \in K : num[i] \in Nat /\ num[i] <= den * n
      <3> SUFFICES ASSUME NEW i \in K PROVE num[i] \in Nat /\ num[i] <= den * n
        OBVIOUS
      <3>1. PICK x \in Nat : x = rows[i] - a /\ x <= den
        BY <1>1, <1>5, <2>0
      <3>2. n * x <= n * den /\ n * x \in Nat
        BY <3>1, Monotone
      <3> QED
        BY <2>1, <3>1, <3>2
    <2>3. PICK g : g = [i \in K |-> Group(rows[i], r)]
      OBVIOUS
    <2>4. /\ backend = "sqlite" => \A i \in K : g[i] = num[i] \div den
          /\ backend = "postgres" => \A i \in K : g[i] = Rounded(num[i], den)
      BY <1>1, <1>2, <1>3, <2>1, <2>3 DEF Group, Rounded, step_s
    <2>5. \A i \in K : g[i] \in 0..n
      <3>1. CASE backend = "sqlite"
        BY <2>2, <2>4, <3>1, CutOff
      <3>2. CASE backend = "postgres"
        BY <2>2, <2>4, <3>2, RoundedRange
      <3> QED
        BY <3>1, <3>2
    <2>6. \A i, j \in K : g[i] = g[j] => num[i] - num[j] <= den /\ num[j] - num[i] <= den
      <3>1. CASE backend = "sqlite"
        BY <2>2, <2>4, <3>1, CutOffNear
      <3>2. CASE backend = "postgres"
        BY <2>2, <2>4, <3>2, RoundedNear
      <3> QED
        BY <3>1, <3>2
    <2>7. shown = {i \in K : \A j \in K : g[j] = g[i] => i <= j}
      BY <1>4, <1>7, <2>3 DEF fetch_readings_range
    <2>8. Cardinality(shown) <= n + 1
      <3>1. PICK T : T = 0..n
        OBVIOUS
      <3>2. IsFiniteSet(T) /\ Cardinality(T) = n + 1
        <4>1. PICK z \in Int : z = 0 /\ z <= n
          OBVIOUS
        <4>2. n \in Int
          OBVIOUS
        <4>3. IsFiniteSet(z..n) /\ Cardinality(z..n) = n - z + 1
          BY <4>1, <4>2, IntervalSize, Zenon
        <4> QED
          BY <3>1, <4>1, <4>3
      <3>3. PICK h : h = [i \in shown |-> g[i]]
        OBVIOUS
      <3>4. h \in Injection(shown, T)
        <4>1. \A i, j \in shown : g[i] = g[j] => i <= j /\ j <= i /\ i \in Nat /\ j \in Nat
          BY <1>5, <2>7
        <4>2. \A i, j \in shown : g[i] = g[j] => i = j
          BY <4>1
        <4>3. \A i \in shown : g[i] \in T
          BY <2>5, <2>7, <3>1
        <4> QED
          BY <3>3, <4>2, <4>3 DEF Injection, IsInjective
      <3> QED
        BY <3>2, <3>4, FS_Injection
    <2>9. ASSUME NEW i \in K PROVE \E j \in shown : Gap(rows[i], rows[j]) * MaxPoints <= Span(r)
      <3>1. PICK S : S = {j \in K : g[j] = g[i]}
        OBVIOUS
      <3>2. S \in SUBSET Nat /\ S # {}
        BY <1>5, <3>1
      <3>3. PICK j \in S : \A k \in S : j <= k
        BY <3>2, Least
      <3>4. j \in K /\ j \in shown /\ g[j] = g[i]
        BY <2>7, <3>1, <3>3
      <3>5. num[i] - num[j] <= den /\ num[j] - num[i] <= den
        BY <2>6, <3>4
      <3>6. PICK x \in Nat, y \in Nat : x = rows[i] /\ y = rows[j]
        BY <1>5, <3>4
      <3>7. num[i] = (x - a) * n /\ num[j] = (y - a) * n
        BY <2>1, <3>4, <3>6
      <3>8. (x - a) * n - (y - a) * n = (x - y) * n /\ (y - a) * n - (x - a) * n = (y - x) * n
        OBVIOUS
      <3>9. (x - y) * n <= den /\ (y - x) * n <= den
        BY <3>5, <3>7, <3>8
      <3> QED
        BY <1>2, <1>3, <3>4, <3>6, <3>9 DEF Gap
    <2> QED
      BY <1>2, <1>4, <2>8, <2>9
  <1> QED
    BY <1>6, <1>7

\* For every max_points, every range and every table, also one with rows that were
\* copied twice: a range that is thinned out has at most one row more than
\* max_points, and no reading is further than a step from one shown, with either
\* way of rounding (data_access.py 63-74, postgres_backend.py 105-130).
THEOREM RangesAreFaithful == StoreSpec => []RangeFaithful
  <1>1. StoreInv => RangeFaithful
    <2> SUFFICES ASSUME StoreInv, NEW f \in 0..time, NEW t \in 0..time, NEW rows, rows = Store["readings"],
                        NEW r, r = CustomRange(f, t), NEW shown, shown = fetch_readings_range(rows, r)
                 PROVE  /\ Cardinality(shown) <= MaxPoints + 1 \/ (Duplicated(rows) /\ ~Downsampled(r))
                        /\ \A i \in InRange(rows, r) : \E j \in shown : Gap(rows[i], rows[j]) * MaxPoints <= Span(r)
      BY DEF RangeFaithful
    <2>1. rows \in Seq(0..MaxTime) /\ time \in 0..MaxTime /\ backend \in {"sqlite", "postgres"}
      BY DEF StoreInv, StoreTypes, Typed, Store
    <2> QED
      BY <2>1, Shown
  <1> QED
    BY <1>1, StoreHolds, PTL

-----------------------------------------------------------------------------
(* The desk runs one of the three and leaves the others alone.             *)

LEMMA DeskParts == Spec => SettingsSpec /\ StoreSpec /\ ChartsSpec
  <1>1. Init => SettingsInit /\ StoreInit /\ ChartsInit
    BY DEF Init
  <1>2. [Next]_<<desk, settingsVars, storeVars, chartVars>> =>
          [SettingsNext]_settingsVars /\ [StoreNext]_storeVars /\ [ChartsNext]_chartVars
    BY DEF Next
  <1> QED
    BY <1>1, <1>2, PTL DEF Spec, SettingsSpec, StoreSpec, ChartsSpec

\* Every variable of the three modules has its type, in every behaviour of the
\* desk; no proof is twice in a store (postgres_backend.py 263-298), and a
\* cursor is empty while no migration runs (migrate_sqlite_to_postgres.py 33-59).
THEOREM DeskTypes == Spec => []TypeOK
  <1>1. SettingsInv /\ StoreInv /\ ChartsInv => TypeOK
    BY StoreTyped DEF SettingsInv, ChartsInv, TypeOK
  <1>2. SettingsSpec => []SettingsInv
    BY SettingsHold
  <1>3. ChartsSpec => []ChartsInv
    BY ChartsStart, ChartsStep, PTL DEF ChartsSpec
  <1> QED
    BY <1>1, <1>2, <1>3, DeskParts, StoreHolds, PTL
=============================================================================
