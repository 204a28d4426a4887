------------------------------ MODULE Settings ------------------------------
(***************************************************************************)
(* configs/runtime.yml: the dashboard's sessions rewrite it, the collector *)
(* reads it again every config_reload_interval_s, every snapshot reads it  *)
(* for its recommendations, and the GUI process read it once, when it was  *)
(* started.  No lock and no rename guard it: write_text truncates, then    *)
(* writes, and callbacks of different sessions may overlap.                *)
(***************************************************************************)
EXTENDS Integers, FiniteSets

CONSTANTS
  Sessions,       \* browser sessions of the dashboard
  Profiles,       \* values of the seven thresholds that an operator may save
  Default,        \* ThresholdsConfig()
  Readings,       \* rows of readings: metric -> number or NoValue
  Forecasts,      \* display_value of the latest prediction, or NoValue
  NoValue,
  Reload,         \* config_reload_interval_s, in cycles of the collector
  MaxSaves, MaxCrashes   \* bounds of the model

Metrics    == {"temp_c", "humidity_pct", "mq2_raw", "current_ma", "lux"}
Thresholds == [temp_c_max : Int, temp_c_min : Int, humidity_pct_max : Int, mq2_raw_warn : Int,
               mq2_raw_alert : Int, current_ma_max : Int, lux_min : Int]

ASSUME SettingsConstants ==
  /\ Reload \in Nat \ {0} /\ Default \in Profiles /\ MaxSaves \in Nat /\ MaxCrashes \in Nat
  /\ Profiles \subseteq Thresholds /\ Readings \subseteq [Metrics -> Int] /\ Forecasts \subseteq Int

Empty     == [text |-> "empty", thr |-> Default, rest |-> FALSE]
Mangled   == [text |-> "mangled", thr |-> Default, rest |-> FALSE]
Resting   == [pc |-> "idle", thr |-> Default, rest |-> FALSE]

VARIABLES
  file,           \* [text, thr, rest]: rest tells whether fan_auto and ai are there
  form, saver,    \* per session: state.threshold_*, and its save in progress
  gui, startup,   \* the process, and the thresholds it read at import
  limits, due,    \* collector: its thresholds ({} if None), cycles since they were read
  cycled,         \* the collector has had its cycle in this tick
  settled,        \* ghost: ticks since the file last changed
  damaged,        \* ghost: a save met another one's empty file, or was killed there
  saves, kills    \* ghosts: bounded counts

settingsVars ==
  <<file, form, saver, gui, startup, limits, due, cycled, settled, damaged, saves, kills>>
dashboard == <<form, saver, gui, startup>>
collector == <<limits, due, cycled>>

-----------------------------------------------------------------------------
(* Reading the file.                                                       *)

Readable == file.text # "mangled"

\* An empty file is {}: every section takes its defaults.
load_runtime_config == IF file.text = "whole" THEN file.thr ELSE Default

\* Mutant: only the thresholds are kept.
ThresholdsOnly == FALSE

\* yaml.safe_load(text) or {}, and {} if it raises.
KeptSections == file.text = "whole" /\ file.rest

SettingsTypeOK ==
  /\ file \in [text : {"whole", "empty", "mangled"}, thr : Profiles, rest : BOOLEAN]
  /\ form \in [Sessions -> Profiles] /\ startup \in Profiles /\ gui \in {"up", "down"}
  /\ saver \in [Sessions -> [pc : {"idle", "read", "open"}, thr : Profiles, rest : BOOLEAN]]
  /\ limits \in {{}} \cup {{p} : p \in Profiles}
  /\ due \in 0..(Reload + 1) /\ settled \in 0..(Reload + 1)
  /\ cycled \in BOOLEAN /\ damaged \in BOOLEAN
  /\ saves \in 0..MaxSaves /\ kills \in 0..MaxCrashes

SettingsInit ==
  /\ file = [text |-> "whole", thr |-> Default, rest |-> TRUE]
  /\ form = [s \in Sessions |-> Default] /\ saver = [s \in Sessions |-> Resting]
  /\ gui \in {"up", "down"} /\ startup = Default
  /\ limits = {Default} /\ due = 0 /\ cycled = TRUE
  /\ settled = 0 /\ damaged = FALSE /\ saves = 0 /\ kills = 0

-----------------------------------------------------------------------------
(* app/web.py: on_save_thresholds, one step per access to the file.        *)

Writing(s)      == saver[s].pc = "open"
OthersWrite(s)  == \E t \in Sessions \ {s} : Writing(t)

\* The number fields of the page settings.
EditForm(s, p) ==
  /\ gui = "up" /\ saver[s].pc = "idle" /\ form[s] # p
  /\ form' = [form EXCEPT ![s] = p]
  /\ UNCHANGED <<file, saver, gui, startup, collector, settled, damaged, saves, kills>>

\* A new session starts from the module's variables, which a save leaves alone.
OpenSession(s) ==
  /\ gui = "up" /\ saver[s].pc = "idle" /\ form[s] # startup
  /\ form' = [form EXCEPT ![s] = startup]
  /\ UNCHANGED <<file, saver, gui, startup, collector, settled, damaged, saves, kills>>

ReadText(s) ==
  /\ gui = "up" /\ saver[s].pc = "idle" /\ saves < MaxSaves /\ saves' = saves + 1
  /\ saver' = [saver EXCEPT ![s] = [pc |-> "read", thr |-> form[s], rest |-> KeptSections]]
  /\ damaged' = (damaged \/ OthersWrite(s))
  /\ UNCHANGED <<file, form, gui, startup, collector, settled, kills>>

\* open(path, "w")
OpenText(s) ==
  /\ saver[s].pc = "read" /\ saver' = [saver EXCEPT ![s].pc = "open"]
  /\ file' = Empty /\ settled' = 0
  /\ damaged' = (damaged \/ OthersWrite(s))
  /\ UNCHANGED <<form, gui, startup, collector, saves, kills>>

\* Text over the longer text of another session may leave the end of that one.
WriteText(s) ==
  LET own == [text |-> "whole", thr |-> saver[s].thr, rest |-> saver[s].rest]
  IN  /\ Writing(s) /\ saver' = [saver EXCEPT ![s] = Resting]
      /\ file' \in IF file \in {Empty, own} THEN {own} ELSE {own, Mangled}
      /\ settled' = 0
      /\ UNCHANGED <<form, gui, startup, collector, damaged, saves, kills>>

GuiKilled ==
  /\ gui = "up" /\ kills < MaxCrashes /\ kills' = kills + 1 /\ gui' = "down"
  /\ saver' = [s \in Sessions |-> Resting]
  /\ damaged' = (damaged \/ \E s \in Sessions : Writing(s))
  /\ UNCHANGED <<file, form, startup, collector, settled, saves>>

\* The module reads the file while it is imported: if it cannot, there is no GUI.
GuiStarts ==
  /\ gui = "down" /\ Readable /\ gui' = "up" /\ startup' = load_runtime_config
  /\ form' = [s \in Sessions |-> load_runtime_config]
  /\ UNCHANGED <<file, saver, collector, settled, damaged, saves, kills>>

-----------------------------------------------------------------------------
(* scripts/collector.py: main.                                             *)

\* Mutant: one cycle late.
DueLate == due > Reload

Due == due >= Reload

\* An error keeps the old configuration, and the next cycle tries again.
Cycle ==
  /\ ~cycled /\ cycled' = TRUE
  /\ IF Due /\ Readable
       THEN limits' = {load_runtime_config} /\ due' = 0
       ELSE UNCHANGED <<limits, due>>
  /\ UNCHANGED <<file, dashboard, settled, damaged, saves, kills>>

\* last_config_reload_ts = 0.0: the first cycle reads the file once more.
CollectorRestarts ==
  /\ kills < MaxCrashes /\ kills' = kills + 1
  /\ limits' = (IF Readable THEN {load_runtime_config} ELSE {})
  /\ due' = Reload + 1 /\ cycled' = FALSE
  /\ UNCHANGED <<file, dashboard, settled, damaged, saves>>

UpTo(n, max) == IF n < max THEN n ELSE max

\* sample_period_s passes: one cycle.
SettingsTick ==
  /\ cycled /\ cycled' = FALSE
  /\ due' = UpTo(due + 1, Reload + 1) /\ settled' = UpTo(settled + 1, Reload + 1)
  /\ UNCHANGED <<file, dashboard, limits, damaged, saves, kills>>

SettingsNext ==
  \/ \E s \in Sessions : OpenSession(s) \/ ReadText(s) \/ OpenText(s) \/ WriteText(s)
  \/ \E s \in Sessions, p \in Profiles : EditForm(s, p)
  \/ GuiKilled \/ GuiStarts \/ Cycle \/ CollectorRestarts \/ SettingsTick

SettingsSpec == SettingsInit /\ [][SettingsNext]_settingsVars

-----------------------------------------------------------------------------
(* The three judges of a reading r: the events of the collector, the       *)
(* recommendations, the colours of the overview.                           *)

Known(v) == v # NoValue

\* The metrics for which a threshold event is written.
_check_thresholds(r, p) ==
  {m \in Metrics : Known(r[m]) /\
     CASE m = "temp_c"     -> r[m] > p.temp_c_max \/ r[m] < p.temp_c_min
       [] m = "mq2_raw"    -> r[m] > p.mq2_raw_alert
       [] m = "current_ma" -> r[m] > p.current_ma_max
       [] OTHER            -> FALSE}

Advice(m, severity, if) == IF if THEN {[of |-> m, severity |-> severity]} ELSE {}

\* f is the forecast temperature; it speaks only if the present one does not.
build_recommendations(r, f, p) ==
  LET hot == Known(r.temp_c) /\ r.temp_c > p.temp_c_max
      gas == Known(r.mq2_raw) /\ r.mq2_raw > p.mq2_raw_alert
  IN  Advice("temp_c", "alert", hot)
      \cup Advice("forecast", "warn", ~hot /\ Known(f) /\ f > p.temp_c_max - 2)
      \cup Advice("temp_c", "warn", Known(r.temp_c) /\ r.temp_c < p.temp_c_min)
      \cup Advice("humidity_pct", "warn", Known(r.humidity_pct) /\ r.humidity_pct > p.humidity_pct_max)
      \cup Advice("mq2_raw", "alert", gas)
      \cup Advice("mq2_raw", "warn", ~gas /\ Known(r.mq2_raw) /\ r.mq2_raw > p.mq2_raw_warn)
      \cup Advice("current_ma", "alert", Known(r.current_ma) /\ r.current_ma > p.current_ma_max)
      \cup Advice("lux", "info", Known(r.lux) /\ r.lux < p.lux_min)

Level(v, alert, warn) ==
  IF v = NoValue THEN "info" ELSE IF alert THEN "alert" ELSE IF warn THEN "warn" ELSE "ok"

\* Mutant: the lower limit is forgotten.
UpperLimitOnly(v, p) == Level(v, v >= p.temp_c_max, v >= p.temp_c_max - 2)

_temp_severity(v, p) ==
  Level(v, v >= p.temp_c_max \/ v <= p.temp_c_min, v >= p.temp_c_max - 2 \/ v <= p.temp_c_min + 2)

_humidity_severity(v, p) == Level(v, v >= p.humidity_pct_max, v >= p.humidity_pct_max - 5)
_mq2_severity(v, p)      == Level(v, v >= p.mq2_raw_alert, v >= p.mq2_raw_warn)
_current_severity(v, p)  == Level(v, v >= p.current_ma_max, 10 * v >= 8 * p.current_ma_max)
_lux_severity(v, p)      == Level(v, FALSE, v < p.lux_min)

\* The coloured dot before each number.
on_live_tick(r, p) ==
  [temp_c |-> _temp_severity(r.temp_c, p), humidity_pct |-> _humidity_severity(r.humidity_pct, p),
   mq2_raw |-> _mq2_severity(r.mq2_raw, p), current_ma |-> _current_severity(r.current_ma, p),
   lux |-> _lux_severity(r.lux, p)]

-----------------------------------------------------------------------------
(* Properties.                                                             *)

\* "Changes apply on the fly" (configs/runtime.yml 4-5), "will apply within a
\* minute" (web.py 679): whatever saves, torn reads and restarts came before,
\* a file that has stood for a whole interval and can be read is what the
\* collector goes by.
AppliesInTime == (settled > Reload /\ Readable) => limits = {load_runtime_config}

\* Saving thresholds takes nothing else out of the file (the other sections
\* are read and written back, web.py 662-677), and leaves a file that can be
\* read, unless two saves overlapped or the GUI was killed between truncating
\* and writing.
SectionsKept ==
  ~damaged => \/ file.text = "whole" /\ file.rest
              \/ file.text = "empty" /\ \E s \in Sessions : Writing(s)

\* The collector (> and <), the recommendations (> and <) and the overview
\* (>= and <=) judge a reading apart.  Where they go by the same thresholds, an
\* event always comes with advice that is more than information, and advice on
\* a present value never stands beside a green dot, even with thresholds in
\* the wrong order (collector.py 289-308, data_access.py 168-288, web.py 149-193).
VerdictsAgree ==
  (gui = "up" /\ limits = {startup} /\ startup = load_runtime_config) =>
    \A r \in Readings, f \in Forecasts :
      LET advised == build_recommendations(r, f, startup)
      IN  /\ \A m \in _check_thresholds(r, startup) :
               \E a \in advised : a.of = m /\ a.severity # "info"
          /\ \A a \in advised : a.of # "forecast" =>
               on_live_tick(r, startup)[a.of] \in {"warn", "alert"}
=============================================================================
