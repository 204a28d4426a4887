------------------------------- MODULE Charts -------------------------------
(***************************************************************************)
(* The page charts of one browser session (sessions share nothing but the  *)
(* store): its callbacks, one at a time, and the thread of                 *)
(* _slow_refresh_loop, which redraws the charts of every session each 30 s *)
(* while a callback may be half-way.  A redraw reads the session's         *)
(* variables, then the store, then sets the figures.                       *)
(***************************************************************************)
EXTENDS StoreMigration

CONSTANTS
  Dates,          \* what the pickers may hold
  NoDate,         \* an empty picker
  QuickRanges,    \* _QUICK_RANGES, in minutes
  Hour,           \* 60, the range at the start
  MaxRange        \* 30 days

ASSUME ChartConstants ==
  /\ Dates \subseteq Nat /\ NoDate \notin Nat
  /\ QuickRanges \subseteq Nat \ {0} /\ Hour \in QuickRanges /\ MaxRange \in Nat

VARIABLES
  chart_use_custom_range, chart_range_minutes,
  chart_date_from, chart_date_to,   \* bound to the pickers
  chart_range_label,                \* the range the page names
  figures,                          \* the range the figures were drawn for
  click, refresh, \* the callback and the redraw in progress
  stale,          \* ghost: nothing was drawn from the variables since they changed
  late            \* ghost: the last to draw was a redraw that had read them before

mode    == <<chart_use_custom_range, chart_range_minutes, chart_range_label>>
pickers == <<chart_date_from, chart_date_to>>
chartVars == <<mode, pickers, figures, click, refresh, stale, late>>

Last(m)     == [minutes |-> m]
Between(r)  == [from |-> r.from, to |-> r.to]
Waiting     == [pc |-> "idle", minutes |-> Hour, range |-> Last(Hour), old |-> FALSE]

Ranges  == {Last(m) : m \in QuickRanges} \cup [from : Int, to : Int]
Redraws == [pc : {"idle", "set", "build", "draw"}, minutes : QuickRanges, range : Ranges, old : BOOLEAN]

ChartsTypeOK ==
  /\ chart_use_custom_range \in BOOLEAN /\ chart_range_minutes \in QuickRanges
  /\ chart_date_from \in Int \cup {NoDate} /\ chart_date_to \in Int \cup {NoDate}
  /\ chart_range_label \in Ranges /\ figures \in Ranges
  /\ click \in Redraws /\ refresh \in Redraws /\ stale \in BOOLEAN /\ late \in BOOLEAN

ChartsInit ==
  /\ chart_use_custom_range = FALSE /\ chart_range_minutes = Hour
  /\ chart_date_from \in Dates /\ chart_date_to = chart_date_from + Hour
  /\ chart_range_label = Last(Hour) /\ figures = Last(Hour)
  /\ click = Waiting /\ refresh = Waiting /\ stale = FALSE /\ late = FALSE

\* Mutant: a redraw falls back to the last hour.
LastHour == Last(Hour)

\* The range a redraw asks for.  Without both dates it is the last hour.
_build_charts_from_state ==
  IF ~chart_use_custom_range THEN Last(chart_range_minutes)
  ELSE IF NoDate \in {chart_date_from, chart_date_to} THEN Last(Hour)
  ELSE Between(CustomRange(chart_date_from, chart_date_to))

\* The variables changed under a redraw that has read them.
Outdated == stale' = TRUE /\ refresh' = [refresh EXCEPT !.old = (refresh.pc = "draw")]

\* The pickers write through, without Apply; None is an emptied picker.
PickDates(f, t) ==
  /\ click.pc = "idle" /\ pickers # <<f, t>>
  /\ chart_date_from' = f /\ chart_date_to' = t
  /\ IF chart_use_custom_range THEN Outdated ELSE UNCHANGED <<stale, refresh>>
  /\ UNCHANGED <<mode, figures, click, late>>

\* _set_quick_range, first assignment.
_set_quick_range(m) ==
  /\ click.pc = "idle" /\ chart_use_custom_range' = FALSE
  /\ click' = [click EXCEPT !.pc = "set", !.minutes = m]
  /\ UNCHANGED <<chart_range_minutes, chart_range_label, pickers, figures, refresh, stale, late>>

\* The others; the pickers follow, for the case that Apply is pressed next.
SetMinutes(now) ==
  /\ click.pc = "set" /\ click' = [click EXCEPT !.pc = "build"]
  /\ chart_range_minutes' = click.minutes /\ chart_range_label' = Last(click.minutes)
  /\ chart_date_to' = now /\ chart_date_from' = now - click.minutes
  /\ Outdated /\ UNCHANGED <<chart_use_custom_range, figures, late>>

\* Refused: a missing date, an end before the start, more than 30 days.
on_apply_date_range ==
  /\ click.pc = "idle" /\ NoDate \notin {chart_date_from, chart_date_to}
  /\ chart_date_from < chart_date_to /\ chart_date_to - chart_date_from <= MaxRange
  /\ chart_use_custom_range' = TRUE
  /\ chart_range_label' = Between([from |-> chart_date_from, to |-> chart_date_to])
  /\ click' = [click EXCEPT !.pc = "build"]
  /\ Outdated /\ UNCHANGED <<chart_range_minutes, pickers, figures, late>>

\* Also on_range_change.
on_refresh_chart ==
  /\ click.pc = "idle" /\ click' = [click EXCEPT !.pc = "build"]
  /\ UNCHANGED <<mode, pickers, figures, refresh, stale, late>>

\* _refresh_all_charts: an exception of the store leaves the figures.
QueryStore ==
  /\ click.pc = "build"
  /\ \/ click' = [click EXCEPT !.pc = "draw", !.range = _build_charts_from_state]
     \/ click' = Waiting
  /\ UNCHANGED <<mode, pickers, figures, refresh, stale, late>>

_refresh_all_charts ==
  /\ click.pc = "draw" /\ click' = Waiting
  /\ figures' = click.range /\ stale' = FALSE /\ late' = FALSE
  /\ UNCHANGED <<mode, pickers, refresh>>

\* _broadcast_slow for this session; an exception is logged.
_slow_refresh_loop ==
  /\ refresh.pc = "idle"
  /\ refresh' = [Waiting EXCEPT !.pc = "draw", !.range = _build_charts_from_state]
  /\ UNCHANGED <<mode, pickers, figures, click, stale, late>>

\* A late redraw goes over whatever the callback has drawn in the meantime.
_broadcast_slow ==
  /\ refresh.pc = "draw" /\ refresh' = Waiting
  /\ figures' = refresh.range /\ stale' = (stale /\ refresh.old) /\ late' = refresh.old
  /\ UNCHANGED <<mode, pickers, click>>

ChartsNext ==
  \/ \E f, t \in Dates \cup {NoDate} : PickDates(f, t)
  \/ (\E m \in QuickRanges : _set_quick_range(m)) \/ (\E now \in Dates : SetMinutes(now))
  \/ on_apply_date_range \/ on_refresh_chart \/ QueryStore \/ _refresh_all_charts
  \/ _slow_refresh_loop \/ _broadcast_slow

ChartsSpec == ChartsInit /\ [][ChartsNext]_chartVars

-----------------------------------------------------------------------------
(* Property.                                                               *)

Named == IF "minutes" \in DOMAIN chart_range_label THEN chart_range_label
         ELSE Between(CustomRange(chart_range_label.from, chart_range_label.to))

Edited == chart_use_custom_range /\ pickers # <<chart_range_label.from, chart_range_label.to>>

\* "Current range: ... auto-refresh every 30 s keeps the selection"
\* (app/pages/charts.md 30, web.py 250-252).  Once the selection has been drawn,
\* by its callback or by the thread that met it half-way, the figures show the
\* range the page names, with two exceptions.  In custom mode the pickers write
\* through, and a redraw obeys them before Apply is pressed.  And a redraw of
\* the thread that had read the former selection may finish after the callback:
\* it draws the old range under the new label, against that text, and this
\* lasts until the next redraw or click, whose figures are right again
\* (web.py 844-857).
LabelNamesRange ==
  ~stale /\ click.pc # "set" =>
    \/ figures = Named
    \/ chart_use_custom_range /\ Edited
    \/ late
=============================================================================
