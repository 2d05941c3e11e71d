----------------------------- MODULE LineViews -----------------------------
(***************************************************************************)
(* What a connection shows of the values in its lines: the Parsing panel   *)
(* (ui/parse_panel.py over core/data_parser.py) tells the chart, the       *)
(* indicators and the columns of the event table which channels to show,   *)
(* by name; the chart adds series of its own for data-only lines (Quick    *)
(* Plot, core/quick_plot.py) and draws on a timer (ui/chart_panel.py).     *)
(* Everything runs in the GUI thread.  One life of the program is          *)
(* modelled: it starts with the channels of the settings.                  *)
(***************************************************************************)
EXTENDS Integers, Sequences, FiniteSets, SequencesExt

CONSTANTS
  Name,        \* names of values; a channel without a name has its key's
  Positional,  \* those of them that Quick Plot made up: ch1, ch2, ...
  Snippet,     \* those that the user's snippet returns
  MaxAuto,     \* MAX_AUTO_CHANNELS
  MaxChannel   \* bound: channels of the Parsing panel

ASSUME NamesAssumption ==
  IsFiniteSet(Name) /\ Name # {} /\ Positional \cup Snippet \subseteq Name
ASSUME ChannelsAssumption == MaxAuto \in Nat /\ MaxChannel \in Nat

VARIABLES
  channels,  \* DataParser._channels, and the rows of the panel in that order
  editor,    \* "closed", "new", or whether the row it edits is in the list
  editing,   \* the row, when it is
  was,       \* the name of the channel the row was made for
  series,    \* ChartPanel._channels: per name "none", "auto" or "set"
  hidden,    \* ChartPanel._hidden
  quick,     \* ChartPanel.quick_enabled
  columns,   \* TriggerEventsPanel._ch_names
  cards,     \* IndicatorPanel._cards
  plot,      \* the drawing: see Plot
  torn       \* history: two channels have had one name, or a save broke off

panel == <<channels, editor, editing, was>>
chart == <<series, hidden, quick>>
viewsVars == <<panel, chart, columns, cards, plot, torn>>

Channel == [name : Name, enabled : BOOLEAN, chart : BOOLEAN, card : BOOLEAN]
Plot == [visible : BOOLEAN, paused : BOOLEAN,
         any    : BOOLEAN,       \* ChartPanel._dirty
         dirty  : SUBSET Name,   \* series whose "dirty" is set
         behind : SUBSET Name]   \* history: curves that lack a buffered sample

Names(s)   == {s[i].name : i \in 1..Len(s)}
Clash(s)   == \E i, j \in 1..Len(s) : i # j /\ s[i].name = s[j].name
Rows       == 1..Len(channels)
Drawn      == {n \in Name : series[n] # "none"}

-----------------------------------------------------------------------------
(* The panels that show channels *)

Series == {"none", "auto", "set"}
Views  == [series : [Name -> Series], hidden : SUBSET Name, quick : BOOLEAN,
           columns : SUBSET Name, cards : SUBSET Name]

\* ChartPanel.add_channel and remove_channel
AddChannel(c, n) ==
  [c EXCEPT !.series[n] = "set",
            !.hidden = IF c.series[n] = "none" THEN @ \ {n} ELSE @]
RemoveChannel(c, n) ==
  [c EXCEPT !.series[n] = "none",
            !.hidden = IF c.series[n] = "auto" /\ c.quick THEN @ \cup {n} ELSE @]

\* register_channel and unregister_channel of the events table; add_indicator and
\* remove_indicator.
Columns(v, n, show) == IF show THEN v.columns \cup {n} ELSE v.columns \ {n}
Cards(v, n, show)   == IF show THEN v.cards \cup {n} ELSE v.cards \ {n}

\* A channel asks for its series and column, and for its card: _on_channel_chart_req
\* and _on_channel_indicator_req.
Req(n, charted, carded) == [name |-> n, chart |-> charted, card |-> carded]
Request == [name : Name, chart : BOOLEAN, card : BOOLEAN]
Follow(v, r) ==
  [(IF r.chart THEN AddChannel(v, r.name) ELSE RemoveChannel(v, r.name))
     EXCEPT !.columns = Columns(v, r.name, r.chart), !.cards = Cards(v, r.name, r.card)]
Followed(v, reqs) ==
  LET upTo[n \in 0..Len(reqs)] == IF n = 0 THEN v ELSE Follow(upTo[n - 1], reqs[n])
  IN  upTo[Len(reqs)]

Display == [series |-> series, hidden |-> hidden, quick |-> quick,
            columns |-> columns, cards |-> cards]
SetChart(v) == series' = v.series /\ hidden' = v.hidden /\ quick' = v.quick

\* A series that is gone takes its buffer and its "dirty" along.
Keeps(c) == {n \in Name : c.series[n] # "none" /\ series[n] # "none"}
SetPlot(p, kept) ==
  plot' = [p EXCEPT !.dirty = @ \cap kept, !.behind = @ \cap kept]

\* The views do what a list of requests asks, one after the other.
Show(reqs) ==
  LET v == Followed(Display, reqs) IN
    /\ SetChart(v) /\ SetPlot(plot, Keeps(v))
    /\ columns' = v.columns /\ cards' = v.cards

-----------------------------------------------------------------------------
(* The drawing *)

\* A mutant: the flag is taken down although nothing is drawn.
Redraw_DropsFlag(p) ==
  IF ~p.any \/ p.paused \/ ~p.visible THEN [p EXCEPT !.any = FALSE]
  ELSE [p EXCEPT !.any = FALSE, !.dirty = {}, !.behind = @ \ p.dirty]

\* ChartPanel._redraw
Redraw(p) ==
  IF ~p.any \/ p.paused \/ ~p.visible THEN p
  ELSE [p EXCEPT !.any = FALSE, !.dirty = {}, !.behind = @ \ p.dirty]

\* ChartPanel._mark_all_dirty
MarkAll(p) == Redraw([p EXCEPT !.any = TRUE, !.dirty = Drawn])

\* ChartPanel.update: samples for those of the names that have a series.
Sampled(p, has, names) ==
  LET got == has \cap names IN
    IF got = {} THEN p
    ELSE [p EXCEPT !.any = TRUE, !.dirty = @ \cup got, !.behind = @ \cup got]

-----------------------------------------------------------------------------
\* The views of a new connection.
NewViews == [series |-> [n \in Name |-> "none"], hidden |-> {}, quick |-> TRUE,
             columns |-> {}, cards |-> {}]
NewPlot  == [visible |-> FALSE, paused |-> FALSE, any |-> FALSE, dirty |-> {}, behind |-> {}]

\* The start: load() reads the channels and sync_display_panels shows them.
ViewsInit ==
  /\ channels \in BoundedSeq(Channel, MaxChannel)
  /\ editor = "closed" /\ editing = 0 /\ was = CHOOSE n \in Name : TRUE
  /\ LET v == Followed(NewViews,
                       [i \in Rows |-> Req(channels[i].name, channels[i].chart, channels[i].card)])
     IN /\ series = v.series /\ hidden = v.hidden /\ quick = v.quick
        /\ columns = v.columns /\ cards = v.cards
  /\ plot = NewPlot
  /\ torn = Clash(channels)

SetChannels(s) ==
  /\ channels' = s /\ torn' = (torn \/ Clash(s))

-----------------------------------------------------------------------------
(* The Parsing panel *)

\* open_editor
OpenEditor ==
  /\ \/ editor' = "new" /\ editing' = 0 /\ UNCHANGED was
     \/ \E i \in Rows : editor' = "row" /\ editing' = i /\ was' = channels[i].name
  /\ UNCHANGED <<channels, chart, columns, cards, plot, torn>>

CloseEditor ==
  /\ editor # "closed" /\ editor' = "closed" /\ editing' = 0 /\ UNCHANGED was
  /\ UNCHANGED <<channels, chart, columns, cards, plot, torn>>

\* A mutant: a renamed channel leaves its old name on the panels.
OldName_Stays(ch) == <<>>
OldName(ch) == IF was = ch.name THEN <<>> ELSE <<Req(was, FALSE, FALSE)>>

\* _save: the edited channel is enabled again, whatever it was.
Save(ch) ==
  /\ \/ /\ editor = "new" /\ Len(channels) < MaxChannel
        /\ SetChannels(Append(channels, ch))
        /\ Show(<<Req(ch.name, ch.chart, ch.card)>>)
     \/ /\ editor = "row"
        /\ SetChannels([channels EXCEPT ![editing] = ch])
        /\ Show(OldName(ch) \o <<Req(ch.name, ch.chart, ch.card)>>)
  /\ editor' = "closed" /\ editing' = 0 /\ UNCHANGED was

\* _save for a row that is no longer in the list: index() raises when the old
\* name has gone from the views, and the editor stays open.
SaveStale(ch) ==
  /\ editor = "stale" /\ Show(OldName(ch))
  /\ torn' = TRUE /\ UNCHANGED panel

\* The rows are rebuilt: the one that was being edited is no longer among them.
Stale == /\ UNCHANGED was
         /\ IF editor = "row" THEN editor' = "stale" /\ editing' = 0
            ELSE UNCHANGED <<editor, editing>>

\* _del_row
DelRow(i) ==
  /\ i \in Rows
  /\ Show(<<Req(channels[i].name, FALSE, FALSE)>>)
  /\ SetChannels(RemoveAt(channels, i)) /\ Stale

\* The check box of a row.
ToggleRow(i) ==
  /\ i \in Rows /\ channels' = [channels EXCEPT ![i].enabled = ~@]
  /\ UNCHANGED <<editor, editing, was, chart, columns, cards, plot, torn>>

-----------------------------------------------------------------------------
(* The chart *)

\* keepable_key: a positional name is no key of a line.
Keepable(n) == n \notin Positional
\* _legend_menu, "Keep as Parsing channel": keep_channel asks for no card.
KeepSeries(n) ==
  /\ series[n] = "auto" /\ Keepable(n) /\ Len(channels) < MaxChannel
  /\ IF n \in Names(channels)
     THEN UNCHANGED <<panel, chart, columns, cards, plot, torn>>
     ELSE /\ SetChannels(Append(channels, [name |-> n, enabled |-> TRUE,
                                           chart |-> TRUE, card |-> FALSE]))
          /\ Show(<<Req(n, TRUE, n \in cards)>>) /\ Stale

\* _legend_menu, "Hide this series".
HideSeries(n) ==
  LET c == RemoveChannel(Display, n) IN
    /\ series[n] = "auto"
    /\ SetChart(c) /\ SetPlot(plot, Keeps(c))
    /\ UNCHANGED <<panel, columns, cards, torn>>

\* set_quick_enabled
ToggleQuick ==
  LET c == [series |-> [n \in Name |-> IF series[n] = "auto" /\ quick THEN "none"
                                       ELSE series[n]],
            hidden |-> IF quick THEN {} ELSE hidden, quick |-> ~quick]
  IN /\ SetChart(c) /\ SetPlot(plot, Keeps(c))
     /\ UNCHANGED <<panel, columns, cards, torn>>

\* set_paused, set_window and set_max_points, showEvent or hiding, the timer.
View ==
  /\ \/ plot' = IF plot.paused THEN MarkAll([plot EXCEPT !.paused = FALSE])
                ELSE [plot EXCEPT !.paused = TRUE]
     \/ plot' = MarkAll(plot)
     \/ plot' = IF plot.visible THEN [plot EXCEPT !.visible = FALSE]
                ELSE Redraw([plot EXCEPT !.visible = TRUE])
  /\ UNCHANGED <<panel, chart, columns, cards, torn>>
RedrawTimer ==
  /\ plot' = Redraw(plot)
  /\ UNCHANGED <<panel, chart, columns, cards, torn>>

-----------------------------------------------------------------------------
(* A line *)

Enabled == {channels[i].name : i \in {j \in Rows : channels[j].enabled}}
\* The channels whose key a line has, as JSON or as key and value.
Keyed == SUBSET Enabled
\* DataParser.parse: these, and the names the snippet returns for the line.
Parsed == {ks \cup ns : ks \in Keyed, ns \in SUBSET Snippet}
\* quick_parse: the names of a line that is only data; of another line, none.
DataOnly == SUBSET Name

\* A name that a channel has follows the channel.
QuickNames(data) == data \ Names(channels)

\* quick_update: new series, in the order of the line, while there is room.
Fresh(data)  == {n \in data : series[n] = "none" /\ n \notin hidden}
Autos        == {n \in Name : series[n] = "auto"}
Room         == MaxAuto - Cardinality(Autos)
AddsAuto(data, new) ==
  /\ new \subseteq Fresh(data)
  /\ Cardinality(new) <= Room
  /\ new # Fresh(data) => Cardinality(new) = Room

OnLine(parsed, data) ==
  LET shown == Sampled(plot, Drawn, parsed) IN
    /\ IF quick /\ QuickNames(data) # {}
       THEN \E new \in SUBSET Fresh(QuickNames(data)) :
              /\ AddsAuto(QuickNames(data), new)
              /\ series' = [n \in Name |-> IF n \in new THEN "auto" ELSE series[n]]
              /\ plot' = Sampled(shown, Drawn \cup new, QuickNames(data))
       ELSE plot' = shown /\ UNCHANGED series
    /\ UNCHANGED <<panel, hidden, quick, columns, cards, torn>>

-----------------------------------------------------------------------------
User ==
  \/ OpenEditor \/ CloseEditor \/ ToggleQuick \/ View
  \/ \E ch \in Channel : ch.enabled /\ (Save(ch) \/ SaveStale(ch))
  \/ \E i \in Rows : DelRow(i) \/ ToggleRow(i)
  \/ \E n \in Name : KeepSeries(n) \/ HideSeries(n)
Line == \E parsed \in Parsed, data \in DataOnly : OnLine(parsed, data)

ViewsNext == User \/ Line \/ RedrawTimer

\* The redraw timer fires again and again.
ViewsSpec == ViewsInit /\ [][ViewsNext]_viewsVars /\ WF_viewsVars(RedrawTimer)

-----------------------------------------------------------------------------
(* Properties *)

\* Every variable keeps its type.
ViewsTypeOK ==
  /\ channels \in Seq(Channel) /\ Len(channels) <= MaxChannel
  /\ editor \in {"closed", "new", "row", "stale"}
  /\ editing \in Rows \cup {0} /\ (editor = "row" <=> editing # 0)
  /\ series \in [Name -> Series] /\ hidden \subseteq Name
  /\ quick \in BOOLEAN /\ columns \subseteq Name /\ cards \subseteq Name
  /\ was \in Name /\ plot \in Plot /\ torn \in BOOLEAN

\* While no two channels have had one name and no save broke off, the chart, the
\* event columns and the indicators show the channels that ask for it and no other,
\* whatever was renamed, kept from Quick Plot or deleted; Quick Plot never draws a name that
\* a channel has, never brings back a hidden one and stays within its limit.
ViewsFollow ==
  ~torn =>
    /\ {n \in Name : series[n] = "set"} = {channels[i].name : i \in {j \in Rows : channels[j].chart}}
    /\ columns = {channels[i].name : i \in {j \in Rows : channels[j].chart}}
    /\ cards   = {channels[i].name : i \in {j \in Rows : channels[j].card}}
    /\ Autos \cap Names(channels) = {} /\ hidden \cap Drawn = {}
    /\ Cardinality(Autos) <= MaxAuto

\* A sample that was buffered while the chart was hidden or paused is drawn once
\* it is not: the curves do not stay behind the buffers.
CatchesUp ==
  \A n \in Name : []<>(n \in plot.behind => plot.paused \/ ~plot.visible)
=============================================================================
