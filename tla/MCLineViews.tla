---------------------------- MODULE MCLineViews ----------------------------
(***************************************************************************)
(* LineViews for TLC, with statements about it that do not hold.           *)
(***************************************************************************)
EXTENDS LineViews

\* "auto names the user removed": only hiding a series makes
\* Quick Plot pass its name over.  Saving a channel of the name that is not
\* charted does so too, and deleting the channel does not undo it.
HiddenByUser == [][\A n \in hidden' \ hidden : HideSeries(n)]_viewsVars

\* The editor can always be saved.  It is open on a row that another row's
\* deletion, or a series kept from the legend, has replaced: index() raises, and
\* by then the old name has gone from the chart.
EditorSafe == editor # "stale"

\* The views follow the channels even if two have one name, as a key with two
\* units has unless they are named.
ViewsFollowAll ==
  columns = {channels[i].name : i \in {j \in Rows : channels[j].chart}}
=============================================================================
