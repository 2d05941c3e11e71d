-------------------------- MODULE MCLinkLifecycle --------------------------
(***************************************************************************)
(* LinkLifecycle for TLC, with what the manual and the panels promise the  *)
(* user about it.  TLC refutes each promise below: an event of the link    *)
(* that was posted before the user's call is handled after it.             *)
(***************************************************************************)
EXTENDS LinkLifecycle

\* "A disconnect you make yourself never reconnects" (Serial-Connection.md):
\* once the user's last word is to be disconnected, on_disconnected does not
\* start the auto-reconnect loop.
ManualIsFinal == [][~reconnecting /\ reconnecting' => ~userOff]_vars

\* "The port is released while the command runs" (flash_panel.py): the reader
\* and the flash command never have the port open together.
PortReleased == flash = "running" => ser # "open"

\* "Click Disconnect (same button) to close it" (Serial-Connection.md): after a
\* manual disconnect, with the reader thread gone, the status bar does not turn
\* to a live connection again.
DisconnectShown ==
  [][userOff /\ userOff' /\ ~IsRunning /\ view # "live" => view' # "live"]_vars

\* "then a lost link shows Connection failed in red" (Serial-Connection.md):
\* when all is quiet after a loss and nothing is retried, the status says so.
LossShown ==
  Settled /\ ~IsRunning /\ lost /\ failed /\ ~reconnecting /\ flash = "none"
    => view = "failed"
=============================================================================
