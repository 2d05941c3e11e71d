------------------------------ MODULE MCToolbar ------------------------------
(* Toolbar for TLC, and what the code promises of it and does not keep.      *)
EXTENDS Toolbar

\* Two of one name, and then of one label.
Sessions == {[name |-> "lab", host |-> "pi", port |-> "22"],
             [name |-> "lab", host |-> "pi", port |-> "2222"],
             [name |-> "lab", host |-> "gate", port |-> "22"],
             [name |-> "router", host |-> "gate", port |-> "22"]}

\* Not so: "Fill the target combo with saved sessions ... and select the active one":
\* of two sessions with the name of the active one the first is selected, and the
\* active one stays active.
SelectsActive ==
  transport = "SSH" /\ items = SshItems(sessions) /\ ~foreign
    => \A s \in ToSet(sessions) : text = Label(s) => params = s

\* Not so: "the window-wide connection toolbar shows this device": a tab brings the
\* label of its session back, and _ssh_params stays the one that was picked in the
\* other tab, which is the one Connect opens.
RightSession ==
  transport = "SSH" => \A s \in ToSet(sessions) : text = Label(s) => params = s

\* Not so: "Priority: currently selected, restored from config, first available":
\* the port of the settings comes first, at every rescan.
RescanKeepsPort ==
  [][RefreshPorts /\ transport = "Serial" /\ text \in ToSet(items') => text' = text]_vars

\* Not so: the network target of the settings is shown after a start: the ports are
\* listed over it.
UrlComesBack ==
  [][Restart /\ transport = "Network" => text' = netUrl]_vars
=============================================================================
