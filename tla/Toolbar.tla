------------------------------- MODULE Toolbar -------------------------------
(***************************************************************************)
(* The connection toolbar and what it stands for: one transport combo and  *)
(* one target combo for the whole window (ui/main_window.py), the tabs     *)
(* that take turns with it, the saved SSH sessions and the serial ports    *)
(* (ui/controllers/serial_controller.py), and the settings that carry it   *)
(* over a restart (ui/controllers/settings_manager.py).  Whether a         *)
(* connection is up is LinkLifecycle's; baud and the ports' descriptions   *)
(* are left out.                                                           *)
(***************************************************************************)
EXTENDS Naturals, Sequences, SequencesExt, FiniteSets

CONSTANTS
  Port,       \* serial ports, strings
  Url,        \* network targets a user types, strings, none empty
  Session,    \* SSH sessions a user enters: [name, host, port], strings
  MaxSession, \* bound: saved sessions
  MaxConn     \* bound: connections

ASSUME BoundsAssumption == MaxSession \in Nat /\ MaxConn \in Nat \ {0}
\* The system has so many ports; a session without a name is called user@host.
\* The port stands for all that its label does not say.
ASSUME PortAssumption == IsFiniteSet(Port)
ASSUME SessionAssumption == Session \subseteq [name : STRING \ {""}, host : STRING, port : STRING]

VARIABLES
  plugged,    \* the environment: ports there are
  conns,      \* MainWindow._connections
  active,     \* _active_conn
  toolbar,    \* Connection.toolbar
  transport,  \* _transport_combo
  items,      \* _port_combo: its entries
  text,       \* _port_combo: its current text
  netUrl,     \* _net_url
  restore,    \* _restore_port
  sessions,   \* _ssh_sessions
  params,     \* _ssh_params
  foreign     \* history: an SSH entry is shown that a tab brought back

env  == <<plugged>>
tabs == <<conns, active, toolbar>>
bar  == <<transport, items, text, netUrl>>
ssh  == <<sessions, params>>
vars == <<env, tabs, bar, restore, ssh, foreign>>

\* A text of the target combo.
PortText(p)  == <<"port", p>>
UrlText(u)   == <<"url", u>>
Label(s)     == <<"ssh", s.name, s.host>>     \* _ssh_label
AddSession   == <<"add">>
NoPorts      == <<"no ports found">>
NoUrl        == <<"url", "">>
NoSession    == [name |-> "", host |-> "", port |-> ""]
Texts        == {PortText(p) : p \in Port} \cup {UrlText(u) : u \in Url}
                  \cup {Label(s) : s \in Session} \cup {AddSession, NoPorts, NoUrl}
Transport    == {"Serial", "Network", "SSH"}
NoToolbar    == [transport |-> "Serial", target |-> <<"none saved">>]

-----------------------------------------------------------------------------
(* The target combo: what it is filled with, and what it shows then *)

\* fill: the ports there are, in the system's order, or one entry that says there is none.
PortItems == IF plugged = {} THEN <<NoPorts>> ELSE SetToSeq({PortText(p) : p \in plugged})

\* refresh_ports: shows the port of the settings, else the one shown, else the first.
PortShown(saved, current) ==
  IF saved \in {PortText(p) : p \in plugged} THEN saved
  ELSE IF current \in ToSet(PortItems) THEN current ELSE PortItems[1]

\* populate_ssh_combo: labels, and the entry that adds one.  It shows the session
\* called like p, else the first, which becomes the active one.
SshItems(ss) == Append([i \in DOMAIN ss |-> Label(ss[i])], AddSession)
\* The first session called n, 0 for none.
Named(ss, n) == SelectInSeq(ss, LAMBDA s : s.name = n)
\* A mutant: the first entry is shown without being made the active one.
Populated_Shows(ss, p) ==
  LET i == Named(ss, p.name)
  IN  [items |-> SshItems(ss), text |-> SshItems(ss)[IF i = 0 THEN 1 ELSE i], params |-> p]
Populated(ss, p) ==
  LET i == Named(ss, p.name)
  IN  [items |-> SshItems(ss), text |-> SshItems(ss)[IF i = 0 THEN 1 ELSE i],
       params |-> IF i = 0 /\ ss # <<>> THEN ss[1] ELSE p]

\* _on_transport_changed to another kind: the combo, and the active SSH session.
Changed(kind, saved, url, ss, p) ==
  CASE kind = "Network" -> [items |-> <<>>, text |-> url, params |-> p]
    [] kind = "SSH"     -> Populated(ss, p)
    [] kind = "Serial"  -> [items |-> PortItems, text |-> PortShown(saved, NoUrl), params |-> p]

\* The combo becomes what c says.
Shows(c) == items' = c.items /\ text' = c.text /\ params' = c.params
\* The URL box is read before the combo is put to another use.
LeavesUrl == netUrl' = IF transport = "Network" THEN text ELSE netUrl

-----------------------------------------------------------------------------
(* The user at the toolbar *)

SelectTransport(kind) ==
  /\ kind # transport /\ transport' = kind /\ foreign' = FALSE
  /\ LeavesUrl /\ Shows(Changed(kind, restore, netUrl, sessions, params))
  /\ UNCHANGED <<env, tabs, restore, sessions>>

Type(u) ==
  /\ transport = "Network" /\ text' = UrlText(u)
  /\ UNCHANGED <<env, tabs, transport, items, netUrl, restore, ssh, foreign>>

\* Device > Refresh ports, the palette, and the arrow next to the combo: whatever
\* the transport, the combo lists the ports.
RefreshPorts ==
  /\ items' = PortItems /\ text' = PortShown(restore, text)
  /\ UNCHANGED <<env, tabs, transport, netUrl, restore, ssh, foreign>>

\* The entry shown, counted from 1: one that reads like this, which labels that are
\* equal do not decide; none shown is an entry past the end.
Current == LET same == {i \in 1..Len(items) : items[i] = text}
           IN  IF same = {} THEN {Len(items) + 1} ELSE same

\* edit_ssh_session, accepted: entry i, or a new one past the end, becomes s, and s
\* is made active.  Nothing keeps two sessions from having one name.
Enters(i, s) ==
  LET new  == i > Len(sessions)
      list == IF new THEN Append(sessions, s) ELSE [sessions EXCEPT ![i] = s]
  IN  /\ Len(list) <= MaxSession
      /\ sessions' = list /\ foreign' = FALSE
      /\ Shows(Populated(list, s))
      /\ UNCHANGED <<env, tabs, transport, netUrl, restore>>

\* A mutant: the deleted session stays the active one.
Delete_KeepsActive(i) ==
  LET list == RemoveAt(sessions, i)
  IN  /\ sessions' = list /\ foreign' = FALSE
      /\ Shows(Populated(list, params))
      /\ UNCHANGED <<env, tabs, transport, netUrl, restore>>
\* _delete_ssh_session
Delete(i) ==
  LET list == RemoveAt(sessions, i)
      left == IF params.name = sessions[i].name THEN NoSession ELSE params
  IN  /\ sessions' = list /\ foreign' = FALSE
      /\ Shows(Populated(list, left))
      /\ UNCHANGED <<env, tabs, transport, netUrl, restore>>

\* The pencil and the right click on the combo: they work on the entry shown.
EditShown(s) == transport = "SSH" /\ \E i \in Current : Enters(i, s)
DeleteShown  == transport = "SSH" /\ \E i \in Current \cap DOMAIN sessions : Delete(i)

\* _on_port_activated, handle_ssh_activation: entry i is picked.
Pick(i) ==
  /\ text' = items[i] /\ foreign' = FALSE
  /\ params' = IF transport = "SSH" /\ i <= Len(sessions) THEN sessions[i] ELSE params
  /\ UNCHANGED <<env, tabs, transport, items, netUrl, restore, sessions>>
\* The entry that adds a session was picked and its dialog accepted; cancelled, it
\* is only picked.
PickAdds(i, s) == transport = "SSH" /\ i > Len(sessions) /\ Enters(i, s)

\* toggle_connection, as far as it changes the toolbar: a URL is remembered, and
\* SSH without an active session asks for one.
ConnectNetwork ==
  /\ transport = "Network" /\ text # NoUrl /\ netUrl' = text
  /\ UNCHANGED <<env, tabs, transport, items, text, restore, ssh, foreign>>
ConnectAsks(s) == transport = "SSH" /\ params = NoSession /\ Enters(Len(sessions) + 1, s)

-----------------------------------------------------------------------------
(* Tabs *)

\* _save_toolbar
Shown == [transport |-> transport, target |-> text]

\* A mutant: the target is put back before the transport, which fills the combo anew.
Fronts_TargetFirst(c) ==
  LET back  == toolbar[c]
      moved == back.transport # transport
      combo == IF moved THEN Changed(back.transport, restore, netUrl, sessions, params)
               ELSE [items |-> items, text |-> text, params |-> params]
      found == ~moved /\ (back.transport = "Network" \/ back.target \in ToSet(combo.items))
      shows == [combo EXCEPT !.text = IF found THEN back.target ELSE @]
  IN  /\ active' = c
      /\ IF back = NoToolbar THEN UNCHANGED <<bar, params, foreign>>
         ELSE /\ transport' = back.transport /\ Shows(shows)
              /\ IF moved THEN LeavesUrl ELSE UNCHANGED netUrl
              /\ foreign' = (back.transport = "SSH"
                               /\ (shows.text # combo.text \/ (~moved /\ foreign)))
\* _set_active_connection: what is shown is saved for the connection that leaves the
\* front, and the toolbar of the one that comes is put back; a new one has none.
\* What was put back is not read again before the next save: it is forgotten here.
Fronts(c) ==
  LET back  == toolbar[c]
      moved == back.transport # transport
      combo == IF moved THEN Changed(back.transport, restore, netUrl, sessions, params)
               ELSE [items |-> items, text |-> text, params |-> params]
      found == back.transport = "Network" \/ back.target \in ToSet(combo.items)
      shows == [combo EXCEPT !.text = IF found THEN back.target ELSE @]
  IN  /\ active' = c
      /\ IF back = NoToolbar THEN UNCHANGED <<bar, params, foreign>>
         ELSE /\ transport' = back.transport /\ Shows(shows)
              /\ IF moved THEN LeavesUrl ELSE UNCHANGED netUrl
              /\ foreign' = (back.transport = "SSH"
                               /\ (shows.text # combo.text \/ (~moved /\ foreign)))

SwitchTo(c) ==
  /\ c \in conns \ {active} /\ Fronts(c)
  /\ toolbar' = [toolbar EXCEPT ![active] = Shown, ![c] = NoToolbar]
  /\ UNCHANGED <<env, conns, restore, sessions>>

\* _add_connection: in front at once.
AddConnection(c) ==
  /\ c \notin conns /\ conns' = conns \cup {c} /\ Fronts(c)
  /\ toolbar' = [toolbar EXCEPT ![active] = Shown]
  /\ UNCHANGED <<env, restore, sessions>>

\* _close_conn_by_id: never the last one; the tab bar puts a neighbour in front.
Close(c) ==
  /\ c \in conns /\ conns # {c} /\ conns' = conns \ {c}
  /\ IF c = active THEN \E d \in conns \ {c} : Fronts(d)
     ELSE UNCHANGED <<active, bar, params, foreign>>
  /\ toolbar' = [toolbar EXCEPT ![c] = NoToolbar, ![active'] = NoToolbar]
  /\ UNCHANGED <<env, restore, sessions>>

-----------------------------------------------------------------------------
\* save: what the settings keep of the toolbar.
Written == [port |-> text, transport |-> transport, url |-> netUrl,
            sessions |-> sessions, name |-> params.name]
\* The window is closed and opened again: load.  The session comes back by its
\* name; the ports are listed last, whatever the transport.
Restart ==
  LET list == Written.sessions
      i    == Named(list, Written.name)
      p    == IF i # 0 THEN list[i] ELSE IF list # <<>> THEN list[1] ELSE NoSession
      bars == IF Written.transport = "Serial" THEN [items |-> <<>>, text |-> NoUrl, params |-> p]
              ELSE Changed(Written.transport, Written.port, Written.url, list, p)
  IN  /\ restore' = Written.port /\ params' = bars.params
      /\ items' = PortItems /\ text' = PortShown(Written.port, bars.text)
      /\ conns' = {1} /\ active' = 1 /\ toolbar' = [c \in 1..MaxConn |-> NoToolbar]
      /\ foreign' = FALSE
      /\ UNCHANGED <<env, transport, netUrl, sessions>>

\* A device is plugged or unplugged.
Replug == plugged' \in SUBSET Port /\ UNCHANGED <<tabs, bar, restore, ssh, foreign>>

\* The first start, without settings.
Init ==
  /\ plugged \in SUBSET Port
  /\ conns = {1} /\ active = 1 /\ toolbar = [c \in 1..MaxConn |-> NoToolbar]
  /\ transport = "Serial" /\ items = PortItems /\ text = PortItems[1]
  /\ netUrl = NoUrl /\ restore = NoUrl /\ sessions = <<>> /\ params = NoSession
  /\ foreign = FALSE

Next ==
  \/ \E kind \in Transport : SelectTransport(kind)
  \/ \E u \in Url : Type(u)
  \/ RefreshPorts \/ ConnectNetwork \/ DeleteShown
  \/ \E i \in 1..Len(items) : \/ Pick(i)
                              \/ \E s \in Session : PickAdds(i, s)
  \/ \E s \in Session : EditShown(s) \/ ConnectAsks(s)
  \/ \E c \in 1..MaxConn : SwitchTo(c) \/ AddConnection(c) \/ Close(c)
  \/ Restart \/ Replug

Spec == Init /\ [][Next]_vars

TypeOK ==
  /\ plugged \subseteq Port /\ conns \subseteq 1..MaxConn /\ active \in conns
  /\ toolbar \in [1..MaxConn -> [transport : Transport, target : Texts] \cup {NoToolbar}]
  /\ transport \in Transport /\ text \in Texts /\ items \in Seq(Texts)
  /\ {netUrl, restore} \subseteq Texts
  /\ sessions \in Seq(Session) /\ Len(sessions) <= MaxSession
  /\ params \in Session \cup {NoSession} /\ foreign \in BOOLEAN

\* The SSH session that is shown is the one Connect opens, or one of the same name,
\* however sessions are added, edited, deleted and picked, over changes of transport
\* and restarts, as long as the combo lists the sessions and no tab brought another
\* one back.  MCToolbar has what then happens, and what a name held twice does.
ShownIsOpened ==
  transport = "SSH" /\ items = SshItems(sessions) /\ ~foreign
    => \A s \in ToSet(sessions) : text = Label(s) =>
         /\ params.name = s.name
         /\ (\A o \in ToSet(sessions) : o.name = s.name => o = s) => params = s

\* What Connect opens is a saved session: none that was deleted, none as it was
\* before it was edited.
OpensSaved == params # NoSession => params \in ToSet(sessions)

\* A tab that comes back to the front shows the transport and the target it was left
\* with, as far as the target is still there.
TabKeepsTarget ==
  [][active' # active /\ conns' = conns /\ toolbar[active'] # NoToolbar =>
       LET left == toolbar[active'] IN
         /\ transport' = left.transport
         /\ transport' = "Network" \/ left.target \in ToSet(items') => text' = left.target]_vars
=============================================================================
