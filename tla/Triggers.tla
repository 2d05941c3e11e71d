------------------------------ MODULE Triggers ------------------------------
(***************************************************************************)
(* The triggers of one connection: the engine's list (core/triggers.py),   *)
(* the rows of the Triggers tool and their editor (ui/trigger_panel.py),   *)
(* and the actions of a match, which reach the GUI thread by a queued call *)
(* after the line was checked (ui/controllers/trigger_controller.py).  The *)
(* device may send every reply back.                                       *)
(***************************************************************************)
EXTENDS Naturals, Sequences, SequencesExt, FiniteSetsExt

CONSTANTS
  Text,          \* the lines that triggers tell apart
  Rule,          \* what the user can write in the editor: see RuleAssumption
  Default,       \* the rules of a new panel
  Interval,      \* Trigger.REPLY_MIN_INTERVAL, in ticks of the clock
  Delays,        \* how many ticks may pass between a line or a reply that is sent
                 \* back and the end of its matches' handlers
  MaxTrigger,    \* bound: triggers in the engine
  MaxMatch,      \* bound: matches waiting for the GUI thread
  MaxAir         \* bound: lines on their way back from the device

None == "none"
ASSUME RuleAssumption ==
  \A r \in Rule : /\ r.python \in BOOLEAN       \* [python], else plain or [regex]
                  /\ r.valid \in BOOLEAN        \* compile() accepts the pattern
                  /\ r.hears \subseteq Text     \* the lines it matches
                  /\ r.reply \in Text \union {None}
                  /\ r.pauses \in BOOLEAN /\ r.resumes \in BOOLEAN
ASSUME ClockAssumption == Interval \in Nat /\ Delays \subseteq Nat
ASSUME DefaultAssumption == Default \in Seq(Rule) /\ Len(Default) <= MaxTrigger
ASSUME BoundsAssumption == {MaxTrigger, MaxMatch, MaxAir} \subseteq Nat \ {0}

New    == 0               \* in place of the index of a row
Synced == MaxTrigger + 1  \* of `gone'

VARIABLES
  obj,      \* Trigger objects: rule, enabled, blocked, the ticks since _last_reply
            \* (Interval for that or more), and (history) whether the user
            \* accepted it
  size,     \* the first `size' of them are TriggerEngine._triggers, in order; the
            \* others have left the list but are in `matches'
  gone,     \* Synced: TriggerPanel._rows are the engine's triggers; else the
            \* number of rows, all of triggers that have left the engine
  matches,  \* the _on_trigger_match_gui calls that are queued: the trigger of
            \* each, by its index in `obj'
  waits,    \* the ticks that each of them has been under way, with the echo it is of
  active,   \* conn.logger.active
  button,   \* what LoggerPanel._btn says
  air,      \* lines on their way back from the device, and for how many ticks
  delay,    \* the delay of the device and of the GUI thread
  ran       \* history: code that the user never accepted was evaluated
lists == <<obj, size, gone, matches, waits>>
log   == <<active, button>>
vars  == <<lists, log, air, delay, ran>>

Engine == [k \in 1..size |-> k]
Rows   == IF gone = Synced THEN size ELSE gone

Trigger(r, e, b, mine) ==
  [rule |-> r, enabled |-> e, blocked |-> b, since |-> Interval, mine |-> mine]

\* The elements of a finite set of naturals, from the least up.
Ascending(S) ==
  CHOOSE s \in [1..Cardinality(S) -> S] :
    Range(s) = S /\ \A i, j \in 1..Cardinality(S) : i < j => s[i] < s[j]

\* Nothing asks for the check box of a trigger that has left the list.
Left(t) == [t EXCEPT !.enabled = FALSE]

\* The engine's list becomes es and the queue ms, both as indices into o; the
\* objects that neither holds are of no use any more.
Become(o, es, ms) ==
  LET all == es \o Ascending(Range(ms) \ Range(es))
  IN /\ obj' = [k \in 1..Len(all) |-> IF k <= Len(es) THEN o[all[k]] ELSE Left(o[all[k]])]
     /\ size' = Len(es)
     /\ matches' = [k \in 1..Len(ms) |-> SelectInSeq(all, LAMBDA i : i = ms[k])]

\* _load_defaults.
Init ==
  /\ obj = [i \in 1..Len(Default) |-> Trigger(Default[i], TRUE, FALSE, TRUE)]
  /\ size = Len(Default) /\ gone = Synced
  /\ matches = <<>> /\ waits = <<>> /\ air = <<>>
  /\ active = FALSE /\ button = "Start"
  /\ delay \in Delays /\ ran = FALSE

-----------------------------------------------------------------------------
(* The panel *)

\* The list is es, and _rebuild makes the rows anew.
Rebuilt(o, es) == Become(o, es, matches) /\ gone' = Synced /\ UNCHANGED waits

\* Code is evaluated when a [python] trigger is compiled, unless it is blocked.
Evaluates(t) == t.rule.python /\ ~t.blocked

\* _save with add_trigger, or with update_trigger at the index of the edited
\* row: the trigger is a new object, enabled and trusted.  A pattern that does
\* not compile stays in the editor; so does the edit of a row that a rebuild
\* has replaced (_rows.index raises), which can only be cancelled.
Save(r, k) ==
  /\ r.valid
  /\ LET o   == Append(obj, Trigger(r, TRUE, FALSE, TRUE))
         new == Len(o)
     IN \/ k = New /\ size < MaxTrigger /\ Rebuilt(o, Append(Engine, new))
        \/ k \in 1..Rows /\ Rebuilt(o, IF k <= size THEN [Engine EXCEPT ![k] = new] ELSE Engine)
  /\ UNCHANGED <<log, air, delay, ran>>

\* _del_row: by the index of the row.
DelRow(k) ==
  /\ Rebuilt(obj, IF k <= size THEN RemoveAt(Engine, k) ELSE Engine)
  /\ UNCHANGED <<log, air, delay, ran>>

\* The check box of a row.
ToggleRow(k) ==
  /\ gone = Synced
  /\ obj' = [obj EXCEPT ![k].enabled = ~@]
  /\ UNCHANGED <<size, gone, matches, waits, log, air, delay, ran>>

\* from_dict_list for one entry: [python] without the user's consent is blocked
\* and shown as off.
Loaded(r, allow) ==
  IF r.python /\ ~allow THEN Trigger(r, FALSE, TRUE, FALSE)
  ELSE Trigger(r, TRUE, FALSE, TRUE)

\* load_triggers of a file with one entry: the engine's list is replaced.  The
\* panel has no method _rebuild_list, so the call ends there and the rows stay.
Load(r, allow) ==
  LET t == Loaded(r, allow) IN
  /\ Become(Append(obj, t), <<Len(obj) + 1>>, matches) /\ gone' = Rows
  /\ ran' = (ran \/ (Evaluates(t) /\ ~t.mine))
  /\ UNCHANGED <<waits, log, air, delay>>

-----------------------------------------------------------------------------
(* Lines and matches *)

\* A mutant: only the check box keeps a trigger from its code.
Runs_Unblocked(t) == t.enabled
Runs(t) == t.enabled /\ ~(t.rule.python /\ t.blocked)

Matches(t, l) == Runs(t) /\ t.rule.valid /\ l \in t.rule.hears

\* TriggerEngine.check of the line l, in the order of the list; n: the ticks that
\* the line has been under way.
Check(l, n) ==
  LET hit == Ascending({i \in 1..size : Matches(obj[i], l)}) IN
  /\ Len(matches) + Len(hit) <= MaxMatch
  /\ matches' = matches \o hit
  /\ waits' = waits \o [k \in 1..Len(hit) |-> n]
  /\ ran' = (ran \/ \E i \in 1..size : obj[i].rule.python /\ Runs(obj[i]) /\ ~obj[i].mine)
  /\ UNCHANGED <<obj, size, gone>>

\* A line of the device's own.
Hear(l) ==
  /\ Check(l, 0)
  /\ UNCHANGED <<log, air, delay>>

\* A line it sends back.
HearEcho ==
  /\ air # <<>> /\ Check(Head(air).text, Head(air).age)
  /\ air' = Tail(air)
  /\ UNCHANGED <<log, delay>>

\* A mutant: the guard is never taken.
GuardAfter_Never(t) == t
GuardAfter(t) == [t EXCEPT !.since = 0]

\* _send_reply: nothing without a running reader, and when the trigger's last
\* reply was less than REPLY_MIN_INTERVAL ago.  The guard is taken before the
\* bytes are written; the write may fail, or the device not send them back.
Replies(t) == t.rule.reply # None /\ t.since >= Interval
Echoed(t) ==
  \/ UNCHANGED air
  \/ Len(air) < MaxAir /\ air' = Append(air, [text |-> t.rule.reply, age |-> 0])

\* The pause action: the session is stopped and the button reset, if there is one.
Paused(t) == active /\ ~t.rule.pauses
ButtonMidway(t) == IF active /\ t.rule.pauses THEN "Start" ELSE button

\* The resume action.  Logger.start raises when a log file cannot be created, and
\* then the rest of the handler, from the button to the events table, is not run.
Resumes(t) == t.rule.resumes /\ ~Paused(t)

\* A mutant: the button is set before the session is started.
LogStops_TooEarly(t) ==
  /\ active' = Paused(t)
  /\ button' = IF Resumes(t) THEN "Stop" ELSE ButtonMidway(t)
LogStops(t) == active' = Paused(t) /\ button' = ButtonMidway(t)
LogGoesOn(t) ==
  /\ active' = (Paused(t) \/ t.rule.resumes)
  /\ button' = IF Resumes(t) THEN "Stop" ELSE ButtonMidway(t)

\* _on_trigger_match_gui for a trigger that may have left the list, on a reader
\* that may have ended.
Deliver ==
  /\ matches # <<>> /\ waits' = Tail(waits)
  /\ LET i == Head(matches)
         t == obj[i]
         Kept == UNCHANGED air /\ Become(obj, Engine, Tail(matches))
     IN \/ Resumes(t) /\ LogStops(t) /\ Kept
        \/ /\ LogGoesOn(t)
           /\ \/ /\ Replies(t) /\ Echoed(t)
                 /\ Become([obj EXCEPT ![i] = GuardAfter(t)], Engine, Tail(matches))
              \/ Kept
  /\ UNCHANGED <<gone, delay, ran>>

\* Time passes, for every trigger's clock and for all that is under way: an echo
\* and its match are there after at most `delay'.
Tick ==
  /\ \A k \in 1..Len(air) : air[k].age < delay
  /\ \A k \in 1..Len(waits) : waits[k] < delay
  /\ obj' = [i \in 1..Len(obj) |->
               [obj[i] EXCEPT !.since = IF @ < Interval THEN @ + 1 ELSE @]]
  /\ air' = [k \in 1..Len(air) |-> [air[k] EXCEPT !.age = @ + 1]]
  /\ waits' = [k \in 1..Len(waits) |-> waits[k] + 1]
  /\ UNCHANGED <<size, gone, matches, log, delay, ran>>

\* LoggerPanel._toggle; when Logger.start raises, nothing has changed.
ToggleLog ==
  /\ active' = ~active /\ button' = IF active THEN "Start" ELSE "Stop"
  /\ UNCHANGED <<lists, air, delay, ran>>

\* The link goes down: what the device sent is lost.
LinkDown ==
  /\ air # <<>> /\ air' = <<>>
  /\ UNCHANGED <<lists, log, delay, ran>>

-----------------------------------------------------------------------------
User == \/ ToggleLog
        \/ \E r \in Rule, k \in 0..Rows : Save(r, k)
        \/ \E k \in 1..Rows : DelRow(k) \/ ToggleRow(k)
        \/ \E r \in Rule, allow \in BOOLEAN : Load(r, allow)
Machine == HearEcho \/ Deliver \/ Tick
Next == User \/ Machine \/ LinkDown \/ \E l \in Text : Hear(l)

Spec == Init /\ [][Next]_vars
\* The GUI thread works off its queue, and what the device sent arrives.
FairSpec == Spec /\ WF_vars(Deliver) /\ WF_vars(HearEcho)

-----------------------------------------------------------------------------
(* Properties *)

\* Every variable keeps its type.
TypeOK ==
  /\ obj \in Seq([rule : Rule, enabled : BOOLEAN, blocked : BOOLEAN, since : 0..Interval,
                  mine : BOOLEAN])
  /\ size \in 0..MaxTrigger /\ size <= Len(obj) /\ gone \in 0..Synced
  /\ matches \in Seq(1..Len(obj)) /\ Len(matches) <= MaxMatch
  /\ waits \in Seq(0..delay) /\ Len(waits) = Len(matches)
  /\ active \in BOOLEAN /\ button \in {"Start", "Stop"}
  /\ air \in Seq([text : Text, age : 0..delay]) /\ Len(air) <= MaxAir
  /\ delay \in Delays /\ ran \in BOOLEAN

\* Python code out of a file that the user loaded "disabled" is never
\* evaluated, whatever is done with the check boxes, until the rule is saved in
\* the editor.
BlockedNeverRuns == ~ran

\* The button of the log panel offers to stop the log while a session is active
\* and only then, though clicks and the pause and resume actions of matches all
\* change the session, and a resume may fail behind a pause of the same match.
ButtonHonest == (button = "Stop") <=> active

\* The replies of triggers whose device sends them back come to an end once the
\* user and the device have nothing to add, even when the triggers answer each
\* other; provided that a reply has gone round all of them before the guard of the
\* first one is over.
Quick == \E n \in 0..MaxTrigger, d \in Delays : size = n /\ delay = d /\ n * d < Interval
EchoEnds ==
  <>[][Machine]_vars /\ <>[]Quick => <>[](air = <<>> /\ matches = <<>>)
=============================================================================
