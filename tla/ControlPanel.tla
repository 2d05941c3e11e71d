---------------------------- MODULE ControlPanel ----------------------------
(***************************************************************************)
(* The Controls tool window: the definitions (core/controls.py), the rows  *)
(* rebuilt from them, the editor, files of controls, and what goes out     *)
(* (ui/control_panel.py).  Numbers are counted in tenths.  Where a command *)
(* goes, and whether it goes out, is send_bytes's: its result is a choice. *)
(* A button keeps no state, so pressing one is no action.                  *)
(***************************************************************************)
EXTENDS Integers, Sequences, SequencesExt, FiniteSetsExt

CONSTANTS
  Key,     \* FREE_KEYS
  Bound,   \* numbers a user or a file has for Min, Max and a value
  Step,    \* numbers a user or a file has for Step
  MaxControl   \* bound: controls in the panel

ASSUME NumbersAssumption == Bound \subseteq Int /\ Step \subseteq Int /\ MaxControl \in Nat \ {0}

VARIABLE controls  \* ControlPanel.controls, each with its row's memory:
                   \* timer, last (_last_sent), and histories: tried, the last
                   \* value handed to send; told, what last went out of a toggle;
                   \* cut, its row was rebuilt while a position was waiting

controlVars == <<controls>>

Kind    == {"button", "toggle", "slider", "number"}
Ranged  == {"slider", "number"}
NoKey   == "no key"
Nothing == {}        \* a memory is empty or holds one value
Rows    == 1..Len(controls)

-----------------------------------------------------------------------------
(* Definitions of controls *)

\* round(n / d): to the nearest, a half to the even one.
Round(n, d) ==
  LET low == n \div d  twice == 2 * (n % d)
  IN  IF twice < d \/ (twice = d /\ low % 2 = 0) THEN low ELSE low + 1
\* How finely a value is written: _decimals of the step, in tenths.
Grain(step) == IF step % 10 = 0 THEN 10 ELSE 1
Snap(c, v) ==
  LET clamped == Min({c.max, Max({c.min, v})})
      ticks   == Round(clamped - c.min, c.step)
  IN  Grain(c.step) * Round(Min({c.max, c.min + ticks * c.step}), Grain(c.step))

\* validate; "texts" is whether the name and the commands are as they must be.
Valid(d) == d.texts /\ (d.kind \in Ranged => d.max > d.min /\ d.step > 0)

\* The definitions a user or a file can give, with a value from "values".
Definitions(values) ==
  [kind : Kind, texts : BOOLEAN, min : Bound, max : Bound, step : Step,
   value : values, key : Key \cup {NoKey}]
\* What becomes of one (only a slider and a number have a range), in a new row.
Control(d, key) ==
  LET ranged == d.kind \in Ranged
      value  == IF ranged THEN Snap(d, d.value) ELSE IF d.value = 0 THEN 0 ELSE 10
  IN  [kind |-> d.kind, min |-> IF ranged THEN d.min ELSE 0,
       max |-> IF ranged THEN d.max ELSE 0, step |-> IF ranged THEN d.step ELSE 10,
       key |-> IF ranged THEN NoKey ELSE key, value |-> value,
       timer |-> FALSE, last |-> Nothing, tried |-> value, told |-> Nothing, cut |-> FALSE]
\* What is saved of one, which a load reads back.
Saved(c) == [kind |-> c.kind, texts |-> TRUE, min |-> c.min, max |-> c.max,
             step |-> c.step, value |-> c.value, key |-> c.key]
Keys(cs) == {cs[i].key : i \in DOMAIN cs} \ {NoKey}

\* load_controls: the valid ones; a key taken earlier in the file is dropped.
Loads(cs, d) ==
  IF ~Valid(d) THEN cs
  ELSE Append(cs, Control(d, IF d.key \in Keys(cs) THEN NoKey ELSE d.key))
LoadControls(file) ==
  LET upTo[n \in 0..Len(file)] == IF n = 0 THEN <<>> ELSE Loads(upTo[n - 1], file[n])
  IN  upTo[Len(file)]

-----------------------------------------------------------------------------
(* Editing: each of these ends in _rebuild, which makes every row anew *)

\* _rebuild
Rebuilt(cs) ==
  [i \in DOMAIN cs |-> [cs[i] EXCEPT !.timer = FALSE, !.last = Nothing,
                                     !.cut = @ \/ cs[i].value # cs[i].tried]]
Becomes(cs) == controls' = Rebuilt(cs)

\* ControlEditor, opened on a control with this key and value.
Edited(key, value, used) ==
  {Control(d, d.key) : d \in {e \in Definitions({value}) :
     Valid(e) /\ (e.key = key \/ e.key \notin used)}}

Add == \E c \in Edited(NoKey, 0, Keys(controls)) :
         Len(controls) < MaxControl /\ Becomes(Append(controls, c))

\* A mutant: _used_keys does not see the toggles.
UsedKeys_Buttons(i) == {controls[j].key : j \in {k \in Rows \ {i} : controls[k].kind = "button"}}
\* The other keys in use.
UsedKeys(i) == {controls[j].key : j \in Rows \ {i}} \ {NoKey}

\* What the device was told of a control stays what it was, unless the edit makes
\* a control of another kind of it.
EditControl(i) ==
  \E c \in Edited(controls[i].key, controls[i].value, UsedKeys(i)) :
    LET old == controls[i]
        new == [c EXCEPT !.told = IF c.kind = old.kind THEN old.told ELSE Nothing]
    IN  Becomes([controls EXCEPT ![i] = new])

DeleteControl(i) == Becomes(RemoveAt(controls, i))

\* _move: swaps with the neighbour of the same section.
Move(i, j) ==
  LET section(k) == controls[k].kind = "button"
  IN  /\ i < j /\ section(i) = section(j)
      /\ \A k \in i + 1 .. j - 1 : section(k) # section(i)
      /\ Becomes([controls EXCEPT ![i] = controls[j], ![j] = controls[i]])

\* import_path: adds to what is there; a shortcut in use stays where it is.
Import ==
  \E d \in Definitions(Bound) :
    LET new == LoadControls(<<d>>)
        own == [i \in DOMAIN new |-> IF new[i].key \in Keys(controls)
                                     THEN [new[i] EXCEPT !.key = NoKey] ELSE new[i]]
    IN  Len(controls) < MaxControl /\ Becomes(controls \o own)

\* resizeEvent: another number of columns.
Resize == Becomes(controls)

\* The window is closed, its settings saved, and opened again.
Restart ==
  controls' = LoadControls([i \in Rows |-> Saved(controls[i])])

-----------------------------------------------------------------------------
(* Sending *)

\* The slider is on another position: _on_changed.
Drag(i, tick) ==
  LET c == controls[i]  v == Snap(c, c.min + tick * c.step) IN
    /\ c.kind = "slider" /\ v # c.value
    /\ controls' = [controls EXCEPT ![i].value = v, ![i].timer = TRUE]

\* _send_value: what becomes of it makes no difference to the row.
Sent(c, v) == [c EXCEPT !.tried = v, !.cut = FALSE]

\* A mutant: only the first position of a row is sent.
Flush_Once(i) ==
  LET c == controls[i]  idle == [c EXCEPT !.timer = FALSE] IN
    /\ c.kind = "slider"
    /\ controls' = [controls EXCEPT ![i] =
         IF c.last # Nothing THEN idle ELSE Sent([idle EXCEPT !.last = {c.value}], c.value)]
\* _flush, when the timer fires or the slider is let go.
Flush(i) ==
  LET c == controls[i]  idle == [c EXCEPT !.timer = FALSE] IN
    /\ c.kind = "slider"
    /\ controls' = [controls EXCEPT ![i] =
         IF c.last = {c.value} THEN idle ELSE Sent([idle EXCEPT !.last = {c.value}], c.value)]
TimerFires(i) == controls[i].timer /\ Flush(i)
LetGo(i)    == ~controls[i].timer /\ Flush(i)

\* A number is typed and sent.
Submit(i, typed) ==
  LET c == controls[i]  v == Snap(c, typed) IN
    /\ c.kind = "number"
    /\ controls' = [controls EXCEPT ![i] = Sent([c EXCEPT !.value = v], v)]

\* A mutant: the switch stays where it was put.
Toggle_Stays(i, ok) ==
  LET c == controls[i]  on == IF c.value = 0 THEN 10 ELSE 0 IN
    /\ c.kind = "toggle"
    /\ controls' = [controls EXCEPT ![i].value = on, ![i].tried = on,
                                    ![i].told = IF ok THEN {on} ELSE @]
\* _on_toggle, by a click, the palette or the key: a failed send is undone.
Toggle(i, ok) ==
  LET c == controls[i]  on == IF c.value = 0 THEN 10 ELSE 0 IN
    /\ c.kind = "toggle"
    /\ controls' = [controls EXCEPT ![i].value = IF ok THEN on ELSE @,
                                    ![i].tried = IF ok THEN on ELSE @,
                                    ![i].told  = IF ok THEN {on} ELSE @]

\* fire_key: the first control with the key.
FireKey(k, ok) ==
  \E i \in Rows : /\ controls[i].key = k
                  /\ \A j \in 1..i - 1 : controls[j].key # k
                  /\ Toggle(i, ok)

-----------------------------------------------------------------------------
\* The settings of an earlier run; none, or one control, for a smaller model.
ControlInit == \E d \in Definitions(Bound) : controls = LoadControls(<<d>>)

ControlUser ==
  \/ Add \/ Import \/ Resize \/ Restart
  \/ \E i \in Rows : \/ EditControl(i) \/ DeleteControl(i) \/ LetGo(i)
                     \/ \E j \in Rows : Move(i, j)
                     \/ \E tick \in 0..Round(controls[i].max - controls[i].min, controls[i].step) :
                          Drag(i, tick)
                     \/ \E v \in Bound : Submit(i, v)
                     \/ \E ok \in BOOLEAN : Toggle(i, ok)
  \/ \E k \in Key, ok \in BOOLEAN : FireKey(k, ok)
ControlNext == ControlUser \/ \E i \in Rows : TimerFires(i)

ControlSpec     == ControlInit /\ [][ControlNext]_controlVars
ControlFairness == \A i \in 1..MaxControl : WF_controlVars(i \in Rows /\ TimerFires(i))
ControlFairSpec == ControlSpec /\ ControlFairness

\* A row, with what it remembers.
ControlRow ==
  [kind : Kind, min : Int, max : Int, step : Int, key : Key \cup {NoKey}, value : Int,
   timer : BOOLEAN, last : SUBSET Int, tried : Int, told : SUBSET Int, cut : BOOLEAN]
\* Every control keeps its type, and the panel its bound.
ControlTypeOK == controls \in Seq(ControlRow) /\ Len(controls) <= MaxControl

\* A function key fires one control, which is a button or a toggle, whatever was
\* edited, imported, moved and saved before: a key on a slider would send the text
\* {value} itself.
KeyFiresOne ==
  \A i \in Rows : controls[i].key # NoKey =>
    /\ controls[i].kind \notin Ranged
    /\ \A j \in Rows \ {i} : controls[j].key # controls[i].key

\* A toggle that was switched shows what a device was last told, whatever sends
\* failed and whatever was rebuilt since.
ToggleHonest ==
  \A i \in Rows : controls[i].kind = "toggle" => controls[i].told \subseteq {controls[i].value}

\* A slider's last position is handed to the connection, however the drag and the
\* throttle fall, unless its row is rebuilt first.
SliderSettles ==
  \A i \in 1..MaxControl :
    []<>(i \in Rows /\ controls[i].kind = "slider"
           => controls[i].value = controls[i].tried \/ controls[i].cut)
=============================================================================
