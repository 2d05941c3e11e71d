----------------------------- MODULE MCTriggers -----------------------------
(* Two rules: one that starts a new log session and hears its own answer, two *)
(* of which answer each other; and one in python that pauses the log.         *)
EXTENDS Triggers

RuleOf(py, hs, rep, pa, re) ==
  [python |-> py, valid |-> TRUE, hears |-> hs, reply |-> rep, pauses |-> pa, resumes |-> re]

Answers  == RuleOf(FALSE, {"go", "ok"}, "ok", TRUE, TRUE)
Python   == RuleOf(TRUE, {"ok"}, None, TRUE, FALSE)
Rules    == {Answers, Python}
Defaults == <<Answers>>

\* Statements the code does not keep.  After a load the rows show other
\* triggers than the engine has, and their buttons act by index.
RowsAgree == gone = Synced
\* The guard of each trigger is enough for any number of them.  (With Delays = {2}
\* two triggers answer each other for ever.)
TwoEchoesEnd == <>[][Machine]_vars => <>[](air = <<>> /\ matches = <<>>)
\* The check box of a loaded rule says whether it fires.
BoxHonest == \A i \in 1..size : obj[i].enabled => ~obj[i].blocked
=============================================================================
