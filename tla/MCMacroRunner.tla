--------------------------- MODULE MCMacroRunner ---------------------------
(***************************************************************************)
(* MacroRunner for TLC, with what its comments and the manual say of it    *)
(* and the code does not do.                                               *)
(***************************************************************************)
EXTENDS MacroRunner

\* "4. advance to next step" (core/macros.py): a step is sent once.
StepAdvances == running => times <= 1

\* "If the pattern doesn't arrive within Timeout ms, the macro aborts"
\* (Macros.md).
TimeoutAborts == expired => ~running

\* "The button becomes" a stop button and "Click it to stop mid-sequence"
\* (Macros.md): a macro that runs can be stopped from its row.
StopButton == running => \E r \in 1..Len(rows) : face[r] # 0
=============================================================================
