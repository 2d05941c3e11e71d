---------------------------- MODULE LogContract ----------------------------
(***************************************************************************)
(* What a logging session promises about one of its sinks: lines are taken *)
(* while the session accepts them, kept in the order they were taken, and  *)
(* the next session opens only when the last one has kept all it took.     *)
(***************************************************************************)
EXTENDS Naturals, Sequences

CONSTANT Line      \* what can be logged
VARIABLES accepting, taken, kept
cvars == <<accepting, taken, kept>>

Init == accepting = FALSE /\ taken = <<>> /\ kept = <<>>

Open ==
  /\ ~accepting /\ kept = taken
  /\ accepting' = TRUE /\ taken' = <<>> /\ kept' = <<>>

Take(l) ==
  /\ accepting
  /\ taken' = Append(taken, l) /\ UNCHANGED <<accepting, kept>>

\* Some more of what was taken reaches the sink.
Keep ==
  /\ \E k \in (Len(kept) + 1)..Len(taken) : kept' = SubSeq(taken, 1, k)
  /\ UNCHANGED <<accepting, taken>>

Close == accepting /\ accepting' = FALSE /\ UNCHANGED <<taken, kept>>

Next == Open \/ (\E l \in Line : Take(l)) \/ Keep \/ Close

Safety == Init /\ [][Next]_cvars

\* What was taken is kept in the end, whether the session goes on or closes.
Spec == Safety /\ WF_cvars(Keep)
=============================================================================
