--------------------------- MODULE MCControlPanel ---------------------------
(* ControlPanel for TLC, and what the code promises of it and does not keep. *)
EXTENDS ControlPanel

\* Not so: "the final position always goes out": the rows are rebuilt within the
\* 100 ms, by a resize, say, and the timer goes with them.
FinalGoesOut ==
  \A i \in 1..MaxControl :
    []<>(i \in Rows /\ controls[i].kind = "slider" => controls[i].value = controls[i].tried)

\* Not so: "clamped to the range" for a minimum of 0.5 and a step of 1: the value is
\* rounded to whole numbers after it is clamped.
AlwaysInRange ==
  \A i \in Rows : controls[i].kind \in Ranged
                    => controls[i].value \in controls[i].min..controls[i].max
=============================================================================
