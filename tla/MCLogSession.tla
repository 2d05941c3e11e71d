---------------------------- MODULE MCLogSession ----------------------------
(***************************************************************************)
(* LogSession for TLC, with the promises of the manual that the code does  *)
(* not keep.                                                               *)
(***************************************************************************)
EXTENDS LogSession

\* "The logger writes the complete record" (Data-Logger.md): what a session
\* wrote to its file is still there after later sessions.
RecordSurvives ==
  \A k \in 1..session : \A s \in usedBy[k] : Over(k) => Kept(s, k) = taken[k]
=============================================================================
