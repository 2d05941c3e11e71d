--------------------------- MODULE MCFlashRunner ---------------------------
(***************************************************************************)
(* FlashRunner for TLC, with a statement a reader could expect and the     *)
(* code does not keep.                                                     *)
(***************************************************************************)
EXTENDS FlashRunner

\* A Stop ends everything a command started: refuted when its shell has exited and
\* a tool in the background goes on; stop() returns early then.
StopEndsAll == \A r \in Runner : stopped[r] ~> (alive[r] = {})
=============================================================================
