---------------------------- MODULE MCRxPipeline ----------------------------
(***************************************************************************)
(* RxPipeline for TLC, with what comments and the manual say of it and the *)
(* code does not do.                                                       *)
(***************************************************************************)
EXTENDS RxPipeline, FiniteSets

\* "a hard cap on line length (shared by every reader)" (LineSplitter): no
\* line's own bytes, its terminator apart, are more than the cap.  It takes
\* MaxByte = 4 to see one that has more.
LineCap ==
  \A i \in 1..Len(handled) :
    Cardinality({b \in ToSet(handled[i]) : wire[b] = "char"}) <= MaxLine

\* "every received byte is accounted for" (LineSplitter): none is left behind
\* when the read loop ends.
EveryByteShown == dropped = {}

\* "jump the terminal to the exact line that fired the trigger" (Live-Views.md):
\* an event that points at a terminal line points at its own.
JumpExact ==
  \A e \in events : \A i \in 1..Len(term) :
    term[i].what = "RX" /\ term[i].id = e.id => term[i].line = e.line

\* "Queued with the terminal's batched lines so it stays in order"
\* (_on_trigger_match_gui): a banner follows its line, not a later one.
BannerInOrder ==
  \A i \in 2..Len(term) :
    term[i].what = "banner" /\ term[i - 1].what = "RX" /\ Drawn(term[i].line)
      => term[i - 1].line = term[i].line

\* "Limit scrollback" (_flush_terminal): the document has no more blocks than the
\* limit.  Lines wider than the window are taken for several.
ScrollbackHolds == Blocks(doc) <= Scrollback
=============================================================================
