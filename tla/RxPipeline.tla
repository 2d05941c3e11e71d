----------------------------- MODULE RxPipeline -----------------------------
(***************************************************************************)
(* The way of a received byte: the reader thread cuts the stream into      *)
(* lines (LineSplitter) and posts them in batches (deliver); the GUI       *)
(* thread queues a batch and works the queue off, line by line, drawing a  *)
(* line or, when it lags, only logging and trigger-checking it.  A trigger *)
(* match is posted to the GUI thread again.  A timer paints the rows that  *)
(* were queued for the terminal and trims what is beyond the scrollback;   *)
(* an event's row jumps to its line.  Bytes are numbered in the order they *)
(* arrive; a line is the sequence of its bytes' numbers.  A line of the    *)
(* HEX view is one block, as it is up to 16 bytes.                         *)
(***************************************************************************)
EXTENDS Integers, Sequences, SequencesExt, FiniteSetsExt

CONSTANTS
  MaxLine,    \* MAX_LINE_BYTES
  Scrollback, \* _scrollback_limit, in blocks of the document
  MaxByte,    \* bound: bytes the device sends
  MaxChunk,   \* bound: bytes one read returns
  MaxPosted,  \* bound: reads while at most this many batches wait
  MaxNote     \* bound: jumps that find no line

ASSUME BoundsAssumption ==
  /\ MaxLine \in Nat \ {0} /\ MaxChunk \in Nat \ {0}
  /\ {MaxByte, MaxPosted, MaxNote} \subseteq Nat /\ Scrollback \in Nat \ {0}

VARIABLES
  wire,      \* what each byte that arrived is
  buf,       \* LineSplitter.buf
  carry,     \* reader._raw_carry: bytes of blank lines, for the next line
  posted,    \* lines_received batches on their way to the GUI thread
  backlog,   \* Connection.rx_backlog
  shed,      \* Connection.rx_shed
  offset,    \* Connection.hex_offset
  seq,       \* Connection.line_seq
  lastRx,    \* Connection.last_rx_line_id
  current,   \* Connection.current_rx_line_id
  matches,   \* trigger matches on their way to the GUI thread
  term,      \* what was queued for the terminal: lines, SYS messages, banners
  painted,   \* how many of them were flushed; term_pending has the others
  doc,       \* those in the document, by their place in `term'
  notes,     \* jumps that found no line
  handled,   \* history: the lines logged and trigger-checked, in order
  events,    \* history: the rows of the Trigger Events table
  dropped    \* history: bytes that were in no line when a session ended

reader  == <<wire, buf, carry, dropped>>
paper   == <<painted, doc, notes>>
display == <<shed, offset, seq, lastRx, current, matches, term, handled, events>>
vars    == <<reader, posted, backlog, display, paper>>

Kinds  == {"char", "cr", "lf"}
Bytes  == 1..MaxByte

Init ==
  /\ wire = <<>> /\ buf = <<>> /\ carry = <<>> /\ posted = <<>> /\ backlog = <<>>
  /\ shed = 0 /\ offset = 0 /\ seq = 0 /\ lastRx = -1 /\ current = -1
  /\ matches = <<>> /\ term = <<>> /\ handled = <<>> /\ events = {} /\ dropped = {}
  /\ painted = 0 /\ doc = {} /\ notes = 0

-----------------------------------------------------------------------------
(* The reader thread *)

\* One more byte of the buffer, after lines and an open rest.
SplitAt(part, b, w) ==
  IF w[b] = "lf"
  THEN [lines |-> Append(part.lines, Append(part.rest, b)), rest |-> <<>>]
  ELSE [lines |-> part.lines, rest |-> Append(part.rest, b)]
\* LineSplitter.feed: a buffer whose bytes are the kinds in `w' is split at its
\* newlines, each line with its terminator, into lines and a rest; an over-long
\* rest goes out in pieces.
Split(s, w) ==
  LET part[n \in 0..Len(s)] ==
        IF n = 0 THEN [lines |-> <<>>, rest |-> <<>>] ELSE SplitAt(part[n - 1], s[n], w)
  IN  part[Len(s)]
Pieces(s) == [k \in 1..(Len(s) \div MaxLine) |->
                SubSeq(s, (k - 1) * MaxLine + 1, k * MaxLine)]
Left(s)   == SubSeq(s, (Len(s) \div MaxLine) * MaxLine + 1, Len(s))

\* deliver: a line with no text lends its bytes to the next one with text.
Blank(r, w) == \A i \in 1..Len(r) : w[r[i]] # "char"
Takes(done, r, w) ==
  IF Blank(r, w)
  THEN [batch |-> done.batch, carry |-> done.carry \o r]
  ELSE [batch |-> Append(done.batch, done.carry \o r), carry |-> <<>>]
\* A mutant: the bytes of a blank line are skipped with it.
Delivered_SkipsBlank(raws, w) ==
  [batch |-> SelectSeq(raws, LAMBDA r : ~Blank(r, w)), carry |-> <<>>]
Delivered(raws, w) ==
  LET done[n \in 0..Len(raws)] ==
        IF n = 0 THEN [batch |-> <<>>, carry |-> carry] ELSE Takes(done[n - 1], raws[n], w)
  IN  done[Len(raws)]
Deliver(raws, w) ==
  LET d == Delivered(raws, w) IN
    /\ carry' = d.carry
    /\ posted' = IF d.batch = <<>> THEN posted ELSE Append(posted, d.batch)

\* One read that returned bytes: feed and deliver.
Read(chunk) ==
  /\ Len(wire) + Len(chunk) <= MaxByte /\ Len(posted) <= MaxPosted
  /\ wire' = wire \o chunk
  /\ LET fed == Split(buf \o [i \in 1..Len(chunk) |-> Len(wire) + i], wire') IN
       /\ buf' = Left(fed.rest)
       /\ Deliver(fed.lines \o Pieces(fed.rest), wire')
  /\ UNCHANGED <<backlog, display, paper, dropped>>

\* A mutant: only a long enough partial line is flushed.
FlushIfIdle_Short ==
  /\ Len(buf) > 1 /\ Deliver(<<buf>>, wire) /\ buf' = <<>>
  /\ UNCHANGED <<wire, backlog, display, paper, dropped>>
\* flush_if_idle: no byte arrived for the timeout.
FlushIfIdle ==
  /\ buf # <<>> /\ Deliver(<<buf>>, wire) /\ buf' = <<>>
  /\ UNCHANGED <<wire, backlog, display, paper, dropped>>

\* _read_loop returns, lost or stopped, and a later session starts over with a
\* LineSplitter of its own; the carry stays with the reader.
NewSession ==
  /\ buf # <<>> /\ dropped' = dropped \cup ToSet(buf) /\ buf' = <<>>
  /\ UNCHANGED <<wire, carry, posted, backlog, display, paper>>

-----------------------------------------------------------------------------
(* The GUI thread *)

\* _on_conn_lines
OnConnLines ==
  /\ posted # <<>>
  /\ backlog' = backlog \o Head(posted) /\ posted' = Tail(posted)
  /\ UNCHANGED <<reader, display, paper>>

\* What the handling of any line does first; `id' is current_rx_line_id when the
\* engine checks the line, and a match takes it along.
Handle(id) ==
  LET l == Head(backlog) IN
    /\ backlog' = Tail(backlog)
    /\ handled' = Append(handled, l)
    /\ offset' = offset + Len(l)
    /\ \/ matches' = Append(matches, [line |-> l, id |-> id])
       \/ UNCHANGED matches
    /\ UNCHANGED <<reader, posted, events, paper>>

\* _log and _log_banner: a row gets its id and its offset when it is queued.
Rx(l, n)  == [what |-> "RX", id |-> n, line |-> l, at |-> offset]
Sys(n)    == [what |-> "SYS", id |-> n, line |-> <<>>, at |-> 0]
Banner(l) == [what |-> "banner", id |-> 0, line |-> l, at |-> 0]

\* "Display caught up", once the queue is empty.
CatchUp(rows, n) ==
  /\ shed' = 0 /\ seq' = n + 1 /\ term' = Append(rows, Sys(n + 1))

\* A mutant: the engine checks the line before the terminal gives it its id.
DrawLine_ChecksFirst ==
  /\ backlog # <<>>
  /\ Handle(current)
  /\ lastRx' = seq + 1 /\ current' = seq + 1
  /\ term' = Append(term, Rx(Head(backlog), seq + 1))
  /\ seq' = seq + 1 /\ UNCHANGED shed

\* _on_conn_line: log, draw, check.
DrawLine ==
  /\ backlog # <<>>
  /\ Handle(seq + 1)
  /\ lastRx' = seq + 1 /\ current' = lastRx'
  /\ LET rows == Append(term, Rx(Head(backlog), seq + 1)) IN
       IF Len(backlog) = 1 /\ shed > 0
       THEN CatchUp(rows, seq + 1)
       ELSE term' = rows /\ seq' = seq + 1 /\ UNCHANGED shed

\* A mutant: the bytes of a line that is not drawn are not counted.
ShedLine_NoOffset ==
  /\ backlog # <<>>
  /\ backlog' = Tail(backlog) /\ handled' = Append(handled, Head(backlog))
  /\ shed' = shed + 1
  /\ UNCHANGED <<reader, posted, events, offset, seq, lastRx, current, matches, term, paper>>
\* _shed_overload: a line that waited longer than RX_MAX_LAG_S.  When it was the
\* last one, _drain_rx may have time left to say that the display caught up.
ShedLine ==
  /\ backlog # <<>>
  /\ Handle(current)
  /\ UNCHANGED <<lastRx, current>>
  /\ \/ shed' = shed + 1 /\ UNCHANGED <<seq, term>>
     \/ Len(backlog) = 1 /\ CatchUp(term, seq)

\* _on_trigger_match_gui: the banner, perhaps a "Log paused" or "Log resumed"
\* line, and the row of the events table.
OnMatch ==
  /\ matches # <<>> /\ matches' = Tail(matches)
  /\ LET m == Head(matches)  rows == Append(term, Banner(m.line)) IN
       /\ events' = events \cup {m}
       /\ \/ term' = rows /\ UNCHANGED seq
          \/ seq' = seq + 1 /\ term' = Append(rows, Sys(seq + 1))
  /\ UNCHANGED <<reader, posted, backlog, shed, offset, lastRx, current, handled, paper>>

-----------------------------------------------------------------------------
(* The terminal *)

\* Blocks of the document that has these rows: a banner has a blank line before
\* it, and the last block is empty.
Blocks(rows) == 1 + Cardinality(rows) + Cardinality({i \in rows : term[i].what = "banner"})

\* What a trim leaves: the cursor moves down over the excess and a tenth of the
\* limit, by lines as they are wrapped, and takes away no more blocks than that.
Trimmed(rows) ==
  IF Blocks(rows) <= Scrollback THEN {rows}
  ELSE {left \in {{i \in rows : i >= j} : j \in rows} :
          Blocks(left) >= Scrollback - Scrollback \div 10}

\* _flush_terminal: of a long queue only the end is painted.
Flush ==
  /\ painted' = Len(term)
  /\ doc' \in Trimmed(doc \cup {i \in painted + 1 .. Len(term) : i > Len(term) - Scrollback})
\* _flush_terminals, by the timer.
FlushTimer ==
  /\ painted < Len(term) /\ Flush
  /\ UNCHANGED <<reader, posted, backlog, display, notes>>

\* jump_to_line: what is queued is painted first; a line that is found is only
\* selected.  Of the others one says so.
Jump(e) ==
  /\ notes < MaxNote /\ notes' = notes + 1
  /\ IF e.id < 0 THEN UNCHANGED <<painted, doc>> ELSE Flush
  /\ \A i \in doc' : term[i].what = "RX" => term[i].id # e.id
  /\ seq' = seq + 1 /\ term' = Append(term, Sys(seq + 1))
  /\ UNCHANGED <<reader, posted, backlog, shed, offset, lastRx, current, matches, handled, events>>

-----------------------------------------------------------------------------
Chunks == UNION {[1..k -> Kinds] : k \in 1..MaxChunk}
Next == \/ \E c \in Chunks : Read(c)
        \/ FlushIfIdle \/ NewSession
        \/ OnConnLines \/ DrawLine \/ ShedLine \/ OnMatch
        \/ FlushTimer \/ \E e \in events : Jump(e)
Spec == Init /\ [][Next]_vars

\* The reader polls its idle timeout and the GUI's timer drains the queue; no
\* line has to be shed and the device owes nothing.
Fairness == WF_vars(FlushIfIdle) /\ WF_vars(OnConnLines) /\ WF_vars(DrawLine)
            /\ WF_vars(OnMatch)
FairSpec == Spec /\ Fairness

-----------------------------------------------------------------------------
(* Properties *)

\* Every variable keeps its type.
Line == Seq(Bytes)
Note == [line : Line, id : Nat \cup {-1}]
TypeOK ==
  /\ wire \in Seq(Kinds) /\ Len(wire) <= MaxByte
  /\ buf \in Line /\ carry \in Line /\ dropped \subseteq Bytes
  /\ posted \in Seq(Seq(Line)) /\ backlog \in Seq(Line) /\ handled \in Seq(Line)
  /\ {shed, offset, seq} \subseteq Nat /\ {lastRx, current} \subseteq -1..seq
  /\ matches \in Seq(Note) /\ events \subseteq Note
  /\ term \in Seq([what : {"RX", "SYS", "banner"}, id : 0..seq, line : Line, at : Nat])
  /\ painted \in 0..Len(term) /\ doc \subseteq 1..painted /\ notes \in 0..MaxNote

\* Every byte that arrived is, in order and once, in a line that was handled, in
\* one on its way, in the carry or in the splitter: the split, the cap, the idle
\* flush, the blank lines and the two queues lose and swap nothing in a session.
Stream ==
  FlattenSeq(handled) \o FlattenSeq(backlog) \o FlattenSeq(FlattenSeq(posted)) \o carry \o buf
EveryByte ==
  /\ ToSet(Stream) = 1..Len(wire) \ dropped
  /\ \A i, j \in 1..Len(Stream) : i < j => Stream[i] < Stream[j]

\* The HEX view's offset of a drawn line is the number of bytes handled before
\* it, whatever was shed in between.
OffsetTrue ==
  \A i \in 1..Len(term) : term[i].what = "RX" =>
    \E k \in 1..Len(handled) :
      /\ handled[k] = term[i].line
      /\ term[i].at = Len(FlattenSeq(SubSeq(handled, 1, k - 1)))

\* An event whose line was drawn carries the id of that very line, and the line
\* is queued or in the document until a scrollback, less its tenth, is after it:
\* batches, bursts longer than the scrollback and trims lose no newer line.
Drawn(l)  == \E i \in 1..Len(term) : term[i].what = "RX" /\ term[i].line = l
Kept(i)   == \/ i > painted \/ i \in doc
             \/ Blocks(i + 1 .. painted) >= Scrollback - Scrollback \div 10
JumpsTo(e) == \E i \in 1..Len(term) :
                term[i].what = "RX" /\ term[i].id = e.id /\ term[i].line = e.line /\ Kept(i)
EventTrue == \A e \in events : Drawn(e.line) => JumpsTo(e)

\* A partial line does not wait for a newline that never comes, and a burst is
\* worked off to its last line, however it was cut.
NoneStuck ==
  /\ (buf # <<>>) ~> (buf = <<>>)
  /\ (posted # <<>> \/ backlog # <<>>) ~> (posted = <<>> /\ backlog = <<>>)
=============================================================================
