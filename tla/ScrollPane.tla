----------------------------- MODULE ScrollPane -----------------------------
(***************************************************************************)
(* The conversation pane of the full screen interface (tui.rs): the rows of *)
(* the log it shows, how far it can be scrolled, and how far a pane that     *)
(* does not follow moves when output arrives.                               *)
(*                                                                         *)
(* A line of the log is an identity and the number of rows it wraps to; a   *)
(* row is its line and its place in it.                                     *)
(***************************************************************************)
EXTENDS Naturals, Sequences, SequencesExt, FiniteSetsExt

CONSTANTS
  OutputCapacity,  \* OUTPUT_CAPACITY: lines of the scrollback
  Visible,         \* rows of the pane
  Unbounded        \* usize::MAX: a bound not reached by any offset

ASSUME ScrollPaneAssumption ==
  OutputCapacity \in Nat \ {0} /\ Visible \in Nat \ {0} /\ Unbounded \in Nat

WrapLine(line) == [k \in 1..line.rows |-> <<line.id, k>>]

RowsOf(lines) == FlattenSeq([i \in DOMAIN lines |-> WrapLine(lines[i])])

(* The walk back from the newest line stops once it has Visible + scroll rows: *)
(* only when it runs out of lines before is the bound known.                  *)
ScrollLimit(lines, scroll) ==
  LET rows == Len(RowsOf(lines))
  IN IF rows >= Visible + scroll THEN Unbounded
     ELSE IF rows > Visible THEN rows - Visible ELSE 0

(* Fault: the window is taken in lines, and drawn from its top. *)
VisibleLogLines(lines, scroll) ==
  LET end == Len(lines) - Min({scroll, ScrollLimit(lines, scroll), Len(lines)})
      rows == RowsOf(SubSeq(lines, IF end > Visible THEN end - Visible + 1 ELSE 1, end))
  IN SubSeq(rows, 1, Min({Visible, Len(rows)}))

VisibleLogRows(lines, scroll) ==
  LET rows == RowsOf(lines)
      end == Len(rows) - Min({scroll, ScrollLimit(lines, scroll)})
  IN SubSeq(rows, IF end > Visible THEN end - Visible + 1 ELSE 1, end)

(* Fault: arrivals are counted in lines. *)
CountArrivedLines(lines, seen, primed) ==
  IF primed /\ Len(lines) > seen THEN Len(lines) - seen ELSE 0

(* The rows gained since the frame that drew seen lines; none before the first. *)
CountArrivals(lines, seen, primed) ==
  IF primed /\ Len(lines) > seen THEN Len(RowsOf(SubSeq(lines, seen + 1, Len(lines)))) ELSE 0

(* PageUp and PageDown, and the wheel. *)
StepScroll(scroll, page, limit, older) ==
  IF older THEN Min({scroll + page, limit})
  ELSE IF scroll > page THEN scroll - page ELSE 0

(* One line more, the oldest making room. *)
PushLine(lines, line) ==
  Append(IF Len(lines) >= OutputCapacity THEN Tail(lines) ELSE lines, line)
=============================================================================
