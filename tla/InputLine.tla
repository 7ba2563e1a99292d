----------------------------- MODULE InputLine ------------------------------
(***************************************************************************)
(* The line editor of the full screen interface (InputBuffer, tui.rs): the  *)
(* draft, its cursor, the submitted lines and the place in them while Up    *)
(* and Down walk through them.  Characters are values; a space is one.       *)
(***************************************************************************)
EXTENDS Naturals, Sequences, SequencesExt, FiniteSetsExt

CONSTANTS
  Chars,           \* characters typed, other than a space
  Wide,            \* those of them that take two columns
  Combining,       \* those that take none
  HistoryCapacity  \* INPUT_HISTORY_CAPACITY

ASSUME InputLineAssumption ==
  /\ HistoryCapacity \in Nat \ {0} /\ Wide \subseteq Chars /\ Combining \subseteq Chars \ Wide
  /\ Chars \cap {" ", "backspace", "delete", "clear", "left", "right", "home", "end", "up", "down"} = {}

EmptyLine == <<>>

(* The columns of the first n characters: one each, but for the combining and   *)
(* the wide ones.                                                             *)
Columns(line, n) ==
  Cardinality({i \in 1..n : line[i] \notin Combining}) + Cardinality({i \in 1..n : line[i] \in Wide})

(* input_view: leading characters are dropped as far as the caret requires, and *)
(* an ellipsis takes a column for them: what is dropped, and the caret's column. *)
InputView(line, cursor, width) ==
  LET Offset(start) == Columns(line, cursor) - Columns(line, start) + (IF start > 0 THEN 1 ELSE 0)
      start == Min({cursor} \cup {n \in 0..cursor : Offset(n) < width})
  IN [start |-> start, caret |-> Offset(start)]

(* at = 0: no history line is shown. *)
NewBuffer == [chars |-> EmptyLine, cursor |-> 0, history |-> <<>>, at |-> 0, draft |-> EmptyLine]

StopBrowsing(b) == [b EXCEPT !.at = 0, !.draft = EmptyLine]

Insert(b, char) ==
  StopBrowsing([b EXCEPT !.chars = InsertAt(b.chars, b.cursor + 1, char), !.cursor = @ + 1])

(* What a pasted character leaves: a line break becomes a space, another control  *)
(* is left out.                                                               *)
Pasted(char) ==
  IF char = "control" THEN <<>> ELSE IF char = "newline" THEN <<" ">> ELSE <<char>>

InsertStr(b, text) ==
  LET kept == FlattenSeq([i \in DOMAIN text |-> Pasted(text[i])])
  IN StopBrowsing([b EXCEPT !.chars = SubSeq(@, 1, b.cursor) \o kept
                                        \o SubSeq(@, b.cursor + 1, Len(@)),
                            !.cursor = @ + Len(kept)])

Backspace(b) ==
  StopBrowsing(IF b.cursor > 0
               THEN [b EXCEPT !.chars = RemoveAt(@, b.cursor), !.cursor = @ - 1] ELSE b)

Delete(b) ==
  StopBrowsing(IF b.cursor < Len(b.chars)
               THEN [b EXCEPT !.chars = RemoveAt(@, b.cursor + 1)] ELSE b)

Clear(b) == StopBrowsing([b EXCEPT !.chars = EmptyLine, !.cursor = 0])

MoveLeft(b) == [b EXCEPT !.cursor = IF @ > 0 THEN @ - 1 ELSE 0]
MoveRight(b) == [b EXCEPT !.cursor = IF @ < Len(b.chars) THEN @ + 1 ELSE @]
MoveHome(b) == [b EXCEPT !.cursor = 0]
MoveEnd(b) == [b EXCEPT !.cursor = Len(b.chars)]

Blank(line) == \A i \in DOMAIN line : line[i] = " "

(* What Enter leaves behind; the line itself is b.chars.  A blank line and    *)
(* one equal to the newest are not remembered; the oldest makes room.         *)
Submit(b) ==
  LET remembered == b.history # <<>> /\ Last(b.history) = b.chars
      room == IF Len(b.history) >= HistoryCapacity THEN Tail(b.history) ELSE b.history
  IN [Clear(b) EXCEPT !.history = IF Blank(b.chars) \/ remembered THEN @
                                  ELSE Append(room, b.chars)]

SetFromHistory(b, i) == [b EXCEPT !.at = i, !.chars = b.history[i], !.cursor = Len(b.history[i])]

(* Fault: every step back stashes what is shown. *)
HistoryPreviousStashes(b) ==
  IF b.history = <<>> THEN b
  ELSE SetFromHistory([b EXCEPT !.draft = b.chars],
                      IF b.at = 0 THEN Len(b.history) ELSE IF b.at = 1 THEN 1 ELSE b.at - 1)

(* Up: the first step keeps the draft aside. *)
HistoryPrevious(b) ==
  IF b.history = <<>> THEN b
  ELSE IF b.at = 0 THEN SetFromHistory([b EXCEPT !.draft = b.chars], Len(b.history))
  ELSE SetFromHistory(b, IF b.at = 1 THEN 1 ELSE b.at - 1)

(* Down: past the newest line the draft is back. *)
HistoryNext(b) ==
  IF b.at = 0 THEN b
  ELSE IF b.at < Len(b.history) THEN SetFromHistory(b, b.at + 1)
  ELSE [b EXCEPT !.at = 0, !.chars = b.draft, !.cursor = Len(b.draft), !.draft = EmptyLine]

EditKeys == Chars \union {" ", "backspace", "delete", "clear"}
MoveKeys == {"left", "right", "home", "end"}
BrowseKeys == {"up", "down"}

(* apply_key, for the keys that only change the buffer. *)
ApplyKey(b, key) ==
  CASE key \in Chars \union {" "} -> Insert(b, key)
    [] key = "backspace" -> Backspace(b)
    [] key = "delete" -> Delete(b)
    [] key = "clear" -> Clear(b)
    [] key = "left" -> MoveLeft(b)
    [] key = "right" -> MoveRight(b)
    [] key = "home" -> MoveHome(b)
    [] key = "end" -> MoveEnd(b)
    [] key = "up" -> HistoryPrevious(b)
    [] key = "down" -> HistoryNext(b)
=============================================================================
