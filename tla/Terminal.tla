------------------------------ MODULE Terminal ------------------------------
(***************************************************************************)
(* Who owns the terminal (tui.rs, ui/tui.rs).  Three threads:               *)
(*                                                                         *)
(*   front    the front-end: starts the manager, announces the session,      *)
(*            serves what the input queue holds and writes lines, and at the  *)
(*            end takes the terminal back (TuiFrontend, TuiManager)          *)
(*   engine   the blocking task that sets the terminal up, draws, reads keys, *)
(*            and restores the terminal (run_interface, render_loop)         *)
(*   reader   the thread that reads standard input when there is no engine    *)
(*                                                                         *)
(* They share the sink that captures lines while the engine draws them, the  *)
(* active flag, and the input queue.  What a line asks of the core is left    *)
(* to module FrontEnd: here it may make the front-end write, or leave.       *)
(***************************************************************************)
EXTENDS InputLine, ScrollPane

CONSTANTS
  Options,   \* the UiOptions the front-end is started with
  InputWidth, \* columns of the input row
  Pastes,    \* texts that are pasted
  MaxLine,   \* bound: characters of a draft
  MaxWritten,  \* bound: lines the front-end writes
  MaxInputs  \* bound: keys, pastes and lines of input, and lines written

ASSUME TerminalAssumption ==
  /\ InputWidth \in Nat /\ Unbounded >= 4 * OutputCapacity
  /\ Pastes \subseteq Seq(Chars \cup {" ", "newline", "control"})

VARIABLES
  tty,       \* standard output is a terminal
  options,   \* UiOptions: capture the mouse, follow new output
  front,     \* where the front-end stands
  full,      \* full_screen: what the front-end believes of the engine
  active,    \* TuiManager::active
  engine,    \* where the engine stands
  modes,     \* what the terminal was put into
  sink,      \* OutputSink: captures, and the lines it holds
  queue,     \* TuiInput
  reader,    \* where the reader stands
  input,     \* InputBuffer
  scroll,    \* the engine's offset
  pane,      \* PaneScroll: limit, seen_lines, primed
  frame,     \* the lines and rows drawn last, and how many rows had arrived
  written,   \* history: lines written
  keys,      \* history: inputs so far
  composed,  \* history: the draft as the user left it
  held,      \* history: the row at the top of the pane when it was last moved
  lost,      \* history: whether the scrollback lost lines, and how
  broken,    \* history: the terminal could be set up in part only
  late,      \* history: the front-end stopped waiting for the engine
  over       \* history: a line was printed over the alternate screen

place == <<scroll, pane, frame, held, lost>>
typed == <<keys, queue>>
line == <<input, composed>>
screenVars == <<tty, options, front, full, active, engine, modes, sink, reader, written, broken, late,
          over, typed, line, place>>

ScreenInit ==
  /\ tty \in BOOLEAN /\ options \in Options
  /\ front = "off" /\ full = FALSE /\ active = FALSE /\ engine = "none" /\ modes = {}
  /\ sink = [enabled |-> FALSE, lines |-> <<>>] /\ queue = <<>> /\ reader = "none"
  /\ input = NewBuffer /\ scroll = 0
  /\ pane = [limit |-> Unbounded, seen |-> 0, primed |-> FALSE]
  /\ frame = [lines |-> <<>>, rows |-> <<>>, arrived |-> 0]
  /\ written = 0 /\ keys = 0 /\ composed = EmptyLine /\ held = <<>>
  /\ lost = "no" /\ broken = FALSE /\ late = FALSE /\ over = FALSE

----------------------------------------------------------------------------
(* The sink *)

Enable == sink' = [sink EXCEPT !.enabled = TRUE]
Disable == sink' = [enabled |-> FALSE, lines |-> <<>>]

(* write_line: into the sink, or straight to the terminal. *)
WriteLine(rows) ==
  /\ written < MaxWritten /\ written + keys < MaxInputs
  /\ written' = written + 1
  /\ IF sink.enabled
     THEN /\ sink' = [sink EXCEPT !.lines = PushLine(@, [id |-> written + 1, rows |-> rows])]
          /\ lost' = IF lost = "no" /\ Len(sink.lines) >= OutputCapacity THEN "evicted" ELSE lost
          /\ UNCHANGED over
     ELSE /\ over' = (over \/ "alternate" \in modes)
          /\ UNCHANGED <<sink, lost>>

(* clear_output *)
ClearOutput ==
  IF sink.enabled THEN sink' = [sink EXCEPT !.lines = <<>>] /\ lost' = "cleared"
                  ELSE UNCHANGED <<sink, lost>>

----------------------------------------------------------------------------
(* The front-end *)

(* TuiManager::start: with a terminal the engine is spawned, lines captured *)
(* before it draws.                                                        *)
Start ==
  /\ front = "off"
  /\ IF tty THEN Enable /\ active' = TRUE /\ engine' = "spawned"
            ELSE UNCHANGED <<sink, active, engine>>
  /\ front' = "started"
  /\ UNCHANGED <<tty, options, full, modes, reader, written, broken, late, over, typed, line,
                 place>>

(* TuiFrontend::start reads is_active once. *)
Believe ==
  /\ front = "started"
  /\ full' = active
  /\ front' = "announce"
  /\ UNCHANGED <<tty, options, active, engine, modes, sink, reader, written, broken, late, over,
                 typed, line, place>>

(* Lines of the banner, of an answer, of an event; of a shutdown that was    *)
(* not acknowledged.                                                        *)
Write ==
  /\ front \in {"announce", "loop", "left"}
  /\ \E rows \in 1..2 : WriteLine(rows)
  /\ UNCHANGED <<tty, options, front, full, active, engine, modes, reader, broken, late, typed,
                 line, scroll, pane, frame, held>>

(* The banner is out; without an engine the reader is spawned. *)
Announced ==
  /\ front = "announce"
  /\ front' = "loop"
  /\ reader' = IF full THEN "none" ELSE "reading"
  /\ UNCHANGED <<tty, options, full, active, engine, modes, sink, written, broken, late, over,
                 typed, line, place>>

(* A line is served; /clear is one of them. *)
ServeLine ==
  /\ front = "loop" /\ queue # <<>> /\ Head(queue) = "line"
  /\ queue' = Tail(queue)
  /\ ClearOutput \/ UNCHANGED <<sink, lost>>
  /\ UNCHANGED <<tty, options, front, full, active, engine, modes, reader, written, broken, late,
                 over, keys, line, scroll, pane, frame, held>>

(* /quit, Quit, a signal or the end of the core ends the loop: the engine is  *)
(* told (TuiManager::shutdown).                                             *)
LeaveLoop ==
  /\ front = "loop"
  /\ \/ queue # <<>> /\ Head(queue) \in {"leave", "quit"} /\ queue' = Tail(queue)
     \/ UNCHANGED queue
  /\ front' = "stopping" /\ active' = FALSE
  /\ UNCHANGED <<tty, options, full, engine, modes, sink, reader, written, broken, late, over,
                 keys, line, place>>

(* Fault: the capture is released without waiting for the engine. *)
TakeBackAtOnce ==
  /\ front = "stopping"
  /\ Disable
  /\ front' = "left"
  /\ UNCHANGED <<tty, options, full, active, engine, modes, reader, written, broken, late, over,
                 typed, line, place>>

(* It is waited for, two seconds at most, before the capture is released.   *)
TakeBack ==
  /\ front = "stopping"
  /\ late' = (engine \notin {"none", "done"})
  /\ Disable
  /\ front' = "left"
  /\ UNCHANGED <<tty, options, full, active, engine, modes, reader, written, broken, over, typed,
                 line, place>>

(* The core was asked to stop, and the receiver of the queue is dropped.    *)
End ==
  /\ front = "left"
  /\ front' = "ended"
  /\ UNCHANGED <<tty, options, full, active, engine, modes, sink, reader, written, broken, late,
                 over, typed, line, place>>

----------------------------------------------------------------------------
(* The reader *)

Send(item) == queue' = IF front = "ended" THEN queue ELSE Append(queue, item)

ReadLine ==
  /\ reader = "reading" /\ written + keys < MaxInputs
  /\ keys' = keys + 1
  /\ \E item \in {"line", "leave"} : Send(item)
  /\ reader' = IF front = "ended" THEN "done" ELSE reader
  /\ UNCHANGED <<tty, options, front, full, active, engine, modes, sink, written, broken, late,
                 over, line, place>>

(* Fault: the end of the input is not reported. *)
ReadEndSilent ==
  /\ reader = "reading"
  /\ reader' = "done"
  /\ UNCHANGED <<tty, options, front, full, active, engine, modes, sink, written, broken, late,
                 over, typed, line, place>>

(* End of file, or an error, asks to leave. *)
ReadEnd ==
  /\ reader = "reading"
  /\ Send("quit")
  /\ reader' = "done"
  /\ UNCHANGED <<tty, options, front, full, active, engine, modes, sink, written, broken, late,
                 over, keys, line, place>>

----------------------------------------------------------------------------
(* The engine: setup_terminal *)

Sets(mode) == modes' = modes \union {mode}

SetUp ==
  /\ \/ engine = "spawned" /\ Sets("raw") /\ engine' = "raw"
     \/ engine = "raw" /\ Sets("alternate") /\ engine' = "alternate"
     \/ /\ engine = "alternate"
        /\ IF options.mouse THEN Sets("mouse") ELSE UNCHANGED modes
        /\ engine' = "run"
  /\ UNCHANGED <<tty, options, front, full, active, sink, reader, written, broken, late, over,
                 typed, line, place>>

(* A step of it fails, and its error returns past the modes already set.    *)
SetUpFails ==
  /\ engine \in {"spawned", "raw", "alternate"}
  /\ engine' = "failed"
  /\ broken' = (modes # {})
  /\ UNCHANGED <<tty, options, front, full, active, modes, sink, reader, written, late, over,
                 typed, line, place>>

(* The plain interface is to go on: the flag first, then the capture.       *)
FallBack ==
  /\ \/ engine = "failed" /\ active' = FALSE /\ engine' = "fallback" /\ UNCHANGED sink
     \/ engine = "fallback" /\ Disable /\ engine' = "done" /\ UNCHANGED active
  /\ UNCHANGED <<tty, options, front, full, modes, reader, written, broken, late, over, typed,
                 line, place>>

----------------------------------------------------------------------------
(* The engine: render_loop *)

(* A frame, and with auto-scroll off the offset grows by what had arrived.  *)
Draw ==
  /\ engine = "run" /\ active
  /\ LET arrived == CountArrivals(sink.lines, pane.seen, pane.primed)
         limit == ScrollLimit(sink.lines, scroll)
         rows == VisibleLogRows(sink.lines, scroll)
     IN /\ frame' = [lines |-> sink.lines, rows |-> rows, arrived |-> arrived]
        /\ pane' = [limit |-> limit, seen |-> Len(sink.lines), primed |-> TRUE]
        /\ scroll' = IF options.follow THEN scroll ELSE Min({scroll + arrived, limit})
        /\ held' = IF lost = "cleared" THEN <<>>
                   ELSE IF pane.primed \/ rows = <<>> THEN held ELSE rows[1]
        /\ lost' = IF lost = "cleared" THEN "no" ELSE lost
  /\ engine' = "poll"
  /\ UNCHANGED <<tty, options, front, full, active, modes, sink, reader, written, broken, late,
                 over, typed, line>>

(* No key within the poll. *)
NoKey ==
  /\ engine = "poll"
  /\ engine' = "run"
  /\ UNCHANGED <<tty, options, front, full, active, modes, sink, reader, written, broken, late,
                 over, typed, line, place>>

Pressed == engine = "poll" /\ written + keys < MaxInputs /\ keys' = keys + 1

(* A key or a paste that changes the draft, the cursor or the line shown.   *)
Edit ==
  /\ Pressed
  /\ \/ \E key \in EditKeys : input' = ApplyKey(input, key)
     \/ \E text \in Pastes : input' = InsertStr(input, text)
  /\ Len(input'.chars) <= MaxLine
  /\ composed' = input'.chars
  /\ engine' = "run"
  /\ UNCHANGED <<tty, options, front, full, active, modes, sink, reader, written, broken, late,
                 over, queue, place>>

Move ==
  /\ Pressed
  /\ \E key \in MoveKeys \union BrowseKeys : input' = ApplyKey(input, key)
  /\ engine' = "run"
  /\ UNCHANGED <<tty, options, front, full, active, modes, sink, reader, written, broken, late,
                 over, queue, composed, place>>

(* The row at the top of the pane, over the lines of the last frame.        *)
Top(offset) ==
  LET rows == VisibleLogRows(frame.lines, offset)
  IN IF rows = <<>> THEN <<>> ELSE rows[1]

MoveTo(offset) ==
  /\ scroll' = offset /\ held' = Top(offset) /\ UNCHANGED lost

(* Enter: the line is on its way, and the pane at its end. *)
Enter ==
  /\ Pressed
  /\ input' = Submit(input) /\ composed' = EmptyLine
  /\ \E item \in {"line", "leave"} : Send(item)
  /\ MoveTo(0)
  /\ engine' = IF front = "ended" THEN "restore" ELSE "run"
  /\ UNCHANGED <<tty, options, front, full, active, modes, sink, reader, written, broken, late,
                 over, pane, frame>>

(* The page keys, and the wheel when it is captured. *)
Page ==
  /\ Pressed
  /\ \E older \in BOOLEAN : MoveTo(StepScroll(scroll, Visible, pane.limit, older))
  /\ engine' = "run"
  /\ UNCHANGED <<tty, options, front, full, active, modes, sink, reader, written, broken, late,
                 over, queue, line, pane, frame>>

(* Ctrl+L *)
ClearKey ==
  /\ Pressed
  /\ ClearOutput /\ scroll' = 0
  /\ engine' = "run"
  /\ UNCHANGED <<tty, options, front, full, active, modes, reader, written, broken, late, over,
                 queue, line, pane, frame, held>>

(* Ctrl+C and Ctrl+Q *)
QuitKey ==
  /\ Pressed
  /\ Send("quit")
  /\ engine' = "restore"
  /\ UNCHANGED <<tty, options, front, full, active, modes, sink, reader, written, broken, late,
                 over, line, place>>

(* The flag ends the loop. *)
HearEnd ==
  /\ engine = "run" /\ ~active
  /\ engine' = "restore"
  /\ UNCHANGED <<tty, options, front, full, active, modes, sink, reader, written, broken, late,
                 over, typed, line, place>>

(* Fault: the mouse stays captured. *)
RestoreButMouse ==
  /\ engine = "restore"
  /\ modes' = modes \intersect {"mouse"}
  /\ engine' = "done"
  /\ UNCHANGED <<tty, options, front, full, active, sink, reader, written, broken, late, over,
                 typed, line, place>>

(* run_interface gives the terminal back, however the loop ended. *)
Restore ==
  /\ engine = "restore"
  /\ modes' = modes \ ({"raw", "alternate"} \union (IF options.mouse THEN {"mouse"} ELSE {}))
  /\ engine' = "done"
  /\ UNCHANGED <<tty, options, front, full, active, sink, reader, written, broken, late, over,
                 typed, line, place>>

FrontEnd == Start \/ Believe \/ Announced \/ ServeLine \/ LeaveLoop \/ TakeBack \/ End
Engine == SetUp \/ FallBack \/ Draw \/ NoKey \/ HearEnd \/ Restore
Reader == ReadLine \/ ReadEnd
Keyboard == Edit \/ Move \/ Enter \/ Page \/ ClearKey \/ QuitKey
ScreenNext == FrontEnd \/ Write \/ Engine \/ SetUpFails \/ Reader \/ Keyboard

ScreenSpec == ScreenInit /\ [][ScreenNext]_screenVars

(* The threads go on; nobody has to write, to type, or to leave unasked.    *)
Fairness ==
  /\ WF_screenVars(Engine)
  /\ WF_screenVars(Start \/ Believe \/ Announced \/ ServeLine \/ TakeBack \/ End)
  /\ WF_screenVars(LeaveLoop /\ queue' # queue)

ScreenFairSpec == ScreenSpec /\ Fairness

----------------------------------------------------------------------------
(* Properties *)

(* When the front-end has ended, the terminal is as it was found, unless the *)
(* engine took longer than the shutdown waits, or was left half set up       *)
(* (run_interface: "restore the terminal no matter how the loop ended").     *)
GivenBack == front = "ended" /\ ~late /\ ~broken => modes = {}

(* No line is printed over the alternate screen: it is captured before the   *)
(* screen is entered and until it is left (spawn_interface, shutdown).       *)
NothingOver == late \/ broken \/ ~over

(* With auto-scroll off the pane keeps the row it showed at its top, however *)
(* many rows arrive, as long as the scrollback is not full.  A frame is drawn *)
(* at the offset of before, so what arrived since the last one moves it, by   *)
(* that many rows at most and for that one frame; the offset then makes up    *)
(* for it, and a frame with no arrivals shows that very row (render_loop,     *)
(* PaneScroll::count_arrivals).                                             *)
PaneStays ==
  ~options.follow /\ lost = "no" /\ engine = "poll" /\ held # <<>> /\ frame.rows # <<>> =>
    LET all == RowsOf(frame.lines)
    IN \E i, j \in DOMAIN all :
         /\ all[i] = held /\ all[j] = frame.rows[1]
         /\ i <= j /\ j <= i + frame.arrived

(* A frame is full of consecutive rows as far as there are any, those that    *)
(* arrived included, and an unscrolled one ends with the newest               *)
(* (visible_log_rows).                                                      *)
PaneIsFull ==
  engine = "poll" =>
    LET all == RowsOf(frame.lines)
        shown == Min({Visible, Len(all)})
    IN /\ \E before \in 0..(Len(all) - shown) :
            frame.rows = SubSeq(all, before + 1, before + shown)
       /\ scroll = 0 /\ all # <<>> => Last(frame.rows) = Last(all)

(* Walking through the history and back past its newest line leaves the      *)
(* draft as the user left it (history_previous, history_next).               *)
DraftComesBack == input.at = 0 => input.chars = composed

(* Who asks to leave - a key, a line, the end of the input - does leave.      *)
AskedEnds == (\E i \in DOMAIN queue : queue[i] # "line") \/ reader = "done" ~> front = "ended"

(* The screen is the user's again at the end, and nothing is printed over    *)
(* the engine's until then.                                                *)
ScreenIsKept == GivenBack /\ NothingOver

(* The caret is inside the input row, and nothing of a draft that fits is left   *)
(* out: the row scrolls by columns, and its ellipsis takes one of them           *)
(* (input_view: "`offset` is below `width` by construction", which holds of two   *)
(* columns or more; draw_input shows no caret in a narrower row).               *)
CaretIsShown ==
  InputWidth > 1 =>
    LET view == InputView(input.chars, input.cursor, InputWidth)
    IN /\ view.caret < InputWidth
       /\ Columns(input.chars, Len(input.chars)) < InputWidth => view.start = 0

(* What is shown: a pane full of what there is, and steady while it is read, and *)
(* the caret.                                                               *)
PaneIsSteady == PaneStays /\ PaneIsFull /\ CaretIsShown
=============================================================================
