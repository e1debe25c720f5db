------------------------------- MODULE Screen -------------------------------
(***************************************************************************)
(* The text screens of the ECE391 kernel's terminals, once each terminal   *)
(* has its shell: the output of terminal_write() and the cursor that       *)
(* terminal_read() sets (terminal.c), the messages of the exception        *)
(* handlers, the keyboard's echo, and make_terminal_active(), which swaps  *)
(* pages when the displayed terminal changes.  write() and the handlers    *)
(* run with interrupts off, so terminal_putc() (lib.c) is one step;        *)
(* terminal_read() runs with them on and is cut at each access to what     *)
(* others write.  Its wait for Enter is in TerminalInput: here a read may  *)
(* begin at any time.  What programs draw through vidmap is not text that  *)
(* a terminal was given to show.                                           *)
(*                                                                         *)
(* A glyph is the number of the terminal that put it there, as its colour  *)
(* is in the code; Blank is a space and Message a character of printf().   *)
(***************************************************************************)
EXTENDS Integers, SequencesExt

CONSTANTS
  Terminals,
  NUM_COLS, NUM_ROWS,
  MessageSizes,         \* lengths of the exception handlers' messages
  Readers, Raising,     \* bounds: terminals whose processes read, and raise exceptions
  MaxTyped              \* bound: characters typed before Enter, less than a screen

ASSUME ScreenAssumption ==
  /\ Terminals \subseteq Nat \ {0} /\ 1 \in Terminals
  /\ NUM_COLS \in Nat \ {0} /\ NUM_ROWS \in Nat \ {0}
  /\ MessageSizes \subseteq 1 .. NUM_COLS /\ Readers \subseteq Terminals /\ Raising \subseteq Terminals
  /\ MaxTyped \in 0 .. NUM_COLS * NUM_ROWS - 1

Blank   == 0
Message == -1
Screen  == 0                                 \* VIDMEM; t is terminal t's page
Cells   == 0 .. NUM_COLS * NUM_ROWS - 1

VARIABLES
  cur_terminal, cur_terminal_running,
  video_mem,     \* page that the running process writes to
  term,          \* the pages, and screen_x and screen_y of terminal_arr
  buffer_pos,    \* characters that backspace may erase
  screen_y,      \* of lib.c: the row printf() is in, for all terminals
  reader,        \* where t's process is in terminal_read(), and what it has loaded
  \* history
  text,          \* last rows of what terminal t was given to show
  mine,          \* characters at the end of text[t] that were typed
  erased,        \* a backspace has erased what t's process wrote
  overtaken,     \* processes in a read since whose begin a cursor or the screen has changed
  moved          \* such a read has put t's cursor elsewhere

history == <<text, mine, erased, overtaken, moved>>
vars == <<cur_terminal, cur_terminal_running, video_mem, term, buffer_pos, screen_y, reader, history>>

Idle == [at |-> "user", on |-> 1, x |-> 0, y |-> 0]

EmptyPage == [i \in Cells |-> Blank]

Init ==
  /\ cur_terminal = 1 /\ cur_terminal_running = 1 /\ video_mem = Screen
  /\ term = [page |-> [v \in Terminals \cup {Screen} |-> EmptyPage],
             x |-> [t \in Terminals |-> 0], y |-> [t \in Terminals |-> 0]]
  /\ buffer_pos = [t \in Terminals |-> 0]
  /\ screen_y \in 1 .. NUM_ROWS                \* the boot has printed lines
  /\ reader = [t \in Terminals |-> Idle]
  /\ text = [t \in Terminals |-> <<<<>>>>]
  /\ mine = [t \in Terminals |-> 0]
  /\ erased = [t \in Terminals |-> FALSE]
  /\ overtaken = {}
  /\ moved = [t \in Terminals |-> FALSE]

-----------------------------------------------------------------------------
(* Steps of terminal_putc() for terminal t and page v, as functions of term.   *)
(* A name with a suffix is a faulty variant of the definition after it.        *)

At(s, t, x, y) == [s EXCEPT !.x[t] = x, !.y[t] = y]

Scroll(s, t, v) ==
  At([s EXCEPT !.page[v] = [i \in Cells |-> IF i + NUM_COLS \in Cells THEN @[i + NUM_COLS] ELSE Blank]],
     t, 0, NUM_ROWS - 1)

Poke(s, t, v, c) ==
  LET i == NUM_COLS * s.y[t] + s.x[t] IN
  [s EXCEPT !.page[v][i] = c]

IncX(s, t) == [s EXCEPT !.x[t] = @ + 1]
IncY(s, t) == [s EXCEPT !.y[t] = @ + s.x[t] \div NUM_COLS]

Wrap(s, t, v) ==
  IF s.y[t] >= NUM_ROWS THEN Scroll(s, t, v)
  ELSE At(s, t, s.x[t] % NUM_COLS, s.y[t] % NUM_ROWS)

PutNewline_Late(s, t, v) ==
  IF s.y[t] + 1 > NUM_ROWS THEN Scroll(s, t, v) ELSE At(s, t, 0, s.y[t] + 1)
PutNewline(s, t, v) ==
  IF s.y[t] + 1 >= NUM_ROWS THEN Scroll(s, t, v) ELSE At(s, t, 0, s.y[t] + 1)

\* set_cursor() with the coordinates t has: a column past the edge means a new row.
SetCursor(s, t, v) ==
  IF s.x[t] < NUM_COLS THEN s
  ELSE IF s.y[t] + 1 >= NUM_ROWS THEN Scroll(s, t, v) ELSE At(s, t, 0, s.y[t] + 1)

PutChar(s, t, v) == SetCursor(Wrap(IncY(IncX(Poke(s, t, v, t), t), t), t, v), t, v)

-----------------------------------------------------------------------------
(* What a terminal should show: its text cut into rows, the last NUM_ROWS. *)

LastRows(rows) == SubSeq(rows, IF Len(rows) > NUM_ROWS THEN Len(rows) - NUM_ROWS + 1 ELSE 1, Len(rows))
AddChar(rows, c) ==
  LET row == Append(Last(rows), c) IN
  LastRows(Front(rows) \o IF Len(row) = NUM_COLS THEN <<row, <<>>>> ELSE <<row>>)
AddNewline(rows) == LastRows(Append(rows, <<>>))
EraseChar(rows) ==
  LET kept == IF Last(rows) = <<>> THEN Front(rows) ELSE rows IN
  Append(Front(kept), Front(Last(kept)))

Render(rows) ==
  [i \in Cells |-> LET y == (i \div NUM_COLS) + 1  x == (i % NUM_COLS) + 1 IN
                   IF y <= Len(rows) THEN IF x <= Len(rows[y]) THEN rows[y][x] ELSE Blank
                   ELSE Blank]

View(t) == term.page[IF t = cur_terminal THEN Screen ELSE t]

\* A step that changes a cursor or the screen, if changed, overtakes the reads under way.
Overtakes(changed) ==
  overtaken' = {u \in Terminals : reader'[u].at # "user" /\ (changed \/ u \in overtaken)}

-----------------------------------------------------------------------------
(* Each character of a terminal_write() by the running terminal's process.     *)

WriteChar(t) ==
  /\ t = cur_terminal_running /\ reader[t].at = "user"
  /\ term' = SetCursor(PutChar(term, t, video_mem), t, video_mem)
  /\ text' = [text EXCEPT ![t] = AddChar(@, t)]
  /\ mine' = [mine EXCEPT ![t] = 0]
  /\ UNCHANGED <<cur_terminal, cur_terminal_running, video_mem, buffer_pos, screen_y,
                 reader, erased, moved>>
  /\ Overtakes(TRUE)

WriteNewline(t) ==
  /\ t = cur_terminal_running /\ reader[t].at = "user"
  /\ term' = SetCursor(PutNewline(term, t, video_mem), t, video_mem)
  /\ text' = [text EXCEPT ![t] = AddNewline(@)]
  /\ mine' = [mine EXCEPT ![t] = 0]
  /\ UNCHANGED <<cur_terminal, cur_terminal_running, video_mem, buffer_pos, screen_y,
                 reader, erased, moved>>
  /\ Overtakes(TRUE)

-----------------------------------------------------------------------------
(* The end of terminal_read(), when Enter has been pressed and the line copied *)
(* (TerminalInput): set_cursor(get_screen_x(get_cur_terminal()),               *)
(* get_screen_y(get_cur_terminal()), 1), whose arguments the build computes    *)
(* from the last to the first.                                                 *)

ReadStep(t, from, to) ==
  /\ t = cur_terminal_running /\ t \in Readers /\ reader[t].at = from
  /\ reader' = [reader EXCEPT ![t] = to]
  /\ UNCHANGED <<cur_terminal, cur_terminal_running, video_mem, buffer_pos, screen_y, text, mine, erased>>

GetCurTerminal_Running(t) ==
  /\ \E step \in {<<"user", "get_y">>, <<"for_x", "get_x">>, <<"for_set", "set_x">>} :
       ReadStep(t, step[1], [reader[t] EXCEPT !.at = step[2], !.on = cur_terminal_running])
  /\ UNCHANGED <<term, overtaken, moved>>

\* get_cur_terminal() for an argument, and cur_terminal within set_cursor().
GetCurTerminal(t) ==
  /\ \E step \in {<<"user", "get_y">>, <<"for_x", "get_x">>, <<"for_set", "set_x">>} :
       ReadStep(t, step[1], [reader[t] EXCEPT !.at = step[2], !.on = cur_terminal])
  /\ UNCHANGED <<term, overtaken, moved>>

GetScreen(t) ==
  /\ \/ ReadStep(t, "get_y", [reader[t] EXCEPT !.at = "for_x", !.on = 1, !.y = term.y[reader[t].on]])
     \/ ReadStep(t, "get_x", [reader[t] EXCEPT !.at = "for_set", !.on = 1, !.x = term.x[reader[t].on]])
  /\ UNCHANGED <<term, overtaken, moved>>

\* A read stores what it loaded; if that moves the cursor of u, and the read was
\* overtaken, what u shows from here on is another matter.
Stores(t, u) ==
  /\ Overtakes(term' # term)
  /\ moved' = [moved EXCEPT ![u] = @ \/ (term' # term /\ t \in overtaken)]

StoreX(t) ==
  /\ ReadStep(t, "set_x", [reader[t] EXCEPT !.at = "set_y"])
  /\ term' = [term EXCEPT !.x[reader[t].on] = reader[t].x]
  /\ Stores(t, reader[t].on)

StoreY(t) ==
  /\ ReadStep(t, "set_y", Idle)
  /\ term' = [term EXCEPT !.y[reader[t].on] = reader[t].y]
  /\ Stores(t, reader[t].on)

TerminalRead(t) == GetCurTerminal(t) \/ GetScreen(t) \/ StoreX(t) \/ StoreY(t)

-----------------------------------------------------------------------------
(* An exception of the running terminal's process, in a program or where a     *)
(* system call uses the program's pointer: printf() of n characters and a      *)
(* newline, from column 0, where the newline of the last message left it.      *)
(* putc() takes the row modulo NUM_ROWS behind a character only.               *)

Overprint_Cleared(page, row, n) ==
  [i \in Cells |->
     IF \E k \in 0 .. n - 1 : i = NUM_COLS * (IF k = 0 THEN row ELSE row % NUM_ROWS) + k
     THEN Message ELSE Blank]
Overprint(page, row, n) ==
  [i \in Cells |->
     IF \E k \in 0 .. n - 1 : i = NUM_COLS * (IF k = 0 THEN row ELSE row % NUM_ROWS) + k
     THEN Message ELSE page[i]]

NextRow_Unwrapped(row) == row + 1
NextRow(row) == (row % NUM_ROWS) + 1

Exception(t) ==
  /\ t = cur_terminal_running /\ t \in Raising /\ reader[t].at = "user"
  /\ \E n \in MessageSizes : term' = [term EXCEPT !.page[video_mem] = Overprint(@, screen_y, n)]
  /\ screen_y' = NextRow(screen_y)
  /\ UNCHANGED <<cur_terminal, cur_terminal_running, video_mem, buffer_pos, reader, history>>

-----------------------------------------------------------------------------
(* Interrupts: the PIT, and keys of the displayed terminal t. *)

SwitchTasks ==
  /\ \E t \in Terminals \ {cur_terminal_running} :
       /\ cur_terminal_running' = t
       /\ video_mem' = IF t = cur_terminal THEN Screen ELSE t
  /\ UNCHANGED <<cur_terminal, term, buffer_pos, screen_y, reader, history>>

MakeTerminalActive_NoSave(n) ==
  /\ n # cur_terminal /\ cur_terminal' = n
  /\ term' = [term EXCEPT !.page[Screen] = term.page[n]]
  /\ video_mem' = IF cur_terminal_running = n THEN Screen ELSE cur_terminal_running
  /\ UNCHANGED <<cur_terminal_running, buffer_pos, screen_y, reader, text, mine, erased, moved>>
  /\ Overtakes(TRUE)

\* Alt+Fn: the screen is saved to its terminal's page and n's page is shown.
MakeTerminalActive(n) ==
  /\ n # cur_terminal
  /\ cur_terminal' = n
  /\ term' = [term EXCEPT !.page[cur_terminal] = term.page[Screen], !.page[Screen] = term.page[n]]
  /\ video_mem' = IF cur_terminal_running = n THEN Screen ELSE cur_terminal_running
  /\ UNCHANGED <<cur_terminal_running, buffer_pos, screen_y, reader, text, mine, erased, moved>>
  /\ Overtakes(TRUE)

Echo(t) ==
  /\ t = cur_terminal /\ buffer_pos[t] < MaxTyped
  /\ term' = PutChar(term, t, Screen)
  /\ buffer_pos' = [buffer_pos EXCEPT ![t] = @ + 1]
  /\ text' = [text EXCEPT ![t] = AddChar(@, t)]
  /\ mine' = [mine EXCEPT ![t] = @ + 1]
  /\ UNCHANGED <<cur_terminal, cur_terminal_running, video_mem, screen_y, reader, erased, moved>>
  /\ Overtakes(TRUE)

EchoEnter(t) ==
  /\ t = cur_terminal
  /\ term' = IF term.y[t] < NUM_ROWS - 1 THEN PutNewline(term, t, Screen) ELSE Scroll(term, t, Screen)
  /\ buffer_pos' = [buffer_pos EXCEPT ![t] = 0]
  /\ text' = [text EXCEPT ![t] = AddNewline(@)]
  /\ mine' = [mine EXCEPT ![t] = 0]
  /\ UNCHANGED <<cur_terminal, cur_terminal_running, video_mem, screen_y, reader, erased, moved>>
  /\ Overtakes(TRUE)

\* delete_char: back one column, or to the end of the row above, and blank it.
DeleteChar(t) ==
  LET s == IF term.x[t] = 0 THEN At(term, t, NUM_COLS - 1, term.y[t] - 1)
           ELSE At(term, t, term.x[t] - 1, term.y[t])
  IN  term' = Poke(s, t, Screen, Blank)

\* Typed characters that output has followed are erased in the wrong place.
Backspace(t) ==
  /\ t = cur_terminal /\ buffer_pos[t] # 0 /\ ~(term.x[t] = 0 /\ term.y[t] = 0)
  /\ DeleteChar(t)
  /\ buffer_pos' = [buffer_pos EXCEPT ![t] = @ - 1]
  /\ IF mine[t] = 0 THEN UNCHANGED <<text, mine>>
     ELSE /\ text' = [text EXCEPT ![t] = EraseChar(@)]
          /\ mine' = [mine EXCEPT ![t] = @ - 1]
  /\ erased' = [erased EXCEPT ![t] = @ \/ mine[t] = 0]
  /\ UNCHANGED <<cur_terminal, cur_terminal_running, video_mem, screen_y, reader, moved>>
  /\ Overtakes(TRUE)

CtrlL(t) ==
  /\ t = cur_terminal
  /\ term' = At([term EXCEPT !.page[Screen] = EmptyPage], t, 0, 0)
  /\ buffer_pos' = [buffer_pos EXCEPT ![t] = 0]
  /\ text' = [text EXCEPT ![t] = <<<<>>>>]
  /\ mine' = [mine EXCEPT ![t] = 0]
  /\ erased' = [erased EXCEPT ![t] = FALSE]
  /\ moved' = [moved EXCEPT ![t] = FALSE]
  /\ UNCHANGED <<cur_terminal, cur_terminal_running, video_mem, screen_y, reader>>
  /\ Overtakes(TRUE)

\* The running terminal's process is halted, in terminal_read() or elsewhere.
CtrlC ==
  /\ reader' = [reader EXCEPT ![cur_terminal_running] = Idle]
  /\ Overtakes(FALSE)
  /\ UNCHANGED <<cur_terminal, cur_terminal_running, video_mem, term, buffer_pos, screen_y,
                 text, mine, erased, moved>>

-----------------------------------------------------------------------------
Key(t) == Echo(t) \/ EchoEnter(t) \/ Backspace(t) \/ CtrlL(t) \/ MakeTerminalActive(t)

Process(t) == WriteChar(t) \/ WriteNewline(t) \/ TerminalRead(t) \/ Exception(t)

Next == SwitchTasks \/ CtrlC \/ \E t \in Terminals : Process(t) \/ Key(t)

Spec == Init /\ [][Next]_vars

-----------------------------------------------------------------------------
ReadPlaces == {"user", "get_y", "for_x", "get_x", "for_set", "set_x", "set_y"}

\* Every variable keeps its type, and every cursor, the one printf() has and
\* those that reads have in registers, is on the page, or for printf() one row
\* below it.
TypeOK ==
  /\ {cur_terminal, cur_terminal_running} \subseteq Terminals
  /\ video_mem = IF cur_terminal_running = cur_terminal THEN Screen ELSE cur_terminal_running
  /\ term.page \in [Terminals \cup {Screen} -> [Cells -> Terminals \cup {Blank, Message}]]
  /\ \A t \in Terminals : term.x[t] \in 0 .. NUM_COLS - 1 /\ term.y[t] \in 0 .. NUM_ROWS - 1
  /\ screen_y \in 1 .. NUM_ROWS
  /\ overtaken \subseteq Terminals
  /\ reader \in [Terminals -> [at : ReadPlaces, on : Terminals, x : 0 .. NUM_COLS - 1, y : 0 .. NUM_ROWS - 1]]

Disturbed(t) == erased[t] \/ moved[t]

\* Bounds of the run: what follows a disturbance is not explored, and reads are
\* with no message on a page and with the row of printf() in one place.
NoneDisturbed == \A t \in Terminals : ~Disturbed(t)
ReadsApart ==
  (\E t \in Terminals : reader[t].at # "user") =>
    /\ screen_y = NUM_ROWS
    /\ \A v \in Terminals \cup {Screen} : \A i \in Cells : term.page[v][i] # Message

\* Each terminal, on the screen or off it, shows exactly the text it was given,
\* wrapped and scrolled, with the cursor after it, however its process's output,
\* the echo, reads, task switches and terminal switches interleave; but where a
\* message of an exception handler stands over it, and until a backspace erases
\* output or a read that was overtaken puts back the cursor it had loaded.
ShowsText ==
  \A t \in Terminals : ~Disturbed(t) =>
    /\ \A i \in Cells : View(t)[i] \in {Render(text[t])[i], Message}
    /\ term.y[t] = Len(text[t]) - 1 /\ term.x[t] = Len(Last(text[t]))

\* "Should only be allowed to erase keyboard buffer and not anything on the
\* screen." (delete_char(), lib.c)
ErasesTypedOnly == \A t \in Terminals : ~erased[t]

\* "SIDE EFFECT: none" (terminal_read(), terminal.c): a read leaves the cursor
\* where it is.
ReadKeepsCursor == \A t \in Terminals : ~moved[t]
=============================================================================
