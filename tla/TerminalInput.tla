---------------------------- MODULE TerminalInput ----------------------------
(***************************************************************************)
(* Line input of the ECE391 kernel: the handlers of keyboard.c that edit   *)
(* the displayed terminal's keyboard_buffer and terminal_read()            *)
(* (terminal.c), which runs with interrupts enabled.                       *)
(*                                                                         *)
(* A key is one action, for keyboard_interrupt() runs with interrupts off. *)
(* terminal_read() is cut at each access to a variable that the handlers   *)
(* write.                                                                  *)
(***************************************************************************)
EXTENDS Integers, SequencesExt

CONSTANTS
  Terminals,
  Processes,         \* processes that read, of whichever terminal
  KEYBOARD_MAX_SZ,   \* cells of keyboard_buffer
  TAB_SIZE,
  Chars,             \* characters typed by keys other than space, tab and enter
  NBytes             \* sizes that programs pass to read()

ASSUME InputAssumption ==
  /\ 1 \in Terminals
  /\ KEYBOARD_MAX_SZ \in Nat \ {0, 1}
  /\ TAB_SIZE \in Nat
  /\ NBytes \subseteq Nat
  /\ Chars \cap {" ", "nl", "nul"} = {}

Cells   == 0 .. KEYBOARD_MAX_SZ - 1
MaxLine == KEYBOARD_MAX_SZ - 1          \* characters of a line, without newline

VARIABLES
  cur_terminal,
  keyboard_buffer, buffer_pos, enter_pressed,   \* terminal_arr[t]
  reader,     \* where each process is in terminal_read, and its locals
  \* history
  line,       \* what the user typed at t since the last line ended
  entered,    \* the line that the last Enter at t ended, until a read takes it
  disturbed   \* between an Enter at t and the end of its read, t was typed at or
              \* hidden, or two processes read the line

keyboard == <<keyboard_buffer, buffer_pos, enter_pressed>>
vars     == <<cur_terminal, keyboard, reader, line, entered, disturbed>>

Idle == [at |-> "idle", term |-> 1, n |-> 0, buf |-> <<>>, want |-> <<>>, j |-> 0]

Init ==
  /\ cur_terminal = 1
  /\ keyboard_buffer = [t \in Terminals |-> [i \in Cells |-> "nul"]]
  /\ buffer_pos = [t \in Terminals |-> 0]
  /\ enter_pressed = [t \in Terminals |-> 0]
  /\ reader = [r \in Processes |-> Idle]
  /\ line = [t \in Terminals |-> <<>>]
  /\ entered = [t \in Terminals |-> <<>>]
  /\ disturbed = [t \in Terminals |-> FALSE]

\* A read of t's line is due or under way.
Reading(r, t) == reader[r].at \in {"clear_flag", "test", "copy", "wipe"} /\ reader[r].term = t
Busy(t)       == enter_pressed[t] = 1 \/ \E r \in Processes : Reading(r, t)

-----------------------------------------------------------------------------
(* The keyboard's handlers, which edit the displayed terminal t.  A name with  *)
(* a suffix, here and below, is a faulty variant of the definition after it.   *)

Put_NoLimit(t, c, n) ==
  /\ keyboard_buffer' = [keyboard_buffer EXCEPT ![t] =
       [i \in Cells |-> IF i \in buffer_pos[t] .. buffer_pos[t] + n - 1 THEN c ELSE @[i]]]
  /\ buffer_pos' = [buffer_pos EXCEPT ![t] = @ + n]
  /\ line' = [line EXCEPT ![t] = @ \o [k \in 1 .. n |-> c]]

\* n times the character c at buffer_pos, as far as the line has room.
Put(t, c, n) ==
  LET m == IF buffer_pos[t] + n > MaxLine THEN MaxLine - buffer_pos[t] ELSE n IN
  /\ buffer_pos[t] < MaxLine
  /\ keyboard_buffer' = [keyboard_buffer EXCEPT ![t] =
       [i \in Cells |-> IF i \in buffer_pos[t] .. buffer_pos[t] + m - 1 THEN c ELSE @[i]]]
  /\ buffer_pos' = [buffer_pos EXCEPT ![t] = @ + m]
  /\ line' = [line EXCEPT ![t] = @ \o [k \in 1 .. m |-> c]]

Edited(t) == disturbed' = [disturbed EXCEPT ![t] = @ \/ Busy(t)]

Type(t, c) ==
  /\ t = cur_terminal /\ Put(t, c, 1) /\ Edited(t)
  /\ UNCHANGED <<cur_terminal, enter_pressed, reader, entered>>

Space(t) ==
  /\ t = cur_terminal /\ Put(t, " ", 1) /\ Edited(t)
  /\ UNCHANGED <<cur_terminal, enter_pressed, reader, entered>>

Tab(t) ==
  /\ t = cur_terminal /\ Put(t, " ", TAB_SIZE) /\ Edited(t)
  /\ UNCHANGED <<cur_terminal, enter_pressed, reader, entered>>

Backspace_KeepPos(t) ==
  /\ t = cur_terminal /\ buffer_pos[t] # 0
  /\ keyboard_buffer' = [keyboard_buffer EXCEPT ![t][buffer_pos[t] - 1] = " "]
  /\ line' = [line EXCEPT ![t] = Front(@)]
  /\ Edited(t)
  /\ UNCHANGED <<cur_terminal, buffer_pos, enter_pressed, reader, entered>>

Backspace(t) ==
  /\ t = cur_terminal /\ buffer_pos[t] # 0
  /\ buffer_pos' = [buffer_pos EXCEPT ![t] = @ - 1]
  /\ keyboard_buffer' = [keyboard_buffer EXCEPT ![t][buffer_pos[t] - 1] = " "]
  /\ line' = [line EXCEPT ![t] = Front(@)]
  /\ Edited(t)
  /\ UNCHANGED <<cur_terminal, enter_pressed, reader, entered>>

Enter(t) ==
  /\ t = cur_terminal
  /\ keyboard_buffer' = [keyboard_buffer EXCEPT ![t][buffer_pos[t]] = "nl"]
  /\ buffer_pos' = [buffer_pos EXCEPT ![t] = 0]
  /\ enter_pressed' = [enter_pressed EXCEPT ![t] = 1]
  /\ entered' = [entered EXCEPT ![t] = line[t]]
  /\ line' = [line EXCEPT ![t] = <<>>]
  /\ Edited(t)
  /\ UNCHANGED <<cur_terminal, reader>>

CtrlL(t) ==
  /\ t = cur_terminal
  /\ keyboard_buffer' = [keyboard_buffer EXCEPT ![t] =
       [i \in Cells |-> IF i < buffer_pos[t] THEN "nul" ELSE @[i]]]
  /\ buffer_pos' = [buffer_pos EXCEPT ![t] = 0]
  /\ line' = [line EXCEPT ![t] = <<>>]
  /\ disturbed' = [disturbed EXCEPT ![t] = Busy(t) /\ (@ \/ buffer_pos[t] # 0)]
  /\ UNCHANGED <<cur_terminal, enter_pressed, reader, entered>>

\* Alt+Fn: the other terminal is displayed from now on.
AltFn(t) ==
  /\ t # cur_terminal
  /\ cur_terminal' = t
  /\ disturbed' = [u \in Terminals |-> disturbed[u] \/ \E r \in Processes : Reading(r, u)]
  /\ UNCHANGED <<keyboard, reader, line, entered>>

-----------------------------------------------------------------------------
(* terminal_read(), by process r. *)

At(r, place) == reader[r].at = place
Goto(r, rec) == reader' = [reader EXCEPT ![r] = rec]

\* The call: nbytes is capped and the displayed terminal remembered.
Call(r) ==
  /\ At(r, "idle")
  /\ \E n \in NBytes : Goto(r, [Idle EXCEPT !.at = "wait", !.term = cur_terminal,
                                            !.n = IF n > MaxLine THEN MaxLine ELSE n])
  /\ UNCHANGED <<cur_terminal, keyboard, line, entered, disturbed>>

\* while (!enter_pressed); sees the flag.
SeesEnter(r) ==
  LET t == reader[r].term IN
  /\ At(r, "wait") /\ enter_pressed[t] = 1
  /\ Goto(r, [reader[r] EXCEPT !.at = "clear_flag",
                               !.want = IF reader[r].n > Len(entered[t]) THEN Append(entered[t], "nl")
                                        ELSE SubSeq(entered[t], 1, reader[r].n)])
  /\ disturbed' = [disturbed EXCEPT ![t] = \/ @ \/ cur_terminal # t
                                            \/ \E s \in Processes : Reading(s, t)]
  /\ UNCHANGED <<cur_terminal, keyboard, line, entered>>

ClearFlag(r) ==
  /\ At(r, "clear_flag")
  /\ enter_pressed' = [enter_pressed EXCEPT ![reader[r].term] = 0]
  /\ Goto(r, [reader[r] EXCEPT !.at = "test"])
  /\ entered' = [entered EXCEPT ![reader[r].term] = <<>>]
  /\ UNCHANGED <<cur_terminal, keyboard_buffer, buffer_pos, line, disturbed>>

TestNewline_Never(r) ==
  /\ At(r, "test")
  /\ Goto(r, [reader[r] EXCEPT !.at = IF Len(reader[r].buf) = reader[r].n THEN "wipe" ELSE "copy"])
  /\ UNCHANGED <<cur_terminal, keyboard, line, entered, disturbed>>

\* The loop's head: i < nbytes, and the newline test, in the buffer of whichever
\* terminal is displayed now.
TestNewline(r) ==
  LET i == Len(reader[r].buf) IN
  /\ At(r, "test")
  /\ Goto(r, IF i = reader[r].n THEN [reader[r] EXCEPT !.at = "wipe"]
             ELSE IF keyboard_buffer[cur_terminal][i] = "nl"
                  THEN [reader[r] EXCEPT !.at = "wipe", !.buf = Append(@, "nl")]
             ELSE [reader[r] EXCEPT !.at = "copy"])
  /\ UNCHANGED <<cur_terminal, keyboard, line, entered, disturbed>>

CopyChar(r) ==
  LET c == keyboard_buffer[reader[r].term][Len(reader[r].buf)] IN
  /\ At(r, "copy")
  /\ Goto(r, [reader[r] EXCEPT !.at = "test", !.buf = Append(@, c)])
  /\ UNCHANGED <<cur_terminal, keyboard, line, entered, disturbed>>

\* One round of the loop that clears the buffer.
Wipe(r) ==
  LET t == reader[r].term  j == reader[r].j IN
  /\ At(r, "wipe") /\ j \in Cells
  /\ keyboard_buffer' = [keyboard_buffer EXCEPT ![t][j] = "nul"]
  /\ Goto(r, [reader[r] EXCEPT !.j = j + 1])
  /\ UNCHANGED <<cur_terminal, buffer_pos, enter_pressed, line, entered, disturbed>>

\* return i.  When nothing was typed meanwhile, the next line starts afresh.
Return(r) ==
  LET t == reader[r].term IN
  /\ At(r, "wipe") /\ reader[r].j = KEYBOARD_MAX_SZ
  /\ Goto(r, Idle)
  /\ disturbed' = [disturbed EXCEPT ![t] = @ /\ ~(buffer_pos[t] = 0 /\ enter_pressed[t] = 0 /\
                                       \A s \in Processes \ {r} : ~Reading(s, t))]
  /\ UNCHANGED <<cur_terminal, keyboard, line, entered>>

\* Ctrl+C: the process is halted in its read.
Abort(r) ==
  /\ reader[r].at # "idle"
  /\ Goto(r, Idle)
  /\ UNCHANGED <<cur_terminal, keyboard, line, entered, disturbed>>

ReadStep(r) == SeesEnter(r) \/ ClearFlag(r) \/ TestNewline(r) \/ CopyChar(r) \/ Wipe(r) \/ Return(r)
Key(t)      == (\E c \in Chars : Type(t, c)) \/ Space(t) \/ Tab(t) \/ Backspace(t) \/ Enter(t) \/ CtrlL(t)

Next == \/ \E t \in Terminals : Key(t) \/ AltFn(t)
        \/ \E r \in Processes : Call(r) \/ ReadStep(r) \/ Abort(r)

Spec == Init /\ [][Next]_vars

\* Bound: lines that are not empty are typed at terminal 1 only.
OthersEmpty == \A t \in Terminals \ {1} : line[t] = <<>>

-----------------------------------------------------------------------------
Buffers == [Cells -> Chars \cup {" ", "nl", "nul"}]

\* Every variable keeps its type; buffer_pos stays inside the buffer and leaves
\* room for the newline.
TypeOK ==
  /\ cur_terminal \in Terminals
  /\ keyboard_buffer \in [Terminals -> Buffers]
  /\ buffer_pos \in [Terminals -> 0 .. MaxLine]
  /\ enter_pressed \in [Terminals -> {0, 1}]
  /\ \A r \in Processes : /\ reader[r].at \in {"idle", "wait", "clear_flag", "test", "copy", "wipe"}
                          /\ reader[r].term \in Terminals
                          /\ reader[r].n \in 0 .. MaxLine
                          /\ reader[r].j \in 0 .. KEYBOARD_MAX_SZ
                          /\ Len(reader[r].buf) <= reader[r].n
  /\ \A t \in Terminals : Len(line[t]) <= MaxLine

\* What Enter would submit is what the user typed and sees, as long as nobody
\* typed while an earlier line was being read.
BufferHoldsLine ==
  \A t \in Terminals : ~disturbed[t] =>
    line[t] = [k \in 1 .. buffer_pos[t] |-> keyboard_buffer[t][k - 1]]

Garbled(r) == At(r, "wipe") /\ reader[r].buf # reader[r].want

\* A read returns the line that Enter ended, or as much of it as was asked for,
\* whatever was typed, erased, cleared or aborted before; unless the terminal was
\* typed at or hidden, or another process read the line, before the read ended.
LineIntact == \A r \in Processes : Garbled(r) => disturbed[reader[r].term]

\* "enter ends typing" (keyboard_interrupt(), keyboard.c): a line that Enter
\* ended is what the read returns.
EnterEndsTyping == \A r \in Processes : ~Garbled(r)
=============================================================================
