------------------------- MODULE TerminalInputProofs -------------------------
(***************************************************************************)
(* Proofs about TerminalInput, for every number of terminals, processes,   *)
(* keys and cells of the buffer.                                           *)
(*                                                                         *)
(* LineIntact speaks of the end of a read only; what makes it true is what *)
(* the buffer holds from Enter on (Holds), what of it a read has copied    *)
(* (Copies), and that an undisturbed line is read by one process, on the   *)
(* terminal that is displayed, with nothing typed since (Quiet).           *)
(***************************************************************************)
EXTENDS TerminalInput, SequenceTheorems, TLAPS

Typed == Chars \cup {" "}           \* what a line is made of
Glyphs == Typed \cup {"nl", "nul"}

Places == {"idle", "wait", "clear_flag", "test", "copy", "wipe"}
Locals == [at : Places, term : Terminals, n : 0 .. MaxLine,
           buf : Seq(Glyphs), want : Seq(Glyphs), j : 0 .. KEYBOARD_MAX_SZ]

\* The locals of a read.
ReaderOk(rec) ==
  /\ rec \in Locals
  /\ Len(rec.buf) <= rec.n
  /\ rec.at = "wait" => rec.buf = <<>>
  /\ rec.at = "copy" => Len(rec.buf) < rec.n

Typing ==
  /\ cur_terminal \in Terminals
  /\ keyboard_buffer \in [Terminals -> Buffers]
  /\ buffer_pos \in [Terminals -> 0 .. MaxLine]
  /\ enter_pressed \in [Terminals -> {0, 1}]
  /\ reader \in [Processes -> Locals]
  /\ \A r \in Processes : ReaderOk(reader[r])
  /\ line \in [Terminals -> Seq(Typed)] /\ entered \in [Terminals -> Seq(Typed)]
  /\ \A t \in Terminals : Len(line[t]) = buffer_pos[t] /\ Len(entered[t]) <= MaxLine
  /\ disturbed \in [Terminals -> BOOLEAN]

\* The first n cells of a buffer.
Contents(buffer, n) == [k \in 1 .. n |-> buffer[k - 1]]

\* The buffer holds a line that Enter ended.
Holds(buffer, text) ==
  /\ \A i \in 1 .. Len(text) : buffer[i - 1] = text[i]
  /\ buffer[Len(text)] = "nl"

\* What a read is to return is at the head of the buffer and ends at the
\* newline, or where nbytes does; what it has copied is the beginning of it.
Copies(rec, buffer) ==
  /\ Len(rec.want) <= rec.n
  /\ Len(rec.want) < rec.n => Len(rec.want) > 0 /\ rec.want[Len(rec.want)] = "nl"
  /\ \A i \in 1 .. Len(rec.want) :
        buffer[i - 1] = rec.want[i] /\ (rec.want[i] = "nl" => i = Len(rec.want))
  /\ \A i \in 1 .. Len(rec.buf) :
        i <= Len(rec.want) /\ rec.buf[i] = rec.want[i] /\ rec.buf[i] # "nl"
  /\ rec.at = "copy" => buffer[Len(rec.buf)] # "nl"

\* What is true of a terminal that was left alone since its line was entered.
Quiet(t) ==
  /\ line[t] = Contents(keyboard_buffer[t], buffer_pos[t])
  /\ Busy(t) => buffer_pos[t] = 0
  /\ enter_pressed[t] = 1 => Holds(keyboard_buffer[t], entered[t])
  /\ \A r, s \in Processes : Reading(r, t) /\ Reading(s, t) => r = s
  /\ \A r \in Processes : Reading(r, t) =>
        /\ cur_terminal = t
        /\ enter_pressed[t] = 1 => At(r, "clear_flag")
        /\ IF At(r, "wipe") THEN reader[r].buf = reader[r].want
           ELSE Copies(reader[r], keyboard_buffer[t])

IInv == Typing /\ \A t \in Terminals : ~disturbed[t] => Quiet(t)

-----------------------------------------------------------------------------
(* Lines. *)

LEMMA MaxLineNat == MaxLine \in Nat /\ MaxLine >= 1 /\ KEYBOARD_MAX_SZ = MaxLine + 1 /\ Cells = 0 .. MaxLine
<1>1. KEYBOARD_MAX_SZ \in Nat /\ KEYBOARD_MAX_SZ # 0 /\ KEYBOARD_MAX_SZ # 1
  BY InputAssumption DEF InputAssumption
<1>2. MaxLine = KEYBOARD_MAX_SZ - 1 /\ Cells = 0 .. KEYBOARD_MAX_SZ - 1
  BY DEF MaxLine, Cells
<1>3. MaxLine \in Nat /\ MaxLine >= 1 /\ KEYBOARD_MAX_SZ = MaxLine + 1
  BY <1>1, <1>2
<1> QED BY <1>2, <1>3

LEMMA TypedGlyphs == Typed \subseteq Glyphs /\ "nl" \notin Typed
BY InputAssumption DEF InputAssumption, Typed, Glyphs

LEMMA Repeated ==
  ASSUME NEW S, NEW c \in S, NEW m \in Nat
  PROVE  /\ [k \in 1 .. m |-> c] \in Seq(S)
         /\ Len([k \in 1 .. m |-> c]) = m
<1>1. [k \in 1 .. m |-> c] \in [1 .. m -> S]
  OBVIOUS
<1> QED BY <1>1

LEMMA ContentsType ==
  ASSUME NEW b, NEW n \in Nat, NEW S, \A k \in 1 .. n : b[k - 1] \in S
  PROVE  Contents(b, n) \in Seq(S) /\ Len(Contents(b, n)) = n
<1>1. Contents(b, n) \in [1 .. n -> S]
  BY DEF Contents
<1> QED BY <1>1

\* A sequence with the length and the elements of what is in the buffer.
LEMMA ContentsEqual ==
  ASSUME NEW b, NEW S, NEW s \in Seq(S), \A k \in 1 .. Len(s) : s[k] = b[k - 1]
  PROVE  s = Contents(b, Len(s))
<1>1. s = [k \in 1 .. Len(s) |-> s[k]]
  BY LenProperties
<1> QED BY <1>1 DEF Contents

LEMMA ContentsNone == ASSUME NEW b PROVE <<>> = Contents(b, 0)
BY DEF Contents

\* Line s of n characters gets m times the character c, and so does buffer b.
Puts(s, b, e, b2, n, m, c) ==
  /\ n \in Nat /\ m \in Nat /\ s \in Seq(Typed) /\ Len(s) = n /\ c \in Typed
  /\ e = s \o [k \in 1 .. m |-> c]
  /\ \A i \in 0 .. n + m - 1 : b2[i] = IF i \in n .. n + m - 1 THEN c ELSE b[i]

\* The characters that a key adds.
LEMMA PutLine ==
  ASSUME NEW s, NEW b, NEW e, NEW b2, NEW n, NEW m, NEW c, Puts(s, b, e, b2, n, m, c)
  PROVE  /\ e \in Seq(Typed) /\ Len(e) = n + m
         /\ s = Contents(b, n) => e = Contents(b2, n + m)
<1>1. n \in Nat /\ m \in Nat
  BY DEF Puts
<1>2. /\ e \in Seq(Typed) /\ Len(e) = n + m
      /\ \A i \in 1 .. n + m : e[i] = IF i <= n THEN s[i] ELSE c
  <2>1. PICK r : r = [k \in 1 .. m |-> c]
    OBVIOUS
  <2>2. r \in Seq(Typed) /\ Len(r) = m /\ \A k \in 1 .. m : r[k] = c
    BY <2>1, Repeated DEF Puts
  <2>3. /\ e \in Seq(Typed) /\ Len(e) = n + m
        /\ \A i \in 1 .. n + m : e[i] = IF i <= n THEN s[i] ELSE r[i - n]
    <3>1. e = s \o r /\ s \in Seq(Typed) /\ Len(s) = n
      BY <2>1 DEF Puts
    <3> QED BY <2>2, <3>1, ConcatProperties
  <2>4. \A i \in 1 .. n + m : i <= n \/ i - n \in 1 .. m
    BY <1>1
  <2> QED BY <2>2, <2>3, <2>4
<1>3. ASSUME s = Contents(b, n)
      PROVE  e = Contents(b2, n + m)
  <2>1. ASSUME NEW i \in 1 .. n + m
        PROVE  e[i] = b2[i - 1]
    <3>1. i - 1 \in 0 .. n + m - 1 /\ (i <= n <=> i - 1 \notin n .. n + m - 1)
      BY <1>1
    <3>2. b2[i - 1] = IF i <= n THEN b[i - 1] ELSE c
      BY <3>1 DEF Puts
    <3>3. i <= n => s[i] = b[i - 1]
      BY <1>1, <1>3 DEF Contents
    <3> QED BY <1>2, <3>2, <3>3
  <2> QED BY <1>2, <2>1, ContentsEqual
<1> QED BY <1>2, <1>3

\* Line s of n characters loses the last, and so does buffer b.
Erases(s, b, e, b2, n, m) ==
  /\ n \in Nat /\ m \in Nat /\ n = m + 1 /\ s \in Seq(Typed) /\ Len(s) = n
  /\ e = Front(s)
  /\ \A i \in 0 .. m - 1 : b2[i] = b[i]

\* The line that a backspace leaves.
LEMMA EraseLine ==
  ASSUME NEW s, NEW b, NEW e, NEW b2, NEW n, NEW m, Erases(s, b, e, b2, n, m)
  PROVE  /\ e \in Seq(Typed) /\ Len(e) = m
         /\ s = Contents(b, n) => e = Contents(b2, m)
<1> USE DEF Erases
<1>1. m = n - 1
  OBVIOUS
<1>2. e = SubSeq(s, 1, m)
  BY <1>1 DEF Front
<1>3. e \in Seq(Typed) /\ Len(e) = m /\ \A i \in 1 .. m : e[i] = s[i]
  <2>1. m \in Int /\ 1 \in Int /\ 1 .. m \subseteq 1 .. n
    BY <1>1
  <2>2. \A i \in 1 .. m : s[i] \in Typed
    BY <2>1
  <2> QED BY <1>2, <2>1, <2>2, SubSeqProperties
<1>4. ASSUME s = Contents(b, n)
      PROVE  e = Contents(b2, m)
  <2>1. \A i \in 1 .. m : s[i] = b[i - 1] /\ b2[i - 1] = b[i - 1]
    BY <1>1, <1>4 DEF Contents
  <2>2. \A i \in 1 .. Len(e) : e[i] = b2[i - 1]
    BY <1>3, <2>1
  <2> QED BY <1>3, <2>2, ContentsEqual
<1> QED BY <1>3, <1>4

-----------------------------------------------------------------------------
(* Keys. *)

\* What a step leaves of a terminal that it does not touch.
LEMMA QuietKept ==
  ASSUME NEW u \in Terminals, ~disturbed[u] => Quiet(u), ~disturbed'[u], ~disturbed[u],
         keyboard_buffer'[u] = keyboard_buffer[u], buffer_pos'[u] = buffer_pos[u],
         enter_pressed'[u] = enter_pressed[u], line'[u] = line[u], entered'[u] = entered[u],
         \A r \in Processes : Reading(r, u)' => reader'[r] = reader[r] /\ cur_terminal' = cur_terminal
  PROVE  Quiet(u)'
<1>1. \A r \in Processes : Reading(r, u)' => Reading(r, u) /\ reader'[r] = reader[r] /\ cur_terminal' = cur_terminal
  BY DEF Reading
<1>2. Busy(u)' => Busy(u)
  BY <1>1 DEF Busy
<1>3. Quiet(u)
  OBVIOUS
<1>4. line'[u] = Contents(keyboard_buffer'[u], buffer_pos'[u]) /\ (Busy(u)' => buffer_pos'[u] = 0)
  BY <1>2, <1>3 DEF Quiet
<1>5. enter_pressed'[u] = 1 => Holds(keyboard_buffer'[u], entered'[u])
  BY <1>3 DEF Quiet
<1>6. \A r, s \in Processes : Reading(r, u)' /\ Reading(s, u)' => r = s
  BY <1>1, <1>3 DEF Quiet
<1>7. ASSUME NEW r \in Processes, Reading(r, u)'
      PROVE  /\ cur_terminal' = u
             /\ enter_pressed'[u] = 1 => At(r, "clear_flag")'
             /\ IF At(r, "wipe")' THEN reader'[r].buf = reader'[r].want
                ELSE Copies(reader'[r], keyboard_buffer'[u])
  BY <1>1, <1>3, <1>7 DEF Quiet, At
<1> QED BY <1>4, <1>5, <1>6, <1>7 DEF Quiet

\* A key: the state of terminal t afterwards.
KeyLeaves(t, b, n, p, l, e, d) ==
  /\ keyboard_buffer' = [keyboard_buffer EXCEPT ![t] = b]
  /\ buffer_pos' = [buffer_pos EXCEPT ![t] = n]
  /\ enter_pressed' = [enter_pressed EXCEPT ![t] = p]
  /\ line' = [line EXCEPT ![t] = l]
  /\ entered' = [entered EXCEPT ![t] = e]
  /\ disturbed' = [disturbed EXCEPT ![t] = d]
  /\ UNCHANGED <<cur_terminal, reader>>

LEMMA KeyStep ==
  ASSUME IInv, NEW t \in Terminals,
         NEW b \in Buffers, NEW n \in 0 .. MaxLine, NEW p \in {0, 1},
         NEW l \in Seq(Typed), Len(l) = n, NEW e \in Seq(Typed), Len(e) <= MaxLine,
         NEW d \in BOOLEAN, KeyLeaves(t, b, n, p, l, e, d),
         ~d => Quiet(t)'
  PROVE  IInv'
<1>1. Typing'
  BY DEF IInv, Typing, KeyLeaves
<1>2. ASSUME NEW u \in Terminals, ~disturbed'[u]
      PROVE  Quiet(u)'
  <2>1. CASE u = t
    BY <1>2, <2>1 DEF IInv, Typing, KeyLeaves
  <2>2. CASE u # t
    <3>1. /\ keyboard_buffer'[u] = keyboard_buffer[u] /\ buffer_pos'[u] = buffer_pos[u]
          /\ enter_pressed'[u] = enter_pressed[u] /\ line'[u] = line[u] /\ entered'[u] = entered[u]
          /\ disturbed'[u] = disturbed[u] /\ reader' = reader /\ cur_terminal' = cur_terminal
      BY <2>2 DEF IInv, Typing, KeyLeaves
    <3> QED BY <1>2, <3>1, QuietKept DEF IInv
  <2> QED BY <2>1, <2>2
<1> QED BY <1>1, <1>2 DEF IInv

\* A terminal that was idle before the key is quiet after it.
LEMMA IdleQuiet ==
  ASSUME NEW t \in Terminals, ~Busy(t), reader' = reader,
         line'[t] = Contents(keyboard_buffer'[t], buffer_pos'[t]),
         enter_pressed'[t] = 1 => buffer_pos'[t] = 0 /\ Holds(keyboard_buffer'[t], entered'[t])
  PROVE  Quiet(t)'
<1>1. \A r \in Processes : ~Reading(r, t)'
  BY DEF Busy, Reading
<1>2. Busy(t)' => enter_pressed'[t] = 1
  BY <1>1 DEF Busy
<1> QED BY <1>1, <1>2 DEF Quiet

\* The character keys.
LEMMA PutStep ==
  ASSUME IInv, NEW t \in Terminals, NEW c \in Typed, NEW k \in Nat, Put(t, c, k), Edited(t),
         UNCHANGED <<cur_terminal, enter_pressed, reader, entered>>
  PROVE  IInv'
<1> USE MaxLineNat
<1>1. PICK n \in 0 .. MaxLine, s \in Seq(Typed) : n = buffer_pos[t] /\ s = line[t] /\ Len(s) = n
  BY DEF IInv, Typing
<1>2. PICK m \in 0 .. MaxLine : m = IF n + k > MaxLine THEN MaxLine - n ELSE k
  BY <1>1 DEF Put
<1>3. n + m \in 0 .. MaxLine
  <2>1. n \in Nat /\ m \in Nat /\ n <= MaxLine /\ m = IF n + k > MaxLine THEN MaxLine - n ELSE k
    BY <1>1, <1>2
  <2> QED BY <2>1
<1>4. PICK a \in Buffers : a = keyboard_buffer[t]
  BY DEF IInv, Typing
<1>5. PICK b : b = [i \in Cells |-> IF i \in n .. n + m - 1 THEN c ELSE a[i]]
  OBVIOUS
<1>6. b \in Buffers
  BY <1>4, <1>5 DEF Buffers, Typed
<1>7. PICK l : l = s \o [j \in 1 .. m |-> c]
  OBVIOUS
<1>8. PICK p \in {0, 1}, e \in Seq(Typed) : p = enter_pressed[t] /\ e = entered[t] /\ Len(e) <= MaxLine
  BY DEF IInv, Typing
<1>9. PICK d \in BOOLEAN : d <=> disturbed[t] \/ Busy(t)
  OBVIOUS
<1>10. KeyLeaves(t, b, n + m, p, l, e, d)
  <2>1. keyboard_buffer' = [keyboard_buffer EXCEPT ![t] = b]
        /\ buffer_pos' = [buffer_pos EXCEPT ![t] = n + m]
        /\ line' = [line EXCEPT ![t] = l]
    BY <1>1, <1>2, <1>4, <1>5, <1>7 DEF Put
  <2>2. enter_pressed' = [enter_pressed EXCEPT ![t] = p] /\ entered' = [entered EXCEPT ![t] = e]
    BY <1>8 DEF IInv, Typing
  <2>3. disturbed' = [disturbed EXCEPT ![t] = d]
    <3>1. disturbed[t] \in BOOLEAN
      BY DEF IInv, Typing
    <3>2. (disturbed[t] \/ Busy(t)) = d
      BY <1>9
    <3> QED BY <3>2 DEF Edited
  <2> QED BY <2>1, <2>2, <2>3 DEF KeyLeaves
<1>11. /\ l \in Seq(Typed) /\ Len(l) = n + m
       /\ s = Contents(a, n) => l = Contents(b, n + m)
  <2>1. \A i \in 0 .. n + m - 1 : i \in Cells
    BY <1>3
  <2>2. \A i \in 0 .. n + m - 1 : b[i] = IF i \in n .. n + m - 1 THEN c ELSE a[i]
    BY <1>5, <2>1
  <2>3. n \in Nat /\ m \in Nat
    OBVIOUS
  <2>4. Puts(s, a, l, b, n, m, c)
    BY <1>1, <1>7, <2>2, <2>3 DEF Puts
  <2> QED BY <2>4, PutLine
<1>12. ASSUME ~d
       PROVE  Quiet(t)'
  <2>1. ~disturbed[t] /\ ~Busy(t) /\ enter_pressed[t] # 1
    BY <1>9, <1>12 DEF Busy
  <2>2. s = Contents(a, n)
    BY <1>1, <1>4, <2>1 DEF IInv, Quiet
  <2>3. /\ line'[t] = l /\ keyboard_buffer'[t] = b /\ buffer_pos'[t] = n + m
        /\ enter_pressed'[t] = enter_pressed[t] /\ reader' = reader
    BY <1>10, <1>8 DEF KeyLeaves, IInv, Typing
  <2> QED BY <1>11, <2>1, <2>2, <2>3, IdleQuiet
<1> QED BY <1>3, <1>6, <1>8, <1>10, <1>11, <1>12, KeyStep

LEMMA BackspaceStep == ASSUME IInv, NEW t \in Terminals, Backspace(t) PROVE IInv'
<1> USE MaxLineNat
<1>1. PICK n \in 0 .. MaxLine, s \in Seq(Typed) : n = buffer_pos[t] /\ s = line[t] /\ Len(s) = n /\ n # 0
  BY DEF IInv, Typing, Backspace
<1>2. PICK a \in Buffers : a = keyboard_buffer[t]
  BY DEF IInv, Typing
<1>3. PICK b : b = [a EXCEPT ![n - 1] = " "]
  OBVIOUS
<1>4. b \in Buffers
  BY <1>2, <1>3 DEF Buffers
<1>5. PICK l : l = Front(s)
  OBVIOUS
<1>6. PICK p \in {0, 1}, e \in Seq(Typed) : p = enter_pressed[t] /\ e = entered[t] /\ Len(e) <= MaxLine
  BY DEF IInv, Typing
<1>7. PICK d \in BOOLEAN : d <=> disturbed[t] \/ Busy(t)
  OBVIOUS
<1>8. PICK m \in 0 .. MaxLine : m = n - 1
  BY <1>1
<1>9. KeyLeaves(t, b, m, p, l, e, d)
  <2>1. keyboard_buffer' = [keyboard_buffer EXCEPT ![t] = b]
        /\ buffer_pos' = [buffer_pos EXCEPT ![t] = m]
        /\ line' = [line EXCEPT ![t] = l]
    BY <1>1, <1>2, <1>3, <1>5, <1>8 DEF Backspace
  <2>2. enter_pressed' = [enter_pressed EXCEPT ![t] = p] /\ entered' = [entered EXCEPT ![t] = e]
    BY <1>6 DEF IInv, Typing, Backspace
  <2>3. disturbed' = [disturbed EXCEPT ![t] = d]
    <3>1. (disturbed[t] \/ Busy(t)) = d
      BY <1>7
    <3> QED BY <3>1 DEF Edited, Backspace
  <2> QED BY <2>1, <2>2, <2>3 DEF KeyLeaves, Backspace
<1>10. /\ l \in Seq(Typed) /\ Len(l) = m
       /\ s = Contents(a, n) => l = Contents(b, m)
  <2>1. n \in Nat /\ m \in Nat /\ n = m + 1
    BY <1>1, <1>8
  <2>2. \A i \in 0 .. m - 1 : b[i] = a[i]
    <3>1. \A i \in 0 .. m - 1 : i \in Cells /\ i # n - 1
      BY <1>1, <1>8
    <3>2. \A i \in Cells : i # n - 1 => b[i] = a[i]
      BY <1>2, <1>3 DEF Buffers
    <3> QED BY <3>1, <3>2
  <2>3. Erases(s, a, l, b, n, m)
    BY <1>1, <1>5, <2>1, <2>2 DEF Erases
  <2> QED BY <2>3, EraseLine
<1>11. ASSUME ~d
       PROVE  Quiet(t)'
  <2>1. ~disturbed[t] /\ ~Busy(t) /\ enter_pressed[t] # 1
    BY <1>7, <1>11 DEF Busy
  <2>2. s = Contents(a, n)
    BY <1>1, <1>2, <2>1 DEF IInv, Quiet
  <2>3. /\ line'[t] = l /\ keyboard_buffer'[t] = b /\ buffer_pos'[t] = m
        /\ enter_pressed'[t] = enter_pressed[t] /\ reader' = reader
    BY <1>9, <1>6 DEF KeyLeaves, IInv, Typing
  <2> QED BY <1>10, <2>1, <2>2, <2>3, IdleQuiet
<1> QED BY <1>4, <1>6, <1>9, <1>10, <1>11, KeyStep

LEMMA EnterStep == ASSUME IInv, NEW t \in Terminals, Enter(t) PROVE IInv'
<1> USE MaxLineNat
<1>1. PICK n \in 0 .. MaxLine, s \in Seq(Typed) : n = buffer_pos[t] /\ s = line[t] /\ Len(s) = n
  BY DEF IInv, Typing
<1>2. PICK a \in Buffers : a = keyboard_buffer[t]
  BY DEF IInv, Typing
<1>3. PICK b : b = [a EXCEPT ![n] = "nl"]
  OBVIOUS
<1>4. b \in Buffers /\ b[n] = "nl" /\ \A i \in Cells : i # n => b[i] = a[i]
  BY <1>1, <1>2, <1>3 DEF Buffers
<1>5. PICK l, z, p : l = <<>> /\ z = 0 /\ p = 1
  OBVIOUS
<1>10. l \in Seq(Typed) /\ Len(l) = z /\ z \in 0 .. MaxLine /\ p \in {0, 1}
  BY <1>5
<1>6. PICK d \in BOOLEAN : d <=> disturbed[t] \/ Busy(t)
  OBVIOUS
<1>7. KeyLeaves(t, b, z, p, l, s, d)
  <2>1. disturbed' = [disturbed EXCEPT ![t] = d]
    <3>1. (disturbed[t] \/ Busy(t)) = d
      BY <1>6
    <3> QED BY <3>1 DEF Edited, Enter
  <2> QED BY <1>1, <1>2, <1>3, <1>5, <1>10, <2>1 DEF Enter, KeyLeaves
<1>8. ASSUME ~d
      PROVE  Quiet(t)'
  <2>1. ~disturbed[t] /\ ~Busy(t)
    BY <1>6, <1>8
  <2>2. s = Contents(a, n)
    BY <1>1, <1>2, <2>1 DEF IInv, Quiet
  <2>3. Holds(b, s)
    <3>1. \A i \in 1 .. n : s[i] = a[i - 1]
      BY <2>2 DEF Contents
    <3>2. \A i \in 1 .. n : i - 1 \in Cells /\ i - 1 # n
      BY <1>1
    <3> QED BY <1>1, <1>4, <3>1, <3>2 DEF Holds
  <2>4. <<>> = Contents(b, 0)
    BY ContentsNone
  <2>5. /\ line'[t] = <<>> /\ keyboard_buffer'[t] = b /\ buffer_pos'[t] = 0
        /\ entered'[t] = s /\ reader' = reader
    BY <1>5, <1>10, <1>7 DEF KeyLeaves, IInv, Typing
  <2> QED BY <2>1, <2>3, <2>4, <2>5, IdleQuiet
<1>9. Len(s) <= MaxLine
  BY <1>1
<1> QED BY <1>4, <1>10, <1>7, <1>8, <1>9, KeyStep

LEMMA CtrlLStep == ASSUME IInv, NEW t \in Terminals, CtrlL(t) PROVE IInv'
<1> USE MaxLineNat
<1>1. PICK n \in 0 .. MaxLine : n = buffer_pos[t]
  BY DEF IInv, Typing
<1>2. PICK a \in Buffers : a = keyboard_buffer[t]
  BY DEF IInv, Typing
<1>3. PICK b : b = [i \in Cells |-> IF i < n THEN "nul" ELSE a[i]]
  OBVIOUS
<1>4. b \in Buffers
  BY <1>2, <1>3 DEF Buffers
<1>5. PICK l, z : l = <<>> /\ z = 0
  OBVIOUS
<1>10. l \in Seq(Typed) /\ Len(l) = z /\ z \in 0 .. MaxLine
  BY <1>5
<1>6. PICK d \in BOOLEAN : d <=> Busy(t) /\ (disturbed[t] \/ n # 0)
  OBVIOUS
<1>7. PICK p \in {0, 1}, e \in Seq(Typed) : p = enter_pressed[t] /\ e = entered[t] /\ Len(e) <= MaxLine
  BY DEF IInv, Typing
<1>8. KeyLeaves(t, b, z, p, l, e, d)
  <2>1. disturbed' = [disturbed EXCEPT ![t] = d]
    <3>1. (Busy(t) /\ (disturbed[t] \/ n # 0)) = d
      BY <1>6
    <3> QED BY <1>1, <3>1 DEF CtrlL
  <2>2. enter_pressed' = [enter_pressed EXCEPT ![t] = p] /\ entered' = [entered EXCEPT ![t] = e]
    BY <1>7 DEF IInv, Typing, CtrlL
  <2> QED BY <1>1, <1>2, <1>3, <1>5, <1>10, <2>1, <2>2 DEF CtrlL, KeyLeaves
<1>9. ASSUME ~d
      PROVE  Quiet(t)'
  <2>1. <<>> = Contents(b, 0)
    BY ContentsNone
  <2>2. /\ line'[t] = <<>> /\ keyboard_buffer'[t] = b /\ buffer_pos'[t] = 0
        /\ entered'[t] = e /\ enter_pressed'[t] = p
        /\ reader' = reader /\ cur_terminal' = cur_terminal
    BY <1>5, <1>10, <1>8 DEF KeyLeaves, IInv, Typing
  <2>3. CASE ~Busy(t)
    <3>1. enter_pressed'[t] # 1
      BY <1>7, <2>2, <2>3 DEF Busy
    <3> QED BY <2>1, <2>2, <2>3, <3>1, IdleQuiet
  <2>4. CASE Busy(t)
    <3>1. ~disturbed[t] /\ n = 0 /\ Quiet(t)
      BY <1>6, <1>9, <2>4 DEF IInv
    <3>2. b = a
      <4>1. a = [i \in Cells |-> a[i]]
        BY <1>2 DEF Buffers
      <4>2. \A i \in Cells : ~(i < n)
        BY <3>1
      <4> QED BY <1>3, <4>1, <4>2
    <3>3. line[t] = <<>>
      BY <1>1, <1>2, <3>1, ContentsNone DEF Quiet
    <3>4. line'[t] = line[t] /\ keyboard_buffer'[t] = keyboard_buffer[t]
          /\ buffer_pos'[t] = buffer_pos[t] /\ entered'[t] = entered[t]
          /\ enter_pressed'[t] = enter_pressed[t] /\ ~disturbed'[t]
      BY <1>1, <1>2, <1>7, <1>8, <1>9, <2>2, <3>1, <3>2, <3>3 DEF KeyLeaves, IInv, Typing
    <3> QED BY <2>2, <3>1, <3>4, QuietKept
  <2> QED BY <2>3, <2>4
<1> QED BY <1>4, <1>5, <1>10, <1>7, <1>8, <1>9, KeyStep

LEMMA AltFnStep == ASSUME IInv, NEW t \in Terminals, AltFn(t) PROVE IInv'
<1>1. Typing'
  BY DEF IInv, Typing, AltFn, keyboard
<1>2. ASSUME NEW u \in Terminals, ~disturbed'[u]
      PROVE  Quiet(u)'
  <2>1. ~disturbed[u] /\ \A r \in Processes : ~Reading(r, u)
    BY <1>2 DEF AltFn
  <2>2. \A r \in Processes : ~Reading(r, u)'
    BY <2>1 DEF AltFn, Reading
  <2> QED BY <1>2, <2>1, <2>2, QuietKept DEF IInv, AltFn, keyboard
<1> QED BY <1>1, <1>2 DEF IInv

-----------------------------------------------------------------------------
(* Reads. *)

\* A step of the read of r, which gives it the locals rec.
LEMMA ReaderTyped ==
  ASSUME Typing, NEW r \in Processes, NEW rec, ReaderOk(rec), Goto(r, rec)
  PROVE  /\ reader' \in [Processes -> Locals]
         /\ \A s \in Processes : ReaderOk(reader'[s])
         /\ reader'[r] = rec /\ \A s \in Processes \ {r} : reader'[s] = reader[s]
BY DEF Typing, Goto, ReaderOk

\* The terminals whose line it does not read.
LEMMA QuietOther ==
  ASSUME IInv, NEW r \in Processes, NEW rec, ReaderOk(rec), Goto(r, rec),
         NEW u \in Terminals, ~disturbed'[u], ~disturbed[u],
         rec.term # u \/ rec.at \in {"idle", "wait"},
         keyboard_buffer'[u] = keyboard_buffer[u], buffer_pos'[u] = buffer_pos[u],
         enter_pressed'[u] = enter_pressed[u], line'[u] = line[u], entered'[u] = entered[u],
         cur_terminal' = cur_terminal
  PROVE  Quiet(u)'
<1>1. reader'[r] = rec /\ \A s \in Processes \ {r} : reader'[s] = reader[s]
  BY ReaderTyped DEF IInv
<1>2. \A s \in Processes : Reading(s, u)' => reader'[s] = reader[s] /\ cur_terminal' = cur_terminal
  BY <1>1 DEF Reading
<1> QED BY <1>2, QuietKept DEF IInv

\* The terminal whose line it goes on reading.
LEMMA QuietReader ==
  ASSUME IInv, NEW r \in Processes, NEW rec, ReaderOk(rec), Goto(r, rec),
         NEW t \in Terminals, ~disturbed[t], Reading(r, t),
         rec.term = t, rec.at \in {"test", "copy", "wipe"},
         buffer_pos'[t] = buffer_pos[t], line'[t] = line[t], enter_pressed'[t] = 0,
         cur_terminal' = cur_terminal,
         IF rec.at = "wipe" THEN rec.buf = rec.want ELSE Copies(rec, keyboard_buffer'[t])
  PROVE  Quiet(t)'
<1>1. reader'[r] = rec /\ \A s \in Processes \ {r} : reader'[s] = reader[s]
  BY ReaderTyped DEF IInv
<1>2. \A s \in Processes : Reading(s, t)' => s = r
  BY <1>1 DEF IInv, Quiet, Reading
<1>3. buffer_pos[t] = 0 /\ line[t] = Contents(keyboard_buffer[t], 0) /\ cur_terminal = t
  BY DEF IInv, Quiet, Busy
<1>4. line'[t] = Contents(keyboard_buffer'[t], buffer_pos'[t])
  BY <1>3, ContentsNone
<1> QED BY <1>1, <1>2, <1>3, <1>4 DEF Quiet, At

LEMMA CallStep == ASSUME IInv, NEW r \in Processes, Call(r) PROVE IInv'
<1> USE MaxLineNat
<1>1. PICK n \in NBytes : Goto(r, [Idle EXCEPT !.at = "wait", !.term = cur_terminal,
                                               !.n = IF n > MaxLine THEN MaxLine ELSE n])
  BY DEF Call
<1>2. PICK rec : rec = [Idle EXCEPT !.at = "wait", !.term = cur_terminal,
                                    !.n = IF n > MaxLine THEN MaxLine ELSE n]
  OBVIOUS
<1>3. ReaderOk(rec) /\ rec.at = "wait"
  <2>1. PICK m : m = IF n > MaxLine THEN MaxLine ELSE n
    OBVIOUS
  <2>2. m \in 0 .. MaxLine
    <3>1. n \in Nat
      BY InputAssumption DEF InputAssumption
    <3> QED BY <2>1, <3>1
  <2>3. PICK e : e = <<>>
    OBVIOUS
  <2>4. e \in Seq(Glyphs) /\ Len(e) = 0
    BY <2>3
  <2>5. rec = [at |-> "wait", term |-> cur_terminal, n |-> m, buf |-> e, want |-> e, j |-> 0]
    BY <1>2, <2>1, <2>3 DEF Idle
  <2> QED BY <2>2, <2>3, <2>4, <2>5 DEF ReaderOk, Locals, Places, IInv, Typing
<1>4. Goto(r, rec) /\ UNCHANGED <<cur_terminal, keyboard, line, entered, disturbed>>
  BY <1>1, <1>2 DEF Call
<1>5. Typing'
  BY <1>3, <1>4, ReaderTyped DEF IInv, Typing, keyboard
<1>6. ASSUME NEW u \in Terminals, ~disturbed'[u]
      PROVE  Quiet(u)'
  BY <1>3, <1>4, <1>6, QuietOther DEF keyboard
<1> QED BY <1>5, <1>6 DEF IInv

LEMMA IdleOk == ReaderOk(Idle) /\ Idle.at = "idle"
<1>1. PICK e : e = <<>>
  OBVIOUS
<1>2. e \in Seq(Glyphs) /\ Len(e) = 0
  BY <1>1
<1>3. Idle = [at |-> "idle", term |-> 1, n |-> 0, buf |-> e, want |-> e, j |-> 0]
  BY <1>1 DEF Idle
<1>4. 0 \in 0 .. MaxLine /\ 0 \in 0 .. KEYBOARD_MAX_SZ /\ 1 \in Terminals
  <2>1. 1 \in Terminals
    BY InputAssumption DEF InputAssumption
  <2> QED BY <2>1, MaxLineNat
<1> QED BY <1>2, <1>3, <1>4 DEF ReaderOk, Locals, Places

LEMMA AbortStep == ASSUME IInv, NEW r \in Processes, Abort(r) PROVE IInv'
<1>1. Goto(r, Idle) /\ UNCHANGED <<cur_terminal, keyboard, line, entered, disturbed>>
  BY DEF Abort
<1>2. Typing'
  BY <1>1, IdleOk, ReaderTyped DEF IInv, Typing, keyboard
<1>3. ASSUME NEW u \in Terminals, ~disturbed'[u]
      PROVE  Quiet(u)'
  BY <1>1, <1>3, IdleOk, QuietOther DEF keyboard
<1> QED BY <1>2, <1>3 DEF IInv

LEMMA ReturnStep == ASSUME IInv, NEW r \in Processes, Return(r) PROVE IInv'
<1>1. PICK t \in Terminals : t = reader[r].term
  BY DEF IInv, Typing, Locals
<1>2. PICK d \in BOOLEAN : d <=> disturbed[t] /\ ~(buffer_pos[t] = 0 /\ enter_pressed[t] = 0 /\
                                  \A s \in Processes \ {r} : ~Reading(s, t))
  OBVIOUS
<1>3. /\ Goto(r, Idle) /\ UNCHANGED <<cur_terminal, keyboard, line, entered>>
      /\ disturbed' = [disturbed EXCEPT ![t] = d]
  <2>1. (disturbed[t] /\ ~(buffer_pos[t] = 0 /\ enter_pressed[t] = 0 /\
                           \A s \in Processes \ {r} : ~Reading(s, t))) = d
    BY <1>2 DEF IInv, Typing
  <2> QED BY <1>1, <2>1 DEF Return
<1>4. Typing'
  BY <1>3, IdleOk, ReaderTyped DEF IInv, Typing, keyboard
<1>5. ASSUME NEW u \in Terminals, ~disturbed'[u]
      PROVE  Quiet(u)'
  <2>1. CASE ~disturbed[u]
    BY <1>3, <1>5, <2>1, IdleOk, QuietOther DEF keyboard
  <2>2. CASE disturbed[u]
    <3>1. u = t /\ ~d
      BY <1>3, <1>5, <2>2 DEF IInv, Typing
    <3>2. buffer_pos[t] = 0 /\ enter_pressed[t] = 0 /\ \A s \in Processes \ {r} : ~Reading(s, t)
      BY <1>2, <2>2, <3>1
    <3>3. reader'[r] = Idle /\ \A s \in Processes \ {r} : reader'[s] = reader[s]
      BY <1>3, IdleOk, ReaderTyped DEF IInv
    <3>4. \A s \in Processes : ~Reading(s, t)'
      BY <3>2, <3>3, IdleOk DEF Reading
    <3>5. line[t] = <<>>
      BY <3>2 DEF IInv, Typing
    <3>6. line'[t] = Contents(keyboard_buffer'[t], buffer_pos'[t])
      BY <1>3, <3>2, <3>5, ContentsNone DEF keyboard
    <3> QED BY <1>3, <3>1, <3>2, <3>4, <3>6 DEF Quiet, Busy, keyboard
  <2> QED BY <2>1, <2>2
<1> QED BY <1>4, <1>5 DEF IInv

\* A step that goes on reading the line of t.
LEMMA ReadGoesOn ==
  ASSUME IInv, NEW r \in Processes, NEW t \in Terminals, Reading(r, t),
         NEW rec, ReaderOk(rec), Goto(r, rec), rec.term = t, rec.at \in {"test", "copy", "wipe"},
         NEW b \in Buffers, keyboard_buffer' = [keyboard_buffer EXCEPT ![t] = b],
         NEW e \in Seq(Typed), Len(e) <= MaxLine, entered' = [entered EXCEPT ![t] = e],
         NEW p \in {0, 1}, enter_pressed' = [enter_pressed EXCEPT ![t] = p],
         UNCHANGED <<cur_terminal, buffer_pos, line, disturbed>>,
         ~disturbed[t] =>
           /\ p = 0
           /\ IF rec.at = "wipe" THEN rec.buf = rec.want ELSE Copies(rec, b)
  PROVE  IInv'
<1>1. Typing'
  <2>1. reader' \in [Processes -> Locals] /\ \A s \in Processes : ReaderOk(reader'[s])
    BY ReaderTyped DEF IInv
  <2>2. /\ keyboard_buffer' \in [Terminals -> Buffers] /\ entered' \in [Terminals -> Seq(Typed)]
        /\ enter_pressed' \in [Terminals -> {0, 1}]
        /\ \A u \in Terminals : Len(entered'[u]) <= MaxLine
    BY DEF IInv, Typing
  <2> QED BY <2>1, <2>2 DEF IInv, Typing
<1>2. /\ keyboard_buffer'[t] = b /\ entered'[t] = e /\ enter_pressed'[t] = p
      /\ \A u \in Terminals \ {t} : /\ keyboard_buffer'[u] = keyboard_buffer[u]
                                    /\ entered'[u] = entered[u] /\ enter_pressed'[u] = enter_pressed[u]
  BY DEF IInv, Typing
<1>3. ASSUME NEW u \in Terminals, ~disturbed'[u]
      PROVE  Quiet(u)'
  <2>1. CASE u = t
    BY <1>2, <1>3, <2>1, QuietReader
  <2>2. CASE u # t
    BY <1>2, <1>3, <2>2, QuietOther
  <2> QED BY <2>1, <2>2
<1> QED BY <1>1, <1>3 DEF IInv

\* The locals of a read under way, and the terminal it reads.
LEMMA ReaderAt ==
  ASSUME Typing, NEW r \in Processes,
         reader[r].at \in {"clear_flag", "test", "copy", "wipe"}
  PROVE  /\ reader[r] \in Locals /\ ReaderOk(reader[r])
         /\ reader[r].term \in Terminals
         /\ Reading(r, reader[r].term)
BY DEF Typing, Locals, Reading

LEMMA ClearFlagStep == ASSUME IInv, NEW r \in Processes, ClearFlag(r) PROVE IInv'
<1>1. reader[r].at = "clear_flag"
  BY DEF ClearFlag, At
<1>2. PICK old \in Locals, t \in Terminals : old = reader[r] /\ t = old.term
  BY <1>1, ReaderAt DEF IInv
<1>3. ReaderOk(old) /\ Reading(r, t)
  BY <1>1, <1>2, ReaderAt DEF IInv
<1>4. PICK rec : rec = [old EXCEPT !.at = "test"]
  OBVIOUS
<1>5. /\ rec \in Locals /\ rec.at = "test" /\ rec.term = t
      /\ rec.n = old.n /\ rec.buf = old.buf /\ rec.want = old.want
  BY <1>2, <1>4 DEF Locals, Places
<1>6. ReaderOk(rec)
  BY <1>3, <1>5 DEF ReaderOk
<1>7. PICK b \in Buffers : b = keyboard_buffer[t]
  BY DEF IInv, Typing
<1>8. PICK e, p : e = <<>> /\ p = 0
  OBVIOUS
<1>9. e \in Seq(Typed) /\ Len(e) <= MaxLine /\ p \in {0, 1}
  <2>1. e \in Seq(Typed) /\ Len(e) = 0
    BY <1>8
  <2> QED BY <1>8, <2>1, MaxLineNat
<1>10. /\ Goto(r, rec) /\ keyboard_buffer' = [keyboard_buffer EXCEPT ![t] = b]
       /\ entered' = [entered EXCEPT ![t] = e] /\ enter_pressed' = [enter_pressed EXCEPT ![t] = p]
       /\ UNCHANGED <<cur_terminal, buffer_pos, line, disturbed>>
  BY <1>2, <1>4, <1>7, <1>8 DEF ClearFlag, IInv, Typing
<1>11. ASSUME ~disturbed[t]
       PROVE  Copies(rec, b)
  <2>1. Copies(old, b)
    BY <1>1, <1>2, <1>3, <1>7, <1>11 DEF IInv, Quiet, At
  <2> QED BY <1>5, <2>1 DEF Copies
<1> QED BY <1>3, <1>5, <1>6, <1>8, <1>9, <1>10, <1>11, ReadGoesOn

\* What a read has copied so far is a proper part of what it is to return.
LEMMA MoreToCopy ==
  ASSUME NEW rec \in Locals, NEW b, Copies(rec, b), Len(rec.buf) < rec.n
  PROVE  Len(rec.buf) + 1 \in 1 .. Len(rec.want)
<1>1. PICK k \in Nat, m \in Nat : k = Len(rec.buf) /\ m = Len(rec.want)
  BY DEF Locals
<1>2. k <= m
  <2>1. CASE k = 0
    BY <2>1
  <2>2. CASE k # 0
    BY <1>1, <2>2 DEF Copies
  <2> QED BY <2>1, <2>2
<1>3. k # m
  <2>1. CASE m < rec.n
    BY <1>1, <2>1 DEF Copies
  <2>2. CASE ~(m < rec.n)
    BY <1>1, <2>2 DEF Locals, MaxLine
  <2> QED BY <2>1, <2>2
<1> QED BY <1>1, <1>2, <1>3

\* A copy that is as long as what it copies.
LEMMA CopyDone ==
  ASSUME NEW s \in Seq(Glyphs), NEW w \in Seq(Glyphs), Len(s) = Len(w),
         \A i \in 1 .. Len(s) : s[i] = w[i]
  PROVE  s = w
BY SeqEqual

LEMMA TestNewlineStep == ASSUME IInv, NEW r \in Processes, TestNewline(r) PROVE IInv'
<1> USE MaxLineNat
<1>1. reader[r].at = "test"
  BY DEF TestNewline, At
<1>2. PICK old \in Locals, t \in Terminals : old = reader[r] /\ t = old.term
  BY <1>1, ReaderAt DEF IInv
<1>3. ReaderOk(old) /\ Reading(r, t)
  BY <1>1, <1>2, ReaderAt DEF IInv
<1>4. PICK b \in Buffers, e \in Seq(Typed), p \in {0, 1} :
         b = keyboard_buffer[t] /\ e = entered[t] /\ p = enter_pressed[t] /\ Len(e) <= MaxLine
  BY DEF IInv, Typing
<1>5. /\ keyboard_buffer' = [keyboard_buffer EXCEPT ![t] = b]
      /\ entered' = [entered EXCEPT ![t] = e] /\ enter_pressed' = [enter_pressed EXCEPT ![t] = p]
      /\ UNCHANGED <<cur_terminal, buffer_pos, line, disturbed>>
  BY <1>4 DEF TestNewline, IInv, Typing, keyboard
<1>6. ~disturbed[t] => p = 0 /\ cur_terminal = t /\ Copies(old, b)
  BY <1>1, <1>2, <1>3, <1>4 DEF IInv, Quiet, At
<1>7. /\ old.buf \in Seq(Glyphs) /\ old.want \in Seq(Glyphs) /\ old.n \in 0 .. MaxLine
      /\ Len(old.buf) \in Nat /\ Len(old.want) \in Nat /\ Len(old.buf) <= old.n
  BY <1>3 DEF Locals, ReaderOk
<1>8. CASE Len(old.buf) = old.n
  <2>1. PICK rec : rec = [old EXCEPT !.at = "wipe"]
    OBVIOUS
  <2>2. /\ rec \in Locals /\ rec.at = "wipe" /\ rec.term = t
        /\ rec.n = old.n /\ rec.buf = old.buf /\ rec.want = old.want
    BY <1>2, <2>1 DEF Locals, Places
  <2>3. ReaderOk(rec)
    BY <1>3, <2>2 DEF ReaderOk
  <2>4. Goto(r, rec)
    BY <1>2, <1>8, <2>1 DEF TestNewline
  <2>5. ASSUME ~disturbed[t]
        PROVE  rec.buf = rec.want
    <3>1. Len(old.want) = Len(old.buf)
      BY <1>6, <1>7, <1>8, <2>5 DEF Copies
    <3>2. \A i \in 1 .. Len(old.buf) : old.buf[i] = old.want[i]
      BY <1>6, <2>5 DEF Copies
    <3> QED BY <1>7, <2>2, <3>1, <3>2, CopyDone
  <2> QED BY <1>3, <1>4, <1>5, <1>6, <2>2, <2>3, <2>4, <2>5, ReadGoesOn
<1>9. CASE Len(old.buf) # old.n /\ keyboard_buffer[cur_terminal][Len(old.buf)] = "nl"
  <2>1. PICK s : s = Append(old.buf, "nl")
    OBVIOUS
  <2>2. /\ s \in Seq(Glyphs) /\ Len(s) = Len(old.buf) + 1
        /\ \A i \in 1 .. Len(old.buf) : s[i] = old.buf[i]
        /\ s[Len(old.buf) + 1] = "nl"
    BY <1>7, <2>1, AppendProperties DEF Glyphs
  <2>3. PICK rec : rec = [old EXCEPT !.at = "wipe", !.buf = s]
    OBVIOUS
  <2>4. /\ rec \in Locals /\ rec.at = "wipe" /\ rec.term = t
        /\ rec.n = old.n /\ rec.buf = s /\ rec.want = old.want
    BY <1>2, <2>2, <2>3 DEF Locals, Places
  <2>5. ReaderOk(rec)
    BY <1>7, <1>9, <2>2, <2>4 DEF ReaderOk
  <2>6. Goto(r, rec)
    BY <1>2, <1>9, <2>1, <2>3 DEF TestNewline
  <2>7. ASSUME ~disturbed[t]
        PROVE  rec.buf = rec.want
    <3>1. PICK k \in Nat : k = Len(old.buf)
      BY <1>7
    <3>2. k + 1 \in 1 .. Len(old.want)
      BY <1>6, <1>7, <1>9, <2>7, <3>1, MoreToCopy
    <3>3. old.want[k + 1] = b[k] /\ b[k] = "nl"
      BY <1>4, <1>6, <1>9, <2>7, <3>1, <3>2 DEF Copies
    <3>4. k + 1 = Len(old.want)
      BY <1>6, <2>7, <3>2, <3>3 DEF Copies
    <3>5. \A i \in 1 .. k : old.buf[i] = old.want[i]
      BY <1>6, <2>7, <3>1 DEF Copies
    <3>6. \A i \in 1 .. Len(s) : s[i] = old.want[i]
      BY <2>2, <3>1, <3>3, <3>5
    <3> QED BY <1>7, <2>2, <2>4, <3>1, <3>4, <3>6, CopyDone
  <2> QED BY <1>3, <1>4, <1>5, <1>6, <2>4, <2>5, <2>6, <2>7, ReadGoesOn
<1>10. CASE Len(old.buf) # old.n /\ keyboard_buffer[cur_terminal][Len(old.buf)] # "nl"
  <2>1. PICK rec : rec = [old EXCEPT !.at = "copy"]
    OBVIOUS
  <2>2. /\ rec \in Locals /\ rec.at = "copy" /\ rec.term = t
        /\ rec.n = old.n /\ rec.buf = old.buf /\ rec.want = old.want
    BY <1>2, <2>1 DEF Locals, Places
  <2>3. ReaderOk(rec)
    BY <1>3, <1>7, <1>10, <2>2 DEF ReaderOk
  <2>4. Goto(r, rec)
    BY <1>2, <1>10, <2>1 DEF TestNewline
  <2>5. ASSUME ~disturbed[t]
        PROVE  Copies(rec, b)
    BY <1>4, <1>6, <1>10, <2>2, <2>5 DEF Copies
  <2> QED BY <1>3, <1>4, <1>5, <1>6, <2>2, <2>3, <2>4, <2>5, ReadGoesOn
<1> QED BY <1>8, <1>9, <1>10

LEMMA CopyCharStep == ASSUME IInv, NEW r \in Processes, CopyChar(r) PROVE IInv'
<1> USE MaxLineNat
<1>1. reader[r].at = "copy"
  BY DEF CopyChar, At
<1>2. PICK old \in Locals, t \in Terminals : old = reader[r] /\ t = old.term
  BY <1>1, ReaderAt DEF IInv
<1>3. ReaderOk(old) /\ Reading(r, t)
  BY <1>1, <1>2, ReaderAt DEF IInv
<1>4. PICK b \in Buffers, e \in Seq(Typed), p \in {0, 1} :
         b = keyboard_buffer[t] /\ e = entered[t] /\ p = enter_pressed[t] /\ Len(e) <= MaxLine
  BY DEF IInv, Typing
<1>5. /\ keyboard_buffer' = [keyboard_buffer EXCEPT ![t] = b]
      /\ entered' = [entered EXCEPT ![t] = e] /\ enter_pressed' = [enter_pressed EXCEPT ![t] = p]
      /\ UNCHANGED <<cur_terminal, buffer_pos, line, disturbed>>
  BY <1>4 DEF CopyChar, IInv, Typing, keyboard
<1>6. ~disturbed[t] => p = 0 /\ Copies(old, b)
  BY <1>1, <1>2, <1>3, <1>4 DEF IInv, Quiet, At
<1>7. PICK k \in Nat : k = Len(old.buf)
  BY <1>3 DEF Locals, ReaderOk
<1>8. old.buf \in Seq(Glyphs) /\ old.n \in 0 .. MaxLine /\ k < old.n /\ k \in Cells /\ b[k] \in Glyphs
  <2>1. old.buf \in Seq(Glyphs) /\ old.n \in 0 .. MaxLine /\ k < old.n
    BY <1>1, <1>2, <1>3, <1>7 DEF Locals, ReaderOk
  <2>2. k \in Cells
    BY <2>1
  <2> QED BY <2>1, <2>2 DEF Buffers, Glyphs, Typed
<1>9. PICK s : s = Append(old.buf, b[k])
  OBVIOUS
<1>10. /\ s \in Seq(Glyphs) /\ Len(s) = k + 1
       /\ \A i \in 1 .. k : s[i] = old.buf[i]
       /\ s[k + 1] = b[k]
  BY <1>7, <1>8, <1>9, AppendProperties
<1>11. PICK rec : rec = [old EXCEPT !.at = "test", !.buf = s]
  OBVIOUS
<1>12. /\ rec \in Locals /\ rec.at = "test" /\ rec.term = t
       /\ rec.n = old.n /\ rec.buf = s /\ rec.want = old.want
  BY <1>2, <1>10, <1>11 DEF Locals, Places
<1>13. ReaderOk(rec)
  BY <1>8, <1>10, <1>12 DEF ReaderOk
<1>14. Goto(r, rec)
  BY <1>2, <1>4, <1>7, <1>9, <1>11 DEF CopyChar
<1>15. ASSUME ~disturbed[t]
       PROVE  Copies(rec, b)
  <2>1. Copies(old, b)
    BY <1>6, <1>15
  <2>2. k + 1 \in 1 .. Len(old.want)
    BY <1>7, <1>8, <2>1, MoreToCopy
  <2>3. b[k] = old.want[k + 1] /\ b[k] # "nl"
    BY <1>1, <1>2, <1>7, <2>1, <2>2 DEF Copies
  <2>4. ASSUME NEW i \in 1 .. k + 1
        PROVE  i <= Len(old.want) /\ s[i] = old.want[i] /\ s[i] # "nl"
    <3>1. CASE i = k + 1
      BY <1>10, <2>2, <2>3, <3>1
    <3>2. CASE i # k + 1
      <4>1. i \in 1 .. k
        BY <3>2
      <4> QED BY <1>7, <1>10, <2>1, <4>1 DEF Copies
    <3> QED BY <3>1, <3>2
  <2> QED BY <1>10, <1>12, <2>1, <2>4 DEF Copies
<1> QED BY <1>3, <1>4, <1>5, <1>6, <1>12, <1>13, <1>14, <1>15, ReadGoesOn

LEMMA WipeStep == ASSUME IInv, NEW r \in Processes, Wipe(r) PROVE IInv'
<1> USE MaxLineNat
<1>1. reader[r].at = "wipe"
  BY DEF Wipe, At
<1>2. PICK old \in Locals, t \in Terminals : old = reader[r] /\ t = old.term
  BY <1>1, ReaderAt DEF IInv
<1>3. ReaderOk(old) /\ Reading(r, t)
  BY <1>1, <1>2, ReaderAt DEF IInv
<1>4. PICK a \in Buffers, e \in Seq(Typed), p \in {0, 1} :
         a = keyboard_buffer[t] /\ e = entered[t] /\ p = enter_pressed[t] /\ Len(e) <= MaxLine
  BY DEF IInv, Typing
<1>5. PICK b : b = [a EXCEPT ![old.j] = "nul"]
  OBVIOUS
<1>6. b \in Buffers
  BY <1>4, <1>5 DEF Buffers
<1>7. PICK j : j = old.j + 1
  OBVIOUS
<1>8. j \in 0 .. KEYBOARD_MAX_SZ
  BY <1>2, <1>7 DEF Wipe
<1>9. PICK rec : rec = [old EXCEPT !.j = j]
  OBVIOUS
<1>10. /\ rec \in Locals /\ rec.at = "wipe" /\ rec.term = t
       /\ rec.n = old.n /\ rec.buf = old.buf /\ rec.want = old.want
  BY <1>1, <1>2, <1>8, <1>9 DEF Locals
<1>11. ReaderOk(rec)
  BY <1>3, <1>10 DEF ReaderOk
<1>12. /\ Goto(r, rec) /\ keyboard_buffer' = [keyboard_buffer EXCEPT ![t] = b]
       /\ entered' = [entered EXCEPT ![t] = e] /\ enter_pressed' = [enter_pressed EXCEPT ![t] = p]
       /\ UNCHANGED <<cur_terminal, buffer_pos, line, disturbed>>
  BY <1>2, <1>4, <1>5, <1>7, <1>9 DEF Wipe, IInv, Typing
<1>13. ~disturbed[t] => p = 0 /\ old.buf = old.want
  BY <1>1, <1>2, <1>3, <1>4 DEF IInv, Quiet, At
<1> QED BY <1>3, <1>4, <1>6, <1>10, <1>11, <1>12, <1>13, ReadGoesOn

\* What a read of n bytes is to return of a line that is in the buffer.
LEMMA WantCopies ==
  ASSUME NEW e \in Seq(Typed), Len(e) <= MaxLine, NEW n \in 0 .. MaxLine,
         NEW b, Holds(b, e), NEW rec, rec.at = "clear_flag", rec.n = n, rec.buf = <<>>,
         rec.want = IF n > Len(e) THEN Append(e, "nl") ELSE SubSeq(e, 1, n)
  PROVE  rec.want \in Seq(Glyphs) /\ Copies(rec, b)
<1> USE MaxLineNat
<1> PICK m \in Nat : m = Len(e)
  OBVIOUS
<1>1. PICK w : w = rec.want /\ m = Len(e)
  OBVIOUS
<1>2. e \in Seq(Glyphs) /\ "nl" \in Glyphs
  BY TypedGlyphs, SeqMonotonic DEF Glyphs
<1>3. \A i \in 1 .. m : e[i] \in Typed /\ e[i] # "nl" /\ b[i - 1] = e[i]
  BY <1>1, TypedGlyphs, ElementOfSeq DEF Holds
<1>4. b[m] = "nl"
  BY <1>1 DEF Holds
<1>5. Len(rec.buf) = 0
  OBVIOUS
<1>6. CASE n > m
  <2>1. w = Append(e, "nl")
    BY <1>1, <1>6
  <2>2. /\ w \in Seq(Glyphs) /\ Len(w) = m + 1 /\ w[m + 1] = "nl"
        /\ \A i \in 1 .. m : w[i] = e[i]
    BY <1>1, <1>2, <2>1, AppendProperties
  <2>3. ASSUME NEW i \in 1 .. m + 1
        PROVE  b[i - 1] = w[i] /\ (w[i] = "nl" => i = m + 1)
    <3>1. CASE i = m + 1
      BY <1>4, <2>2, <3>1
    <3>2. CASE i # m + 1
      <4>1. i \in 1 .. m
        BY <3>2
      <4> QED BY <1>3, <2>2, <4>1
    <3> QED BY <3>1, <3>2
  <2> QED BY <1>1, <1>5, <1>6, <2>2, <2>3 DEF Copies
<1>7. CASE ~(n > m)
  <2>1. w = SubSeq(e, 1, n) /\ n <= m
    BY <1>1, <1>7
  <2>2. \A i \in 1 .. n : i \in 1 .. m /\ e[i] \in Glyphs
    BY <1>3, <2>1, TypedGlyphs
  <2>3. /\ w \in Seq(Glyphs) /\ Len(w) = n /\ \A i \in 1 .. n : w[i] = e[i]
    BY <2>1, <2>2, SubSeqProperties
  <2> QED BY <1>1, <1>3, <1>5, <2>2, <2>3 DEF Copies
<1> QED BY <1>6, <1>7

LEMMA SeesEnterStep == ASSUME IInv, NEW r \in Processes, SeesEnter(r) PROVE IInv'
<1> USE MaxLineNat
<1>1. PICK old \in Locals, t \in Terminals : old = reader[r] /\ t = old.term
  BY DEF IInv, Typing, Locals
<1>2. ReaderOk(old) /\ old.at = "wait" /\ old.buf = <<>> /\ enter_pressed[t] = 1
  BY <1>1 DEF IInv, Typing, SeesEnter, At, ReaderOk
<1>3. PICK b \in Buffers, e \in Seq(Typed) :
         b = keyboard_buffer[t] /\ e = entered[t] /\ Len(e) <= MaxLine
  BY DEF IInv, Typing
<1>4. PICK w : w = IF old.n > Len(e) THEN Append(e, "nl") ELSE SubSeq(e, 1, old.n)
  OBVIOUS
<1>5. PICK rec : rec = [old EXCEPT !.at = "clear_flag", !.want = w]
  OBVIOUS
<1>6. Goto(r, rec) /\ UNCHANGED <<cur_terminal, keyboard, line, entered>>
  BY <1>1, <1>3, <1>4, <1>5 DEF SeesEnter
<1>7. /\ rec.at = "clear_flag" /\ rec.term = t /\ rec.n = old.n
      /\ rec.buf = old.buf /\ rec.want = w /\ rec.j = old.j
  BY <1>1, <1>5 DEF Locals
<1>8. w \in Seq(Glyphs)
  <2>1. CASE old.n > Len(e)
    <3>1. e \in Seq(Glyphs) /\ "nl" \in Glyphs
      BY TypedGlyphs, SeqMonotonic DEF Glyphs
    <3>2. w = Append(e, "nl")
      BY <1>4, <2>1
    <3> QED BY <3>1, <3>2, AppendProperties
  <2>2. CASE ~(old.n > Len(e))
    <3>1. PICK n \in 0 .. MaxLine : n = old.n
      BY DEF Locals
    <3>2. w = SubSeq(e, 1, n) /\ n <= Len(e)
      BY <1>4, <2>2, <3>1
    <3>3. \A i \in 1 .. n : e[i] \in Glyphs
      BY <3>1, <3>2, TypedGlyphs, ElementOfSeq
    <3> QED BY <3>2, <3>3, SubSeqProperties
  <2> QED BY <2>1, <2>2
<1>9. ReaderOk(rec)
  <2>1. rec \in Locals
    BY <1>1, <1>5, <1>8 DEF Locals, Places
  <2> QED BY <1>2, <1>7, <2>1 DEF ReaderOk
<1>10. PICK d \in BOOLEAN : d <=> \/ disturbed[t] \/ cur_terminal # t
                                  \/ \E s \in Processes : Reading(s, t)
  OBVIOUS
<1>11. disturbed' = [disturbed EXCEPT ![t] = d]
  <2>1. (\/ disturbed[t] \/ cur_terminal # t \/ \E s \in Processes : Reading(s, t)) = d
    BY <1>10
  <2> QED BY <1>1, <2>1 DEF SeesEnter
<1>12. Typing'
  <2>1. reader' \in [Processes -> Locals] /\ \A s \in Processes : ReaderOk(reader'[s])
    BY <1>6, <1>9, ReaderTyped DEF IInv
  <2> QED BY <1>6, <1>11, <2>1 DEF IInv, Typing, keyboard
<1>13. ASSUME NEW u \in Terminals, ~disturbed'[u]
       PROVE  Quiet(u)'
  <2>1. CASE u # t
    <3>1. ~disturbed[u]
      BY <1>11, <1>13, <2>1 DEF IInv, Typing
    <3> QED BY <1>6, <1>7, <1>9, <1>13, <2>1, <3>1, QuietOther DEF keyboard
  <2>2. CASE u = t
    <3>1. ~d
      BY <1>11, <1>13, <2>2 DEF IInv, Typing
    <3>2. ~disturbed[t] /\ cur_terminal = t /\ \A s \in Processes : ~Reading(s, t)
      BY <1>10, <3>1
    <3>3. Quiet(t) /\ Busy(t)
      BY <1>2, <3>2 DEF IInv, Busy
    <3>4. Copies(rec, b)
      <4>1. Holds(b, e)
        BY <1>2, <1>3, <3>3 DEF Quiet
      <4>2. PICK n \in 0 .. MaxLine : n = old.n
        BY DEF Locals
      <4> QED BY <1>2, <1>3, <1>4, <1>7, <4>1, <4>2, WantCopies
    <3>5. reader'[r] = rec /\ \A s \in Processes \ {r} : reader'[s] = reader[s]
      BY <1>6, <1>9, ReaderTyped DEF IInv
    <3>6. \A s \in Processes : Reading(s, t)' => s = r
      BY <3>2, <3>5 DEF Reading
    <3>7. line'[t] = Contents(keyboard_buffer'[t], buffer_pos'[t]) /\ buffer_pos'[t] = 0
      BY <1>6, <3>3 DEF Quiet, keyboard
    <3>8. Holds(keyboard_buffer'[t], entered'[t])
      BY <1>2, <1>6, <3>3 DEF Quiet, keyboard
    <3> QED BY <1>3, <1>6, <1>7, <2>2, <3>2, <3>4, <3>5, <3>6, <3>7, <3>8 DEF Quiet, At, keyboard
  <2> QED BY <2>1, <2>2
<1> QED BY <1>12, <1>13 DEF IInv

-----------------------------------------------------------------------------
(* The theorems. *)

LEMMA InitIInv == Init => IInv
<1> SUFFICES ASSUME Init PROVE IInv
  OBVIOUS
<1> USE MaxLineNat
<1>1. PICK e : e = <<>>
  OBVIOUS
<1>2. e \in Seq(Typed) /\ Len(e) = 0 /\ \A b : e = Contents(b, 0)
  BY <1>1, ContentsNone
<1>3. /\ keyboard_buffer \in [Terminals -> Buffers]
      /\ buffer_pos \in [Terminals -> 0 .. MaxLine]
      /\ enter_pressed \in [Terminals -> {0, 1}]
      /\ disturbed \in [Terminals -> BOOLEAN]
      /\ cur_terminal \in Terminals
  <2>1. cur_terminal \in Terminals
    BY InputAssumption DEF InputAssumption, Init
  <2> QED BY <2>1 DEF Init, Buffers
<1>4. line = [t \in Terminals |-> e] /\ entered = [t \in Terminals |-> e]
  BY <1>1 DEF Init
<1>5. reader \in [Processes -> Locals] /\ \A r \in Processes : reader[r] = Idle /\ ReaderOk(reader[r])
  BY IdleOk DEF Init, ReaderOk
<1>6. Typing
  BY <1>2, <1>3, <1>4, <1>5 DEF Typing, Init
<1>7. ASSUME NEW t \in Terminals
      PROVE  Quiet(t)
  <2>1. \A r \in Processes : ~Reading(r, t)
    BY <1>5, IdleOk DEF Reading
  <2>2. buffer_pos[t] = 0 /\ enter_pressed[t] = 0 /\ line[t] = e
    BY <1>4 DEF Init
  <2> QED BY <1>2, <2>1, <2>2 DEF Quiet, Busy
<1> QED BY <1>6, <1>7 DEF IInv

LEMMA NextIInv == IInv /\ [Next]_vars => IInv'
<1> SUFFICES ASSUME IInv, [Next]_vars PROVE IInv'
  OBVIOUS
<1>1. ASSUME NEW t \in Terminals, Key(t)
      PROVE  IInv'
  <2>1. ASSUME NEW c \in Chars, Type(t, c)
        PROVE  IInv'
    BY <2>1, PutStep DEF Type, Typed
  <2>2. CASE Space(t)
    BY <2>2, PutStep DEF Space, Typed
  <2>3. CASE Tab(t)
    <3>1. TAB_SIZE \in Nat
      BY InputAssumption DEF InputAssumption
    <3> QED BY <2>3, <3>1, PutStep DEF Tab, Typed
  <2> QED BY <1>1, <2>1, <2>2, <2>3, BackspaceStep, EnterStep, CtrlLStep DEF Key
<1>2. ASSUME NEW r \in Processes, ReadStep(r)
      PROVE  IInv'
  BY <1>2, SeesEnterStep, ClearFlagStep, TestNewlineStep, CopyCharStep, WipeStep, ReturnStep DEF ReadStep
<1>3. CASE UNCHANGED vars
  <2>1. Typing'
    BY <1>3 DEF vars, keyboard, IInv, Typing
  <2>2. ASSUME NEW u \in Terminals, ~disturbed'[u]
        PROVE  Quiet(u)'
    BY <1>3, <2>2, QuietKept DEF vars, keyboard, IInv
  <2> QED BY <2>1, <2>2 DEF IInv
<1> QED BY <1>1, <1>2, <1>3, AltFnStep, CallStep, AbortStep DEF Next

\* The inductive invariant holds in every state, whatever the number of
\* terminals and of processes, the keys and the sizes of reads.
THEOREM Invariance == Spec => []IInv
BY InitIInv, NextIInv, PTL DEF Spec

\* Every variable keeps its type, and buffer_pos leaves room for the newline,
\* whatever the keys, the sizes of reads and the terminals.
THEOREM Types == Spec => []TypeOK
<1>1. IInv => TypeOK
  BY DEF IInv, Typing, ReaderOk, Locals, Places, TypeOK
<1> QED BY <1>1, Invariance, PTL

\* Unless somebody types while a line is being read, what Enter would submit is
\* what was typed.
THEOREM LineHeld == Spec => []BufferHoldsLine
<1>1. IInv => BufferHoldsLine
  BY DEF IInv, Quiet, Contents, BufferHoldsLine
<1> QED BY <1>1, Invariance, PTL

\* However keys, reads and the switching of terminals interleave, terminal_read()
\* returns the line that Enter ended, as far as it was asked for, if the terminal
\* was not typed at, hidden or read by another process in the meantime.
THEOREM LinesIntact == Spec => []LineIntact
<1>1. ASSUME IInv, NEW r \in Processes, Garbled(r)
      PROVE  disturbed[reader[r].term]
  <2>1. reader[r].at = "wipe"
    BY <1>1 DEF Garbled, At
  <2>2. reader[r].term \in Terminals /\ Reading(r, reader[r].term)
    BY <1>1, <2>1, ReaderAt DEF IInv
  <2> QED BY <1>1, <2>1, <2>2 DEF IInv, Quiet, Garbled, At
<1>2. IInv => LineIntact
  BY <1>1 DEF LineIntact
<1> QED BY <1>2, Invariance, PTL
=============================================================================
