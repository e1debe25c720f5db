---------------------------- MODULE ScreenProofs ----------------------------
(***************************************************************************)
(* Proofs about Screen, for every number of terminals and every size of    *)
(* the screen: each terminal shows the text it was given; and, behind      *)
(* them, about Commands: the program that a line names prints its file.    *)
(*                                                                         *)
(* A page is compared with a text row by row and column by column (Shown). *)
(* ShowsText is not inductive: a backspace in the first column goes to the *)
(* end of the row above, which must be full if what it erases was typed    *)
(* (Flows), and a read stores a cursor it loaded some steps before (Fresh). *)
(***************************************************************************)
EXTENDS Screen, Commands, SequenceTheorems, WellFoundedInduction, TLAPS

Glyphs == Terminals \cup {Blank, Message}
Views == Terminals \cup {Screen}
Pages == [Cells -> Glyphs]
Columns == 0 .. NUM_COLS - 1
Rows == 0 .. NUM_ROWS - 1

\* Cursors within a step of terminal_putc() may be off the page.
AnyTerms == [page : [Views -> Pages], x : [Terminals -> Nat], y : [Terminals -> Nat]]
Terms == [page : [Views -> Pages], x : [Terminals -> Columns], y : [Terminals -> Rows]]

Typing ==
  /\ TypeOK /\ term \in Terms
  /\ buffer_pos \in [Terminals -> Nat] /\ mine \in [Terminals -> Nat]
  /\ DOMAIN text = Terminals
  /\ erased \in [Terminals -> BOOLEAN] /\ moved \in [Terminals -> BOOLEAN]

\* Rows of a screen; the last one has room.
IsText(rows) ==
  /\ rows \in Seq(Seq(Terminals))
  /\ Len(rows) \in 1 .. NUM_ROWS
  /\ \A i \in 1 .. Len(rows) : Len(rows[i]) <= NUM_COLS
  /\ Len(Last(rows)) < NUM_COLS

\* Rows that m characters typed at the end began before are full.
Flows(rows, m) ==
  \A i \in 1 .. Len(rows) - 1 :
    m > Len(Last(rows)) + NUM_COLS * (Len(rows) - 1 - i) => Len(rows[i]) = NUM_COLS

Glyph(rows, y, x) ==
  IF y < Len(rows) /\ x < Len(rows[y + 1]) THEN rows[y + 1][x + 1] ELSE Blank

Shown(page, rows) ==
  \A y \in Rows, x \in Columns : page[NUM_COLS * y + x] \in {Glyph(rows, y, x), Message}

\* What a terminal shows until a backspace or a read disturbs it.
Showing(t) ==
  /\ IsText(text[t]) /\ Flows(text[t], mine[t]) /\ Shown(View(t), text[t])
  /\ term.y[t] = Len(text[t]) - 1 /\ term.x[t] = Len(Last(text[t]))

\* A read that nothing has overtaken has loaded what it is to store.
Fresh(t) ==
  reader[t].at # "user" /\ t \notin overtaken =>
    /\ reader[t].at \in {"get_y", "get_x", "set_x", "set_y"} => reader[t].on = cur_terminal
    /\ reader[t].at \in {"for_x", "get_x", "for_set", "set_x", "set_y"} =>
         reader[t].y = term.y[cur_terminal]
    /\ reader[t].at \in {"for_set", "set_x", "set_y"} => reader[t].x = term.x[cur_terminal]

IInv ==
  /\ Typing
  /\ \A t \in Terminals : Fresh(t)
  /\ \A t \in Terminals : ~Disturbed(t) => Showing(t)

-----------------------------------------------------------------------------
(* The grid of a page. *)

LEMMA Sizes == NUM_COLS \in Nat /\ NUM_COLS > 0 /\ NUM_ROWS \in Nat /\ NUM_ROWS > 0
BY ScreenAssumption

LEMMA Grid ==
  /\ \A y \in Rows, x \in Columns :
       /\ NUM_COLS * y + x \in Cells
       /\ (NUM_COLS * y + x) \div NUM_COLS = y /\ (NUM_COLS * y + x) % NUM_COLS = x
       /\ NUM_COLS * (y + 1) + x = NUM_COLS * y + x + NUM_COLS
       /\ NUM_COLS * y + x + NUM_COLS \in Cells <=> y + 1 \in Rows
  /\ \A i \in Cells :
       /\ i \div NUM_COLS \in Rows /\ i % NUM_COLS \in Columns
       /\ NUM_COLS * (i \div NUM_COLS) + (i % NUM_COLS) = i
<1> USE Sizes DEF Rows, Columns, Cells
<1>1. ASSUME NEW y \in Nat, NEW x \in Columns
      PROVE  (NUM_COLS * y + x) \div NUM_COLS = y /\ (NUM_COLS * y + x) % NUM_COLS = x
  OBVIOUS
<1>2. ASSUME NEW y \in Nat, NEW x \in Columns
      PROVE  /\ NUM_COLS * (y + 1) + x = NUM_COLS * y + x + NUM_COLS
             /\ NUM_COLS * y + x \in Cells <=> y \in Rows
  <2>1. NUM_COLS * (y + 1) = NUM_COLS * y + NUM_COLS
    OBVIOUS
  <2>2. CASE y < NUM_ROWS
    <3>1. NUM_COLS * (y + 1) <= NUM_COLS * NUM_ROWS
      BY <2>2
    <3> QED BY <2>1, <2>2, <3>1
  <2>3. CASE y >= NUM_ROWS
    <3>1. NUM_COLS * y >= NUM_COLS * NUM_ROWS
      BY <2>3
    <3> QED BY <2>1, <2>3, <3>1
  <2> QED BY <2>2, <2>3
<1>3. ASSUME NEW i \in Nat
      PROVE  /\ i \div NUM_COLS \in Nat /\ i % NUM_COLS \in Columns
             /\ NUM_COLS * (i \div NUM_COLS) + (i % NUM_COLS) = i
  OBVIOUS
<1>4. ASSUME NEW i \in Cells PROVE i \div NUM_COLS \in Rows
  BY <1>2, <1>3
<1> QED BY <1>1, <1>2, <1>3, <1>4

\* A page is the rendering of a text, but for messages, if it shows it everywhere.
LEMMA RenderShows ==
  ASSUME NEW page \in Pages, NEW rows, Len(rows) \in Nat, \A i \in 1 .. Len(rows) : Len(rows[i]) \in Nat
  PROVE  (\A i \in Cells : page[i] \in {Render(rows)[i], Message}) <=> Shown(page, rows)
<1>1. ASSUME NEW y \in Rows, NEW x \in Columns
      PROVE  Render(rows)[NUM_COLS * y + x] = Glyph(rows, y, x)
  <2>1. y \in Nat /\ x \in Nat
    BY Sizes DEF Rows, Columns
  <2>2. /\ NUM_COLS * y + x \in Cells
        /\ (NUM_COLS * y + x) \div NUM_COLS = y /\ (NUM_COLS * y + x) % NUM_COLS = x
    BY Grid
  <2>3. Render(rows)[NUM_COLS * y + x] =
          IF y + 1 <= Len(rows) THEN IF x + 1 <= Len(rows[y + 1]) THEN rows[y + 1][x + 1] ELSE Blank
          ELSE Blank
    BY <2>2 DEF Render
  <2>4. y + 1 <= Len(rows) => Len(rows[y + 1]) \in Nat
    BY <2>1
  <2> QED BY <2>1, <2>3, <2>4 DEF Glyph
<1>2. ASSUME Shown(page, rows), NEW i \in Cells PROVE page[i] \in {Render(rows)[i], Message}
  <2> DEFINE y == i \div NUM_COLS
             x == i % NUM_COLS
  <2>1. y \in Rows /\ x \in Columns /\ NUM_COLS * y + x = i
    BY Grid
  <2> HIDE DEF y, x
  <2>2. page[NUM_COLS * y + x] \in {Glyph(rows, y, x), Message}
    BY <1>2, <2>1 DEF Shown
  <2> QED BY <1>1, <2>1, <2>2
<1>3. ASSUME \A i \in Cells : page[i] \in {Render(rows)[i], Message} PROVE Shown(page, rows)
  BY <1>1, <1>3, Grid DEF Shown
<1> QED BY <1>2, <1>3

-----------------------------------------------------------------------------
(* What terminal_putc() does to a terminal's page and cursor. *)

\* The page of view v becomes page, the cursor of terminal t goes to column x, row y.
Drawn(s, t, v, page, x, y) ==
  [page |-> [s.page EXCEPT ![v] = page], x |-> [s.x EXCEPT ![t] = x], y |-> [s.y EXCEPT ![t] = y]]

Up(page) == [i \in Cells |-> IF i + NUM_COLS \in Cells THEN page[i + NUM_COLS] ELSE Blank]

LEMMA DrawnFields ==
  ASSUME NEW s \in AnyTerms, NEW t \in Terminals, NEW v \in Views,
         NEW page \in Pages, NEW x \in Nat, NEW y \in Nat,
         NEW drawn, drawn = Drawn(s, t, v, page, x, y)
  PROVE  drawn \in AnyTerms /\ drawn.page[v] = page /\ drawn.x[t] = x /\ drawn.y[t] = y
BY DEF Drawn, AnyTerms

LEMMA DrawnTwice ==
  ASSUME NEW s \in AnyTerms, NEW t \in Terminals, NEW v \in Views, NEW page, NEW x, NEW y,
         NEW q, NEW a, NEW b
  PROVE  Drawn(Drawn(s, t, v, page, x, y), t, v, q, a, b) = Drawn(s, t, v, q, a, b)
BY DEF Drawn, AnyTerms

LEMMA UpPage == ASSUME NEW page \in Pages PROVE Up(page) \in Pages
BY Sizes DEF Up, Pages, Glyphs, Cells

\* The steps of terminal_putc().
LEMMA Steps ==
  ASSUME NEW s \in AnyTerms, NEW t \in Terminals, NEW v \in Views
  PROVE  /\ \A x, y \in Nat : At(s, t, x, y) = Drawn(s, t, v, s.page[v], x, y)
         /\ Scroll(s, t, v) = Drawn(s, t, v, Up(s.page[v]), 0, NUM_ROWS - 1)
         /\ \A c \in Glyphs : NUM_COLS * s.y[t] + s.x[t] \in Cells =>
              Poke(s, t, v, c) =
                Drawn(s, t, v, [s.page[v] EXCEPT ![NUM_COLS * s.y[t] + s.x[t]] = c], s.x[t], s.y[t])
         /\ IncX(s, t) = Drawn(s, t, v, s.page[v], s.x[t] + 1, s.y[t])
         /\ IncY(s, t) = Drawn(s, t, v, s.page[v], s.x[t], s.y[t] + s.x[t] \div NUM_COLS)
<1>0. [s.page EXCEPT ![v] = s.page[v]] = s.page /\ [s.x EXCEPT ![t] = s.x[t]] = s.x
        /\ [s.y EXCEPT ![t] = s.y[t]] = s.y
  BY DEF AnyTerms
<1>1. ASSUME NEW r, NEW page, NEW f, NEW g, r = [page |-> page, x |-> f, y |-> g], NEW x, NEW y
      PROVE  At(r, t, x, y) = [page |-> page, x |-> [f EXCEPT ![t] = x], y |-> [g EXCEPT ![t] = y]]
  <2> DEFINE gone == [r EXCEPT !.x[t] = x]
  <2>1. gone = [page |-> page, x |-> [f EXCEPT ![t] = x], y |-> g]
    BY <1>1
  <2>2. At(r, t, x, y) = [gone EXCEPT !.y[t] = y]
    BY DEF At
  <2> HIDE DEF gone
  <2> QED BY <2>1, <2>2
<1>2. \A x, y \in Nat : At(s, t, x, y) = Drawn(s, t, v, s.page[v], x, y)
  BY <1>0, <1>1 DEF AnyTerms, Drawn
<1>3. Scroll(s, t, v) = Drawn(s, t, v, Up(s.page[v]), 0, NUM_ROWS - 1)
  <2>1. [s EXCEPT !.page[v] = [i \in Cells |-> IF i + NUM_COLS \in Cells THEN @[i + NUM_COLS] ELSE Blank]]
          = [page |-> [s.page EXCEPT ![v] = Up(s.page[v])], x |-> s.x, y |-> s.y]
    BY DEF Up, AnyTerms
  <2> QED BY <1>1, <2>1 DEF Scroll, Drawn
<1>4. \A c \in Glyphs : NUM_COLS * s.y[t] + s.x[t] \in Cells =>
        Poke(s, t, v, c) =
          Drawn(s, t, v, [s.page[v] EXCEPT ![NUM_COLS * s.y[t] + s.x[t]] = c], s.x[t], s.y[t])
  BY <1>0 DEF Poke, AnyTerms, Drawn
<1>5. IncX(s, t) = Drawn(s, t, v, s.page[v], s.x[t] + 1, s.y[t])
  BY <1>0 DEF IncX, AnyTerms, Drawn
<1>6. IncY(s, t) = Drawn(s, t, v, s.page[v], s.x[t], s.y[t] + s.x[t] \div NUM_COLS)
  BY <1>0 DEF IncY, AnyTerms, Drawn
<1> QED BY <1>2, <1>3, <1>4, <1>5, <1>6

\* Where a cursor in its page goes behind a character, and whether the page scrolls.
LEMMA PutCharDraws ==
  ASSUME NEW s \in Terms, NEW t \in Terminals, NEW v \in Views
  PROVE  LET x == s.x[t]
             y == s.y[t]
             page == [s.page[v] EXCEPT ![NUM_COLS * y + x] = t]
         IN  /\ page \in Pages
             /\ PutChar(s, t, v) =
                  IF x + 1 < NUM_COLS THEN Drawn(s, t, v, page, x + 1, y)
                  ELSE IF y + 1 < NUM_ROWS THEN Drawn(s, t, v, page, 0, y + 1)
                  ELSE Drawn(s, t, v, Up(page), 0, NUM_ROWS - 1)
<1> DEFINE x == s.x[t]
           y == s.y[t]
           page == [s.page[v] EXCEPT ![NUM_COLS * y + x] = t]
<1>1. x \in Columns /\ y \in Rows /\ s \in AnyTerms /\ s.page[v] \in Pages
      /\ x \in Nat /\ y \in Nat /\ x + 1 \in Nat /\ y + 1 \in Nat
  BY Sizes DEF Terms, AnyTerms, Columns, Rows
<1>2. page \in Pages /\ Up(page) \in Pages
  <2>1. page \in Pages
    BY <1>1 DEF Pages, Glyphs
  <2> QED BY <2>1, UpPage
<1>3. Poke(s, t, v, t) = Drawn(s, t, v, page, x, y)
  BY <1>1, Steps, Grid DEF Glyphs
<1> HIDE DEF page, x, y
<1> DEFINE s1 == Poke(s, t, v, t)
           s2 == IncX(s1, t)
           s3 == IncY(s2, t)
           s4 == Wrap(s3, t, v)
<1>4. s1 = Drawn(s, t, v, page, x, y)
  BY <1>3
<1> HIDE DEF s1
<1>5. s2 = Drawn(s, t, v, page, x + 1, y)
  <2>1. s1 \in AnyTerms /\ s1.page[v] = page /\ s1.x[t] = x /\ s1.y[t] = y
    BY <1>1, <1>2, <1>4, DrawnFields
  <2>2. s2 = Drawn(s1, t, v, page, x + 1, y)
    BY <2>1, Steps
  <2> QED BY <1>1, <1>4, <2>2, DrawnTwice
<1> HIDE DEF s2
<1>6. s3 = Drawn(s, t, v, page, x + 1, y + (x + 1) \div NUM_COLS)
  <2>1. s2 \in AnyTerms /\ s2.page[v] = page /\ s2.x[t] = x + 1 /\ s2.y[t] = y
    BY <1>1, <1>2, <1>5, DrawnFields
  <2>2. s3 = Drawn(s2, t, v, page, x + 1, y + (x + 1) \div NUM_COLS)
    BY <2>1, Steps
  <2> QED BY <1>1, <1>5, <2>2, DrawnTwice
<1> HIDE DEF s3
<1>7. PutChar(s, t, v) = SetCursor(s4, t, v)
  BY DEF PutChar, s1, s2, s3
<1> HIDE DEF s4
<1>8. CASE x + 1 < NUM_COLS
  <2>1. y + (x + 1) \div NUM_COLS = y /\ (x + 1) % NUM_COLS = x + 1 /\ y % NUM_ROWS = y /\ y < NUM_ROWS
    BY <1>1, <1>8, Sizes DEF Rows
  <2>2. s3 = Drawn(s, t, v, page, x + 1, y)
    BY <1>6, <2>1
  <2>3. s3 \in AnyTerms /\ s3.page[v] = page /\ s3.x[t] = x + 1 /\ s3.y[t] = y
    BY <1>1, <1>2, <2>2, DrawnFields
  <2>4. s4 = At(s3, t, x + 1, y)
    BY <1>1, <2>1, <2>3, Sizes DEF Wrap, s4
  <2>5. At(s3, t, x + 1, y) = Drawn(s3, t, v, page, x + 1, y)
    BY <1>1, <2>3, Steps
  <2>6. s4 = Drawn(s, t, v, page, x + 1, y)
    BY <1>1, <2>2, <2>4, <2>5, DrawnTwice
  <2>7. s4.x[t] = x + 1
    BY <1>1, <1>2, <2>6, DrawnFields
  <2> QED BY <1>2, <1>7, <1>8, <2>6, <2>7 DEF SetCursor, page, x, y
<1>9. CASE ~(x + 1 < NUM_COLS) /\ y + 1 < NUM_ROWS
  <2>1. x + 1 = NUM_COLS
    BY <1>1, <1>9, Sizes DEF Columns
  <2>2. y + (x + 1) \div NUM_COLS = y + 1 /\ (x + 1) % NUM_COLS = 0 /\ (y + 1) % NUM_ROWS = y + 1
    BY <1>1, <1>9, <2>1, Sizes
  <2>3. s3 = Drawn(s, t, v, page, x + 1, y + 1)
    BY <1>6, <2>2
  <2>4. s3 \in AnyTerms /\ s3.page[v] = page /\ s3.x[t] = x + 1 /\ s3.y[t] = y + 1
    BY <1>1, <1>2, <2>3, DrawnFields
  <2>5. s4 = At(s3, t, 0, y + 1)
    BY <1>1, <1>9, <2>2, <2>4, Sizes DEF Wrap, s4
  <2>6. At(s3, t, 0, y + 1) = Drawn(s3, t, v, page, 0, y + 1)
    <3>1. \A p, q \in Nat : At(s3, t, p, q) = Drawn(s3, t, v, s3.page[v], p, q)
      BY <1>1, <2>4, Steps
    <3>2. 0 \in Nat
      OBVIOUS
    <3> QED BY <1>1, <2>4, <3>1, <3>2, Zenon
  <2>7. s4 = Drawn(s, t, v, page, 0, y + 1)
    BY <1>1, <2>3, <2>5, <2>6, DrawnTwice
  <2>8. s4.x[t] = 0
    <3>1. s.x \in [Terminals -> Nat]
      BY <1>1 DEF AnyTerms
    <3>2. s4.x = [s.x EXCEPT ![t] = 0]
      BY ONLY <2>7 DEF Drawn
    <3> QED BY ONLY <3>1, <3>2, t \in Terminals
  <2> QED BY <1>2, <1>7, <1>9, <2>7, <2>8, Sizes DEF SetCursor, page, x, y
<1>10. CASE ~(x + 1 < NUM_COLS) /\ ~(y + 1 < NUM_ROWS)
  <2>1. x + 1 = NUM_COLS
    BY <1>1, <1>10, Sizes DEF Columns
  <2>2. y + (x + 1) \div NUM_COLS = y + 1
    BY <1>1, <2>1, Sizes
  <2>3. s3 = Drawn(s, t, v, page, x + 1, y + 1)
    BY <1>6, <2>2
  <2>4. s3 \in AnyTerms /\ s3.page[v] = page /\ s3.x[t] = x + 1 /\ s3.y[t] = y + 1
    BY <1>1, <1>2, <2>3, DrawnFields
  <2>5. s4 = Scroll(s3, t, v)
    BY <1>1, <1>10, <2>4, Sizes DEF Wrap, s4
  <2>6. Scroll(s3, t, v) = Drawn(s3, t, v, Up(page), 0, NUM_ROWS - 1)
    BY <1>1, <2>4, Steps
  <2>7. s4 = Drawn(s, t, v, Up(page), 0, NUM_ROWS - 1)
    BY <1>1, <2>3, <2>5, <2>6, DrawnTwice
  <2>8. NUM_ROWS - 1 \in Nat
    BY Sizes
  <2>9. s4.x[t] = 0
    BY <1>1, <1>2, <2>7, <2>8, DrawnFields
  <2> QED BY <1>2, <1>7, <1>10, <2>7, <2>9, Sizes DEF SetCursor, page, x, y
<1> QED BY <1>2, <1>8, <1>9, <1>10 DEF page, x, y

\* A newline, and the enter key.
LEMMA NewlineDraws ==
  ASSUME NEW s \in Terms, NEW t \in Terminals, NEW v \in Views
  PROVE  PutNewline(s, t, v) =
           IF s.y[t] + 1 < NUM_ROWS THEN Drawn(s, t, v, s.page[v], 0, s.y[t] + 1)
           ELSE Drawn(s, t, v, Up(s.page[v]), 0, NUM_ROWS - 1)
<1>1. s.y[t] \in Nat /\ s \in AnyTerms
  BY Sizes DEF Terms, AnyTerms, Columns, Rows
<1> QED BY <1>1, Steps, Sizes DEF PutNewline

\* set_cursor() has nothing to do behind a character or a newline.
LEMMA CursorStays ==
  ASSUME NEW s \in Terms, NEW t \in Terminals, NEW v \in Views
  PROVE  SetCursor(s, t, v) = s
BY Sizes DEF Terms, Columns, SetCursor

\* A drawn page has the cursor in it.
LEMMA DrawnTerms ==
  ASSUME NEW s \in Terms, NEW t \in Terminals, NEW v \in Views,
         NEW page \in Pages, NEW x \in Columns, NEW y \in Rows
  PROVE  Drawn(s, t, v, page, x, y) \in Terms
BY DEF Drawn, Terms

LEMMA TermsAny == Terms \subseteq AnyTerms
BY Sizes DEF Terms, AnyTerms, Columns, Rows

LEMMA DrawnPage ==
  ASSUME NEW s \in Terms, NEW t \in Terminals, NEW v \in Views, NEW page, NEW x, NEW y
  PROVE  Drawn(s, t, v, page, x, y).page[v] = page
BY DEF Drawn, Terms

LEMMA PutCharTerms ==
  ASSUME NEW s \in Terms, NEW t \in Terminals, NEW v \in Views
  PROVE  PutChar(s, t, v) \in Terms
<1> DEFINE page == [s.page[v] EXCEPT ![NUM_COLS * s.y[t] + s.x[t]] = t]
<1>1. s.x[t] \in Columns /\ s.y[t] \in Rows /\ page \in Pages /\ Up(page) \in Pages
  BY PutCharDraws, UpPage DEF Terms
<1>2. PutChar(s, t, v) =
        IF s.x[t] + 1 < NUM_COLS THEN Drawn(s, t, v, page, s.x[t] + 1, s.y[t])
        ELSE IF s.y[t] + 1 < NUM_ROWS THEN Drawn(s, t, v, page, 0, s.y[t] + 1)
        ELSE Drawn(s, t, v, Up(page), 0, NUM_ROWS - 1)
  BY PutCharDraws
<1> HIDE DEF page
<1>3. /\ 0 \in Columns /\ NUM_ROWS - 1 \in Rows
      /\ s.x[t] + 1 < NUM_COLS => s.x[t] + 1 \in Columns
      /\ s.y[t] + 1 < NUM_ROWS => s.y[t] + 1 \in Rows
  BY <1>1, Sizes DEF Columns, Rows
<1> QED BY <1>1, <1>2, <1>3, DrawnTerms

LEMMA NewlineTerms ==
  ASSUME NEW s \in Terms, NEW t \in Terminals, NEW v \in Views
  PROVE  PutNewline(s, t, v) \in Terms
<1>1. s.y[t] \in Rows /\ s.page[v] \in Pages /\ Up(s.page[v]) \in Pages
  BY UpPage DEF Terms
<1>2. /\ 0 \in Columns /\ NUM_ROWS - 1 \in Rows
      /\ s.y[t] + 1 < NUM_ROWS => s.y[t] + 1 \in Rows
  BY <1>1, Sizes DEF Columns, Rows
<1> QED BY <1>1, <1>2, NewlineDraws, DrawnTerms

-----------------------------------------------------------------------------
(* What the steps of the text do, and that a page follows. *)

AnyRows == Seq(Seq(Terminals))

\* A text that a screen shows or that is about to lose its first row.
IsLong(rows) ==
  /\ rows \in AnyRows
  /\ Len(rows) \in 1 .. NUM_ROWS + 1
  /\ \A i \in 1 .. Len(rows) : Len(rows[i]) <= NUM_COLS
  /\ Len(Last(rows)) < NUM_COLS
  /\ Len(rows) = NUM_ROWS + 1 => Last(rows) = <<>>

LEMMA TextRows ==
  ASSUME NEW rows \in AnyRows
  PROVE  /\ Len(rows) \in Nat
         /\ \A i \in 1 .. Len(rows) : rows[i] \in Seq(Terminals) /\ Len(rows[i]) \in Nat
         /\ Len(rows) > 0 => Last(rows) = rows[Len(rows)] /\ Len(Last(rows)) \in Nat
BY DEF AnyRows, Last

LEMMA FrontOf ==
  ASSUME NEW S, NEW seq \in Seq(S), Len(seq) > 0
  PROVE  /\ Front(seq) \in Seq(S) /\ Len(Front(seq)) = Len(seq) - 1
         /\ \A i \in 1 .. Len(seq) - 1 : Front(seq)[i] = seq[i]
<1>1. Len(seq) \in Nat /\ \A i \in 1 .. Len(seq) - 1 : seq[i] \in S
  OBVIOUS
<1>2. /\ SubSeq(seq, 1, Len(seq) - 1) \in Seq(S)
      /\ Len(SubSeq(seq, 1, Len(seq) - 1)) = IF 1 <= Len(seq) - 1 THEN Len(seq) - 1 - 1 + 1 ELSE 0
      /\ \A i \in 1 .. Len(seq) - 1 - 1 + 1 : SubSeq(seq, 1, Len(seq) - 1)[i] = seq[1 + i - 1]
  BY <1>1, SubSeqProperties
<1>3. \A i \in 1 .. Len(seq) - 1 : i \in 1 .. Len(seq) - 1 - 1 + 1 /\ 1 + i - 1 = i
  BY <1>1
<1>4. Len(SubSeq(seq, 1, Len(seq) - 1)) = Len(seq) - 1
  <2> DEFINE n == Len(seq)
  <2>1. n \in Nat /\ n > 0
    BY <1>1
  <2> HIDE DEF n
  <2>2. (IF 1 <= n - 1 THEN n - 1 - 1 + 1 ELSE 0) = n - 1
    BY <2>1
  <2> QED BY <1>2, <2>2 DEF n
<1>5. \A i \in 1 .. Len(seq) - 1 : SubSeq(seq, 1, Len(seq) - 1)[i] = seq[i]
  BY <1>2, <1>3
<1> QED BY <1>2, <1>4, <1>5 DEF Front

\* The last element of a sequence is replaced.
LEMMA Ending ==
  ASSUME NEW S, NEW seq \in Seq(S), Len(seq) > 0, NEW end \in Seq(S)
  PROVE  /\ Front(seq) \o end \in Seq(S)
         /\ Len(Front(seq) \o end) = Len(seq) - 1 + Len(end)
         /\ \A i \in 1 .. Len(seq) - 1 : (Front(seq) \o end)[i] = seq[i]
         /\ \A i \in 1 .. Len(end) : (Front(seq) \o end)[Len(seq) - 1 + i] = end[i]
<1>1. /\ Front(seq) \in Seq(S) /\ Len(Front(seq)) = Len(seq) - 1
      /\ \A i \in 1 .. Len(seq) - 1 : Front(seq)[i] = seq[i]
  BY FrontOf
<1> DEFINE front == Front(seq)
<1> HIDE DEF front
<1>2. front \in Seq(S) /\ Len(front) = Len(seq) - 1 /\ Len(seq) \in Nat /\ Len(end) \in Nat
  BY <1>1 DEF front
<1>3. /\ front \o end \in Seq(S)
      /\ Len(front \o end) = Len(front) + Len(end)
      /\ \A i \in 1 .. Len(front) + Len(end) :
           (front \o end)[i] = IF i <= Len(front) THEN front[i] ELSE end[i - Len(front)]
  BY <1>2, ConcatProperties
<1> QED BY <1>1, <1>2, <1>3 DEF front

LEMMA LastRowsOf ==
  ASSUME NEW rows \in AnyRows, Len(rows) \in 1 .. NUM_ROWS + 1
  PROVE  /\ Len(rows) <= NUM_ROWS => LastRows(rows) = rows
         /\ Len(rows) = NUM_ROWS + 1 =>
              /\ LastRows(rows) \in AnyRows /\ Len(LastRows(rows)) = NUM_ROWS
              /\ \A i \in 1 .. NUM_ROWS : LastRows(rows)[i] = rows[i + 1]
<1>1. CASE Len(rows) <= NUM_ROWS
  <2>1. LastRows(rows) = SubSeq(rows, 1, Len(rows)) /\ Len(rows) # NUM_ROWS + 1
    <3>1. ~(Len(rows) > NUM_ROWS) /\ Len(rows) # NUM_ROWS + 1
      BY <1>1, Sizes
    <3> QED BY <3>1 DEF LastRows
  <2>2. SubSeq(rows, 1, Len(rows)) = rows
    BY SubSeqFull DEF AnyRows
  <2> QED BY <2>1, <2>2
<1>2. CASE Len(rows) = NUM_ROWS + 1
  <2>1. LastRows(rows) = SubSeq(rows, 2, Len(rows))
    BY <1>2, Sizes DEF LastRows
  <2>2. \A i \in 2 .. Len(rows) : rows[i] \in Seq(Terminals)
    BY TextRows
  <2>3. /\ SubSeq(rows, 2, Len(rows)) \in AnyRows
        /\ Len(SubSeq(rows, 2, Len(rows))) = NUM_ROWS
        /\ \A i \in 1 .. Len(rows) - 2 + 1 : SubSeq(rows, 2, Len(rows))[i] = rows[2 + i - 1]
    BY <1>2, <2>2, Sizes, SubSeqProperties DEF AnyRows
  <2> QED BY <1>2, <2>1, <2>3, Sizes
<1> QED BY <1>1, <1>2, Sizes

\* When a page scrolls, its text loses the first row.
LEMMA ScrollShows ==
  ASSUME NEW rows, IsLong(rows), NEW m \in Nat, Flows(rows, m),
         NEW page \in Pages, Shown(page, rows)
  PROVE  /\ IsText(LastRows(rows)) /\ Flows(LastRows(rows), m)
         /\ Len(rows) <= NUM_ROWS => LastRows(rows) = rows
         /\ Len(rows) = NUM_ROWS + 1 =>
              /\ Len(LastRows(rows)) = NUM_ROWS /\ Last(LastRows(rows)) = <<>>
              /\ Shown(Up(page), LastRows(rows))
<1>1. rows \in AnyRows /\ Len(rows) \in 1 .. NUM_ROWS + 1
  BY DEF IsLong
<1>2. CASE Len(rows) <= NUM_ROWS
  <2>1. LastRows(rows) = rows
    BY <1>1, <1>2, LastRowsOf
  <2> QED BY <1>1, <1>2, <2>1, Sizes DEF IsLong, IsText, AnyRows
<1>3. CASE Len(rows) = NUM_ROWS + 1
  <2> DEFINE lower == LastRows(rows)
  <2>1. /\ lower \in AnyRows /\ Len(lower) = NUM_ROWS
        /\ \A i \in 1 .. NUM_ROWS : lower[i] = rows[i + 1]
    BY <1>1, <1>3, LastRowsOf
  <2> HIDE DEF lower
  <2>2. Last(lower) = <<>> /\ Last(rows) = <<>> /\ Len(<<>>) = 0
    BY <1>1, <1>3, <2>1, TextRows, Sizes, SMTT(30) DEF IsLong
  <2>3. IsText(lower)
    <3>1. ASSUME NEW i \in 1 .. NUM_ROWS PROVE Len(lower[i]) <= NUM_COLS
      BY <1>3, <2>1, Sizes DEF IsLong
    <3> QED BY <2>1, <2>2, <3>1, Sizes DEF IsText, AnyRows
  <2>4. Flows(lower, m)
    <3> SUFFICES ASSUME NEW i \in 1 .. NUM_ROWS - 1,
                        m > Len(Last(lower)) + NUM_COLS * (NUM_ROWS - 1 - i)
                 PROVE  Len(lower[i]) = NUM_COLS
      BY <2>1 DEF Flows
    <3>1. Len(rows) - 1 - (i + 1) = NUM_ROWS - 1 - i /\ i + 1 \in 1 .. Len(rows) - 1
      BY <1>3, Sizes
    <3>2. Len(rows[i + 1]) = NUM_COLS
      BY <2>2, <3>1 DEF Flows
    <3> QED BY <2>1, <3>2, Sizes
  <2>5. Shown(Up(page), lower)
    <3> SUFFICES ASSUME NEW y \in Rows, NEW x \in Columns
                 PROVE  Up(page)[NUM_COLS * y + x] \in {Glyph(lower, y, x), Message}
      BY DEF Shown
    <3>1. y \in Nat /\ x \in Nat /\ y < NUM_ROWS /\ x < NUM_COLS
      BY Sizes DEF Rows, Columns
    <3>2. /\ NUM_COLS * y + x \in Cells
          /\ NUM_COLS * (y + 1) + x = NUM_COLS * y + x + NUM_COLS
          /\ NUM_COLS * y + x + NUM_COLS \in Cells <=> y + 1 \in Rows
      BY Grid
    <3>3. CASE y + 1 \in Rows
      <4>1. Up(page)[NUM_COLS * y + x] = page[NUM_COLS * (y + 1) + x]
        BY <3>2, <3>3 DEF Up
      <4>2. page[NUM_COLS * (y + 1) + x] \in {Glyph(rows, y + 1, x), Message}
        BY <3>3 DEF Shown
      <4>3. lower[y + 1] = rows[y + 1 + 1]
        BY <2>1, <3>1
      <4>4. Glyph(rows, y + 1, x) = Glyph(lower, y, x)
        BY <1>3, <2>1, <3>1, <4>3, Sizes DEF Glyph
      <4> QED BY <4>1, <4>2, <4>4
    <3>4. CASE y + 1 \notin Rows
      <4>1. y + 1 = NUM_ROWS
        BY <3>1, <3>4, Sizes DEF Rows
      <4>2. Up(page)[NUM_COLS * y + x] = Blank
        BY <3>2, <3>4 DEF Up
      <4>3. lower[y + 1] = <<>>
        BY <2>1, <2>2, <4>1, TextRows, Sizes
      <4> QED BY <2>2, <3>1, <4>2, <4>3 DEF Glyph
    <3> QED BY <3>3, <3>4
  <2> QED BY <1>3, <2>1, <2>2, <2>3, <2>4, <2>5, Sizes DEF lower
<1> QED BY <1>1, <1>2, <1>3, Sizes

\* A character behind a text.
Typed(rows, t) ==
  LET row == Append(Last(rows), t) IN
  Front(rows) \o IF Len(row) = NUM_COLS THEN <<row, <<>>>> ELSE <<row>>

LEMMA TypedRows ==
  ASSUME NEW rows, IsText(rows), NEW t \in Terminals
  PROVE  LET n == Len(rows)
             row == Append(Last(rows), t)
         IN  /\ n \in Nat /\ n > 0 /\ row \in Seq(Terminals) /\ Len(row) = Len(Last(rows)) + 1
             /\ \A i \in 1 .. Len(Last(rows)) : row[i] = Last(rows)[i]
             /\ row[Len(row)] = t
             /\ Typed(rows, t) \in AnyRows
             /\ Len(Typed(rows, t)) = IF Len(row) = NUM_COLS THEN n + 1 ELSE n
             /\ \A i \in 1 .. n - 1 : Typed(rows, t)[i] = rows[i]
             /\ Typed(rows, t)[n] = row
             /\ Len(row) = NUM_COLS => Typed(rows, t)[n + 1] = <<>>
<1> DEFINE n == Len(rows)
           row == Append(Last(rows), t)
           end == IF Len(row) = NUM_COLS THEN <<row, <<>>>> ELSE <<row>>
<1>1. rows \in AnyRows /\ n \in Nat /\ n > 0 /\ Last(rows) \in Seq(Terminals)
  BY TextRows DEF IsText, AnyRows
<1>2. /\ row \in Seq(Terminals) /\ Len(row) = Len(Last(rows)) + 1
      /\ \A i \in 1 .. Len(Last(rows)) : row[i] = Last(rows)[i]
      /\ row[Len(row)] = t
  BY <1>1, AppendProperties
<1> HIDE DEF row
<1>3. /\ end \in AnyRows /\ Len(end) = IF Len(row) = NUM_COLS THEN 2 ELSE 1
      /\ end[1] = row /\ (Len(row) = NUM_COLS => end[2] = <<>>)
  BY <1>2 DEF AnyRows
<1>4. Typed(rows, t) = Front(rows) \o end
  BY DEF Typed, row
<1> HIDE DEF end
<1>5. /\ Front(rows) \o end \in AnyRows
      /\ Len(Front(rows) \o end) = n - 1 + Len(end)
      /\ \A i \in 1 .. n - 1 : (Front(rows) \o end)[i] = rows[i]
      /\ \A i \in 1 .. Len(end) : (Front(rows) \o end)[n - 1 + i] = end[i]
  <2> DEFINE S == Seq(Terminals)
  <2>1. rows \in Seq(S) /\ end \in Seq(S) /\ Len(rows) > 0 /\ AnyRows = Seq(S)
    BY <1>1, <1>3 DEF AnyRows
  <2> HIDE DEF S
  <2> QED BY <2>1, Ending
<1>6. Typed(rows, t)[n - 1 + 1] = row /\ (Len(row) = NUM_COLS => Typed(rows, t)[n - 1 + 2] = <<>>)
  BY <1>3, <1>4, <1>5, SMTT(30)
<1>7. n - 1 + 1 = n /\ n - 1 + 2 = n + 1
  BY <1>1
<1>8. Len(Typed(rows, t)) = IF Len(row) = NUM_COLS THEN n + 1 ELSE n
  BY <1>1, <1>3, <1>4, <1>5
<1> QED BY <1>1, <1>2, <1>4, <1>5, <1>6, <1>7, <1>8 DEF row

LEMMA TypedShows ==
  ASSUME NEW rows, IsText(rows), NEW m \in Nat, Flows(rows, m), NEW t \in Terminals,
         NEW page \in Pages, Shown(page, rows)
  PROVE  LET x == Len(Last(rows))
             y == Len(rows) - 1
         IN  /\ IsLong(Typed(rows, t)) /\ Flows(Typed(rows, t), m + 1)
             /\ Shown([page EXCEPT ![NUM_COLS * y + x] = t], Typed(rows, t))
             /\ IF x + 1 < NUM_COLS
                THEN Len(Typed(rows, t)) = y + 1 /\ Len(Last(Typed(rows, t))) = x + 1
                ELSE Len(Typed(rows, t)) = y + 2 /\ Last(Typed(rows, t)) = <<>>
<1> DEFINE x == Len(Last(rows))
           y == Len(rows) - 1
           row == Append(Last(rows), t)
           long == Typed(rows, t)
           new == [page EXCEPT ![NUM_COLS * y + x] = t]
<1>1. /\ rows \in AnyRows /\ y \in Nat /\ y < NUM_ROWS /\ y + 1 = Len(rows)
      /\ x \in Nat /\ x < NUM_COLS /\ Last(rows) = rows[y + 1]
      /\ \A i \in 1 .. y + 1 : Len(rows[i]) <= NUM_COLS /\ Len(rows[i]) \in Nat
  BY TextRows, Sizes DEF IsText, AnyRows
<1>2. /\ row \in Seq(Terminals) /\ Len(row) = x + 1 /\ long \in AnyRows
      /\ \A i \in 1 .. x : row[i] = rows[y + 1][i]
      /\ row[x + 1] = t
      /\ Len(long) = IF x + 1 = NUM_COLS THEN y + 2 ELSE y + 1
      /\ \A i \in 1 .. y : long[i] = rows[i]
      /\ long[y + 1] = row
      /\ x + 1 = NUM_COLS => long[y + 2] = <<>>
  <2>1. y + 1 + 1 = y + 2 /\ y + 1 - 1 = y
    BY <1>1
  <2> QED BY <1>1, <2>1, TypedRows
<1>3. Len(<<>>) = 0
  OBVIOUS
<1> HIDE DEF x, y, row, long
<1>4. IF x + 1 < NUM_COLS THEN Len(long) = y + 1 /\ Last(long) = row
      ELSE Len(long) = y + 2 /\ Last(long) = <<>> /\ x + 1 = NUM_COLS
  BY <1>1, <1>2, Sizes DEF Last
<1>5. IsLong(long)
  <2>1. ASSUME NEW i \in 1 .. Len(long) PROVE Len(long[i]) <= NUM_COLS
    <3>1. i \in 1 .. y \/ i = y + 1 \/ (i = y + 2 /\ x + 1 = NUM_COLS)
      BY <1>1, <1>2
    <3> QED BY <1>1, <1>2, <1>3, <3>1, Sizes
  <2>2. Len(Last(long)) < NUM_COLS
    BY <1>1, <1>2, <1>3, <1>4, Sizes
  <2>3. Len(long) \in 1 .. NUM_ROWS + 1 /\ (Len(long) = NUM_ROWS + 1 => Last(long) = <<>>)
    BY <1>1, <1>4, Sizes
  <2> QED BY <1>2, <2>1, <2>2, <2>3 DEF IsLong
<1>6. Flows(long, m + 1)
  <2> SUFFICES ASSUME NEW i \in 1 .. Len(long) - 1,
                      m + 1 > Len(Last(long)) + NUM_COLS * (Len(long) - 1 - i)
               PROVE  Len(long[i]) = NUM_COLS
    BY DEF Flows
  <2>1. CASE i = y + 1
    BY <1>1, <1>2, <1>4, <2>1, Sizes
  <2>2. CASE i # y + 1
    <3>1. i \in 1 .. Len(rows) - 1 /\ long[i] = rows[i] /\ Len(rows) - 1 - i = y - i /\ y - i \in Nat
      BY <1>1, <1>2, <1>4, <2>2, Sizes
    <3>2. m > x + NUM_COLS * (y - i)
      <4>1. CASE x + 1 < NUM_COLS
        <5>1. Len(long) - 1 - i = y - i /\ Len(Last(long)) = x + 1
          BY <1>1, <1>2, <1>4, <4>1
        <5>2. NUM_COLS * (y - i) \in Nat
          BY <3>1, Sizes
        <5> QED BY <1>1, <5>1, <5>2, SMTT(30)
      <4>2. CASE ~(x + 1 < NUM_COLS)
        <5>1. Len(long) - 1 - i = (y - i) + 1 /\ Len(Last(long)) = 0 /\ x + 1 = NUM_COLS
          BY <1>1, <1>2, <1>3, <1>4, <4>2
        <5>2. NUM_COLS * ((y - i) + 1) = NUM_COLS * (y - i) + NUM_COLS /\ NUM_COLS * (y - i) \in Nat
          BY <3>1, Sizes, SMTT(30)
        <5>3. m + 1 > 0 + NUM_COLS * ((y - i) + 1)
          BY <5>1
        <5> HIDE DEF new
        <5> QED BY <1>1, <5>1, <5>2, <5>3, Sizes
      <4> QED BY <4>1, <4>2
    <3> QED BY <3>1, <3>2 DEF Flows, x
  <2> QED BY <2>1, <2>2
<1>7. Shown(new, long)
  <2> SUFFICES ASSUME NEW b \in Rows, NEW a \in Columns
               PROVE  new[NUM_COLS * b + a] \in {Glyph(long, b, a), Message}
    BY DEF Shown
  <2>1. b \in Nat /\ b < NUM_ROWS /\ a \in Nat /\ a < NUM_COLS /\ y \in Rows /\ x \in Columns
    BY <1>1, Sizes DEF Rows, Columns
  <2>2. /\ NUM_COLS * y + x \in Cells /\ NUM_COLS * b + a \in Cells
        /\ NUM_COLS * y + x = NUM_COLS * b + a => y = b /\ x = a
    BY <2>1, Grid
  <2> DEFINE g == IF y = b /\ x = a THEN t ELSE Glyph(rows, b, a)
  <2>3. new[NUM_COLS * b + a] \in {g, Message}
    <3>1. page[NUM_COLS * b + a] \in {Glyph(rows, b, a), Message}
      BY DEF Shown
    <3> QED BY <2>2, <3>1 DEF Pages
  <2> SUFFICES g = Glyph(long, b, a)
    BY <2>3
  <2>4. g = IF y = b /\ x = a THEN t ELSE Glyph(rows, b, a)
    OBVIOUS
  <2> HIDE DEF g, new
  <2>5. CASE b < y
    <3>1. long[b + 1] = rows[b + 1] /\ b < Len(rows) /\ b < Len(long)
      BY <1>1, <1>2, <2>1, <2>5
    <3> QED BY <1>1, <2>1, <2>4, <2>5, <3>1 DEF Glyph
  <2>6. CASE b = y
    <3>1. long[b + 1] = row /\ b < Len(long) /\ b < Len(rows) /\ Len(rows[b + 1]) = x
      BY <1>1, <1>2, <1>4, <2>6 DEF x
    <3>2. CASE a = x
      BY <1>1, <1>2, <2>4, <2>6, <3>1, <3>2 DEF Glyph
    <3>3. CASE a < x
      <4>1. row[a + 1] = rows[b + 1][a + 1]
        <5>1. a + 1 \in 1 .. x
          BY <1>1, <2>1, <3>3
        <5> QED BY <1>2, <2>6, <5>1
      <4> QED BY <1>1, <1>2, <2>1, <2>4, <3>1, <3>3, <4>1 DEF Glyph
    <3>4. CASE a > x
      BY <1>1, <1>2, <2>1, <2>4, <3>1, <3>4 DEF Glyph
    <3> QED BY <1>1, <2>1, <3>2, <3>3, <3>4
  <2>7. CASE b > y
    <3>1. Glyph(rows, b, a) = Blank
      BY <1>1, <2>1, <2>7 DEF Glyph
    <3>2. Glyph(long, b, a) = Blank
      <4>1. b < Len(long) => long[b + 1] = <<>>
        BY <1>1, <1>2, <2>1, <2>7
      <4> QED BY <1>3, <2>1, <4>1 DEF Glyph
    <3> QED BY <1>1, <2>1, <2>4, <2>7, <3>1, <3>2
  <2> QED BY <1>1, <2>1, <2>5, <2>6, <2>7
<1> QED BY <1>2, <1>4, <1>5, <1>6, <1>7 DEF x, y, long

\* A new row.
LEMMA NewlineShows ==
  ASSUME NEW rows, IsText(rows), NEW page \in Pages, Shown(page, rows)
  PROVE  LET long == Append(rows, <<>>) IN
         /\ IsLong(long) /\ Flows(long, 0) /\ Shown(page, long)
         /\ Len(long) = Len(rows) + 1 /\ Last(long) = <<>>
<1> DEFINE long == Append(rows, <<>>)
           n == Len(rows)
           S == Seq(Terminals)
<1>1. <<>> \in S /\ rows \in Seq(S) /\ AnyRows = Seq(S) /\ Len(<<>>) = 0
  BY DEF IsText, AnyRows
<1> HIDE DEF S
<1>2. /\ long \in AnyRows /\ Len(long) = n + 1 /\ long[n + 1] = <<>>
      /\ \A i \in 1 .. n : long[i] = rows[i]
  BY <1>1, AppendProperties
<1>3. /\ n \in Nat /\ n > 0 /\ n <= NUM_ROWS
      /\ \A i \in 1 .. n : Len(rows[i]) <= NUM_COLS /\ Len(rows[i]) \in Nat
  BY <1>1, TextRows, Sizes DEF IsText
<1> HIDE DEF long, n
<1>4. Last(long) = <<>>
  BY <1>2 DEF Last
<1>5. IsLong(long)
  <2>1. ASSUME NEW i \in 1 .. n + 1 PROVE Len(long[i]) <= NUM_COLS
    BY <1>1, <1>2, <1>3, Sizes
  <2> QED BY <1>1, <1>2, <1>3, <1>4, <2>1, Sizes DEF IsLong
<1>6. Flows(long, 0)
  <2>1. ASSUME NEW i \in 1 .. n PROVE NUM_COLS * (n - i) \in Nat /\ Len(long) - 1 - i = n - i
    BY <1>2, <1>3, Sizes
  <2>2. Len(long) - 1 = n /\ Len(Last(long)) = 0
    BY <1>1, <1>2, <1>3, <1>4
  <2>3. \A i \in 1 .. n : ~(0 > 0 + NUM_COLS * (n - i))
    BY <2>1
  <2> QED BY <2>1, <2>2, <2>3 DEF Flows
<1>7. Shown(page, long)
  <2> SUFFICES ASSUME NEW b \in Rows, NEW a \in Columns
               PROVE  page[NUM_COLS * b + a] \in {Glyph(long, b, a), Message}
    BY DEF Shown
  <2>1. b \in Nat /\ a \in Nat
    BY Sizes DEF Rows, Columns
  <2>2. page[NUM_COLS * b + a] \in {Glyph(rows, b, a), Message}
    BY DEF Shown
  <2>3. Glyph(long, b, a) = Glyph(rows, b, a)
    <3>1. CASE b < n
      BY <1>2, <1>3, <2>1, <3>1, SMTT(30) DEF Glyph, n
    <3>2. CASE b >= n
      <4>1. b < Len(long) => long[b + 1] = <<>>
        BY <1>2, <1>3, <2>1, <3>2
      <4>2. ~(b < Len(rows))
        BY <1>3, <2>1, <3>2 DEF n
      <4> QED BY <1>1, <2>1, <4>1, <4>2 DEF Glyph
    <3> QED BY <1>3, <2>1, <3>1, <3>2
  <2> QED BY <2>2, <2>3
<1> QED BY <1>2, <1>4, <1>5, <1>6, <1>7 DEF long, n

\* A character is taken off the end of a text.
LEMMA ErasedShows ==
  ASSUME NEW rows, IsText(rows), NEW m \in Nat, m > 0, Flows(rows, m),
         Last(rows) # <<>> \/ Len(rows) > 1,
         NEW page \in Pages, Shown(page, rows)
  PROVE  LET kept == EraseChar(rows)
             x == Len(Last(kept))
             y == Len(kept) - 1
         IN  /\ IsText(kept) /\ Flows(kept, m - 1)
             /\ Shown([page EXCEPT ![NUM_COLS * y + x] = Blank], kept)
             /\ IF Last(rows) = <<>> THEN y = Len(rows) - 2 /\ x = NUM_COLS - 1
                ELSE y = Len(rows) - 1 /\ x = Len(Last(rows)) - 1
<1> DEFINE n == Len(rows)
           k == IF Last(rows) = <<>> THEN n - 1 ELSE n
           row == Front(rows[k])
           S == Seq(Terminals)
           left == IF Last(rows) = <<>> THEN Front(rows) ELSE rows
           kept == EraseChar(rows)
<1>1. /\ rows \in Seq(S) /\ n \in Nat /\ n > 0 /\ n <= NUM_ROWS /\ Last(rows) = rows[n]
      /\ \A i \in 1 .. n : rows[i] \in S /\ Len(rows[i]) <= NUM_COLS /\ Len(rows[i]) \in Nat
      /\ Len(rows[n]) < NUM_COLS
      /\ \A r \in S : r # <<>> => Len(r) > 0
  BY TextRows, Sizes, EmptySeq DEF IsText, AnyRows
<1>2. k \in 1 .. n /\ (k = n \/ k = n - 1) /\ (k = n - 1 => Last(rows) = <<>>) /\ (k = n => Last(rows) # <<>>)
  BY <1>1
<1>3. Len(rows[k]) > 0 /\ (k = n - 1 => Len(rows[k]) = NUM_COLS)
  <2>1. CASE k = n
    BY <1>1, <1>2, <2>1
  <2>2. CASE k = n - 1
    <3>1. Len(Last(rows)) + NUM_COLS * (Len(rows) - 1 - k) = 0 /\ k \in 1 .. Len(rows) - 1
      <4>1. Len(rows) - 1 - k = 0 /\ NUM_COLS * 0 = 0 /\ Len(<<>>) = 0
        BY <1>1, <2>2, Sizes
      <4>2. NUM_COLS * (Len(rows) - 1 - k) = 0
        BY <4>1
      <4>3. Len(Last(rows)) = 0 /\ k \in 1 .. Len(rows) - 1
        BY <1>1, <1>2, <2>2, <4>1
      <4> QED BY <4>2, <4>3
    <3>2. Len(rows[k]) = NUM_COLS
      BY <3>1 DEF Flows
    <3> QED BY <3>2, Sizes
  <2> QED BY <1>2, <2>1, <2>2
<1>4. /\ row \in S /\ Len(row) = Len(rows[k]) - 1
      /\ \A i \in 1 .. Len(row) : row[i] = rows[k][i]
  BY <1>1, <1>2, <1>3, FrontOf
<1> HIDE DEF S, row
<1>5. left \in Seq(S) /\ Len(left) = k /\ \A i \in 1 .. k : left[i] = rows[i]
  BY <1>1, <1>2, FrontOf
<1> HIDE DEF left
<1>6. kept = Append(Front(left), row)
  <2>1. Last(left) = rows[k]
    BY <1>2, <1>5 DEF Last
  <2> QED BY <2>1 DEF EraseChar, left, row
<1> HIDE DEF k, kept
<1>7. Front(left) \in Seq(S) /\ Len(Front(left)) = k - 1 /\ \A i \in 1 .. k - 1 : Front(left)[i] = rows[i]
  <2>1. Len(left) > 0
    BY <1>1, <1>2, <1>5
  <2>2. /\ Front(left) \in Seq(S) /\ Len(Front(left)) = Len(left) - 1
        /\ \A i \in 1 .. Len(left) - 1 : Front(left)[i] = left[i]
    BY <1>5, <2>1, FrontOf
  <2> QED BY <1>1, <1>2, <1>5, <2>2
<1>8. /\ kept \in Seq(S) /\ Len(kept) = k - 1 + 1 /\ kept[k - 1 + 1] = row
      /\ \A i \in 1 .. k - 1 : kept[i] = rows[i]
  <2> DEFINE front == Front(left)
  <2> HIDE DEF front
  <2>1. front \in Seq(S) /\ Len(front) = k - 1 /\ \A i \in 1 .. k - 1 : front[i] = rows[i]
    BY <1>7 DEF front
  <2>2. /\ Append(front, row) \in Seq(S) /\ Len(Append(front, row)) = Len(front) + 1
        /\ \A i \in 1 .. Len(front) : Append(front, row)[i] = front[i]
        /\ Append(front, row)[Len(front) + 1] = row
    BY <1>4, <2>1, AppendProperties
  <2> QED BY <1>6, <2>1, <2>2 DEF front
<1>9. Len(kept) = k /\ kept[k] = row /\ Last(kept) = row /\ k \in Nat /\ k > 0
  <2>1. k - 1 + 1 = k /\ k \in Nat /\ k > 0
    BY <1>1, <1>2
  <2> QED BY <1>8, <2>1 DEF Last
<1>10. IsText(kept)
  <2>1. ASSUME NEW i \in 1 .. k PROVE Len(kept[i]) <= NUM_COLS
    <3>1. CASE i = k
      <4>1. kept[i] = row /\ Len(row) = Len(rows[k]) - 1
        BY <1>4, <1>9, <3>1
      <4>2. Len(rows[k]) <= NUM_COLS /\ Len(rows[k]) \in Nat
        BY <1>1, <1>2
      <4> QED BY <4>1, <4>2, Sizes
    <3>2. CASE i # k
      <4>1. i \in 1 .. k - 1 /\ i \in 1 .. n
        BY <1>1, <1>2, <1>9, <3>2
      <4> QED BY <1>1, <1>8, <4>1
    <3> QED BY <3>1, <3>2
  <2>2. Len(Last(kept)) < NUM_COLS
    BY <1>1, <1>2, <1>4, <1>9, Sizes
  <2> QED BY <1>1, <1>2, <1>8, <1>9, <2>1, <2>2, Sizes DEF IsText, S
<1>11. Flows(kept, m - 1)
  <2> SUFFICES ASSUME NEW i \in 1 .. k - 1, m - 1 > Len(row) + NUM_COLS * (k - 1 - i)
               PROVE  Len(rows[i]) = NUM_COLS
    BY <1>8, <1>9 DEF Flows
  <2>1. i \in 1 .. Len(rows) - 1 /\ k - 1 - i \in Nat /\ NUM_COLS * (k - 1 - i) \in Nat
    BY <1>1, <1>2, Sizes
  <2>2. m > Len(Last(rows)) + NUM_COLS * (n - 1 - i)
    <3>1. CASE k = n
      BY <1>1, <1>4, <2>1, <3>1
    <3>2. CASE k = n - 1
      <4>1. n - 1 - i = (k - 1 - i) + 1
        BY <1>1, <3>2
      <4>2. Len(Last(rows)) = 0
        <5>1. Len(<<>>) = 0
          OBVIOUS
        <5> QED BY <1>1, <1>2, <3>2, <5>1
      <4>3. Len(row) = NUM_COLS - 1
        BY <1>3, <1>4, <3>2
      <4>4. NUM_COLS * ((k - 1 - i) + 1) = NUM_COLS * (k - 1 - i) + NUM_COLS
        BY <2>1, Sizes
      <4> DEFINE P == NUM_COLS * (k - 1 - i)
                 Q == NUM_COLS * (n - 1 - i)
      <4>5. P \in Nat /\ Q = P + NUM_COLS /\ m - 1 > Len(row) + P
        BY <2>1, <4>1, <4>4
      <4> HIDE DEF P, Q
      <4>6. m > Len(Last(rows)) + Q
        BY <4>2, <4>3, <4>5, Sizes
      <4> QED BY <4>6 DEF Q
    <3> QED BY <1>2, <3>1, <3>2
  <2> QED BY <2>1, <2>2 DEF Flows
<1>12. ASSUME NEW b \in Rows, NEW a \in Columns
       PROVE  [page EXCEPT ![NUM_COLS * (k - 1) + Len(row)] = Blank][NUM_COLS * b + a]
                \in {Glyph(kept, b, a), Message}
  <2> DEFINE y == k - 1
             x == Len(row)
  <2>1. b \in Nat /\ a \in Nat /\ a < NUM_COLS /\ x \in Nat /\ y \in Nat /\ y \in Rows /\ x \in Columns
    BY <1>1, <1>2, <1>3, <1>4, <1>9, Sizes DEF Rows, Columns
  <2> HIDE DEF x
  <2>2. /\ NUM_COLS * y + x \in Cells /\ NUM_COLS * b + a \in Cells
        /\ NUM_COLS * y + x = NUM_COLS * b + a => y = b /\ x = a
    BY <2>1, Grid
  <2> DEFINE g == IF y = b /\ x = a THEN Blank ELSE Glyph(rows, b, a)
  <2>3. [page EXCEPT ![NUM_COLS * y + x] = Blank][NUM_COLS * b + a] \in {g, Message}
    <3>1. page[NUM_COLS * b + a] \in {Glyph(rows, b, a), Message}
      BY DEF Shown
    <3> QED BY <2>2, <3>1 DEF Pages
  <2> SUFFICES g = Glyph(kept, b, a)
    BY <2>3 DEF x
  <2>4. g = IF y = b /\ x = a THEN Blank ELSE Glyph(rows, b, a)
    OBVIOUS
  <2> HIDE DEF g
  <2>5. CASE b < y
    <3>1. kept[b + 1] = rows[b + 1] /\ b < Len(rows) /\ b < Len(kept)
      BY <1>1, <1>2, <1>8, <1>9, <2>1, <2>5
    <3> QED BY <2>1, <2>4, <2>5, <3>1 DEF Glyph, x
  <2>6. CASE b = y
    <3>1. kept[b + 1] = row /\ b + 1 = k /\ b < Len(kept) /\ b < Len(rows) /\ Len(rows[b + 1]) = x + 1
      BY <1>1, <1>2, <1>4, <1>9, <2>1, <2>6 DEF x
    <3>2. CASE a = x
      BY <2>1, <2>4, <2>6, <3>1, <3>2 DEF Glyph, x
    <3>3. CASE a < x
      <4>1. row[a + 1] = rows[b + 1][a + 1]
        <5>1. a + 1 \in 1 .. Len(row)
          BY <2>1, <3>3 DEF x
        <5>2. row[a + 1] = rows[k][a + 1]
          BY <1>4, <5>1
        <5> QED BY <3>1, <5>2
      <4> QED BY <2>1, <2>4, <3>1, <3>3, <4>1 DEF Glyph, x
    <3>4. CASE a > x
      BY <2>1, <2>4, <3>1, <3>4 DEF Glyph, x
    <3> QED BY <2>1, <3>2, <3>3, <3>4
  <2>7. CASE b > y
    <3>1. Glyph(kept, b, a) = Blank
      BY <1>9, <2>1, <2>7 DEF Glyph
    <3>2. Glyph(rows, b, a) = Blank
      <4>1. b < Len(rows) => rows[b + 1] = <<>> /\ Len(<<>>) = 0
        BY <1>1, <1>2, <2>1, <2>7
      <4> QED BY <2>1, <4>1 DEF Glyph
    <3> QED BY <2>1, <2>4, <2>7, <3>1, <3>2 DEF x
  <2> QED BY <2>1, <2>5, <2>6, <2>7 DEF x
<1>13. IF Last(rows) = <<>> THEN k - 1 = Len(rows) - 2 /\ Len(row) = NUM_COLS - 1
       ELSE k - 1 = Len(rows) - 1 /\ Len(row) = Len(Last(rows)) - 1
  BY <1>1, <1>2, <1>3, <1>4
<1> QED BY <1>9, <1>10, <1>11, <1>12, <1>13 DEF Shown, kept

\* An empty page shows an empty text.
LEMMA EmptyShown ==
  ASSUME NEW rows, rows = <<<<>>>>
  PROVE  /\ EmptyPage \in Pages /\ IsText(rows) /\ Flows(rows, 0) /\ Shown(EmptyPage, rows)
         /\ Len(rows) - 1 = 0 /\ Len(Last(rows)) = 0
<1>1. /\ Len(rows) = 1 /\ rows[1] = <<>> /\ Last(rows) = <<>> /\ Len(<<>>) = 0
      /\ rows \in Seq(Seq(Terminals))
  BY DEF Last
<1>2. EmptyPage \in Pages
  BY DEF EmptyPage, Pages, Glyphs
<1>3. IsText(rows)
  BY <1>1, Sizes DEF IsText
<1>4. Flows(rows, 0)
  BY <1>1 DEF Flows
<1>5. ASSUME NEW y \in Rows, NEW x \in Columns PROVE Glyph(rows, y, x) = Blank
  <2>1. x \in Nat /\ y \in Nat
    BY Sizes DEF Rows, Columns
  <2>2. y < 1 => y = 0
    BY <2>1
  <2> QED BY <1>1, <2>1, <2>2 DEF Glyph
<1>6. Shown(EmptyPage, rows)
  BY <1>5, Grid DEF Shown, EmptyPage
<1> QED BY <1>1, <1>2, <1>3, <1>4, <1>6

-----------------------------------------------------------------------------
(* Steps. *)

ViewOf(t) == IF t = cur_terminal THEN Screen ELSE t

LEMMA ViewsDiffer ==
  ASSUME NEW t \in Terminals, NEW u \in Terminals, t # u
  PROVE  ViewOf(t) \in Views /\ ViewOf(u) \in Views /\ ViewOf(t) # ViewOf(u)
BY ScreenAssumption DEF ViewOf, Views, Screen

\* Drawing on a terminal's page leaves the others alone.
LEMMA DrawStep ==
  ASSUME Typing, NEW t \in Terminals, NEW page \in Pages, NEW x \in Columns, NEW y \in Rows,
         term' = Drawn(term, t, ViewOf(t), page, x, y), cur_terminal' = cur_terminal
  PROVE  /\ term' \in Terms
         /\ View(t)' = page /\ term'.x[t] = x /\ term'.y[t] = y
         /\ \A u \in Terminals \ {t} :
              View(u)' = View(u) /\ term'.x[u] = term.x[u] /\ term'.y[u] = term.y[u]
<1>1. ViewOf(t) \in Views /\ term \in Terms
  BY DEF ViewOf, Views, Typing
<1>2. \A u \in Terminals : View(u) = term.page[ViewOf(u)] /\ View(u)' = term'.page[ViewOf(u)]
  BY DEF View, ViewOf
<1>3. /\ term'.page = [term.page EXCEPT ![ViewOf(t)] = page]
      /\ term'.x = [term.x EXCEPT ![t] = x] /\ term'.y = [term.y EXCEPT ![t] = y]
  BY DEF Drawn
<1>4. term' \in Terms
  BY <1>1, DrawnTerms
<1>5. ASSUME NEW u \in Terminals \ {t}
      PROVE  View(u)' = View(u) /\ term'.x[u] = term.x[u] /\ term'.y[u] = term.y[u]
  BY <1>1, <1>2, <1>3, ViewsDiffer DEF Terms
<1> QED BY <1>1, <1>2, <1>3, <1>4, <1>5 DEF Terms

\* So what the others show stays.
LEMMA OthersShow ==
  ASSUME NEW u \in Terminals, Showing(u), View(u)' = View(u),
         term'.x[u] = term.x[u], term'.y[u] = term.y[u], text'[u] = text[u], mine'[u] = mine[u]
  PROVE  Showing(u)'
<1> DEFINE rows == text'[u]
<1>1. rows = text[u]
  OBVIOUS
<1> HIDE DEF rows
<1>2. /\ IsText(rows) /\ Flows(rows, mine'[u]) /\ Shown(View(u)', rows)
      /\ term'.y[u] = Len(rows) - 1 /\ term'.x[u] = Len(Last(rows))
  BY <1>1 DEF Showing
<1> QED BY <1>2 DEF Showing, IsText, Flows, Shown, Glyph, rows

\* A character at the end of a terminal's text, typed or written.
LEMMA CharStep ==
  ASSUME IInv, NEW t \in Terminals, cur_terminal' = cur_terminal,
         term' = PutChar(term, t, ViewOf(t)),
         text' = [text EXCEPT ![t] = AddChar(@, t)],
         mine' \in [Terminals -> Nat], mine'[t] <= mine[t] + 1,
         \A u \in Terminals \ {t} : mine'[u] = mine[u],
         erased' = erased, moved' = moved
  PROVE  term' \in Terms /\ \A u \in Terminals : ~Disturbed(u)' => Showing(u)'
<1> DEFINE v == ViewOf(t)
           x == term.x[t]
           y == term.y[t]
           page == [term.page[v] EXCEPT ![NUM_COLS * y + x] = t]
           a == IF x + 1 < NUM_COLS THEN x + 1 ELSE 0
           b == IF x + 1 < NUM_COLS THEN y ELSE IF y + 1 < NUM_ROWS THEN y + 1 ELSE NUM_ROWS - 1
           new == IF x + 1 < NUM_COLS \/ y + 1 < NUM_ROWS THEN page ELSE Up(page)
<1>1. Typing /\ term \in Terms /\ v \in Views /\ x \in Columns /\ y \in Rows /\ term.page[v] \in Pages
  BY DEF IInv, Typing, ViewOf, Views, Terms
<1>2. page \in Pages /\ Up(page) \in Pages
  BY <1>1, PutCharDraws, UpPage
<1>3. term' = Drawn(term, t, v, new, a, b)
  BY <1>1, PutCharDraws
<1> HIDE DEF page
<1>4. new \in Pages /\ a \in Columns /\ b \in Rows
  BY <1>1, <1>2, Sizes DEF Columns, Rows
<1> HIDE DEF a, b, new
<1>5. /\ term' \in Terms
      /\ View(t)' = new /\ term'.x[t] = a /\ term'.y[t] = b
      /\ \A u \in Terminals \ {t} :
           View(u)' = View(u) /\ term'.x[u] = term.x[u] /\ term'.y[u] = term.y[u]
  BY <1>1, <1>3, <1>4, DrawStep
<1>6. ASSUME NEW u \in Terminals, u # t, ~Disturbed(u)' PROVE Showing(u)'
  BY <1>1, <1>5, <1>6, OthersShow DEF IInv, Typing, Disturbed
<1>7. ASSUME ~Disturbed(t) PROVE Showing(t)'
  <2> DEFINE rows == text[t]
             m == mine[t]
             long == Typed(rows, t)
             next == LastRows(long)
  <2>1. /\ IsText(rows) /\ Flows(rows, m) /\ Shown(term.page[v], rows) /\ m \in Nat
        /\ y = Len(rows) - 1 /\ x = Len(Last(rows))
    BY <1>1, <1>7 DEF IInv, Typing, Showing, View, ViewOf
  <2>2. text'[t] = next
    BY <1>1 DEF Typing, AddChar, Typed
  <2> HIDE DEF rows, m
  <2>3. /\ IsLong(long) /\ Flows(long, m + 1) /\ Shown(page, long)
        /\ IF x + 1 < NUM_COLS THEN Len(long) = y + 1 /\ Len(Last(long)) = x + 1
           ELSE Len(long) = y + 2 /\ Last(long) = <<>>
    BY <1>1, <2>1, TypedShows DEF page
  <2> HIDE DEF long, x, y
  <2>4. /\ IsText(next) /\ Flows(next, m + 1)
        /\ Len(long) <= NUM_ROWS => next = long
        /\ Len(long) = NUM_ROWS + 1 =>
             Len(next) = NUM_ROWS /\ Last(next) = <<>> /\ Shown(Up(page), next)
    BY <1>2, <2>1, <2>3, ScrollShows
  <2> HIDE DEF next
  <2>5. Shown(new, next) /\ b = Len(next) - 1 /\ a = Len(Last(next))
    <3>1. x \in Nat /\ y \in Nat /\ x < NUM_COLS /\ y < NUM_ROWS /\ Len(<<>>) = 0
      BY <1>1, Sizes DEF Columns, Rows
    <3>2. CASE x + 1 < NUM_COLS
      BY <2>3, <2>4, <3>1, <3>2, Sizes DEF new, a, b
    <3>3. CASE ~(x + 1 < NUM_COLS) /\ y + 1 < NUM_ROWS
      BY <2>3, <2>4, <3>1, <3>3, Sizes DEF new, a, b
    <3>4. CASE ~(x + 1 < NUM_COLS) /\ ~(y + 1 < NUM_ROWS)
      BY <2>3, <2>4, <3>1, <3>4, Sizes DEF new, a, b
    <3> QED BY <3>2, <3>3, <3>4
  <2>6. Flows(next, mine'[t])
    <3> SUFFICES ASSUME NEW i \in 1 .. Len(next) - 1,
                        mine'[t] > Len(Last(next)) + NUM_COLS * (Len(next) - 1 - i)
                 PROVE  Len(next[i]) = NUM_COLS
      BY DEF Flows
    <3>1. Len(Last(next)) + NUM_COLS * (Len(next) - 1 - i) \in Int
      BY <2>4, TextRows, Sizes DEF IsText, AnyRows
    <3>2. m + 1 > Len(Last(next)) + NUM_COLS * (Len(next) - 1 - i)
      <4> DEFINE k == Len(Last(next)) + NUM_COLS * (Len(next) - 1 - i)
      <4>1. k \in Int /\ mine'[t] > k /\ mine'[t] \in Nat /\ mine'[t] <= m + 1
        BY <3>1 DEF m
      <4> HIDE DEF k
      <4>2. m + 1 > k
        BY <2>1, <4>1
      <4> QED BY <4>2 DEF k
    <3> QED BY <2>4, <3>2 DEF Flows
  <2> QED BY <1>5, <2>2, <2>4, <2>5, <2>6 DEF Showing, IsText, Flows, Shown, Glyph
<1> QED BY <1>5, <1>6, <1>7 DEF Disturbed

\* A newline at its end.
LEMMA NewlineStep ==
  ASSUME IInv, NEW t \in Terminals, cur_terminal' = cur_terminal,
         term' = PutNewline(term, t, ViewOf(t)),
         text' = [text EXCEPT ![t] = AddNewline(@)],
         mine' = [mine EXCEPT ![t] = 0], erased' = erased, moved' = moved
  PROVE  term' \in Terms /\ \A u \in Terminals : ~Disturbed(u)' => Showing(u)'
<1> DEFINE v == ViewOf(t)
           y == term.y[t]
           page == term.page[v]
           b == IF y + 1 < NUM_ROWS THEN y + 1 ELSE NUM_ROWS - 1
           new == IF y + 1 < NUM_ROWS THEN page ELSE Up(page)
<1>1. Typing /\ term \in Terms /\ v \in Views /\ y \in Rows /\ page \in Pages /\ mine'[t] = 0
      /\ 0 \in Columns
  BY Sizes DEF IInv, Typing, ViewOf, Views, Terms, Columns
<1>2. term' = Drawn(term, t, v, new, 0, b)
  BY <1>1, NewlineDraws
<1>3. new \in Pages /\ b \in Rows
  BY <1>1, UpPage, Sizes DEF Rows
<1> HIDE DEF page, b, new
<1>4. /\ term' \in Terms
      /\ View(t)' = new /\ term'.x[t] = 0 /\ term'.y[t] = b
      /\ \A u \in Terminals \ {t} :
           View(u)' = View(u) /\ term'.x[u] = term.x[u] /\ term'.y[u] = term.y[u]
  BY <1>1, <1>2, <1>3, DrawStep
<1>5. ASSUME NEW u \in Terminals, u # t, ~Disturbed(u)' PROVE Showing(u)'
  BY <1>1, <1>4, <1>5, OthersShow DEF IInv, Typing, Disturbed
<1>6. ASSUME ~Disturbed(t) PROVE Showing(t)'
  <2> DEFINE rows == text[t]
             long == Append(rows, <<>>)
             next == LastRows(long)
  <2>1. IsText(rows) /\ Shown(page, rows) /\ y = Len(rows) - 1
    BY <1>1, <1>6 DEF IInv, Typing, Showing, View, ViewOf, page
  <2>2. text'[t] = next
    BY <1>1 DEF Typing, AddNewline
  <2> HIDE DEF rows
  <2>3. /\ IsLong(long) /\ Flows(long, 0) /\ Shown(page, long)
        /\ Len(long) = Len(rows) + 1 /\ Last(long) = <<>>
    BY <1>1, <2>1, NewlineShows
  <2> HIDE DEF long, y
  <2>4. /\ IsText(next) /\ Flows(next, 0)
        /\ Len(long) <= NUM_ROWS => next = long
        /\ Len(long) = NUM_ROWS + 1 =>
             Len(next) = NUM_ROWS /\ Last(next) = <<>> /\ Shown(Up(page), next)
    BY <1>1, <2>3, ScrollShows
  <2> HIDE DEF next
  <2>5. Shown(new, next) /\ b = Len(next) - 1 /\ 0 = Len(Last(next))
    <3>1. y \in Nat /\ y < NUM_ROWS /\ Len(<<>>) = 0 /\ Len(long) = y + 2
      BY <1>1, <2>1, <2>3, Sizes DEF Rows, IsText
    <3>2. CASE y + 1 < NUM_ROWS
      BY <2>3, <2>4, <3>1, <3>2, Sizes DEF new, b
    <3>3. CASE ~(y + 1 < NUM_ROWS)
      BY <2>3, <2>4, <3>1, <3>3, Sizes DEF new, b
    <3> QED BY <3>2, <3>3
  <2> QED BY <1>1, <1>4, <2>2, <2>4, <2>5 DEF Showing, IsText, Flows, Shown, Glyph
<1> QED BY <1>4, <1>5, <1>6 DEF Disturbed

\* The types of term are those of TypeOK.
LEMMA TermsTyping ==
  ASSUME NEW s \in Terms
  PROVE  /\ s.page \in [Terminals \cup {Screen} -> [Cells -> Terminals \cup {Blank, Message}]]
         /\ \A t \in Terminals : s.x[t] \in 0 .. NUM_COLS - 1 /\ s.y[t] \in 0 .. NUM_ROWS - 1
BY DEF Terms, Views, Pages, Glyphs, Columns, Rows

\* Nothing that a terminal shows changes.
LEMMA SameShow ==
  ASSUME IInv, \A u \in Terminals : View(u)' = View(u),
         term'.x = term.x, term'.y = term.y, text' = text, mine' = mine,
         \A u \in Terminals : ~Disturbed(u)' => ~Disturbed(u)
  PROVE  \A u \in Terminals : ~Disturbed(u)' => Showing(u)'
BY OthersShow DEF IInv

\* A step that changes a cursor or the screen leaves no read fresh.
LEMMA OvertakenFresh == ASSUME Overtakes(TRUE) PROVE \A u \in Terminals : Fresh(u)'
BY DEF Overtakes, Fresh

\* Reads whose place, and the cursor displayed, do not change stay fresh.
LEMMA StillFresh ==
  ASSUME IInv, NEW u \in Terminals, reader'[u] = reader[u],
         u \in overtaken => u \in overtaken', cur_terminal' = cur_terminal,
         term'.x[cur_terminal] = term.x[cur_terminal], term'.y[cur_terminal] = term.y[cur_terminal]
  PROVE  Fresh(u)'
BY DEF IInv, Fresh

-----------------------------------------------------------------------------
(* The invariant holds at first, and the actions keep it. *)

LEMMA InitIInv == Init => IInv
<1> SUFFICES ASSUME Init PROVE IInv
  OBVIOUS
<1>1. EmptyPage \in Pages /\ 0 \in Columns /\ 0 \in Rows
  BY Sizes DEF EmptyPage, Pages, Glyphs, Columns, Rows
<1>2. /\ term.page = [w \in Views |-> EmptyPage]
      /\ term.x = [t \in Terminals |-> 0] /\ term.y = [t \in Terminals |-> 0]
      /\ term = [page |-> term.page, x |-> term.x, y |-> term.y]
  BY DEF Init, Views
<1>3. term \in Terms
  BY <1>1, <1>2 DEF Terms
<1>4. Typing
  BY <1>1, <1>2, <1>3, ScreenAssumption
  DEF Init, Typing, TypeOK, Views, Pages, Glyphs, Columns, Rows, Terms, ReadPlaces, Idle
<1>5. ASSUME NEW t \in Terminals PROVE Showing(t)
  <2> DEFINE rows == text[t]
  <2>1. rows = <<<<>>>> /\ mine[t] = 0 /\ View(t) = EmptyPage /\ term.x[t] = 0 /\ term.y[t] = 0
    BY <1>2 DEF Init, View, Views
  <2>2. IsText(rows) /\ Flows(rows, 0) /\ Shown(EmptyPage, rows)
        /\ Len(rows) - 1 = 0 /\ Len(Last(rows)) = 0
    BY <2>1, EmptyShown
  <2> QED BY <2>1, <2>2 DEF Showing
<1>6. \A t \in Terminals : Fresh(t)
  BY DEF Init, Fresh, Idle
<1> QED BY <1>4, <1>5, <1>6 DEF IInv

LEMMA WriteCharIInv == ASSUME IInv, NEW t \in Terminals, WriteChar(t) PROVE IInv'
<1> DEFINE drawn == PutChar(term, t, video_mem)
<1>1. Typing /\ video_mem = ViewOf(t) /\ ViewOf(t) \in Views
  BY DEF IInv, Typing, TypeOK, WriteChar, ViewOf, Views
<1>2. drawn \in Terms
  BY <1>1, PutCharTerms DEF Typing
<1>3. term' = PutChar(term, t, ViewOf(t))
  BY <1>1, <1>2, CursorStays DEF WriteChar
<1>4. /\ mine' \in [Terminals -> Nat] /\ mine'[t] <= mine[t] + 1
      /\ \A u \in Terminals \ {t} : mine'[u] = mine[u]
  BY <1>1 DEF WriteChar, Typing
<1>5. term' \in Terms /\ \A u \in Terminals : ~Disturbed(u)' => Showing(u)'
  BY <1>3, <1>4, CharStep DEF WriteChar
<1>6. Typing'
  BY <1>1, <1>4, <1>5, TermsTyping DEF Typing, TypeOK, WriteChar, Overtakes
<1> QED BY <1>5, <1>6, OvertakenFresh DEF IInv, WriteChar

LEMMA WriteNewlineIInv == ASSUME IInv, NEW t \in Terminals, WriteNewline(t) PROVE IInv'
<1> DEFINE drawn == PutNewline(term, t, video_mem)
<1>1. Typing /\ video_mem = ViewOf(t) /\ ViewOf(t) \in Views
  BY DEF IInv, Typing, TypeOK, WriteNewline, ViewOf, Views
<1>2. drawn \in Terms
  BY <1>1, NewlineTerms DEF Typing
<1>3. term' = PutNewline(term, t, ViewOf(t))
  BY <1>1, <1>2, CursorStays DEF WriteNewline
<1>4. term' \in Terms /\ \A u \in Terminals : ~Disturbed(u)' => Showing(u)'
  BY <1>3, NewlineStep DEF WriteNewline
<1>5. Typing'
  BY <1>1, <1>4, TermsTyping DEF Typing, TypeOK, WriteNewline, Overtakes
<1> QED BY <1>4, <1>5, OvertakenFresh DEF IInv, WriteNewline

LEMMA EchoIInv == ASSUME IInv, NEW t \in Terminals, Echo(t) PROVE IInv'
<1>1. Typing /\ Screen = ViewOf(t)
  BY DEF IInv, Echo, ViewOf
<1>2. /\ mine' \in [Terminals -> Nat] /\ mine'[t] <= mine[t] + 1
      /\ \A u \in Terminals \ {t} : mine'[u] = mine[u]
  BY <1>1 DEF Echo, Typing
<1>3. term' \in Terms /\ \A u \in Terminals : ~Disturbed(u)' => Showing(u)'
  BY <1>1, <1>2, CharStep DEF Echo
<1>4. Typing'
  BY <1>1, <1>2, <1>3, TermsTyping DEF Typing, TypeOK, Echo, Overtakes
<1> QED BY <1>3, <1>4, OvertakenFresh DEF IInv, Echo

LEMMA EchoEnterIInv == ASSUME IInv, NEW t \in Terminals, EchoEnter(t) PROVE IInv'
<1>1. Typing /\ Screen = ViewOf(t)
  BY DEF IInv, EchoEnter, ViewOf
<1>2. term.y[t] \in Nat
  BY <1>1, Sizes DEF Typing, Terms, Rows
<1>3. term' = PutNewline(term, t, ViewOf(t))
  BY <1>1, <1>2, Sizes DEF EchoEnter, PutNewline
<1>4. term' \in Terms /\ \A u \in Terminals : ~Disturbed(u)' => Showing(u)'
  BY <1>3, NewlineStep DEF EchoEnter
<1>5. Typing'
  BY <1>1, <1>4, TermsTyping DEF Typing, TypeOK, EchoEnter, Overtakes
<1> QED BY <1>4, <1>5, OvertakenFresh DEF IInv, EchoEnter

LEMMA CtrlLIInv == ASSUME IInv, NEW t \in Terminals, CtrlL(t) PROVE IInv'
<1>1. Typing /\ Screen = ViewOf(t) /\ term \in Terms /\ Screen \in Views /\ 0 \in Columns /\ 0 \in Rows
  BY Sizes DEF IInv, CtrlL, ViewOf, Typing, Views, Columns, Rows
<1>2. EmptyPage \in Pages
  BY EmptyShown
<1> DEFINE clear == [term EXCEPT !.page[Screen] = EmptyPage]
<1>3. clear = Drawn(term, t, Screen, EmptyPage, term.x[t], term.y[t])
  BY <1>1 DEF Drawn, Terms
<1>4. term' = At(clear, t, 0, 0)
  BY DEF CtrlL
<1> HIDE DEF clear
<1>5. At(clear, t, 0, 0) = Drawn(clear, t, Screen, EmptyPage, 0, 0)
  <2>1. term.x[t] \in Columns /\ term.y[t] \in Rows
    BY <1>1 DEF Terms
  <2>2. clear \in Terms
    BY <1>1, <1>2, <1>3, <2>1, DrawnTerms
  <2>3. clear.page[Screen] = EmptyPage
    BY <1>1, <1>3, DrawnPage
  <2> QED BY <1>1, <2>2, <2>3, Steps, TermsAny
<1>6. term' = Drawn(term, t, ViewOf(t), EmptyPage, 0, 0)
  BY <1>1, <1>3, <1>4, <1>5, TermsAny, DrawnTwice
<1>7. /\ term' \in Terms
      /\ View(t)' = EmptyPage /\ term'.x[t] = 0 /\ term'.y[t] = 0
      /\ \A u \in Terminals \ {t} :
           View(u)' = View(u) /\ term'.x[u] = term.x[u] /\ term'.y[u] = term.y[u]
  BY <1>1, <1>2, <1>6, DrawStep DEF CtrlL
<1>8. Showing(t)'
  <2> DEFINE rows == text'[t]
  <2>1. rows = <<<<>>>> /\ mine'[t] = 0
    BY <1>1 DEF CtrlL, Typing
  <2> HIDE DEF rows
  <2>2. IsText(rows) /\ Flows(rows, 0) /\ Shown(EmptyPage, rows)
        /\ Len(rows) - 1 = 0 /\ Len(Last(rows)) = 0
    BY <2>1, EmptyShown
  <2> QED BY <1>7, <2>1, <2>2 DEF Showing, IsText, Flows, Shown, Glyph, rows
<1>9. \A u \in Terminals : ~Disturbed(u)' => Showing(u)'
  BY <1>1, <1>7, <1>8, OthersShow DEF IInv, Typing, CtrlL, Disturbed
<1>10. Typing'
  BY <1>1, <1>7, TermsTyping, ZenonT(40) DEF Typing, TypeOK, CtrlL, Overtakes
<1> QED BY <1>9, <1>10, OvertakenFresh DEF IInv, CtrlL

\* A backspace goes back one column, or to the end of the row above.
LEMMA DeleteDraws ==
  ASSUME Typing, NEW t \in Terminals, t = cur_terminal, DeleteChar(t), ~(term.x[t] = 0 /\ term.y[t] = 0)
  PROVE  LET a == IF term.x[t] = 0 THEN NUM_COLS - 1 ELSE term.x[t] - 1
             b == IF term.x[t] = 0 THEN term.y[t] - 1 ELSE term.y[t]
             page == [term.page[ViewOf(t)] EXCEPT ![NUM_COLS * b + a] = Blank]
         IN  /\ a \in Columns /\ b \in Rows /\ page \in Pages
             /\ term' = Drawn(term, t, ViewOf(t), page, a, b)
<1> DEFINE a == IF term.x[t] = 0 THEN NUM_COLS - 1 ELSE term.x[t] - 1
           b == IF term.x[t] = 0 THEN term.y[t] - 1 ELSE term.y[t]
           old == term.page[ViewOf(t)]
           page == [old EXCEPT ![NUM_COLS * b + a] = Blank]
           s == At(term, t, a, b)
<1>1. /\ term \in Terms /\ term \in AnyTerms /\ ViewOf(t) = Screen /\ Screen \in Views
      /\ term.x[t] \in Columns /\ term.y[t] \in Rows /\ old \in Pages
  BY TermsAny DEF Typing, ViewOf, Views, Terms
<1>2. a \in Columns /\ b \in Rows /\ a \in Nat /\ b \in Nat
  BY <1>1, Sizes DEF Columns, Rows
<1>3. term' = Poke(s, t, Screen, Blank)
  BY DEF DeleteChar
<1> HIDE DEF a, b, old, s
<1>4. page \in Pages
  BY <1>1 DEF Pages, Glyphs
<1>5. s = Drawn(term, t, Screen, old, a, b)
  BY <1>1, <1>2, Steps DEF s, old
<1>6. s \in AnyTerms /\ s.page[Screen] = old /\ s.x[t] = a /\ s.y[t] = b
  BY <1>1, <1>2, <1>5, DrawnFields
<1>7. NUM_COLS * b + a \in Cells /\ Blank \in Glyphs
  BY <1>2, Grid DEF Glyphs
<1>8. Poke(s, t, Screen, Blank) = Drawn(s, t, Screen, page, a, b)
  BY <1>1, <1>6, <1>7, Steps
<1>9. term' = Drawn(term, t, Screen, page, a, b)
  BY <1>1, <1>3, <1>5, <1>8, DrawnTwice
<1> QED BY <1>1, <1>2, <1>4, <1>9 DEF a, b, old

LEMMA BackspaceIInv == ASSUME IInv, NEW t \in Terminals, Backspace(t) PROVE IInv'
<1> DEFINE a == IF term.x[t] = 0 THEN NUM_COLS - 1 ELSE term.x[t] - 1
           b == IF term.x[t] = 0 THEN term.y[t] - 1 ELSE term.y[t]
           old == term.page[ViewOf(t)]
           page == [old EXCEPT ![NUM_COLS * b + a] = Blank]
<1>1. /\ Typing /\ Screen = ViewOf(t) /\ term \in Terms /\ old \in Pages
      /\ term.x[t] \in Columns /\ term.y[t] \in Rows
      /\ mine[t] \in Nat /\ buffer_pos[t] \in Nat
  BY DEF IInv, Backspace, ViewOf, Typing, Terms, Views
<1>2. /\ a \in Columns /\ b \in Rows /\ page \in Pages
      /\ term' = Drawn(term, t, ViewOf(t), page, a, b)
  BY <1>1, DeleteDraws DEF Backspace
<1> HIDE DEF page
<1>3. /\ term' \in Terms
      /\ View(t)' = page /\ term'.x[t] = a /\ term'.y[t] = b
      /\ \A u \in Terminals \ {t} :
           View(u)' = View(u) /\ term'.x[u] = term.x[u] /\ term'.y[u] = term.y[u]
  <2>1. cur_terminal' = cur_terminal
    BY DEF Backspace
  <2> HIDE DEF a, b
  <2> QED BY <1>1, <1>2, <2>1, DrawStep
<1>4. \A u \in Terminals \ {t} :
        text'[u] = text[u] /\ mine'[u] = mine[u] /\ erased'[u] = erased[u]
  BY <1>1 DEF Typing, Backspace
<1>5. \A u \in Terminals \ {t} : ~Disturbed(u)' => Showing(u)'
  <2>1. \A u \in Terminals \ {t} : ~Disturbed(u)' => ~Disturbed(u)
    BY <1>4 DEF Backspace, Disturbed
  <2> QED BY <1>3, <1>4, <2>1, OthersShow DEF IInv
<1>6. Typing'
  <2>1. buffer_pos' \in [Terminals -> Nat]
    <3>1. buffer_pos[t] - 1 \in Nat /\ buffer_pos' = [buffer_pos EXCEPT ![t] = @ - 1]
      BY <1>1 DEF Backspace
    <3> QED BY <3>1, <1>1 DEF Typing
  <2>2. mine' \in [Terminals -> Nat] /\ DOMAIN text' = Terminals
    BY <1>1 DEF Typing, Backspace
  <2>3. erased' \in [Terminals -> BOOLEAN]
    BY <1>1 DEF Typing, Backspace
  <2> QED BY <1>1, <1>3, <2>1, <2>2, <2>3, TermsTyping DEF Typing, TypeOK, Backspace, Overtakes
<1>7. ASSUME ~Disturbed(t)' PROVE Showing(t)'
  <2> DEFINE rows == text[t]
             m == mine[t]
             kept == EraseChar(rows)
  <2>1. ~Disturbed(t) /\ m # 0 /\ m \in Nat /\ m > 0
    <3>1. erased'[t] = (erased[t] \/ mine[t] = 0)
      BY <1>1 DEF Typing, Backspace
    <3>2. ~Disturbed(t) /\ m # 0
      BY <1>7, <3>1 DEF Disturbed, Backspace
    <3> QED BY <1>1, <3>2
  <2>2. text'[t] = kept /\ mine'[t] = m - 1
    BY <1>1, <2>1 DEF Typing, Backspace
  <2>3. /\ IsText(rows) /\ Flows(rows, m) /\ Shown(old, rows)
        /\ term.y[t] = Len(rows) - 1 /\ term.x[t] = Len(Last(rows))
    BY <2>1 DEF IInv, Showing, View, ViewOf
  <2> HIDE DEF rows, m, old
  <2>4. /\ Len(rows) \in Nat /\ Len(rows) > 0 /\ Len(<<>>) = 0
        /\ Last(rows) \in Seq(Terminals) /\ (Len(Last(rows)) = 0 <=> Last(rows) = <<>>)
    <3>1. Len(rows) \in Nat /\ Len(rows) > 0 /\ Last(rows) \in Seq(Terminals)
      BY <2>3, TextRows, Sizes DEF IsText, AnyRows
    <3> QED BY <3>1, EmptySeq
  <2>5. Last(rows) # <<>> \/ Len(rows) > 1
    <3>1. ~(term.x[t] = 0 /\ term.y[t] = 0)
      BY DEF Backspace
    <3>2. ASSUME Last(rows) = <<>>, Len(rows) = 1 PROVE FALSE
      BY <2>3, <2>4, <3>1, <3>2
    <3> DEFINE n == Len(rows)
    <3>3. n \in Nat /\ n > 0 /\ (n = 1 => Last(rows) # <<>>)
      BY <2>4, <3>2
    <3> HIDE DEF n
    <3>4. n = 1 \/ n > 1
      BY <3>3
    <3> QED BY <3>3, <3>4 DEF n
  <2>6. /\ IsText(kept) /\ Flows(kept, m - 1)
        /\ Shown([old EXCEPT ![NUM_COLS * (Len(kept) - 1) + Len(Last(kept))] = Blank], kept)
        /\ IF Last(rows) = <<>> THEN Len(kept) - 1 = Len(rows) - 2 /\ Len(Last(kept)) = NUM_COLS - 1
           ELSE Len(kept) - 1 = Len(rows) - 1 /\ Len(Last(kept)) = Len(Last(rows)) - 1
    BY <1>1, <2>1, <2>3, <2>5, ErasedShows
  <2> HIDE DEF kept
  <2>7. b = Len(kept) - 1 /\ a = Len(Last(kept))
    BY <2>3, <2>4, <2>6
  <2>8. Shown(page, kept)
    BY <2>6, <2>7 DEF page
  <2> QED BY <1>3, <2>2, <2>6, <2>7, <2>8 DEF Showing, IsText, Flows, Shown, Glyph
<1>8. \A u \in Terminals : Fresh(u)'
  BY OvertakenFresh DEF Backspace
<1> QED BY <1>5, <1>6, <1>7, <1>8 DEF IInv

LEMMA SwitchTasksIInv == ASSUME IInv, SwitchTasks PROVE IInv'
<1>1. Typing /\ \A u \in Terminals : View(u)' = View(u)
  BY DEF IInv, View, SwitchTasks
<1>2. \A u \in Terminals : ~Disturbed(u)' => Showing(u)'
  BY <1>1, SameShow DEF SwitchTasks, Disturbed, history
<1>3. Typing'
  BY <1>1 DEF Typing, TypeOK, SwitchTasks, history
<1>4. \A u \in Terminals : Fresh(u)'
  BY StillFresh DEF SwitchTasks, history
<1> QED BY <1>2, <1>3, <1>4 DEF IInv

\* The screen goes to the page of the terminal it showed, and the page of the new one comes to it.
LEMMA ActiveIInv == ASSUME IInv, NEW n \in Terminals, MakeTerminalActive(n) PROVE IInv'
<1> DEFINE c == cur_terminal
           saved == [term EXCEPT !.page[c] = term.page[Screen]]
<1>1. /\ Typing /\ term \in Terms /\ c \in Terminals /\ c # n /\ Screen \notin Terminals
      /\ c \in Views /\ n \in Views /\ Screen \in Views
  BY ScreenAssumption DEF IInv, Typing, TypeOK, Views, Screen, MakeTerminalActive
<1>2. saved = [page |-> [term.page EXCEPT ![c] = term.page[Screen]], x |-> term.x, y |-> term.y]
  BY <1>1 DEF Terms
<1>3. term' = [saved EXCEPT !.page[Screen] = term.page[n]]
  BY DEF MakeTerminalActive
<1> HIDE DEF saved
<1>4. /\ term'.page = [[term.page EXCEPT ![c] = term.page[Screen]] EXCEPT ![Screen] = term.page[n]]
      /\ term'.x = term.x /\ term'.y = term.y
      /\ term' = [page |-> term'.page, x |-> term'.x, y |-> term'.y]
  BY <1>2, <1>3
<1>5. /\ term'.page \in [Views -> Pages]
      /\ term'.page[c] = term.page[Screen] /\ term'.page[Screen] = term.page[n]
      /\ \A w \in Terminals \ {c} : term'.page[w] = term.page[w]
  BY <1>1, <1>4 DEF Terms, Views
<1>6. term' \in Terms
  BY <1>1, <1>4, <1>5 DEF Terms
<1>7. ASSUME NEW u \in Terminals PROVE View(u)' = View(u)
  <2>1. cur_terminal' = n
    BY DEF MakeTerminalActive
  <2> QED BY <1>1, <1>5, <2>1 DEF View
<1>8. \A u \in Terminals : ~Disturbed(u)' => Showing(u)'
  BY <1>4, <1>7, SameShow DEF MakeTerminalActive, Disturbed
<1>9. Typing'
  BY <1>1, <1>6, TermsTyping DEF Typing, TypeOK, MakeTerminalActive, Overtakes
<1> QED BY <1>8, <1>9, OvertakenFresh DEF IInv, MakeTerminalActive

\* A read takes a step.
LEMMA LoadIInv ==
  ASSUME IInv, NEW t \in Terminals, GetCurTerminal(t) \/ GetScreen(t)
  PROVE  IInv'
<1>1. /\ Typing /\ reader[t] \in [at : ReadPlaces, on : Terminals, x : Columns, y : Rows]
      /\ \A u \in Terminals : term.x[u] \in Columns /\ term.y[u] \in Rows
  BY DEF IInv, Typing, TypeOK, Terms, Columns, Rows
<1>2. /\ UNCHANGED <<cur_terminal, cur_terminal_running, video_mem, buffer_pos, screen_y, text, mine, erased>>
      /\ UNCHANGED <<term, overtaken, moved>>
  BY DEF GetCurTerminal, GetScreen, ReadStep
<1>3. \A u \in Terminals : ~Disturbed(u)' => Showing(u)'
  BY <1>2, SameShow DEF View, Disturbed
<1> DEFINE r == reader[t]
<1>4. PICK next :
        /\ reader' = [reader EXCEPT ![t] = next]
        /\ \/ r.at = "user" /\ next = [r EXCEPT !.at = "get_y", !.on = cur_terminal]
           \/ r.at = "for_x" /\ next = [r EXCEPT !.at = "get_x", !.on = cur_terminal]
           \/ r.at = "for_set" /\ next = [r EXCEPT !.at = "set_x", !.on = cur_terminal]
           \/ r.at = "get_y" /\ next = [r EXCEPT !.at = "for_x", !.on = 1, !.y = term.y[r.on]]
           \/ r.at = "get_x" /\ next = [r EXCEPT !.at = "for_set", !.on = 1, !.x = term.x[r.on]]
  <2>1. CASE GetCurTerminal(t)
    <3>1. PICK step \in {<<"user", "get_y">>, <<"for_x", "get_x">>, <<"for_set", "set_x">>} :
            /\ r.at = step[1]
            /\ reader' = [reader EXCEPT ![t] = [r EXCEPT !.at = step[2], !.on = cur_terminal]]
      BY <2>1 DEF GetCurTerminal, ReadStep
    <3>2. \/ step[1] = "user" /\ step[2] = "get_y"
          \/ step[1] = "for_x" /\ step[2] = "get_x"
          \/ step[1] = "for_set" /\ step[2] = "set_x"
      OBVIOUS
    <3> HIDE DEF r
    <3> QED BY <3>1, <3>2
  <2>2. CASE GetScreen(t)
    BY <2>2 DEF GetScreen, ReadStep
  <2> QED BY <2>1, <2>2
<1>5. reader'[t] = next /\ \A u \in Terminals \ {t} : reader'[u] = reader[u]
  BY <1>1, <1>4 DEF Typing, TypeOK
<1>6. next \in [at : ReadPlaces, on : Terminals, x : Columns, y : Rows]
  BY <1>1, <1>4, ScreenAssumption DEF ReadPlaces, Typing, TypeOK
<1>7. Typing'
  BY <1>1, <1>2, <1>4, <1>6 DEF Typing, TypeOK, Columns, Rows
<1>8. Fresh(t)'
  <2>1. Fresh(t)
    BY DEF IInv
  <2> HIDE DEF r
  <2>2. r = reader[t] /\ r \in [at : ReadPlaces, on : Terminals, x : Columns, y : Rows]
    BY <1>1 DEF r
  <2>3. \/ r.at = "user" /\ next.at = "get_y" /\ next.on = cur_terminal
        \/ r.at = "for_x" /\ next.at = "get_x" /\ next.on = cur_terminal /\ next.y = r.y
        \/ r.at = "for_set" /\ next.at = "set_x" /\ next.on = cur_terminal /\ next.y = r.y /\ next.x = r.x
        \/ r.at = "get_y" /\ next.at = "for_x" /\ next.y = term.y[r.on]
        \/ r.at = "get_x" /\ next.at = "for_set" /\ next.x = term.x[r.on] /\ next.y = r.y
    BY <1>4, <2>2
  <2> QED BY <1>2, <1>5, <2>1, <2>2, <2>3 DEF Fresh
<1>9. \A u \in Terminals \ {t} : Fresh(u)'
  BY <1>2, <1>5, StillFresh
<1> QED BY <1>3, <1>7, <1>8, <1>9 DEF IInv

\* What a read stores is what is there, unless it was overtaken.
LEMMA StoreIInv ==
  ASSUME IInv, NEW t \in Terminals, NEW u \in Terminals, u = reader[t].on,
         NEW x \in Columns, NEW y \in Rows, NEW next,
         term' = [page |-> term.page, x |-> [term.x EXCEPT ![u] = x], y |-> [term.y EXCEPT ![u] = y]],
         t \notin overtaken => x = term.x[u] /\ y = term.y[u],
         ReadStep(t, reader[t].at, next), next.at = "user" \/ next = [reader[t] EXCEPT !.at = "set_y"],
         next \in [at : ReadPlaces, on : Terminals, x : Columns, y : Rows],
         reader[t].at \in {"set_x", "set_y"}, Stores(t, u)
  PROVE  IInv'
<1>1. Typing /\ term \in Terms
  BY DEF IInv, Typing
<1>2. UNCHANGED <<cur_terminal, cur_terminal_running, video_mem, buffer_pos, screen_y, text, mine, erased>>
      /\ reader' = [reader EXCEPT ![t] = next] /\ Overtakes(term' # term)
      /\ moved' = [moved EXCEPT ![u] = @ \/ (term' # term /\ t \in overtaken)]
  BY DEF ReadStep, Stores
<1>3. term' \in Terms
  BY <1>1 DEF Terms
<1>4. Typing'
  BY <1>1, <1>2, <1>3, TermsTyping DEF Typing, TypeOK, Columns, Rows, Overtakes
<1>5. CASE term' = term
  <2>1. \A w \in Terminals : ~Disturbed(w)' => ~Disturbed(w)
    BY <1>1, <1>2, <1>5 DEF Disturbed, Typing
  <2>2. \A w \in Terminals : ~Disturbed(w)' => Showing(w)'
    BY <1>2, <1>5, <2>1, SameShow DEF View
  <2>3. \A w \in Terminals \ {t} : Fresh(w)'
    <3> TAKE w \in Terminals \ {t}
    <3>1. reader'[w] = reader[w]
      BY <1>1, <1>2 DEF Typing, TypeOK
    <3>2. CASE reader[w].at = "user"
      BY <3>1, <3>2 DEF Fresh
    <3>3. CASE reader[w].at # "user"
      <4>1. w \in overtaken => w \in overtaken'
        BY <1>2, <3>1, <3>3 DEF Overtakes
      <4> QED BY <1>2, <1>5, <3>1, <4>1, StillFresh
    <3> QED BY <3>2, <3>3
  <2>4. Fresh(t)'
    <3>1. reader'[t] = next /\ (next.at # "user" => next = [reader[t] EXCEPT !.at = "set_y"])
      BY <1>1, <1>2 DEF Typing, TypeOK
    <3>2. next.at # "user" /\ t \in overtaken => t \in overtaken'
      BY <1>2, <3>1 DEF Overtakes
    <3>3. reader[t] \in [at : ReadPlaces, on : Terminals, x : Columns, y : Rows]
      BY <1>1 DEF Typing, TypeOK, Columns, Rows
    <3>4. CASE next.at = "user"
      BY <3>1, <3>4 DEF Fresh
    <3>5. CASE next.at # "user"
      <4>1. next.at = "set_y" /\ next.on = reader[t].on /\ next.x = reader[t].x /\ next.y = reader[t].y
        BY <3>1, <3>3, <3>5
      <4>2. Fresh(t)
        BY DEF IInv
      <4> QED BY <1>2, <1>5, <3>1, <3>2, <3>5, <4>1, <4>2 DEF Fresh
    <3> QED BY <3>4, <3>5
  <2> QED BY <1>4, <2>2, <2>3, <2>4 DEF IInv
<1>6. CASE term' # term
  <2>1. \A w \in Terminals : Fresh(w)'
    BY <1>2, <1>6, OvertakenFresh
  <2>2. t \in overtaken
    BY <1>1, <1>6 DEF Terms
  <2>3. ASSUME NEW w \in Terminals, ~Disturbed(w)' PROVE Showing(w)'
    <3>1. moved'[u]
      BY <1>1, <1>2, <1>6, <2>2 DEF Typing
    <3>2. w # u
      BY <2>3, <3>1 DEF Disturbed
    <3>3. ~Disturbed(w)
      BY <1>1, <1>2, <2>3, <3>2 DEF Disturbed, Typing
    <3>4. term'.x[w] = term.x[w] /\ term'.y[w] = term.y[w] /\ View(w)' = View(w)
      BY <1>1, <1>2, <3>2 DEF Terms, View
    <3> QED BY <1>2, <3>3, <3>4, OthersShow DEF IInv
  <2> QED BY <1>4, <2>1, <2>3 DEF IInv
<1> QED BY <1>5, <1>6

LEMMA ReadIInv == ASSUME IInv, NEW t \in Terminals, TerminalRead(t) PROVE IInv'
<1>1. /\ Typing /\ term \in Terms /\ reader[t] \in [at : ReadPlaces, on : Terminals, x : Columns, y : Rows]
      /\ Fresh(t)
  BY DEF IInv, Typing, TypeOK, Columns, Rows
<1> DEFINE u == reader[t].on
           x == reader[t].x
           y == reader[t].y
<1>2. u \in Terminals /\ x \in Columns /\ y \in Rows /\ term.x[u] \in Columns /\ term.y[u] \in Rows
  BY <1>1 DEF Terms
<1>3. /\ term = [page |-> term.page, x |-> term.x, y |-> term.y]
      /\ [term.x EXCEPT ![u] = term.x[u]] = term.x /\ [term.y EXCEPT ![u] = term.y[u]] = term.y
  BY <1>1 DEF Terms
<1>4. CASE GetCurTerminal(t) \/ GetScreen(t)
  BY <1>4, LoadIInv
<1>5. CASE StoreX(t)
  <2> DEFINE next == [reader[t] EXCEPT !.at = "set_y"]
  <2>1. reader[t].at = "set_x" /\ ReadStep(t, reader[t].at, next) /\ Stores(t, u)
    BY <1>5 DEF StoreX, ReadStep
  <2>2. next \in [at : ReadPlaces, on : Terminals, x : Columns, y : Rows]
    BY <1>1 DEF ReadPlaces
  <2>3. term' = [page |-> term.page, x |-> [term.x EXCEPT ![u] = x],
                 y |-> [term.y EXCEPT ![u] = term.y[u]]]
    BY <1>3, <1>5 DEF StoreX
  <2>4. t \notin overtaken => x = term.x[u]
    BY <1>1, <2>1 DEF Fresh
  <2> HIDE DEF next, x
  <2> QED BY <1>2, <2>1, <2>2, <2>3, <2>4, StoreIInv DEF next
<1>6. CASE StoreY(t)
  <2>1. reader[t].at = "set_y" /\ ReadStep(t, reader[t].at, Idle) /\ Stores(t, u)
    BY <1>6 DEF StoreY, ReadStep
  <2>2. Idle \in [at : ReadPlaces, on : Terminals, x : Columns, y : Rows] /\ Idle.at = "user"
    BY ScreenAssumption, Sizes DEF Idle, ReadPlaces, Columns, Rows
  <2>3. term' = [page |-> term.page, x |-> [term.x EXCEPT ![u] = term.x[u]],
                 y |-> [term.y EXCEPT ![u] = y]]
    BY <1>3, <1>6 DEF StoreY
  <2>4. t \notin overtaken => y = term.y[u]
    BY <1>1, <2>1 DEF Fresh
  <2> HIDE DEF y
  <2> QED BY <1>2, <2>1, <2>2, <2>3, <2>4, StoreIInv
<1> QED BY <1>4, <1>5, <1>6 DEF TerminalRead

\* A message stands over what the running terminal shows, on its page.
LEMMA ExceptionIInv == ASSUME IInv, NEW t \in Terminals, Exception(t) PROVE IInv'
<1>1. Typing /\ term \in Terms /\ video_mem = ViewOf(t) /\ ViewOf(t) \in Views /\ term.page[ViewOf(t)] \in Pages
  BY DEF IInv, Typing, TypeOK, Exception, ViewOf, Views, Terms
<1>2. PICK n \in MessageSizes : term' = [term EXCEPT !.page[video_mem] = Overprint(@, screen_y, n)]
  BY DEF Exception
<1> DEFINE old == term.page[ViewOf(t)]
           new == Overprint(old, screen_y, n)
<1>3. new \in Pages /\ \A i \in Cells : new[i] \in {old[i], Message}
  BY <1>1 DEF Overprint, Pages, Glyphs
<1>4. /\ term'.page = [term.page EXCEPT ![ViewOf(t)] = new] /\ term'.x = term.x /\ term'.y = term.y
      /\ term' = [page |-> term'.page, x |-> term'.x, y |-> term'.y]
  BY <1>1, <1>2 DEF Terms
<1> HIDE DEF new
<1>5. term' \in Terms
  BY <1>1, <1>3, <1>4 DEF Terms
<1>6. UNCHANGED <<cur_terminal, cur_terminal_running, video_mem, buffer_pos, reader, history>>
      /\ screen_y' = NextRow(screen_y)
  BY DEF Exception
<1>7. screen_y' \in 1 .. NUM_ROWS
  <2>1. screen_y \in Nat
    BY <1>1 DEF Typing, TypeOK
  <2> QED BY <1>6, <2>1, Sizes DEF NextRow
<1>8. Typing'
  BY <1>1, <1>5, <1>6, <1>7, TermsTyping DEF Typing, TypeOK, history
<1>9. \A u \in Terminals : Fresh(u)'
  BY <1>4, <1>6, StillFresh DEF history
<1>10. ASSUME NEW u \in Terminals, ~Disturbed(u)' PROVE Showing(u)'
  <2>1. ~Disturbed(u) /\ Showing(u)
    BY <1>6, <1>10 DEF Disturbed, history, IInv
  <2>2. /\ text'[u] = text[u] /\ mine'[u] = mine[u]
        /\ term'.x[u] = term.x[u] /\ term'.y[u] = term.y[u]
        /\ View(u) = term.page[ViewOf(u)] /\ View(u)' = term'.page[ViewOf(u)]
    BY <1>4, <1>6 DEF history, View, ViewOf
  <2>3. CASE u # t
    <3>1. View(u)' = View(u)
      BY <1>1, <1>4, <2>2, <2>3, ViewsDiffer DEF Terms
    <3> QED BY <2>1, <2>2, <3>1, OthersShow
  <2>4. CASE u = t
    <3> DEFINE rows == text'[u]
    <3>1. rows = text[u]
      BY <2>2
    <3> HIDE DEF rows
    <3>2. View(u)' = new /\ View(u) = old
      BY <1>1, <1>4, <2>2, <2>4 DEF Terms
    <3>3. /\ IsText(rows) /\ Flows(rows, mine'[u]) /\ Shown(old, rows)
          /\ term'.y[u] = Len(rows) - 1 /\ term'.x[u] = Len(Last(rows))
      BY <2>1, <2>2, <3>1, <3>2 DEF Showing
    <3>4. Shown(new, rows)
      BY <1>3, <3>3, Grid DEF Shown
    <3> QED BY <3>2, <3>3, <3>4 DEF Showing, IsText, Flows, Shown, Glyph, rows
  <2> QED BY <2>3, <2>4
<1> QED BY <1>8, <1>9, <1>10 DEF IInv

LEMMA CtrlCIInv == ASSUME IInv, CtrlC PROVE IInv'
<1>1. /\ Typing /\ reader' = [reader EXCEPT ![cur_terminal_running] = Idle] /\ Overtakes(FALSE)
      /\ UNCHANGED <<cur_terminal, cur_terminal_running, video_mem, term, buffer_pos, screen_y,
                     text, mine, erased, moved>>
  BY DEF IInv, CtrlC
<1>2. \A u \in Terminals : ~Disturbed(u)' => Showing(u)'
  BY <1>1, SameShow DEF View, Disturbed
<1>3. Idle \in [at : ReadPlaces, on : Terminals, x : 0 .. NUM_COLS - 1, y : 0 .. NUM_ROWS - 1]
  BY ScreenAssumption, Sizes DEF Idle, ReadPlaces
<1>4. Typing'
  BY <1>1, <1>3 DEF Typing, TypeOK, Overtakes
<1>5. ASSUME NEW u \in Terminals PROVE Fresh(u)'
  <2>1. CASE reader'[u].at = "user"
    BY <2>1 DEF Fresh
  <2>2. CASE reader'[u].at # "user"
    <3>1. reader'[u] = reader[u]
      BY <1>1, <2>2 DEF Typing, TypeOK, Idle
    <3>2. u \in overtaken => u \in overtaken'
      BY <1>1, <2>2 DEF Overtakes
    <3> QED BY <1>1, <3>1, <3>2, StillFresh
  <2> QED BY <2>1, <2>2
<1> QED BY <1>2, <1>4, <1>5 DEF IInv

LEMMA NextIInv == IInv /\ [Next]_vars => IInv'
<1> SUFFICES ASSUME IInv, [Next]_vars PROVE IInv'
  OBVIOUS
<1>1. CASE UNCHANGED vars
  <2>1. \A u \in Terminals : View(u)' = View(u)
    BY <1>1 DEF vars, View
  <2>2. \A u \in Terminals : ~Disturbed(u)' => Showing(u)'
    BY <1>1, <2>1, SameShow DEF vars, history, Disturbed
  <2>3. Typing'
    BY <1>1 DEF vars, history, IInv, Typing, TypeOK
  <2>4. \A u \in Terminals : Fresh(u)'
    BY <1>1, StillFresh DEF vars, history
  <2> QED BY <2>2, <2>3, <2>4 DEF IInv
<1>2. CASE SwitchTasks \/ CtrlC
  BY <1>2, SwitchTasksIInv, CtrlCIInv
<1>3. CASE \E t \in Terminals : Process(t)
  BY <1>3, WriteCharIInv, WriteNewlineIInv, ReadIInv, ExceptionIInv DEF Process
<1>4. CASE \E t \in Terminals : Key(t)
  BY <1>4, EchoIInv, EchoEnterIInv, BackspaceIInv, CtrlLIInv, ActiveIInv DEF Key
<1> QED BY <1>1, <1>2, <1>3, <1>4 DEF Next

LEMMA IInvShowsText == IInv => TypeOK /\ ShowsText
<1> SUFFICES ASSUME IInv PROVE TypeOK /\ ShowsText
  OBVIOUS
<1>1. TypeOK /\ term \in Terms
  BY DEF IInv, Typing
<1>2. ASSUME NEW t \in Terminals, ~Disturbed(t)
      PROVE  \A i \in Cells : View(t)[i] \in {Render(text[t])[i], Message}
  <2> DEFINE rows == text[t]
  <2>1. IsText(rows) /\ Shown(View(t), rows)
    BY <1>2 DEF IInv, Showing
  <2> HIDE DEF rows
  <2>2. View(t) \in Pages
    BY <1>1 DEF View, Terms, Views
  <2>3. Len(rows) \in Nat /\ \A i \in 1 .. Len(rows) : Len(rows[i]) \in Nat
    BY <2>1, TextRows DEF IsText, AnyRows
  <2>4. \A i \in Cells : View(t)[i] \in {Render(rows)[i], Message}
    BY <2>1, <2>2, <2>3, RenderShows
  <2> QED BY <2>4 DEF rows
<1> QED BY <1>1, <1>2 DEF IInv, Showing, ShowsText

-----------------------------------------------------------------------------
\* terminal_putc(), the echo, make_terminal_active(), the set_cursor() of a
\* terminal_read() whose cursor may be stale, and the printf() of the exception
\* handlers keep the pages, the cursors and the page of the running process
\* well formed: a cursor never leaves its page, and printf() is never further
\* than one row below it, for every size of the screen and every length of a
\* message that fits a row.
THEOREM ScreenTypeCorrect == Spec => []TypeOK
<1>1. IInv => TypeOK
  BY IInvShowsText
<1> QED BY <1>1, InitIInv, NextIInv, PTL DEF Spec

\* However output, echo, the steps of reads, exceptions, Ctrl+C, task switches
\* and terminal switches interleave, every terminal shows the text it was given,
\* wrapped and scrolled, with the cursor behind it, and nothing else but the
\* messages of exception handlers: until a backspace erases what its process
\* wrote, or a read that an echo, output or Alt+Fn overtook stores a cursor that
\* is no longer there.  For every number of terminals and every size of the
\* screen.
THEOREM ScreenShowsText == Spec => []ShowsText
<1>1. IInv => ShowsText
  BY IInvShowsText
<1> QED BY <1>1, InitIInv, NextIInv, PTL DEF Spec

-----------------------------------------------------------------------------
(***************************************************************************)
(* Commands, for every directory, text, line and size of the arrays.       *)
(*                                                                         *)
(* RunsTheCommand compares what parse_command() leaves in two arrays with  *)
(* the words of the line; CommandRuns says what is in the shell's buffer   *)
(* and in the process in between.  PrintsTheText needs what has been       *)
(* printed at each read (CatRuns) and at each line of grep's (GrepRuns).   *)
(***************************************************************************)

\* The characters of lines, and what else is in the shell's and execute's arrays.
Typable == UNION {Range(typed) : typed \in TypedLines}
Chars == Typable \cup {"nul", "junk"}
Texture == Chars \ {"nul"}

\* A string is at a place of an array.
Holds(array, base, string) ==
    /\ \A k \in 1 .. Len(string) : array[base + k] = string[k]
    /\ array[base + Len(string) + 1] = "nul"

\* n bytes of an array are part of the string there.
Goes(array, base, n) == \A k \in 1 .. n : array[base + k] # "nul"
Same(string, array, base, n) == \A k \in 1 .. n : string[k] = array[base + k]

\* All bytes but those from base + 1 to base + n are as they were.
Kept(copy, array, N, base, n) ==
    \A i \in 1 .. N : i <= base \/ i > base + n => copy[i] = array[i]

\* An array of C bytes and one of A, with room for a "nul" behind each, are at p
\* and q of a frame of N, the second behind the first or right before it: a name
\* has been written to the first and then, to what that gives, once, arguments to
\* the second.
Written(frame, once, N, C, p, A, q, name, args) ==
    /\ C > 0 /\ A > 0 /\ p + C + 1 <= N /\ q + A + 1 <= N
    /\ p + C <= q \/ q + A = p
    /\ Len(name) <= C /\ Len(args) <= A
    /\ Holds(once, p, name) /\ Holds(frame, q, args)
    /\ Kept(frame, once, N, q, Len(args) + 1)

\* What is read from there then.
ReadAgain(frame, C, p, A, q, name, args) ==
    /\ StringAt(frame, q) = args
    /\ Len(name) < C /\ (p + C <= q \/ Len(args) < A) => StringAt(frame, p) = name
    /\ q + A = p /\ Len(args) = A => Len(StringAt(frame, p)) = 0
    /\ Len(name) = C => Len(StringAt(frame, p)) = 0 \/ Len(StringAt(frame, p)) >= C

-----------------------------------------------------------------------------
(* Sequences *)

LEMMA LeastNatural ==
  ASSUME NEW S \in SUBSET Nat, S # {}
  PROVE  \E n \in S : \A m \in S : n <= m
<1> DEFINE R == OpToRel(<, Nat)
<1>1. PICK n \in S : \A m \in S : <<m, n>> \notin R
  <2>1. IsWellFoundedOn(R, Nat)
    BY NatLessThanWellFounded
  <2> HIDE DEF R
  <2> QED BY <2>1, WFMin
<1>2. \A m \in S : ~(m < n)
  BY <1>1 DEF OpToRel
<1> QED BY <1>2

LEMMA SameSeq ==
  ASSUME NEW S, NEW s \in Seq(S), NEW t \in Seq(S), Len(s) = Len(t),
         \A k \in 1 .. Len(s) : s[k] = t[k]
  PROVE  s = t
BY SeqEqual

LEMMA Array ==
  ASSUME NEW S, NEW n \in Nat, NEW a \in [1 .. n -> S]
  PROVE  a \in Seq(S) /\ Len(a) = n
OBVIOUS

\* A part of a sequence.
LEMMA Part ==
  ASSUME NEW S, NEW s \in Seq(S), NEW m \in Nat, NEW n \in Nat, m <= n, n <= Len(s)
  PROVE  /\ SubSeq(s, m + 1, n) \in Seq(S) /\ Len(SubSeq(s, m + 1, n)) = n - m
         /\ \A k \in 1 .. n - m : SubSeq(s, m + 1, n)[k] = s[m + k]
<1> DEFINE p == SubSeq(s, m + 1, n)
<1>1. p \in Seq(S) /\ Len(p) = IF m + 1 <= n THEN n - (m + 1) + 1 ELSE 0
  BY SubSeqProperties
<1>2. \A k \in 1 .. n - m : p[k] = s[m + k]
  <2> TAKE k \in 1 .. n - m
  <2>1. k \in 1 .. n - (m + 1) + 1 /\ m + 1 + k - 1 = m + k
    OBVIOUS
  <2> QED BY <2>1, SubSeqProperties
<1>3. Len(p) = n - m
  BY <1>1
<1> QED BY <1>1, <1>2, <1>3

-----------------------------------------------------------------------------
(* The string functions *)

LEMMA SpanIs ==
  ASSUME NEW array, NEW base \in Nat, NEW stops, NEW limit \in Nat, NEW n \in 0 .. limit,
         n = limit \/ array[base + n + 1] \in stops,
         \A k \in 1 .. n : array[base + k] \notin stops
  PROVE  Span(array, base, stops, limit) = n
<1> DEFINE Ends(m) == /\ m = limit \/ array[base + m + 1] \in stops
                      /\ \A k \in 1 .. m : array[base + k] \notin stops
<1>1. ASSUME NEW m \in 0 .. limit, Ends(m) PROVE m = n
  <2>1. CASE m < n
    <3>1. m + 1 \in 1 .. n /\ m # limit
      BY <2>1
    <3>2. base + (m + 1) = base + m + 1
      OBVIOUS
    <3> QED BY <1>1, <3>1, <3>2
  <2>2. CASE n < m
    <3>1. n + 1 \in 1 .. m /\ n # limit
      BY <2>2
    <3>2. base + (n + 1) = base + n + 1
      OBVIOUS
    <3> QED BY <1>1, <3>1, <3>2
  <2> QED BY <2>1, <2>2
<1>2. Ends(n)
  OBVIOUS
<1> HIDE DEF Ends
<1>3. (CHOOSE m \in 0 .. limit : Ends(m)) = n
  BY <1>1, <1>2
<1> QED BY <1>3 DEF Span, Ends

LEMMA StrcpyHolds ==
  ASSUME NEW S, "nul" \in S, NEW N \in Nat, NEW array \in [1 .. N -> S], NEW base \in Nat,
         NEW string \in Seq(S), base + Len(string) + 1 <= N
  PROVE  /\ Strcpy(array, base, string) \in [1 .. N -> S]
         /\ Holds(Strcpy(array, base, string), base, string)
         /\ Kept(Strcpy(array, base, string), array, N, base, Len(string) + 1)
<1> DEFINE n == Len(string)
           copy == Strcpy(array, base, string)
<1>1. n \in Nat /\ \A k \in 1 .. n : string[k] \in S
  OBVIOUS
<1> HIDE DEF n
<1>2. copy = [i \in 1 .. N |-> IF i - base \in 1 .. n THEN string[i - base]
                              ELSE IF i = base + n + 1 THEN "nul" ELSE array[i]]
  BY DEF Strcpy, n
<1> HIDE DEF copy
<1>3. copy \in [1 .. N -> S]
  BY <1>1, <1>2
<1>4. ASSUME NEW k \in 1 .. n PROVE copy[base + k] = string[k]
  <2>1. base + k \in 1 .. N /\ base + k - base = k
    BY <1>1 DEF n
  <2> QED BY <1>2, <2>1
<1>5. copy[base + n + 1] = "nul"
  <2>1. base + n + 1 \in 1 .. N /\ base + n + 1 - base \notin 1 .. n
    BY <1>1 DEF n
  <2>2. n + 1 \notin 1 .. n
    BY <1>1
  <2> QED BY <1>1, <1>2, <2>1, <2>2
<1>6. Kept(copy, array, N, base, n + 1)
  <2> SUFFICES ASSUME NEW i \in 1 .. N, i <= base \/ i > base + (n + 1) PROVE copy[i] = array[i]
    BY DEF Kept
  <2> QED BY <1>1, <1>2
<1> QED BY <1>3, <1>4, <1>5, <1>6 DEF Holds, n, copy

\* The first "nul" ends a string.
LEMMA ToNulIs ==
  ASSUME NEW S, NEW array \in Seq(S), NEW n \in Nat, n < Len(array),
         array[n + 1] = "nul", \A k \in 1 .. n : array[k] # "nul"
  PROVE  /\ ToNul(array) = SubSeq(array, 1, n) /\ ToNul(array) \in Seq(S)
         /\ Len(ToNul(array)) = n /\ \A k \in 1 .. n : ToNul(array)[k] = array[k]
<1> DEFINE Ends(e) == array[e] = "nul" /\ \A k \in 1 .. e - 1 : array[k] # "nul"
           end == CHOOSE e \in DOMAIN array : Ends(e)
<1>1. DOMAIN array = 1 .. Len(array) /\ n + 1 \in DOMAIN array
  OBVIOUS
<1>2. Ends(n + 1)
  OBVIOUS
<1>3. ASSUME NEW e \in DOMAIN array, Ends(e) PROVE e = n + 1
  <2>1. CASE e < n + 1
    BY <1>1, <1>3, <2>1
  <2>2. CASE e > n + 1
    <3>1. n + 1 \in 1 .. e - 1
      BY <1>1, <2>2
    <3> QED BY <1>3, <3>1
  <2> QED BY <1>1, <2>1, <2>2
<1> HIDE DEF Ends
<1>4. end = n + 1
  BY <1>1, <1>2, <1>3
<1>5. ToNul(array) = SubSeq(array, 1, n)
  <2>1. ToNul(array) = SubSeq(array, 1, end - 1)
    BY DEF ToNul, Ends
  <2> HIDE DEF end
  <2> QED BY <1>4, <2>1
<1>6. 0 + 1 = 1 /\ \A k \in 1 .. n : 0 + k = k
  OBVIOUS
<1> QED BY <1>5, <1>6, Part

LEMMA StringAtIs ==
  ASSUME NEW S, NEW N \in Nat, NEW frame \in [1 .. N -> S], NEW base \in Nat, NEW n \in Nat,
         base + n + 1 <= N, frame[base + n + 1] = "nul", Goes(frame, base, n)
  PROVE  /\ StringAt(frame, base) \in Seq(S) /\ Len(StringAt(frame, base)) = n
         /\ Same(StringAt(frame, base), frame, base, n)
<1>1. frame \in Seq(S) /\ Len(frame) = N
  BY Array
<1> DEFINE rest == SubSeq(frame, base + 1, Len(frame))
<1>2. /\ rest \in Seq(S) /\ Len(rest) = N - base
      /\ \A k \in 1 .. N - base : rest[k] = frame[base + k]
  BY <1>1, Part
<1>3. StringAt(frame, base) = ToNul(rest)
  BY DEF StringAt
<1> HIDE DEF rest
<1>4. n < Len(rest) /\ rest[n + 1] = "nul" /\ \A k \in 1 .. n : rest[k] # "nul" /\ rest[k] = frame[base + k]
  <2>1. n + 1 \in 1 .. N - base /\ base + (n + 1) = base + n + 1
    OBVIOUS
  <2>2. rest[n + 1] = "nul"
    BY <1>2, <2>1
  <2>3. ASSUME NEW k \in 1 .. n PROVE rest[k] # "nul" /\ rest[k] = frame[base + k]
    <3>1. k \in 1 .. N - base
      OBVIOUS
    <3> QED BY <1>2, <3>1 DEF Goes
  <2>4. n < N - base
    OBVIOUS
  <2> QED BY <1>2, <2>2, <2>3, <2>4
<1>5. /\ ToNul(rest) \in Seq(S) /\ Len(ToNul(rest)) = n
      /\ \A k \in 1 .. n : ToNul(rest)[k] = rest[k]
  BY <1>2, <1>4, ToNulIs
<1> QED BY <1>3, <1>4, <1>5 DEF Same

\* Where an array holds a string, that is what is read from it.
LEMMA HeldString ==
  ASSUME NEW S, NEW N \in Nat, NEW frame \in [1 .. N -> S], NEW base \in Nat,
         NEW string \in Seq(S \ {"nul"}), base + Len(string) + 1 <= N, Holds(frame, base, string)
  PROVE  StringAt(frame, base) = string
<1>1. PICK n \in Nat : n = Len(string)
  OBVIOUS
<1>2. (\A k \in 1 .. n : string[k] # "nul") /\ string \in Seq(S)
  BY <1>1
<1>3. frame[base + n + 1] = "nul" /\ base + n + 1 <= N
  BY <1>1 DEF Holds
<1>3a. \A k \in 1 .. n : frame[base + k] = string[k]
  BY <1>1 DEF Holds
<1>4. Goes(frame, base, n)
  BY <1>2, <1>3a DEF Goes
<1>5. /\ StringAt(frame, base) \in Seq(S) /\ Len(StringAt(frame, base)) = n
      /\ Same(StringAt(frame, base), frame, base, n)
  BY <1>3, <1>4, StringAtIs
<1> QED BY <1>1, <1>2, <1>3a, <1>5, SameSeq DEF Same

\* A string that is not ended within n bytes has that many.
LEMMA LongString ==
  ASSUME NEW S, NEW N \in Nat, NEW frame \in [1 .. N -> S], NEW base \in Nat, NEW n \in Nat,
         base + n + 1 <= N, Goes(frame, base, n),
         NEW m \in base + 1 .. N, frame[m] = "nul"
  PROVE  /\ StringAt(frame, base) \in Seq(S) /\ Len(StringAt(frame, base)) >= n
         /\ base + Len(StringAt(frame, base)) + 1 <= m
<1> DEFINE Nuls == {k \in Nat : base + k + 1 <= N /\ frame[base + k + 1] = "nul"}
<1>1. m - base - 1 \in Nuls
  OBVIOUS
<1>2. PICK l \in Nuls : \A k \in Nuls : l <= k
  BY <1>1, LeastNatural
<1>3. l \in Nat /\ base + l + 1 <= N /\ frame[base + l + 1] = "nul"
  OBVIOUS
<1>4. Goes(frame, base, l)
  <2> SUFFICES ASSUME NEW k \in 1 .. l PROVE frame[base + k] # "nul"
    BY DEF Goes
  <2>1. k - 1 \in Nat /\ base + (k - 1) + 1 = base + k /\ base + k <= N /\ k - 1 < l
    BY <1>3
  <2>2. k - 1 \notin Nuls
    <3> HIDE DEF Nuls
    <3> QED BY <1>2, <1>3, <2>1
  <2> QED BY <2>1, <2>2
<1>5. l >= n
  <2>1. CASE l < n
    <3>1. l + 1 \in 1 .. n /\ base + (l + 1) = base + l + 1
      BY <1>3, <2>1
    <3> QED BY <1>3, <3>1 DEF Goes
  <2> QED BY <1>3, <2>1
<1> HIDE DEF Nuls
<1>6. StringAt(frame, base) \in Seq(S) /\ Len(StringAt(frame, base)) = l
  BY <1>3, <1>4, StringAtIs
<1>7. base + l + 1 <= m
  BY <1>1, <1>2, <1>3
<1> QED BY <1>5, <1>6, <1>7

-----------------------------------------------------------------------------
(* parse_command's two arrays *)

Layouts == {"apart", "name_first", "args_first"}

LEMMA ArraySizes ==
  /\ COMMAND_NAME_SZ \in Nat /\ COMMAND_NAME_SZ > 0
  /\ COMMAND_ARG_SZ \in Nat /\ COMMAND_ARG_SZ > 0
  /\ NAME_SIZE \in Nat /\ NAME_SIZE > 0 /\ NAME_SIZE < COMMAND_ARG_SZ
  /\ LINE_SZ \in Nat /\ LINE_SZ > 0 /\ HALF_KB \in Nat /\ HALF_KB > 0
  /\ BUFSIZE \in Nat /\ BUFSIZE > 0
BY CommandsAssumption DEF CommandsConstants

LEMMA Places ==
  ASSUME layout \in Layouts
  PROVE  /\ layout = "apart" => NameAt = 0 /\ ArgsAt = COMMAND_NAME_SZ + 1
         /\ layout = "name_first" => NameAt = 0 /\ ArgsAt = COMMAND_NAME_SZ
         /\ layout = "args_first" => NameAt = COMMAND_ARG_SZ /\ ArgsAt = 0
         /\ layout = "apart" \/ layout = "name_first" \/ layout = "args_first"
<1>1. layout = "apart" => NameAt = 0 /\ ArgsAt = COMMAND_NAME_SZ + 1
  BY DEF NameAt, ArgsAt
<1>2. layout = "name_first" => NameAt = 0 /\ ArgsAt = COMMAND_NAME_SZ
  BY DEF NameAt, ArgsAt
<1>3. layout = "args_first" => NameAt = COMMAND_ARG_SZ /\ ArgsAt = 0
  BY DEF NameAt, ArgsAt
<1> QED BY <1>1, <1>2, <1>3 DEF Layouts

\* A name and an argument that are no longer than their arrays, written one
\* after the other, are read again, if the argument's "nul" is not written to
\* the name.
LEMMA TwoStrings ==
  ASSUME NEW N \in Nat, NEW C \in Nat, NEW A \in Nat, NEW nameAt \in Nat, NEW argsAt \in Nat,
         NEW name \in Seq(Texture), NEW args \in Seq(Texture),
         NEW once \in [1 .. N -> Chars], NEW frame \in [1 .. N -> Chars],
         Written(frame, once, N, C, nameAt, A, argsAt, name, args)
  PROVE  ReadAgain(frame, C, nameAt, A, argsAt, name, args)
<1>w. /\ C > 0 /\ A > 0 /\ nameAt + C + 1 <= N /\ argsAt + A + 1 <= N
      /\ nameAt + C <= argsAt \/ argsAt + A = nameAt
      /\ Len(name) <= C /\ Len(args) <= A
      /\ Holds(once, nameAt, name) /\ Holds(frame, argsAt, args)
      /\ Kept(frame, once, N, argsAt, Len(args) + 1)
  BY DEF Written
<1> SUFFICES
      /\ StringAt(frame, argsAt) = args
      /\ Len(name) < C /\ (nameAt + C <= argsAt \/ Len(args) < A) => StringAt(frame, nameAt) = name
      /\ argsAt + A = nameAt /\ Len(args) = A => Len(StringAt(frame, nameAt)) = 0
      /\ Len(name) = C => Len(StringAt(frame, nameAt)) = 0 \/ Len(StringAt(frame, nameAt)) >= C
  BY DEF ReadAgain
<1>n. PICK n \in Nat : n = Len(name)
  OBVIOUS
<1>a. PICK a \in Nat : a = Len(args)
  OBVIOUS
<1>l. n <= C /\ a <= A /\ Kept(frame, once, N, argsAt, a + 1)
  BY <1>n, <1>a, <1>w
<1>0. /\ C > 0 /\ A > 0 /\ nameAt + C + 1 <= N /\ argsAt + A + 1 <= N
      /\ nameAt + C <= argsAt \/ argsAt + A = nameAt
  BY <1>w
<1>1. Texture = Chars \ {"nul"}
  BY DEF Texture
<1>2. name \in Seq(Chars \ {"nul"}) /\ args \in Seq(Chars \ {"nul"})
  BY <1>1
<1>3. argsAt + Len(args) + 1 <= N /\ nameAt + Len(name) + 1 <= N
  BY <1>w
<1>4. StringAt(frame, argsAt) = args
  BY <1>w, <1>2, <1>3, HeldString
<1>5. frame[argsAt + a + 1] = "nul" /\ once[nameAt + n + 1] = "nul"
  BY <1>w, <1>n, <1>a DEF Holds
<1>6. ASSUME NEW i \in 1 .. N, i <= argsAt \/ i > argsAt + (a + 1) PROVE frame[i] = once[i]
  BY <1>l, <1>6 DEF Kept
<1>7. ASSUME NEW k \in 1 .. n PROVE once[nameAt + k] = name[k] /\ name[k] # "nul"
  BY <1>w, <1>n, <1>2 DEF Holds
<1>8. CASE nameAt + C <= argsAt \/ a < A
  <2>1. ASSUME NEW k \in 1 .. n PROVE frame[nameAt + k] = name[k] /\ name[k] # "nul"
    <3>1. nameAt + k \in 1 .. N
      BY <1>0, <1>l, <1>n, <1>a
    <3>2. nameAt + k <= argsAt \/ nameAt + k > argsAt + (a + 1)
      BY <1>0, <1>l, <1>n, <1>a, <1>8
    <3> QED BY <1>6, <1>7, <3>1, <3>2
  <2>2. CASE n < C
    <3>1. nameAt + n + 1 \in 1 .. N
      BY <1>0, <1>l, <1>n, <1>a
    <3>2. nameAt + n + 1 <= argsAt \/ nameAt + n + 1 > argsAt + (a + 1)
      BY <1>0, <1>l, <1>n, <1>a, <1>8, <2>2
    <3>3. frame[nameAt + n + 1] = "nul"
      BY <1>5, <1>6, <3>1, <3>2
    <3>4. Holds(frame, nameAt, name)
      BY <1>n, <2>1, <3>3 DEF Holds
    <3>5. StringAt(frame, nameAt) = name
      BY <1>2, <1>3, <3>4, HeldString
    <3>6. n # C /\ (argsAt + A = nameAt => a # A)
      BY <1>0, <1>l, <1>n, <1>a, <1>8, <2>2
    <3> QED BY <1>n, <1>a, <1>4, <3>5, <3>6
  <2>3. CASE n = C
    <3>1. Goes(frame, nameAt, n)
      BY <2>1 DEF Goes
    <3>2. PICK m \in nameAt + 1 .. N : frame[m] = "nul"
      <4>1. CASE argsAt + A = nameAt /\ a < A
        <5>1. nameAt + n + 1 \in 1 .. N /\ nameAt + n + 1 > argsAt + (a + 1)
          BY <1>0, <1>l, <1>n, <1>a, <4>1
        <5>2. frame[nameAt + n + 1] = "nul"
          BY <1>5, <1>6, <5>1
        <5> QED BY <5>1, <5>2
      <4>2. CASE nameAt + C <= argsAt
        <5>1. argsAt + a + 1 \in nameAt + 1 .. N
          BY <1>0, <1>l, <1>n, <1>a, <4>2
        <5> QED BY <1>5, <5>1
      <4> QED BY <1>0, <1>l, <1>n, <1>a, <1>8, <4>1, <4>2
    <3>3. nameAt + n + 1 <= N
      BY <1>0, <1>l, <1>n, <1>a
    <3>4. Len(StringAt(frame, nameAt)) >= n
      BY <3>1, <3>2, <3>3, LongString
    <3>5. ~(n < C) /\ (argsAt + A = nameAt => a # A)
      BY <1>0, <1>l, <1>n, <1>a, <1>8, <2>3
    <3> QED BY <1>n, <1>a, <1>4, <2>3, <3>4, <3>5
  <2> QED BY <1>0, <1>l, <1>n, <1>a, <2>2, <2>3
\* The argument's "nul" is the first byte of the name.
<1>9. CASE argsAt + A = nameAt /\ a = A
  <2>1. nameAt + 0 + 1 <= N /\ nameAt + 0 + 1 = argsAt + a + 1
    BY <1>0, <1>l, <1>n, <1>a, <1>9
  <2>2. frame[nameAt + 0 + 1] = "nul" /\ Goes(frame, nameAt, 0)
    BY <1>5, <2>1 DEF Goes
  <2>3. Len(StringAt(frame, nameAt)) = 0
    BY <2>1, <2>2, StringAtIs
  <2>4. ~(nameAt + C <= argsAt \/ a < A)
    BY <1>0, <1>l, <1>n, <1>a, <1>9
  <2> QED BY <1>n, <1>a, <1>4, <2>3, <2>4
<1> QED BY <1>0, <1>l, <1>n, <1>a, <1>8, <1>9

\* The same of execute's arrays.
LEMMA ParsedStrings ==
  ASSUME layout \in Layouts, NEW name \in Seq(Texture), NEW args \in Seq(Texture),
         NEW n \in Nat, NEW a \in Nat, n = Len(name), a = Len(args),
         n <= COMMAND_NAME_SZ, a <= COMMAND_ARG_SZ,
         NEW frame, frame = Strcpy(Strcpy(Frame, NameAt, name), ArgsAt, args)
  PROVE  /\ StringAt(frame, ArgsAt) = args
         /\ n < COMMAND_NAME_SZ /\ (layout # "args_first" \/ a < COMMAND_ARG_SZ)
              => StringAt(frame, NameAt) = name
         /\ layout = "args_first" /\ a = COMMAND_ARG_SZ => Len(StringAt(frame, NameAt)) = 0
         /\ n = COMMAND_NAME_SZ =>
              Len(StringAt(frame, NameAt)) = 0 \/ Len(StringAt(frame, NameAt)) >= COMMAND_NAME_SZ
<1> DEFINE N == COMMAND_NAME_SZ + COMMAND_ARG_SZ + 2
           once == Strcpy(Frame, NameAt, name)
<1>1. N \in Nat
  BY ArraySizes
<1>2. Frame \in [1 .. N -> Chars]
  BY <1>1 DEF Frame, Fill, Chars
<1>0. /\ COMMAND_NAME_SZ \in Nat /\ COMMAND_NAME_SZ > 0 /\ COMMAND_ARG_SZ \in Nat /\ COMMAND_ARG_SZ > 0
  BY ArraySizes
<1>3. /\ NameAt \in Nat /\ ArgsAt \in Nat
      /\ \/ NameAt = 0 /\ ArgsAt = COMMAND_NAME_SZ + 1
         \/ NameAt = 0 /\ ArgsAt = COMMAND_NAME_SZ
         \/ NameAt = COMMAND_ARG_SZ /\ ArgsAt = 0
      /\ layout # "args_first" => NameAt = 0 /\ (ArgsAt = COMMAND_NAME_SZ \/ ArgsAt = COMMAND_NAME_SZ + 1)
      /\ layout = "args_first" => NameAt = COMMAND_ARG_SZ /\ ArgsAt = 0
  <2>1. CASE layout = "apart"
    <3>1. NameAt = 0 /\ ArgsAt = COMMAND_NAME_SZ + 1
      BY <2>1, Places
    <3>2. COMMAND_NAME_SZ + 1 \in Nat /\ 0 \in Nat /\ layout # "args_first"
      BY <1>0, <2>1
    <3> QED BY ONLY <3>1, <3>2
  <2>2. CASE layout = "name_first"
    <3>1. NameAt = 0 /\ ArgsAt = COMMAND_NAME_SZ
      BY <2>2, Places
    <3>2. 0 \in Nat /\ layout # "args_first"
      BY <2>2
    <3> QED BY ONLY <1>0, <3>1, <3>2
  <2>3. CASE layout = "args_first"
    <3>1. NameAt = COMMAND_ARG_SZ /\ ArgsAt = 0
      BY <2>3, Places
    <3>2. 0 \in Nat /\ layout = "args_first"
      BY <2>3
    <3> QED BY ONLY <1>0, <3>1, <3>2
  <2> QED BY <2>1, <2>2, <2>3, Places
<1>4. name \in Seq(Chars) /\ args \in Seq(Chars) /\ "nul" \in Chars
  BY DEF Texture, Chars
<1>5. PICK C \in Nat : C = COMMAND_NAME_SZ
  BY <1>0
<1>6. PICK A \in Nat : A = COMMAND_ARG_SZ
  BY <1>0
<1>7. PICK p \in Nat : p = NameAt
  BY <1>3
<1>8. PICK q \in Nat : q = ArgsAt
  BY <1>3
<1>9. PICK M \in Nat : M = N
  BY <1>1
<1>10. M = C + A + 2
  BY <1>5, <1>6, <1>9
<1> HIDE DEF N
<1>11. C > 0 /\ A > 0 /\ n <= C /\ a <= A
  BY <1>0, <1>5, <1>6
<1>11a. Len(name) <= C /\ Len(args) <= A
  BY <1>11
<1>12. /\ layout # "args_first" => p = 0 /\ (q = C \/ q = C + 1)
       /\ layout = "args_first" => p = A /\ q = 0
  BY <1>3, <1>5, <1>6, <1>7, <1>8
<1>13. (p = 0 /\ (q = C \/ q = C + 1)) \/ (p = A /\ q = 0)
  BY <1>12
<1>14. p + C + 1 <= M /\ q + A + 1 <= M /\ p + n + 1 <= M /\ q + a + 1 <= M
  BY ONLY <1>10, <1>11, <1>13, n \in Nat, a \in Nat
<1>15. p + C <= q \/ q + A = p
  BY ONLY <1>13
<1>16. ASSUME layout # "args_first" PROVE p + C <= q
  <2>1. p = 0 /\ (q = C \/ q = C + 1)
    BY <1>12, <1>16
  <2> QED BY ONLY <2>1
<1>16a. ASSUME layout = "args_first" PROVE q + A = p
  <2>1. p = A /\ q = 0
    BY <1>12, <1>16a
  <2> QED BY ONLY <2>1
<1>17. once \in [1 .. M -> Chars] /\ Holds(once, p, name)
  <2>1. Frame \in [1 .. M -> Chars] /\ once = Strcpy(Frame, p, name) /\ p + Len(name) + 1 <= M
    BY <1>2, <1>7, <1>9, <1>14
  <2> QED BY ONLY <1>4, <2>1, StrcpyHolds
<1>18. /\ frame \in [1 .. M -> Chars] /\ Holds(frame, q, args)
       /\ Kept(frame, once, M, q, Len(args) + 1)
  <2>1. frame = Strcpy(once, q, args) /\ q + Len(args) + 1 <= M
    BY <1>8, <1>14
  <2> HIDE DEF once
  <2> QED BY ONLY <1>4, <1>17, <2>1, StrcpyHolds
<1> HIDE DEF once
<1>19. Kept(frame, once, M, q, Len(args) + 1)
  BY <1>18
<1>20. n \in Nat /\ a \in Nat /\ n = Len(name) /\ a = Len(args) /\ name \in Seq(Texture) /\ args \in Seq(Texture)
  OBVIOUS
<1>22. Written(frame, once, M, C, p, A, q, name, args)
  BY ONLY <1>11, <1>11a, <1>14, <1>15, <1>17, <1>18, <1>19 DEF Written
<1>23. M \in Nat /\ C \in Nat /\ A \in Nat /\ p \in Nat /\ q \in Nat
  OBVIOUS
<1>24. ReadAgain(frame, C, p, A, q, name, args)
  BY ONLY <1>17, <1>18, <1>20, <1>22, <1>23, TwoStrings
<1>25. /\ StringAt(frame, q) = args
       /\ n < C /\ (p + C <= q \/ a < A) => StringAt(frame, p) = name
       /\ q + A = p /\ a = A => Len(StringAt(frame, p)) = 0
       /\ n = C => Len(StringAt(frame, p)) = 0 \/ Len(StringAt(frame, p)) >= C
  BY ONLY <1>20, <1>24 DEF ReadAgain
<1> QED BY ONLY <1>5, <1>6, <1>7, <1>8, <1>16, <1>16a, <1>25

-----------------------------------------------------------------------------
(* The words of a line, and what parse_command finds in the shell's buffer *)

\* n bytes from base on are a word of what is typed.
IsWord(typed, base, n) ==
    /\ base + n <= Len(typed)
    /\ base + n = Len(typed) \/ typed[base + n + 1] = "sp"
    /\ \A k \in 1 .. n : typed[base + k] # "sp"

LEMMA WordExists ==
  ASSUME NEW S, NEW typed \in Seq(S), NEW base \in Nat, base <= Len(typed)
  PROVE  \E n \in Nat : IsWord(typed, base, n)
<1>1. PICK L \in Nat : L = Len(typed)
  OBVIOUS
<1> DEFINE Ends == {n \in Nat : base + n <= L /\ (base + n = L \/ typed[base + n + 1] = "sp")}
<1>2. L - base \in Ends
  BY <1>1
<1>3. PICK n \in Ends : \A m \in Ends : n <= m
  BY <1>2, LeastNatural
<1>4. n \in Nat /\ base + n <= L /\ (base + n = L \/ typed[base + n + 1] = "sp")
  OBVIOUS
<1>5. ASSUME NEW k \in 1 .. n PROVE typed[base + k] # "sp"
  <2>1. k - 1 \in Nat /\ base + (k - 1) + 1 = base + k /\ base + (k - 1) <= L /\ ~(n <= k - 1)
    BY <1>4
  <2>2. k - 1 \notin Ends
    <3> HIDE DEF Ends
    <3> QED BY <1>3, <2>1
  <2> QED BY <2>1, <2>2
<1> QED BY <1>1, <1>4, <1>5 DEF IsWord

LEMMA WordIs ==
  ASSUME NEW S, NEW typed \in Seq(S), NEW base \in Nat, NEW n \in Nat, IsWord(typed, base, n)
  PROVE  WordAt(typed, base + 1) = SubSeq(typed, base + 1, base + n)
<1>1. PICK L \in Nat : L = Len(typed)
  OBVIOUS
<1> DEFINE ends == {e \in base + 1 .. L + 1 : e = L + 1 \/ typed[e] = "sp"}
           end == CHOOSE e \in ends : \A d \in ends : e <= d
<1>2. base + n <= L /\ (base + n = L \/ typed[base + n + 1] = "sp")
  BY <1>1 DEF IsWord
<1>3. base + n + 1 \in ends
  BY <1>2
<1>4. ASSUME NEW e \in ends PROVE base + n + 1 <= e
  <2>1. CASE e < base + n + 1
    <3>1. PICK k \in 1 .. n : e = base + k
      <4>1. e - base \in 1 .. n /\ e = base + (e - base)
        BY <2>1
      <4> QED BY <4>1
    <3>2. typed[e] # "sp"
      BY <3>1 DEF IsWord
    <3>3. e # L + 1
      BY <1>2, <2>1
    <3> QED BY <3>2, <3>3
  <2> QED BY <2>1
<1>5. \A e \in ends : e \in Nat
  OBVIOUS
<1> HIDE DEF ends
<1>6. end = base + n + 1
  <2>1. \A e \in ends : (\A d \in ends : e <= d) => e = base + n + 1
    BY <1>3, <1>4, <1>5
  <2> QED BY <1>3, <1>4, <2>1
<1>7. WordAt(typed, base + 1) = SubSeq(typed, base + 1, end - 1)
  BY <1>1 DEF WordAt, ends
<1> HIDE DEF end
<1>8. base + n + 1 - 1 = base + n
  OBVIOUS
<1> QED BY <1>6, <1>7, <1>8

\* The least index of some.
LEMMA LeastIs ==
  ASSUME NEW S \in SUBSET Nat, NEW n \in S, \A m \in S : n <= m
  PROVE  (CHOOSE i \in S : \A j \in S : i <= j) = n
<1>1. \A i \in S : (\A j \in S : i <= j) => i = n
  OBVIOUS
<1> QED BY <1>1

\* Where the word behind the first n bytes begins, if one does.
IsStart(typed, n, from) ==
    /\ from \in n .. Len(typed) - 1 /\ typed[from + 1] # "sp"
    /\ \A k \in n + 1 .. from : typed[k] = "sp"

Spaces(typed, n) == \A k \in n + 1 .. Len(typed) : typed[k] = "sp"

LEMMA SecondWordIs ==
  ASSUME NEW S, line \in Seq(S), NEW n \in Nat, n = Len(FirstWord)
  PROVE  /\ \A from \in Nat : IsStart(line, n, from) => SecondWord = WordAt(line, from + 1)
         /\ Spaces(line, n) => SecondWord = <<>>
<1>1. PICK L \in Nat : L = Len(line)
  OBVIOUS
<1> DEFINE starts == {i \in n + 1 .. L : line[i] # "sp"}
<1>2. SecondWord = IF starts = {} THEN <<>> ELSE WordAt(line, CHOOSE i \in starts : \A j \in starts : i <= j)
  BY <1>1 DEF SecondWord, SecondStarts, SecondAt
<1>3. ASSUME NEW from \in Nat, IsStart(line, n, from) PROVE SecondWord = WordAt(line, from + 1)
  <2>1. from + 1 \in starts
    BY <1>1, <1>3 DEF IsStart
  <2>2. ASSUME NEW j \in starts PROVE from + 1 <= j
    BY <1>1, <1>3 DEF IsStart
  <2>3. starts \in SUBSET Nat
    OBVIOUS
  <2> HIDE DEF starts
  <2> QED BY <1>2, <2>1, <2>2, <2>3, LeastIs
<1>4. ASSUME Spaces(line, n) PROVE SecondWord = <<>>
  BY <1>1, <1>2, <1>4 DEF Spaces
<1> QED BY <1>3, <1>4

\* A span ends at its limit or before one of stops.
LEMMA SpanEnds ==
  ASSUME NEW array, NEW base \in Nat, NEW stops, NEW limit \in Nat
  PROVE  \E n \in Nat : /\ Span(array, base, stops, limit) = n
                        /\ n <= limit
                        /\ n = limit \/ array[base + n + 1] \in stops
                        /\ \A k \in 1 .. n : array[base + k] \notin stops
<1> DEFINE Ends == {n \in Nat : n = limit \/ array[base + n + 1] \in stops}
<1>1. limit \in Ends
  OBVIOUS
<1>2. PICK n \in Ends : \A m \in Ends : n <= m
  BY <1>1, LeastNatural
<1>3. n \in Nat /\ (n = limit \/ array[base + n + 1] \in stops)
  OBVIOUS
<1> HIDE DEF Ends
<1>4. n <= limit
  BY <1>1, <1>2
<1>5. ASSUME NEW k \in 1 .. n PROVE array[base + k] \notin stops
  <2>1. k - 1 \in Nat /\ base + (k - 1) + 1 = base + k /\ ~(n <= k - 1)
    BY <1>3
  <2>2. k - 1 \notin Ends
    BY <1>2, <2>1
  <2> QED BY <2>1, <2>2 DEF Ends
<1>6. n \in 0 .. limit
  BY <1>3, <1>4
<1>7. Span(array, base, stops, limit) = n
  BY <1>3, <1>5, <1>6, SpanIs
<1> QED BY <1>3, <1>4, <1>5, <1>7

\* A span ends at the latest at a byte that is one of stops.
LEMMA SpanWithin ==
  ASSUME NEW array, NEW base \in Nat, NEW stops, NEW limit \in Nat, NEW stop \in Nat,
         base < stop, array[stop] \in stops
  PROVE  \E n \in Nat : /\ Span(array, base, stops, limit) = n
                        /\ n <= limit /\ base + n < stop
                        /\ n = limit \/ array[base + n + 1] \in stops
                        /\ \A k \in 1 .. n : array[base + k] \notin stops
<1>1. PICK n \in Nat : /\ Span(array, base, stops, limit) = n
                       /\ n <= limit
                       /\ n = limit \/ array[base + n + 1] \in stops
                       /\ \A k \in 1 .. n : array[base + k] \notin stops
  BY SpanEnds
<1>2. CASE stop <= base + n
  <2>1. stop - base \in 1 .. n /\ base + (stop - base) = stop
    BY <1>2
  <2> QED BY <1>1, <2>1
<1>3. stop <= base + n \/ base + n < stop
  OBVIOUS
<1> QED BY <1>1, <1>2, <1>3

\* Behind a name is a byte that is no space, at the latest at stop.
LEMMA ArgsStartIs ==
  ASSUME NEW S, NEW command \in Seq(S), NEW name \in Nat, NEW from \in Nat,
         name + 1 <= from, from <= Len(command) - 1, command[from + 1] # "sp",
         \A k \in name + 2 .. from : command[k] = "sp"
  PROVE  ArgsStart(command, name) = from
<1>1. PICK M \in Nat : M = Len(command)
  OBVIOUS
<1> DEFINE Starts(n) == command[n + 1] # "sp" /\ \A k \in name + 2 .. n : command[k] = "sp"
<1>2. from \in name + 1 .. M - 1 /\ Starts(from)
  BY <1>1
<1>3. ASSUME NEW n \in name + 1 .. M - 1, Starts(n) PROVE n = from
  <2>1. CASE n < from
    <3>1. n + 1 \in name + 2 .. from
      BY <2>1
    <3> QED BY <1>3, <3>1
  <2>2. CASE from < n
    <3>1. from + 1 \in name + 2 .. n
      BY <2>2
    <3> QED BY <1>2, <1>3, <3>1
  <2> QED BY <2>1, <2>2
<1> HIDE DEF Starts
<1>4. (CHOOSE n \in name + 1 .. M - 1 : Starts(n)) = from
  BY <1>2, <1>3
<1> QED BY <1>1, <1>4 DEF ArgsStart, Starts

LEMMA StartWithin ==
  ASSUME NEW S, NEW command \in Seq(S), NEW name \in Nat, NEW stop \in Nat,
         name + 2 <= stop, stop <= Len(command), command[stop] # "sp"
  PROVE  \E from \in Nat : /\ ArgsStart(command, name) = from
                           /\ name + 1 <= from /\ from < stop /\ command[from + 1] # "sp"
                           /\ \A k \in name + 2 .. from : command[k] = "sp"
<1>1. PICK M \in Nat : M = Len(command)
  OBVIOUS
<1> DEFINE Starts == {n \in Nat : name + 1 <= n /\ command[n + 1] # "sp"}
<1>2. stop - 1 \in Starts
  <2>1. stop - 1 + 1 = stop /\ stop - 1 \in Nat /\ name + 1 <= stop - 1
    OBVIOUS
  <2> QED BY <2>1
<1>3. PICK from \in Starts : \A m \in Starts : from <= m
  BY <1>2, LeastNatural
<1>4. from \in Nat /\ name + 1 <= from /\ command[from + 1] # "sp"
  OBVIOUS
<1> HIDE DEF Starts
<1>5. from <= stop - 1
  BY <1>2, <1>3
<1>6. ASSUME NEW k \in name + 2 .. from PROVE command[k] = "sp"
  <2>1. k - 1 \in Nat /\ k - 1 + 1 = k /\ name + 1 <= k - 1 /\ ~(from <= k - 1)
    BY <1>4
  <2>2. k - 1 \notin Starts
    BY <1>3, <2>1
  <2> QED BY <2>1, <2>2 DEF Starts
<1>7. from < stop /\ from <= M - 1
  BY <1>1, <1>4, <1>5
<1>8. ArgsStart(command, name) = from
  BY <1>1, <1>4, <1>6, <1>7, ArgsStartIs
<1> QED BY <1>4, <1>6, <1>7, <1>8

\* What the shell passes to execute: the line typed and two "nul"s, and behind
\* them what is left of other lines.
BufferHolds ==
    /\ buf \in [1 .. LINE_SZ + 2 -> Chars]
    /\ line \in Seq(Texture) /\ Len(line) <= LINE_SZ
    /\ \A k \in 1 .. Len(line) : buf[k] = line[k]
    /\ buf[Len(line) + 1] = "nul" /\ buf[Len(line) + 2] = "nul"

\* The first name bytes of the line go to the first array and args bytes behind
\* from to the second.
Divides(name, from, args) ==
    /\ name <= COMMAND_NAME_SZ /\ name <= Len(line)
    /\ \A k \in 1 .. name : line[k] # "sp"
    /\ name = COMMAND_NAME_SZ \/ name = Len(line) \/ line[name + 1] = "sp"
    /\ args <= COMMAND_ARG_SZ
    /\ name < COMMAND_NAME_SZ /\ name = Len(line) => args = 0
    /\ name < COMMAND_NAME_SZ /\ name < Len(line) =>
          /\ name + 1 <= from /\ from <= Len(line) /\ from + args <= Len(line)
          /\ \A k \in name + 1 .. from : line[k] = "sp"
          /\ from < Len(line) => line[from + 1] # "sp"
          /\ \A k \in 1 .. args : line[from + k] # "sp"
          /\ args = COMMAND_ARG_SZ \/ from + args = Len(line) \/ line[from + args + 1] = "sp"

\* n and a are those bytes.
Copies(n, a, name, from, args) ==
    /\ Len(n) = name /\ Len(a) = args
    /\ Same(n, line, 0, name)
    /\ from + args <= Len(line) => Same(a, line, from, args)

LEMMA Parse ==
  ASSUME BufferHolds
  PROVE  \E name, from, args \in Nat : \E n, a \in Seq(Texture) :
            /\ ParseCommand(buf) = Strcpy(Strcpy(Frame, NameAt, n), ArgsAt, a)
            /\ Divides(name, from, args)
            /\ Copies(n, a, name, from, args)
<1>1. PICK L \in Nat : L = Len(line)
  BY DEF BufferHolds
<1>2. PICK M \in Nat : M = LINE_SZ + 2
  BY ArraySizes
<1>3. PICK C \in Nat : C = COMMAND_NAME_SZ
  BY ArraySizes
<1>4. PICK A \in Nat : A = COMMAND_ARG_SZ
  BY ArraySizes
<1>5. /\ buf \in [1 .. M -> Chars] /\ L + 2 <= M /\ line \in Seq(Texture)
      /\ \A k \in 1 .. L : buf[k] = line[k]
      /\ buf[L + 1] = "nul" /\ buf[L + 2] = "nul"
  BY <1>1, <1>2, ArraySizes DEF BufferHolds
<1>6. buf \in Seq(Chars) /\ Len(buf) = M
  BY <1>5, Array
<1>7. Texture = Chars \ {"nul"}
  BY DEF Texture
<1>8. \A k \in 1 .. L : line[k] \in Texture /\ line[k] # "nul"
  BY <1>1, <1>5, <1>7
<1> DEFINE stops == {"sp", "nul"}
<1>9. PICK name \in Nat :
        /\ Span(buf, 0, stops, C) = name
        /\ name <= C /\ 0 + name < L + 1
        /\ name = C \/ buf[0 + name + 1] \in stops
        /\ \A k \in 1 .. name : buf[0 + k] \notin stops
  <2>1. 0 \in Nat /\ L + 1 \in Nat /\ 0 < L + 1 /\ buf[L + 1] \in stops
    BY <1>5
  <2> HIDE DEF stops
  <2> QED BY <2>1, SpanWithin
<1>10. /\ name <= L /\ (name = C \/ name = L \/ line[name + 1] = "sp")
       /\ \A k \in 1 .. name : line[k] # "sp"
  <2>1. name <= L
    BY <1>9
  <2>2. ASSUME name # C, name # L PROVE line[name + 1] = "sp"
    <3>1. name + 1 \in 1 .. L /\ 0 + name + 1 = name + 1
      BY <2>1, <2>2
    <3> QED BY <1>5, <1>8, <1>9, <2>2, <3>1
  <2>3. ASSUME NEW k \in 1 .. name PROVE line[k] # "sp"
    <3>1. k \in 1 .. L /\ 0 + k = k
      BY <2>1
    <3> QED BY <1>5, <1>9, <3>1
  <2> QED BY <2>1, <2>2, <2>3
<1>11. PICK stop \in Nat :
         /\ name + 2 <= stop /\ stop <= M /\ buf[stop] = "nul"
         /\ name < L => stop = L + 1
  <2>1. CASE name = L
    <3>1. L + 2 \in Nat /\ name + 2 <= L + 2 /\ ~(name < L)
      BY <2>1
    <3> QED BY <1>5, <3>1
  <2>2. CASE name < L
    <3>1. L + 1 \in Nat /\ name + 2 <= L + 1 /\ L + 1 <= M
      BY <1>5, <2>2
    <3> QED BY <1>5, <3>1
  <2> QED BY <1>10, <2>1, <2>2
<1>12. PICK from \in Nat :
         /\ ArgsStart(buf, name) = from
         /\ name + 1 <= from /\ from < stop /\ buf[from + 1] # "sp"
         /\ \A k \in name + 2 .. from : buf[k] = "sp"
  BY <1>6, <1>11, StartWithin
<1> DEFINE none == name < C /\ buf[name + 1] = "nul"
<1>13. none <=> (name < C /\ name = L)
  <2>1. CASE name = L
    BY <1>5, <2>1
  <2>2. CASE name < L
    <3>1. name + 1 \in 1 .. L
      BY <2>2
    <3> QED BY <1>5, <1>8, <2>2, <3>1
  <2> QED BY <1>10, <2>1, <2>2
<1>14. PICK args \in Nat :
         /\ args = IF none THEN 0 ELSE Span(buf, from, stops, A)
         /\ args <= A /\ from + args < stop
         /\ none \/ args = A \/ buf[from + args + 1] \in stops
         /\ \A k \in 1 .. args : buf[from + k] \notin stops
  <2>1. CASE none
    <3>1. 0 <= A /\ from + 0 < stop /\ 0 \in Nat
      BY <1>12
    <3> QED BY <2>1, <3>1
  <2>2. CASE ~none
    <3>1. buf[stop] \in stops /\ from < stop
      BY <1>11, <1>12
    <3> HIDE DEF stops, none
    <3>2. PICK args \in Nat : /\ Span(buf, from, stops, A) = args
                              /\ args <= A /\ from + args < stop
                              /\ args = A \/ buf[from + args + 1] \in stops
                              /\ \A k \in 1 .. args : buf[from + k] \notin stops
      BY <3>1, SpanWithin
    <3> QED BY <2>2, <3>2
  <2> QED BY <2>1, <2>2
<1> DEFINE n == SubSeq(buf, 1, name)
           a == SubSeq(buf, from + 1, from + args)
<1>15. ParseCommand(buf) = Strcpy(Strcpy(Frame, NameAt, n), ArgsAt, a)
  <2> HIDE DEF stops
  <2>1. NameLimit = C
    BY <1>3 DEF NameLimit
  <2> QED BY <1>4, <1>9, <1>12, <1>14, <2>1 DEF ParseCommand, stops
<1>16. 0 + 1 = 1 /\ name <= M /\ 0 <= name /\ name - 0 = name
  BY <1>5, <1>10
<1>17. n \in Seq(Chars) /\ Len(n) = name /\ \A k \in 1 .. name : n[k] = buf[k]
  <2>1. \A k \in 1 .. name : 0 + k = k
    OBVIOUS
  <2>2. /\ SubSeq(buf, 0 + 1, name) \in Seq(Chars) /\ Len(SubSeq(buf, 0 + 1, name)) = name - 0
        /\ \A k \in 1 .. name - 0 : SubSeq(buf, 0 + 1, name)[k] = buf[0 + k]
    BY <1>6, <1>16, Part
  <2> QED BY <1>16, <2>1, <2>2
<1>18. from <= from + args /\ from + args <= M /\ from + args - from = args /\ from + args \in Nat
  BY <1>11, <1>14
<1>19. a \in Seq(Chars) /\ Len(a) = args /\ \A k \in 1 .. args : a[k] = buf[from + k]
  <2> DEFINE to == from + args
  <2>1. to \in Nat /\ from <= to /\ to <= Len(buf) /\ to - from = args
    BY <1>6, <1>18
  <2>2. a = SubSeq(buf, from + 1, to)
    OBVIOUS
  <2> HIDE DEF to, a
  <2>3. /\ SubSeq(buf, from + 1, to) \in Seq(Chars) /\ Len(SubSeq(buf, from + 1, to)) = to - from
        /\ \A k \in 1 .. to - from : SubSeq(buf, from + 1, to)[k] = buf[from + k]
    BY ONLY <1>6, <2>1, from \in Nat, Part
  <2> QED BY <2>1, <2>2, <2>3
<1> HIDE DEF n, a
<1>20. \A k \in 1 .. name : k \in 1 .. L /\ n[k] = line[k] /\ n[k] \in Texture
  <2> TAKE k \in 1 .. name
  <2>1. k \in 1 .. L
    BY <1>10
  <2>2. n[k] = line[k]
    BY <1>5, <1>17, <2>1
  <2>3. line[k] \in Texture
    BY <1>8, <2>1
  <2> QED BY <2>1, <2>2, <2>3
<1>21. \A k \in 1 .. args : a[k] # "nul" /\ a[k] # "sp" /\ a[k] \in Chars
  <2> TAKE k \in 1 .. args
  <2>1. a[k] = buf[from + k] /\ buf[from + k] \notin stops
    BY <1>14, <1>19
  <2>2. a[k] \in Chars
    BY <1>19
  <2> QED BY <2>1, <2>2
<1>22. n \in Seq(Texture) /\ a \in Seq(Texture)
  <2>1. n \in [1 .. name -> Texture] /\ a \in [1 .. args -> Texture]
    BY <1>7, <1>17, <1>19, <1>20, <1>21
  <2> QED BY <2>1, Array
<1>23. Copies(n, a, name, from, args)
  <2>1. Same(n, line, 0, name)
    BY <1>20 DEF Same
  <2>2. ASSUME from + args <= L PROVE Same(a, line, from, args)
    <3>1. \A k \in 1 .. args : from + k \in 1 .. L
      BY <2>2
    <3> QED BY <1>5, <1>19, <3>1 DEF Same
  <2> QED BY <1>1, <1>17, <1>19, <2>1, <2>2 DEF Copies
<1>24. ASSUME name < C, name < L
       PROVE  /\ name + 1 <= from /\ from <= L /\ from + args <= L
              /\ \A k \in name + 1 .. from : line[k] = "sp"
              /\ from < L => line[from + 1] # "sp"
              /\ \A k \in 1 .. args : line[from + k] # "sp"
              /\ args = A \/ from + args = L \/ line[from + args + 1] = "sp"
  <2>1. stop = L + 1 /\ ~none
    BY <1>11, <1>13, <1>24
  <2>2. from <= L /\ from + args <= L
    BY <1>12, <1>14, <2>1
  <2>3. ASSUME NEW k \in name + 1 .. from PROVE line[k] = "sp"
    <3>1. CASE k = name + 1
      BY <1>10, <1>24, <3>1
    <3>2. CASE k # name + 1
      <4>1. k \in name + 2 .. from /\ k \in 1 .. L
        BY <2>2, <3>2
      <4> QED BY <1>5, <1>12, <4>1
    <3> QED BY <3>1, <3>2
  <2>4. ASSUME from < L PROVE line[from + 1] # "sp"
    <3>1. from + 1 \in 1 .. L
      BY <2>4
    <3> QED BY <1>5, <1>12, <3>1
  <2>5. ASSUME NEW k \in 1 .. args PROVE line[from + k] # "sp"
    <3>1. from + k \in 1 .. L
      BY <2>2
    <3> QED BY <1>5, <1>14, <3>1
  <2>6. ASSUME args # A, from + args # L PROVE line[from + args + 1] = "sp"
    <3>1. from + args + 1 \in 1 .. L
      BY <2>2, <2>6
    <3>2. buf[from + args + 1] \in stops
      BY <1>14, <2>1, <2>6
    <3> QED BY <1>5, <1>8, <3>1, <3>2
  <2> QED BY <1>12, <2>2, <2>3, <2>4, <2>5, <2>6
<1>25. ASSUME name < C, name = L PROVE args = 0
  BY <1>13, <1>14, <1>25
<1> HIDE DEF stops, none
<1>26. Divides(name, from, args)
  BY <1>1, <1>3, <1>4, <1>9, <1>10, <1>14, <1>24, <1>25 DEF Divides
<1> QED BY <1>15, <1>22, <1>23, <1>26

\* A word of n bytes.
LEMMA AWord ==
  ASSUME NEW S, NEW typed \in Seq(S), NEW base \in Nat, NEW n \in Nat, IsWord(typed, base, n)
  PROVE  /\ WordAt(typed, base + 1) \in Seq(S) /\ Len(WordAt(typed, base + 1)) = n
         /\ Same(WordAt(typed, base + 1), typed, base, n)
<1>1. WordAt(typed, base + 1) = SubSeq(typed, base + 1, base + n)
  BY WordIs
<1>2. PICK to \in Nat : to = base + n
  OBVIOUS
<1>3. base <= to /\ to <= Len(typed) /\ to - base = n
  BY <1>2 DEF IsWord
<1>4. /\ SubSeq(typed, base + 1, to) \in Seq(S) /\ Len(SubSeq(typed, base + 1, to)) = to - base
      /\ \A k \in 1 .. to - base : SubSeq(typed, base + 1, to)[k] = typed[base + k]
  BY ONLY <1>3, typed \in Seq(S), base \in Nat, to \in Nat, Part
<1>5. WordAt(typed, base + 1) = SubSeq(typed, base + 1, to)
  BY <1>1, <1>2
<1> QED BY <1>3, <1>4, <1>5 DEF Same

\* The word there is no shorter than bytes that are no spaces.
LEMMA WordAtLeast ==
  ASSUME NEW S, NEW typed \in Seq(S), NEW base \in Nat, NEW n \in Nat, base + n <= Len(typed),
         \A k \in 1 .. n : typed[base + k] # "sp"
  PROVE  \E m \in Nat : IsWord(typed, base, m) /\ m >= n
<1>1. PICK m \in Nat : IsWord(typed, base, m)
  BY WordExists
<1>2. CASE m < n
  <2>1. m + 1 \in 1 .. n /\ base + (m + 1) = base + m + 1 /\ base + m # Len(typed)
    BY <1>2
  <2> QED BY <1>1, <2>1 DEF IsWord
<1> QED BY <1>1, <1>2

LEMMA WordsAre ==
  ASSUME line \in Seq(Texture)
  PROVE  FirstWord \in Seq(Texture) /\ SecondWord \in Seq(Texture)
<1>1. PICK L \in Nat : L = Len(line)
  OBVIOUS
<1>4. line \in Seq(Texture)
  OBVIOUS
<1>7. 0 \in Nat /\ 0 + 1 = 1 /\ 0 <= Len(line)
  OBVIOUS
<1>8. FirstWord = WordAt(line, 0 + 1)
  BY <1>7 DEF FirstWord
<1>9. PICK m \in Nat : IsWord(line, 0, m)
  BY <1>4, <1>7, WordExists
<1>10. FirstWord \in Seq(Texture) /\ Len(FirstWord) = m
  <2>1. WordAt(line, 0 + 1) \in Seq(Texture) /\ Len(WordAt(line, 0 + 1)) = m
    BY ONLY <1>4, <1>7, <1>9, m \in Nat, AWord
  <2> QED BY <1>8, <2>1
<1>12. SecondWord \in Seq(Texture)
  <2>1. m <= L
    BY <1>1, <1>9 DEF IsWord
  <2>2. CASE \A k \in m + 1 .. L : line[k] = "sp"
    <3>1. Spaces(line, m)
      BY <1>1, <2>2 DEF Spaces
    <3>2. SecondWord = <<>>
      BY <1>4, <1>10, <3>1, SecondWordIs
    <3> QED BY <3>2
  <2>3. CASE \E k \in m + 1 .. L : line[k] # "sp"
    <3> DEFINE Starts == {f \in Nat : f >= m /\ f + 1 <= L /\ line[f + 1] # "sp"}
    <3>1. PICK k \in m + 1 .. L : line[k] # "sp"
      BY <2>3
    <3>2. k - 1 \in Starts
      <4>1. k - 1 + 1 = k /\ k - 1 \in Nat /\ k - 1 >= m
        OBVIOUS
      <4> QED BY <3>1, <4>1
    <3>3. PICK f \in Starts : \A g \in Starts : f <= g
      BY <3>2, LeastNatural
    <3>4. f \in Nat /\ f >= m /\ f + 1 <= L /\ line[f + 1] # "sp"
      OBVIOUS
    <3>5. ASSUME NEW j \in m + 1 .. f PROVE line[j] = "sp"
      <4>1. j - 1 \in Nat /\ j - 1 + 1 = j /\ j - 1 >= m /\ j <= L /\ ~(f <= j - 1)
        BY <3>4
      <4>2. j - 1 \notin Starts
        <5> HIDE DEF Starts
        <5> QED BY <3>3, <4>1
      <4> QED BY <4>1, <4>2
    <3>6. IsStart(line, m, f)
      BY <1>1, <3>4, <3>5 DEF IsStart
    <3>7. SecondWord = WordAt(line, f + 1)
      BY <1>4, <1>10, <3>4, <3>6, SecondWordIs
    <3>8. PICK w \in Nat : IsWord(line, f, w)
      <4>1. f <= Len(line)
        BY <1>1, <3>4
      <4> QED BY <1>4, <3>4, <4>1, WordExists
    <3> QED BY <1>4, <3>4, <3>7, <3>8, AWord
  <2> QED BY <2>2, <2>3
<1> QED BY <1>10, <1>12

\* The bytes are the line's words, if the first one fits.
LEMMA DividedWords ==
  ASSUME BufferHolds, NEW name \in Nat, NEW from \in Nat, NEW args \in Nat,
         NEW n \in Seq(Texture), NEW a \in Seq(Texture),
         Divides(name, from, args), Copies(n, a, name, from, args)
  PROVE  /\ FirstWord \in Seq(Texture) /\ SecondWord \in Seq(Texture)
         /\ name < COMMAND_NAME_SZ =>
              /\ n = FirstWord /\ a = Cut(SecondWord, COMMAND_ARG_SZ)
              /\ args = COMMAND_ARG_SZ <=> Len(SecondWord) >= COMMAND_ARG_SZ
         /\ name = COMMAND_NAME_SZ => Len(FirstWord) >= COMMAND_NAME_SZ
<1>1. PICK L \in Nat : L = Len(line)
  BY DEF BufferHolds
<1>2. PICK C \in Nat : C = COMMAND_NAME_SZ
  BY ArraySizes
<1>3. PICK A \in Nat : A = COMMAND_ARG_SZ /\ A > 0
  BY ArraySizes
<1>4. line \in Seq(Texture)
  BY DEF BufferHolds
<1>5. /\ name <= C /\ name <= L /\ \A k \in 1 .. name : line[k] # "sp"
      /\ name = C \/ name = L \/ line[name + 1] = "sp"
      /\ args <= A
      /\ name < C /\ name = L => args = 0
      /\ name < C /\ name < L =>
          /\ name + 1 <= from /\ from <= L /\ from + args <= L
          /\ \A k \in name + 1 .. from : line[k] = "sp"
          /\ from < L => line[from + 1] # "sp"
          /\ \A k \in 1 .. args : line[from + k] # "sp"
          /\ args = A \/ from + args = L \/ line[from + args + 1] = "sp"
  BY <1>1, <1>2, <1>3 DEF Divides
<1>6. /\ Len(n) = name /\ Len(a) = args /\ \A k \in 1 .. name : n[k] = line[0 + k]
      /\ from + args <= L => \A k \in 1 .. args : a[k] = line[from + k]
  BY <1>1 DEF Copies, Same
<1>7. 0 \in Nat /\ 0 + 1 = 1 /\ 0 + name = name /\ \A k \in 1 .. name : 0 + k = k
  OBVIOUS
<1>8. FirstWord = WordAt(line, 0 + 1)
  BY <1>7 DEF FirstWord
<1>9. PICK m \in Nat : IsWord(line, 0, m) /\ m >= name
  BY <1>1, <1>4, <1>5, <1>7, WordAtLeast
<1>10. /\ FirstWord \in Seq(Texture) /\ Len(FirstWord) = m
       /\ \A k \in 1 .. m : FirstWord[k] = line[0 + k]
  <2>1. /\ WordAt(line, 0 + 1) \in Seq(Texture) /\ Len(WordAt(line, 0 + 1)) = m
        /\ Same(WordAt(line, 0 + 1), line, 0, m)
    BY ONLY <1>4, <1>7, <1>9, m \in Nat, AWord
  <2> QED BY <1>8, <2>1 DEF Same
<1>11. ASSUME name < C PROVE n = FirstWord /\ m = name
  <2>1. CASE name < m
    <3>1. name + 1 \in 1 .. m /\ 0 + (name + 1) = name + 1 /\ m <= L
      BY <1>1, <1>9, <2>1 DEF IsWord
    <3>2. line[name + 1] = "sp"
      BY <1>5, <1>11, <2>1, <3>1
    <3> QED BY <1>9, <3>1, <3>2 DEF IsWord
  <2>2. CASE m = name
    BY <1>6, <1>10, <2>2, SameSeq
  <2> QED BY <1>9, <2>1, <2>2
<1>12. SecondWord \in Seq(Texture)
  BY <1>4, WordsAre
<1>13. ASSUME name < C PROVE a = Cut(SecondWord, A) /\ (args = A <=> Len(SecondWord) >= A)
  <2>1. name = Len(FirstWord)
    BY <1>10, <1>11, <1>13
  <2>2. CASE name = L
    <3>1. args = 0 /\ a = <<>>
      BY <1>5, <1>6, <1>13, <2>2
    <3>2. Spaces(line, name)
      BY <1>1, <2>2 DEF Spaces
    <3>3. SecondWord = <<>>
      BY <1>4, <2>1, <3>2, SecondWordIs
    <3> QED BY <1>3, <3>1, <3>3 DEF Cut
  <2>3. CASE name < L /\ from = L
    <3>1. args = 0 /\ a = <<>>
      BY <1>5, <1>6, <1>13, <2>3
    <3>2. Spaces(line, name)
      BY <1>1, <1>5, <1>13, <2>3 DEF Spaces
    <3>3. SecondWord = <<>>
      BY <1>4, <2>1, <3>2, SecondWordIs
    <3> QED BY <1>3, <3>1, <3>3 DEF Cut
  <2>4. CASE name < L /\ from < L
    <3>1. /\ name + 1 <= from /\ from + args <= L
          /\ \A k \in name + 1 .. from : line[k] = "sp"
          /\ line[from + 1] # "sp"
          /\ \A k \in 1 .. args : line[from + k] # "sp"
          /\ args = A \/ from + args = L \/ line[from + args + 1] = "sp"
      BY <1>5, <1>13, <2>4
    <3>2. IsStart(line, name, from)
      BY <1>1, <2>4, <3>1 DEF IsStart
    <3>3. SecondWord = WordAt(line, from + 1)
      BY <1>4, <2>1, <3>2, SecondWordIs
    <3>4. from + args <= Len(line)
      BY <1>1, <3>1
    <3>5. PICK w \in Nat : IsWord(line, from, w) /\ w >= args
      BY <1>4, <3>1, <3>4, WordAtLeast
    <3>6. Len(SecondWord) = w /\ Same(SecondWord, line, from, w)
      BY <1>4, <3>3, <3>5, AWord
    <3>7. w = args \/ args = A
      <4>1. CASE args < w /\ args # A
        <5>1. args + 1 \in 1 .. w /\ from + (args + 1) = from + args + 1 /\ from + w <= L
          BY <1>1, <3>5, <4>1 DEF IsWord
        <5>2. line[from + args + 1] = "sp"
          BY <3>1, <4>1, <5>1
        <5> QED BY <3>5, <5>1, <5>2 DEF IsWord
      <4> QED BY <3>5, <4>1
    <3>8. args = A <=> w >= A
      BY <1>3, <1>5, <3>5, <3>7
    <3>9. args = IF w < A THEN w ELSE A
      BY <1>3, <1>5, <3>5, <3>7
    <3>10. Cut(SecondWord, A) = SubSeq(SecondWord, 1, args)
      BY <3>6, <3>9 DEF Cut
    <3>11. \A k \in 1 .. args : SecondWord[k] = line[from + k]
      BY <3>5, <3>6 DEF Same
    <3>12. a = SubSeq(SecondWord, 1, args)
      <4>1. /\ SubSeq(SecondWord, 0 + 1, args) \in Seq(Texture) /\ Len(SubSeq(SecondWord, 0 + 1, args)) = args - 0
            /\ \A k \in 1 .. args - 0 : SubSeq(SecondWord, 0 + 1, args)[k] = SecondWord[0 + k]
        <5>1. 0 <= args /\ args <= Len(SecondWord)
          BY <3>5, <3>6
        <5> QED BY ONLY <1>7, <1>12, <5>1, args \in Nat, Part
      <4>2. 0 + 1 = 1 /\ args - 0 = args /\ \A k \in 1 .. args : 0 + k = k
        OBVIOUS
      <4>3. \A k \in 1 .. args : a[k] = SubSeq(SecondWord, 1, args)[k]
        BY <1>6, <3>1, <3>11, <4>1, <4>2
      <4>4. SubSeq(SecondWord, 1, args) \in Seq(Texture) /\ Len(SubSeq(SecondWord, 1, args)) = args
        BY <4>1, <4>2
      <4> QED BY <1>6, <4>3, <4>4, SameSeq
    <3> QED BY <3>6, <3>8, <3>10, <3>12
  <2> QED BY <1>5, <1>13, <2>2, <2>3, <2>4
<1> QED BY <1>2, <1>3, <1>9, <1>10, <1>11, <1>12, <1>13

\* The strings that execute() finds in its arrays: of a first word that fits, the
\* words, unless the argument's "nul" is written to the name.
LEMMA Parsed ==
  ASSUME BufferHolds, layout \in Layouts,
         NEW frame, frame = ParseCommand(buf)
  PROVE  /\ FirstWord \in Seq(Texture) /\ SecondWord \in Seq(Texture)
         /\ Len(FirstWord) < COMMAND_NAME_SZ => StringAt(frame, ArgsAt) = Cut(SecondWord, COMMAND_ARG_SZ)
         /\ \/ Len(FirstWord) < COMMAND_NAME_SZ /\ StringAt(frame, NameAt) = FirstWord
            \/ layout = "args_first" /\ Len(SecondWord) >= COMMAND_ARG_SZ /\ Len(StringAt(frame, NameAt)) = 0
            \/ /\ Len(FirstWord) >= COMMAND_NAME_SZ
               /\ Len(StringAt(frame, NameAt)) = 0 \/ Len(StringAt(frame, NameAt)) >= COMMAND_NAME_SZ
<1>1. PICK name, from, args \in Nat : \E n, a \in Seq(Texture) :
            /\ ParseCommand(buf) = Strcpy(Strcpy(Frame, NameAt, n), ArgsAt, a)
            /\ Divides(name, from, args)
            /\ Copies(n, a, name, from, args)
  BY Parse
<1>2. PICK n, a \in Seq(Texture) :
            /\ frame = Strcpy(Strcpy(Frame, NameAt, n), ArgsAt, a)
            /\ Divides(name, from, args)
            /\ Copies(n, a, name, from, args)
  BY <1>1
<1>3. /\ name = Len(n) /\ args = Len(a)
      /\ name <= COMMAND_NAME_SZ /\ args <= COMMAND_ARG_SZ
  BY <1>2 DEF Divides, Copies
<1>4. /\ FirstWord \in Seq(Texture) /\ SecondWord \in Seq(Texture)
      /\ name < COMMAND_NAME_SZ =>
              /\ n = FirstWord /\ a = Cut(SecondWord, COMMAND_ARG_SZ)
              /\ args = COMMAND_ARG_SZ <=> Len(SecondWord) >= COMMAND_ARG_SZ
      /\ name = COMMAND_NAME_SZ => Len(FirstWord) >= COMMAND_NAME_SZ
  BY <1>2, DividedWords
<1>5. /\ StringAt(frame, ArgsAt) = a
      /\ name < COMMAND_NAME_SZ /\ (layout # "args_first" \/ args < COMMAND_ARG_SZ)
              => StringAt(frame, NameAt) = n
      /\ layout = "args_first" /\ args = COMMAND_ARG_SZ => Len(StringAt(frame, NameAt)) = 0
      /\ name = COMMAND_NAME_SZ =>
              Len(StringAt(frame, NameAt)) = 0 \/ Len(StringAt(frame, NameAt)) >= COMMAND_NAME_SZ
  BY <1>2, <1>3, ParsedStrings
<1>6. COMMAND_NAME_SZ \in Nat /\ COMMAND_ARG_SZ \in Nat /\ Len(FirstWord) \in Nat
  BY <1>4, ArraySizes
<1>7. CASE name < COMMAND_NAME_SZ
  BY <1>3, <1>4, <1>5, <1>6, <1>7
<1>8. CASE name = COMMAND_NAME_SZ
  BY <1>4, <1>5, <1>6, <1>8
<1> QED BY <1>3, <1>6, <1>7, <1>8

-----------------------------------------------------------------------------
(* Entries of the directory *)

IsProgram(i) == i \in DOMAIN Directory /\ Directory[i].program # "none"

LEMMA Programs ==
  ASSUME NEW i, IsProgram(i)
  PROVE  /\ i \in Nat /\ Directory[i].filetype = 2
         /\ Len(Directory[i].name) \in Nat /\ Len(Directory[i].name) > 0
         /\ Len(Directory[i].name) < COMMAND_NAME_SZ /\ Len(Directory[i].name) <= NAME_SIZE
<1>1. i \in DOMAIN Directory /\ Directory[i].program # "none"
  BY DEF IsProgram
<1>2. /\ Directory[i].filetype = 2 /\ Len(Directory[i].name) \in 1 .. COMMAND_NAME_SZ - 1
      /\ Len(Directory[i].name) <= NAME_SIZE
  BY <1>1, CommandsAssumption DEF CommandsConstants
<1>3. DOMAIN Directory \subseteq Nat
  <2>1. Directory \in Seq(Range(Directory))
    BY CommandsAssumption DEF CommandsConstants
  <2> QED BY <2>1
<1> QED BY <1>1, <1>2, <1>3, ArraySizes

\* Names are distinct: the match is the entry of that name.
LEMMA MatchIs ==
  ASSUME NEW fname, NEW i \in Matches(fname)
  PROVE  FirstMatch(fname) = i /\ Directory[i].name = fname
<1>1. ASSUME NEW j \in Matches(fname) PROVE j \in DOMAIN Directory /\ Directory[j].name = fname
  BY <1>1 DEF Matches, SameName
<1>2. ASSUME NEW j \in Matches(fname) PROVE j = i
  <2>1. i \in DOMAIN Directory /\ Directory[i].name = fname
    BY <1>1
  <2>2. j \in DOMAIN Directory /\ Directory[j].name = fname
    BY <1>1
  <2> QED BY <2>1, <2>2, CommandsAssumption DEF CommandsConstants
<1>3. i \in Nat
  <2>1. Directory \in Seq(Range(Directory))
    BY CommandsAssumption DEF CommandsConstants
  <2> QED BY <1>1, <2>1
<1>4. ASSUME NEW j \in Matches(fname) PROVE j \in Nat /\ i <= j
  <2>1. j = i
    BY <1>2
  <2> QED BY <1>3, <2>1
<1>5. Matches(fname) \in SUBSET Nat
  BY <1>4
<1> QED BY <1>1, <1>4, <1>5, LeastIs DEF FirstMatch

-----------------------------------------------------------------------------
(* A program that starts is the one of the line *)

\* What execute() has found: the entry, the argument, and of the image what has
\* been loaded so far.
Loads ==
    /\ Directory[file].name = FirstWord
    /\ arguments = Cut(SecondWord, COMMAND_ARG_SZ)
    /\ content = Executable /\ pos \in 0 .. Len(Executable)
    /\ image = SubSeq(Executable, 1, pos)

NoSuchCommand ==
    \/ \A i \in DOMAIN Directory : Directory[i].name = FirstWord => Directory[i].program = "none"
    \/ layout = "args_first" /\ Len(SecondWord) >= COMMAND_ARG_SZ

\* A shell that waits for another one to end
Suspended == [line : Seq(Texture), buf : [1 .. LINE_SZ + 2 -> Chars]]

\* Inductive: between commands the process has no image, before execute() the
\* buffer holds the line, and behind it the words are in the process.
CommandRuns ==
    /\ layout \in Layouts
    /\ buf \in [1 .. LINE_SZ + 2 -> Chars] /\ line \in Seq(Texture)
    /\ outer \in Seq(Suspended)
    /\ pc \in {"prompt", "execute"} => image = <<>> /\ pos = 0
    /\ pc = "execute" => BufferHolds
    /\ pc \in {"copy_program", "start"} => Loads
    /\ pc = "start" => pos = Len(Executable)
    /\ pc = "answer" /\ rval = -1 => NoSuchCommand

LEMMA CutIs ==
  ASSUME NEW second \in Seq(Texture)
  PROVE  Cut(second, COMMAND_ARG_SZ) \in Seq(Texture)
<1> DEFINE n == IF Len(second) < COMMAND_ARG_SZ THEN Len(second) ELSE COMMAND_ARG_SZ
<1>1. n \in Nat /\ n <= Len(second)
  <2>1. PICK l \in Nat : l = Len(second)
    OBVIOUS
  <2> QED BY <2>1, ArraySizes
<1> HIDE DEF n
<1>2. SubSeq(second, 0 + 1, n) \in Seq(Texture) /\ 0 + 1 = 1
  <2>1. 0 \in Nat /\ 0 <= n
    BY <1>1
  <2> QED BY <1>1, <2>1, Part
<1> QED BY <1>2 DEF Cut, n

LEMMA LinesAre ==
  ASSUME NEW typed \in TypedLines
  PROVE  typed \in Seq(Texture) /\ Len(typed) <= LINE_SZ
<1>1. typed \in Seq(Range(typed) \ {"nul"}) /\ Len(typed) <= LINE_SZ
  BY CommandsAssumption DEF CommandsConstants
<1>2. Range(typed) \ {"nul"} \subseteq Texture
  BY DEF Texture, Chars, Typable
<1> QED BY <1>1, <1>2

LEMMA JunkBuffer ==
  Fill("junk", LINE_SZ + 2) \in [1 .. LINE_SZ + 2 -> Chars]
BY DEF Fill, Chars

\* The words are those of the line.
LEMMA SameWords ==
  ASSUME line' = line
  PROVE  FirstWord' = FirstWord /\ SecondWord' = SecondWord
<1>1. FirstWord' = FirstWord
  BY DEF FirstWord, WordAt
<1> QED BY <1>1 DEF SecondWord, SecondStarts, SecondAt, WordAt

\* A shell that ends leaves a new one, or the one that it was started from.
LEMMA ShellEndsRuns ==
  ASSUME CommandRuns, ShellEnds, pc = "prompt", layout' = layout, image' = image, pos' = pos
  PROVE  CommandRuns'
<1>1. /\ layout \in Layouts /\ outer \in Seq(Suspended) /\ image = <<>> /\ pos = 0
  BY DEF CommandRuns
<1>2. CASE outer = <<>>
  <2>1. /\ pc' = "prompt" /\ line' = <<>> /\ outer' = outer
        /\ buf' \in [1 .. LINE_SZ + 2 -> Chars]
    BY <1>2, JunkBuffer DEF ShellEnds
  <2> QED BY <1>1, <2>1 DEF CommandRuns
<1>3. CASE outer # <<>>
  <2>1. PICK n \in Nat : n = Len(outer)
    BY <1>1
  <2>2. /\ pc' = "halted" /\ line' = outer[n].line /\ buf' = outer[n].buf
        /\ outer' = SubSeq(outer, 1, n - 1)
    BY <1>3, <2>1 DEF ShellEnds
  <2>3. n \in 1 .. n /\ n - 1 \in Nat /\ n - 1 <= n
    BY <1>1, <1>3, <2>1
  <2>4. outer[n] \in Suspended
    BY <1>1, <2>1, <2>3
  <2>5. line' \in Seq(Texture) /\ buf' \in [1 .. LINE_SZ + 2 -> Chars]
    BY <2>2, <2>4 DEF Suspended
  <2>6. outer' \in Seq(Suspended)
    <3>1. 0 \in Nat /\ 0 + 1 = 1 /\ 0 <= n - 1 /\ n - 1 <= Len(outer)
      BY <2>1, <2>3
    <3>2. SubSeq(outer, 0 + 1, n - 1) \in Seq(Suspended)
      BY ONLY <1>1, <2>3, <3>1, Part
    <3> QED BY <2>2, <3>1, <3>2
  <2> QED BY <1>1, <2>2, <2>5, <2>6 DEF CommandRuns
<1> QED BY <1>2, <1>3

LEMMA ReadLineRuns ==
  ASSUME CommandRuns, ReadLine
  PROVE  CommandRuns'
<1>1. PICK typed \in TypedLines :
        IF typed = Exit THEN ShellEnds
        ELSE /\ line' = typed
             /\ buf' = [Strcpy(buf, 0, typed) EXCEPT ![Len(typed) + 2] = "nul"]
             /\ pc' = IF typed = <<>> THEN "prompt" ELSE "execute"
             /\ outer' = outer
  BY DEF ReadLine
<1>2. /\ layout' = layout /\ image' = image /\ pos' = pos /\ pc = "prompt"
  BY DEF ReadLine, process
<1>3. /\ layout \in Layouts /\ buf \in [1 .. LINE_SZ + 2 -> Chars] /\ image = <<>> /\ pos = 0
      /\ outer \in Seq(Suspended)
  BY <1>2 DEF CommandRuns
<1>4. PICK M \in Nat : M = LINE_SZ + 2
  BY ArraySizes
<1>5. PICK n \in Nat : n = Len(typed)
  BY LinesAre
<1>6. typed \in Seq(Texture) /\ n + 2 <= M /\ n <= LINE_SZ
  BY <1>4, <1>5, LinesAre, ArraySizes
<1>7. typed \in Seq(Chars) /\ typed \in Seq(Texture) /\ "nul" \in Chars
  BY <1>6 DEF Texture, Chars
<1> DEFINE copy == Strcpy(buf, 0, typed)
<1>8. copy \in [1 .. M -> Chars] /\ Holds(copy, 0, typed)
  <2>1. 0 + Len(typed) + 1 <= M /\ 0 \in Nat
    BY <1>5, <1>6
  <2>2. buf \in [1 .. M -> Chars]
    BY <1>3, <1>4
  <2> QED BY ONLY <1>7, <2>1, <2>2, M \in Nat, StrcpyHolds
<1> HIDE DEF copy
<1>9. (\A k \in 1 .. n : copy[k] = typed[k]) /\ copy[n + 1] = "nul"
  <2>1. \A k \in 1 .. n : 0 + k = k
    OBVIOUS
  <2>2. 0 + n + 1 = n + 1
    OBVIOUS
  <2> QED BY <1>5, <1>8, <2>1, <2>2 DEF Holds
<1>10. CASE typed = Exit
  BY <1>1, <1>2, <1>10, ShellEndsRuns
<1>11. CASE typed # Exit
  <2>1. buf' = [copy EXCEPT ![n + 2] = "nul"]
    BY <1>1, <1>5, <1>11 DEF copy
  <2>2. buf' \in [1 .. M -> Chars]
    BY <1>7, <1>8, <2>1
  <2>3. \A i \in 1 .. M : buf'[i] = IF i = n + 2 THEN "nul" ELSE copy[i]
    BY <1>8, <2>1
  <2>4. buf'[n + 2] = "nul" /\ buf'[n + 1] = "nul"
    <3>1. n + 2 \in 1 .. M /\ n + 1 \in 1 .. M /\ n + 1 # n + 2
      BY <1>6
    <3> QED BY <1>9, <2>3, <3>1
  <2>5. ASSUME NEW k \in 1 .. n PROVE buf'[k] = typed[k]
    <3>1. k \in 1 .. M /\ k # n + 2
      BY <1>6
    <3> QED BY <1>9, <2>3, <3>1
  <2>6. BufferHolds'
    BY <1>1, <1>4, <1>5, <1>6, <1>11, <2>2, <2>4, <2>5 DEF BufferHolds
  <2>7. pc' \in {"prompt", "execute"} /\ line' \in Seq(Texture) /\ outer' \in Seq(Suspended)
    BY <1>1, <1>3, <1>6, <1>11
  <2> QED BY <1>2, <1>3, <1>4, <2>2, <2>6, <2>7 DEF CommandRuns
<1> QED BY <1>10, <1>11

LEMMA ExecuteRuns ==
  ASSUME CommandRuns, Execute
  PROVE  CommandRuns'
<1> DEFINE frame == ParseCommand(buf)
           name == StringAt(frame, NameAt)
           isProgram == /\ Matches(name) # {}
                        /\ Directory[FirstMatch(name)].filetype = 2
                        /\ Directory[FirstMatch(name)].program # "none"
<1>1. /\ layout' = layout /\ buf' = buf /\ line' = line /\ outer' = outer /\ pc = "execute"
      /\ \/ Fails(2)
         \/ ~isProgram /\ Fails(-1)
         \/ /\ isProgram
            /\ pc' = "copy_program"
            /\ file' = FirstMatch(name) /\ content' = Executable
            /\ arguments' = StringAt(frame, ArgsAt)
            /\ UNCHANGED <<image, pos>>
  BY DEF Execute
<1>2. /\ layout \in Layouts /\ buf \in [1 .. LINE_SZ + 2 -> Chars]
      /\ line \in Seq(Texture) /\ outer \in Seq(Suspended)
      /\ image = <<>> /\ pos = 0 /\ BufferHolds
  BY <1>1 DEF CommandRuns
<1>3. FirstWord' = FirstWord /\ SecondWord' = SecondWord
  BY <1>1, SameWords
<1>4. /\ FirstWord \in Seq(Texture) /\ SecondWord \in Seq(Texture)
      /\ Len(FirstWord) < COMMAND_NAME_SZ => StringAt(frame, ArgsAt) = Cut(SecondWord, COMMAND_ARG_SZ)
      /\ \/ Len(FirstWord) < COMMAND_NAME_SZ /\ name = FirstWord
         \/ layout = "args_first" /\ Len(SecondWord) >= COMMAND_ARG_SZ /\ Len(name) = 0
         \/ /\ Len(FirstWord) >= COMMAND_NAME_SZ
            /\ Len(name) = 0 \/ Len(name) >= COMMAND_NAME_SZ
  BY <1>2, Parsed
<1> HIDE DEF name, frame
<1>5. CASE Fails(2)
  BY <1>1, <1>2, <1>5 DEF Fails, CommandRuns
<1>6. CASE ~isProgram /\ Fails(-1)
  <2>1. NoSuchCommand
    <3> SUFFICES ASSUME NEW i \in DOMAIN Directory, Directory[i].name = FirstWord,
                        Directory[i].program # "none",
                        ~(layout = "args_first" /\ Len(SecondWord) >= COMMAND_ARG_SZ)
                 PROVE  FALSE
      BY DEF NoSuchCommand
    <3>1. /\ Directory[i].filetype = 2 /\ Len(FirstWord) < COMMAND_NAME_SZ
          /\ Len(FirstWord) <= NAME_SIZE
      BY Programs DEF IsProgram
    <3>2. ~(Len(FirstWord) >= COMMAND_NAME_SZ)
      BY <1>4, <3>1, ArraySizes
    <3>3. name = FirstWord
      BY <1>4, <3>2
    <3>4. i \in Matches(name)
      BY <3>1, <3>3 DEF Matches, SameName
    <3>5. FirstMatch(name) = i
      BY <3>4, MatchIs
    <3> QED BY <1>6, <3>1, <3>4, <3>5
  <2>2. NoSuchCommand'
    BY <1>1, <1>3, <2>1 DEF NoSuchCommand
  <2> QED BY <1>1, <1>2, <1>6, <2>2 DEF Fails, CommandRuns
<1>7. CASE /\ isProgram
           /\ pc' = "copy_program"
           /\ file' = FirstMatch(name) /\ content' = Executable
           /\ arguments' = StringAt(frame, ArgsAt)
           /\ UNCHANGED <<image, pos>>
  <2>1. PICK i \in Matches(name) : TRUE
    BY <1>7
  <2>2. FirstMatch(name) = i /\ Directory[i].name = name
    BY MatchIs
  <2>3. IsProgram(i)
    BY <1>7, <2>2 DEF Matches, IsProgram
  <2>4. Len(name) \in Nat /\ Len(name) > 0 /\ Len(name) < COMMAND_NAME_SZ
    BY <2>2, <2>3, Programs
  <2>5. ~(Len(name) = 0) /\ ~(Len(name) >= COMMAND_NAME_SZ)
    BY <2>4, ArraySizes
  <2>6. Len(FirstWord) < COMMAND_NAME_SZ /\ name = FirstWord
    BY <1>4, <2>5
  <2>7. arguments' = Cut(SecondWord, COMMAND_ARG_SZ)
    BY <1>4, <1>7, <2>6
  <2>8. Executable \in Seq(Range(Executable)) /\ Len(Executable) \in Nat
    BY CommandsAssumption DEF CommandsConstants
  <2>9. SubSeq(Executable, 1, 0) = <<>> /\ 0 \in 0 .. Len(Executable)
    BY <2>8
  <2>10. Loads'
    BY <1>2, <1>3, <1>7, <2>2, <2>6, <2>7, <2>9 DEF Loads, Cut
  <2> QED BY <1>1, <1>2, <1>7, <2>10 DEF CommandRuns
<1> HIDE DEF isProgram
<1> QED BY <1>1, <1>5, <1>6, <1>7

LEMMA Whole ==
  ASSUME NEW S, NEW s \in Seq(S)
  PROVE  SubSeq(s, 1, Len(s)) = s
<1>1. PICK n \in Nat : n = Len(s)
  OBVIOUS
<1>2. /\ SubSeq(s, 0 + 1, n) \in Seq(S) /\ Len(SubSeq(s, 0 + 1, n)) = n - 0
      /\ \A k \in 1 .. n - 0 : SubSeq(s, 0 + 1, n)[k] = s[0 + k]
  <2>1. 0 \in Nat /\ 0 <= n /\ n <= Len(s)
    BY <1>1
  <2> QED BY ONLY <2>1, s \in Seq(S), n \in Nat, Part
<1>3. 0 + 1 = 1 /\ n - 0 = n /\ \A k \in 1 .. n : 0 + k = k
  OBVIOUS
<1> QED BY <1>1, <1>2, <1>3, SameSeq

\* What is read behind a part of a file makes it a longer one.
LEMMA TwoParts ==
  ASSUME NEW S, NEW s \in Seq(S), NEW p \in Nat, NEW r \in Nat, p + r <= Len(s)
  PROVE  SubSeq(s, 1, p) \o SubSeq(s, p + 1, p + r) = SubSeq(s, 1, p + r)
<1>1. PICK t \in Nat : t = p + r
  OBVIOUS
<1> DEFINE a == SubSeq(s, 0 + 1, p)
           b == SubSeq(s, p + 1, t)
           c == SubSeq(s, 0 + 1, t)
<1>2. 0 \in Nat /\ 0 <= p /\ p <= t /\ t <= Len(s) /\ p <= Len(s) /\ 0 <= t
  BY <1>1
<1>3. a \in Seq(S) /\ Len(a) = p - 0 /\ \A k \in 1 .. p - 0 : a[k] = s[0 + k]
  BY <1>2, Part
<1>4. b \in Seq(S) /\ Len(b) = t - p /\ \A k \in 1 .. t - p : b[k] = s[p + k]
  BY <1>2, Part
<1>5. c \in Seq(S) /\ Len(c) = t - 0 /\ \A k \in 1 .. t - 0 : c[k] = s[0 + k]
  BY <1>2, Part
<1>6. 0 + 1 = 1 /\ p - 0 = p /\ t - 0 = t /\ t - p = r
  BY <1>1
<1> HIDE DEF a, b, c
<1>7. a \o b \in Seq(S) /\ Len(a \o b) = t
  <2>1. a \o b \in Seq(S) /\ Len(a \o b) = Len(a) + Len(b)
    BY <1>3, <1>4, ConcatProperties
  <2>2. Len(a) + Len(b) = t
    BY <1>1, <1>3, <1>4, <1>6
  <2> QED BY <2>1, <2>2
<1>8. ASSUME NEW k \in 1 .. t PROVE (a \o b)[k] = c[k]
  <2>1. c[k] = s[0 + k] /\ 0 + k = k
    BY <1>5, <1>6
  <2>2. CASE k <= p
    <3>1. k \in 1 .. Len(a) /\ a[k] = s[0 + k]
      BY <1>3, <1>6, <2>2
    <3>2. (a \o b)[k] = a[k]
      BY <1>3, <1>4, <3>1, ConcatProperties
    <3> QED BY <2>1, <3>1, <3>2
  <2>3. CASE p < k
    <3>1. k - p \in 1 .. r /\ p + (k - p) = k /\ k \in 1 .. Len(a) + Len(b) /\ ~(k <= Len(a))
      BY <1>1, <1>3, <1>4, <1>6, <2>3
    <3>2. (a \o b)[k] = b[k - Len(a)] /\ Len(a) = p
      BY <1>3, <1>4, <1>6, <3>1, ConcatProperties
    <3>3. b[k - p] = s[p + (k - p)]
      BY <1>4, <1>6, <3>1
    <3> QED BY <2>1, <3>1, <3>2, <3>3
  <2>4. k <= p \/ p < k
    BY <1>2
  <2> QED BY <2>2, <2>3, <2>4
<1>9. a \o b = c
  BY <1>5, <1>6, <1>7, <1>8, SameSeq
<1> QED BY <1>1, <1>6, <1>9 DEF a, b, c

LEMMA CopyProgramRuns ==
  ASSUME CommandRuns, CopyProgram
  PROVE  CommandRuns'
<1>1. /\ layout' = layout /\ buf' = buf /\ line' = line /\ outer' = outer
      /\ file' = file /\ arguments' = arguments
      /\ content' = content /\ pc = "copy_program"
      /\ image' = image \o Read(HALF_KB) /\ pos' = pos + ReadData(HALF_KB)
      /\ pc' = IF ReadData(HALF_KB) = 0 THEN "start" ELSE pc
  BY DEF CopyProgram, shell
<1>2. /\ layout \in Layouts /\ buf \in [1 .. LINE_SZ + 2 -> Chars] /\ Loads
      /\ line \in Seq(Texture) /\ outer \in Seq(Suspended)
  BY <1>1 DEF CommandRuns
<1>3. FirstWord' = FirstWord /\ SecondWord' = SecondWord
  BY <1>1, SameWords
<1>4. PICK L \in Nat : L = Len(Executable)
  BY CommandsAssumption DEF CommandsConstants
<1>5. PICK p \in Nat : p = pos /\ p <= L
  BY <1>2, <1>4 DEF Loads
<1>6. PICK r \in Nat : r = ReadData(HALF_KB) /\ p + r <= L /\ (r = 0 => p = L)
  <2>1. ReadData(HALF_KB) = IF L - p < HALF_KB THEN L - p ELSE HALF_KB
    BY <1>2, <1>4, <1>5 DEF ReadData, Rest, Loads
  <2>2. HALF_KB \in Nat /\ HALF_KB > 0
    BY ArraySizes
  <2>3. CASE L - p < HALF_KB
    <3>1. ReadData(HALF_KB) = L - p /\ L - p \in Nat /\ p + (L - p) <= L
      BY <1>5, <2>1, <2>3
    <3> QED BY <3>1
  <2>4. CASE ~(L - p < HALF_KB)
    BY <1>5, <2>1, <2>2, <2>4
  <2> QED BY <2>3, <2>4
<1>7. Executable \in Seq(Range(Executable))
  BY CommandsAssumption DEF CommandsConstants
<1>8. image = SubSeq(Executable, 1, p) /\ Read(HALF_KB) = SubSeq(Executable, p + 1, p + r)
  BY <1>2, <1>5, <1>6 DEF Loads, Read
<1>9. image' = SubSeq(Executable, 1, p + r)
  <2>1. p + r <= Len(Executable)
    BY <1>4, <1>6
  <2>2. SubSeq(Executable, 1, p) \o SubSeq(Executable, p + 1, p + r) = SubSeq(Executable, 1, p + r)
    BY ONLY <1>7, <2>1, p \in Nat, r \in Nat, TwoParts
  <2> QED BY <1>1, <1>8, <2>2
<1>10. pos' = p + r /\ pos' \in 0 .. L
  BY <1>1, <1>5, <1>6
<1>11. Loads'
  BY <1>1, <1>2, <1>3, <1>4, <1>9, <1>10 DEF Loads, Cut
<1>12. pc' \in {"copy_program", "start"} /\ (pc' = "start" => pos' = Len(Executable))
  <2>1. CASE r = 0
    <3>1. p + r = L
      BY <1>6, <2>1
    <3> QED BY <1>1, <1>4, <1>6, <1>10, <2>1, <3>1
  <2>2. CASE r # 0
    BY <1>1, <1>6, <2>2
  <2> QED BY <2>1, <2>2
<1> QED BY <1>1, <1>2, <1>11, <1>12 DEF CommandRuns

\* The other steps return from execute() with a program's status, or do not.
LEMMA ProgramRuns ==
  ASSUME CommandRuns, layout' = layout, buf' = buf, line' = line, outer' = outer,
         pc' \in {"cat", "grep_next", "grep_read", "grep_line", "grep_close", "ls",
                 "waits", "answer", "halted"},
         pc' = "answer" => rval' \in {0, 2, 3, 255, 256}
  PROVE  CommandRuns'
BY DEF CommandRuns

LEMMA StartRuns ==
  ASSUME CommandRuns, Start
  PROVE  CommandRuns'
<1>1. layout' = layout /\ buf' = buf /\ line' = line /\ outer' = outer
  BY DEF Start
<1>2. \/ pc' \in {"cat", "grep_next", "ls", "waits"}
      \/ pc' = "answer" /\ rval' \in {0, 2, 3, 255, 256}
  BY DEF Start, Open, Return
<1> QED BY <1>1, <1>2, ProgramRuns

LEMMA StartShellRuns ==
  ASSUME CommandRuns, StartShell
  PROVE  CommandRuns'
<1>1. /\ layout \in Layouts /\ buf \in [1 .. LINE_SZ + 2 -> Chars]
      /\ line \in Seq(Texture) /\ outer \in Seq(Suspended)
  BY DEF CommandRuns
<1>2. /\ layout' = layout /\ pc' = "prompt" /\ line' = <<>> /\ image' = <<>> /\ pos' = 0
      /\ buf' \in [1 .. LINE_SZ + 2 -> Chars]
      /\ outer' = Append(outer, [line |-> line, buf |-> buf])
  BY JunkBuffer DEF StartShell
<1>3. outer' \in Seq(Suspended)
  <2>1. [line |-> line, buf |-> buf] \in Suspended
    BY <1>1 DEF Suspended
  <2> QED BY <1>1, <1>2, <2>1
<1> QED BY <1>1, <1>2, <1>3 DEF CommandRuns

LEMMA EndRuns ==
  ASSUME CommandRuns, Awaited \/ Interrupted
  PROVE  CommandRuns'
<1>1. CASE Awaited
  <2>1. /\ layout' = layout /\ buf' = buf /\ line' = line /\ outer' = outer
        /\ pc' = "answer" /\ rval' \in {0, 2, 255, 256}
    BY <1>1 DEF Awaited, Statuses, Return
  <2> QED BY <2>1, ProgramRuns
<1>2. CASE Interrupted
  <2>1. layout' = layout /\ image' = image /\ pos' = pos
    BY <1>2 DEF Interrupted, process
  <2>2. CASE pc = "prompt" /\ ShellEnds
    BY <2>1, <2>2, ShellEndsRuns
  <2>3. CASE pc = "waits" /\ pc' = "halted" /\ UNCHANGED <<line, buf, outer>>
    BY <2>1, <2>3, ProgramRuns
  <2> QED BY <1>2, <2>2, <2>3 DEF Interrupted
<1> QED BY <1>1, <1>2

LEMMA OthersRun ==
  ASSUME CommandRuns, Cat \/ Ls \/ GrepNext \/ GrepRead \/ GrepLine \/ GrepClose
  PROVE  CommandRuns'
<1>1. CASE Cat
  <2>1. UNCHANGED <<layout, buf, line, outer>> /\ (pc' = "cat" \/ (pc' = "answer" /\ rval' = 0))
    BY <1>1 DEF Cat, Return
  <2> QED BY <2>1, ProgramRuns
<1>2. CASE Ls
  <2>1. UNCHANGED <<layout, buf, line, outer>> /\ (pc' = "ls" \/ (pc' = "answer" /\ rval' = 0))
    BY <1>2 DEF Ls, Return
  <2> QED BY <2>1, ProgramRuns
<1>3. CASE GrepNext
  <2>1. /\ UNCHANGED <<layout, buf, line, outer>>
        /\ pc' \in {"grep_next", "grep_read"} \/ (pc' = "answer" /\ rval' = 0)
    BY <1>3 DEF GrepNext, Return, Open
  <2> QED BY <2>1, ProgramRuns
<1>4. CASE GrepRead
  <2>1. UNCHANGED <<layout, buf, line, outer>> /\ pc' = "grep_line"
    BY <1>4 DEF GrepRead, shell
  <2> QED BY <2>1, ProgramRuns
<1>5. CASE GrepLine
  <2>1. UNCHANGED <<layout, buf, line, outer>> /\ pc' \in {"grep_line", "grep_read", "grep_close"}
    BY <1>5 DEF GrepLine, KeepPartial, SearchLine, AfterBuffer, shell
  <2> QED BY <2>1, ProgramRuns
<1>6. CASE GrepClose
  <2>1. UNCHANGED <<layout, buf, line, outer>> /\ pc' = "grep_next"
    BY <1>6 DEF GrepClose, shell
  <2> QED BY <2>1, ProgramRuns
<1> QED BY <1>1, <1>2, <1>3, <1>4, <1>5, <1>6

LEMMA CommandInitially ==
  ASSUME CommandsInit
  PROVE  CommandRuns
BY JunkBuffer DEF CommandsInit, CommandRuns, Layouts

LEMMA CommandStep ==
  ASSUME CommandRuns, [CommandsNext]_commands_vars
  PROVE  CommandRuns'
<1>1. CASE ReadLine
  BY <1>1, ReadLineRuns
<1>2. CASE Execute
  BY <1>2, ExecuteRuns
<1>3. CASE CopyProgram
  BY <1>3, CopyProgramRuns
<1>4. CASE Start
  BY <1>4, StartRuns
<1>5. CASE Cat \/ Ls \/ GrepNext \/ GrepRead \/ GrepLine \/ GrepClose
  BY <1>5, OthersRun
<1>6. CASE Answer
  <2>1. UNCHANGED <<layout, buf, line, outer>> /\ pc' = "prompt" /\ image' = <<>> /\ pos' = 0
    BY <1>6 DEF Answer
  <2> QED BY <2>1 DEF CommandRuns
<1>7. CASE StartShell
  BY <1>7, StartShellRuns
<1>8. CASE Awaited \/ Interrupted
  BY <1>8, EndRuns
<1>9. CASE UNCHANGED commands_vars
  <2>1. /\ layout' = layout /\ buf' = buf /\ outer' = outer /\ pc' = pc /\ image' = image /\ pos' = pos /\ line' = line
        /\ rval' = rval /\ file' = file /\ arguments' = arguments /\ content' = content
    BY <1>9 DEF commands_vars, shell, process
  <2>2. FirstWord' = FirstWord /\ SecondWord' = SecondWord
    BY <2>1, SameWords
  <2>3. (BufferHolds' <=> BufferHolds) /\ (Loads' <=> Loads) /\ (NoSuchCommand' <=> NoSuchCommand)
    BY <2>1, <2>2 DEF BufferHolds, Loads, NoSuchCommand, Cut
  <2> QED BY <2>1, <2>3 DEF CommandRuns
<1> QED BY <1>1, <1>2, <1>3, <1>4, <1>5, <1>6, <1>7, <1>8, <1>9 DEF CommandsNext, Computes

\* A program that starts is the one the first word names, loaded whole, with an
\* argument that begins with the second word, cut, and is that if the line has no
\* third; "no such command" is right but for the argument that ends in the name.
THEOREM ShellRunsTheCommand == CommandsSpec => []RunsTheCommand
<1>1. CommandsInit => CommandRuns
  BY CommandInitially
<1>2. CommandRuns /\ [CommandsNext]_commands_vars => CommandRuns'
  BY CommandStep
<1>3. CommandRuns => RunsTheCommand
  <2> SUFFICES ASSUME CommandRuns PROVE RunsTheCommand
    OBVIOUS
  <2>1. ASSUME pc = "start"
        PROVE  /\ Directory[file].name = FirstWord /\ image = Executable
               /\ arguments = Cut(SecondWord, COMMAND_ARG_SZ)
    <3>1. Loads /\ pos = Len(Executable)
      BY <2>1 DEF CommandRuns
    <3>2. SubSeq(Executable, 1, Len(Executable)) = Executable
      BY CommandsAssumption, Whole DEF CommandsConstants
    <3> QED BY <3>1, <3>2 DEF Loads
  <2>2. ASSUME pc = "answer" /\ rval = -1 PROVE NoSuchCommand
    BY <2>2 DEF CommandRuns
  <2>3. IsPrefix(Cut(SecondWord, COMMAND_ARG_SZ), Cut(SecondWord, COMMAND_ARG_SZ))
    <3>1. SecondWord \in Seq(Texture)
      BY WordsAre DEF CommandRuns
    <3>2. Cut(SecondWord, COMMAND_ARG_SZ) \in Seq(Texture)
      BY <3>1, CutIs
    <3>3. Len(Cut(SecondWord, COMMAND_ARG_SZ)) \in Nat
      BY <3>2
    <3> QED BY <3>3 DEF IsPrefix
  <2> QED BY <2>1, <2>2, <2>3 DEF RunsTheCommand, NoSuchCommand
<1> QED BY <1>1, <1>2, <1>3, PTL DEF CommandsSpec

-----------------------------------------------------------------------------
(* What cat prints *)

\* What holds of 0 and of every successor holds of all natural numbers.
LEMMA Induction ==
  ASSUME NEW S, 0 \in S, \A n \in Nat : n \in S => n + 1 \in S
  PROVE  Nat \subseteq S
<1> SUFFICES ASSUME Nat \ S # {} PROVE FALSE
  OBVIOUS
<1>1. PICK n \in Nat \ S : \A m \in Nat \ S : n <= m
  BY LeastNatural
<1>2. n # 0 /\ n - 1 \in Nat
  BY <1>1
<1>3. n - 1 \in S
  BY <1>1, <1>2
<1> QED BY <1>1, <1>2, <1>3

\* FlattenSeq's recursive function: one exists for every number of sequences.
IsFlat(f, seqs, n) == f = [i \in 1 .. n |-> IF i = 1 THEN seqs[i] ELSE f[i - 1] \o seqs[i]]

LEMMA FlatExists ==
  ASSUME NEW seqs, NEW n \in Nat
  PROVE  \E f : IsFlat(f, seqs, n)
<1> DEFINE S == {m \in Nat : \E f : IsFlat(f, seqs, m)}
<1>1. 0 \in S
  <2> DEFINE f == [i \in 1 .. 0 |-> 0]
  <2>1. f = [i \in 1 .. 0 |-> IF i = 1 THEN seqs[i] ELSE f[i - 1] \o seqs[i]]
    <3>1. \A i \in 1 .. 0 : f[i] = IF i = 1 THEN seqs[i] ELSE f[i - 1] \o seqs[i]
      OBVIOUS
    <3> QED BY <3>1
  <2>2. IsFlat(f, seqs, 0)
    BY <2>1 DEF IsFlat
  <2> QED BY <2>2
<1>2. ASSUME NEW m \in Nat, m \in S PROVE m + 1 \in S
  <2>1. PICK f : IsFlat(f, seqs, m)
    BY <1>2
  <2> DEFINE added == IF m = 0 THEN seqs[m + 1] ELSE f[m] \o seqs[m + 1]
             g == [i \in 1 .. m + 1 |-> IF i = m + 1 THEN added ELSE f[i]]
  <2>2. \A i \in 1 .. m : f[i] = IF i = 1 THEN seqs[i] ELSE f[i - 1] \o seqs[i]
    BY <2>1 DEF IsFlat
  <2>3. ASSUME NEW i \in 1 .. m + 1
        PROVE  g[i] = IF i = 1 THEN seqs[i] ELSE g[i - 1] \o seqs[i]
    <3> HIDE DEF added
    <3>1. CASE i = m + 1
      <4>1. g[i] = added
        BY <3>1
      <4>2. CASE m = 0
        BY <3>1, <4>1, <4>2 DEF added
      <4>3. CASE m # 0
        <5>1. i - 1 = m /\ m \in 1 .. m + 1 /\ m # m + 1 /\ i # 1
          BY <3>1, <4>3
        <5>2. g[i - 1] = f[m]
          BY <5>1
        <5> QED BY <3>1, <4>1, <4>3, <5>1, <5>2 DEF added
      <4> QED BY <4>2, <4>3
    <3>2. CASE i # m + 1
      <4>1. i \in 1 .. m /\ g[i] = f[i]
        BY <3>2
      <4>2. CASE i = 1
        BY <2>2, <4>1, <4>2
      <4>3. CASE i # 1
        <5>1. i - 1 \in 1 .. m + 1 /\ i - 1 # m + 1
          BY <4>1, <4>3
        <5>2. g[i - 1] = f[i - 1]
          BY <5>1
        <5> QED BY <2>2, <4>1, <4>3, <5>2
      <4> QED BY <4>2, <4>3
    <3> QED BY <3>1, <3>2
  <2>4. g = [i \in 1 .. m + 1 |-> g[i]]
    OBVIOUS
  <2> HIDE DEF g
  <2>5. IsFlat(g, seqs, m + 1)
    BY <2>3, <2>4 DEF IsFlat
  <2> QED BY <2>5
<1> HIDE DEF S
<1>3. Nat \subseteq S
  BY <1>1, <1>2, Induction
<1> QED BY <1>3 DEF S

EntryNames == [i \in DOMAIN Directory |-> Directory[i].name]
Flat == CHOOSE f : IsFlat(f, EntryNames, Len(Directory))

\* The names of the first d entries, one behind the other.
Listed(d) == IF d = 0 THEN <<>> ELSE Flat[d]

LEMMA ListedSteps ==
  ASSUME NEW d \in Nat, d < Len(Directory), NEW string, string = Listed(d)
  PROVE  /\ Listed(d + 1) = string \o Directory[d + 1].name
         /\ FlattenSeq(EntryNames) = Listed(Len(Directory))
<1>1. Directory \in Seq(Range(Directory))
  BY CommandsAssumption DEF CommandsConstants
<1>2. PICK n \in Nat : n = Len(Directory)
  BY <1>1
<1>3. DOMAIN Directory = 1 .. n /\ d < n
  BY <1>1, <1>2
<1>4. IsFlat(Flat, EntryNames, n)
  <2>1. \E f : IsFlat(f, EntryNames, n)
    BY FlatExists
  <2> QED BY <1>2, <2>1 DEF Flat
<1>5. \A i \in 1 .. n : Flat[i] = IF i = 1 THEN EntryNames[i] ELSE Flat[i - 1] \o EntryNames[i]
  BY <1>4 DEF IsFlat
<1>6. \A i \in 1 .. n : EntryNames[i] = Directory[i].name
  BY <1>3 DEF EntryNames
<1>7. Len(EntryNames) = n
  BY <1>3 DEF EntryNames
<1>8. FlattenSeq(EntryNames) = Listed(Len(Directory))
  <2> DEFINE Is(f) == f = [i \in 1 .. n |-> IF i = 1 THEN EntryNames[i] ELSE f[i - 1] \o EntryNames[i]]
  <2>1. FlattenSeq(EntryNames) = (CHOOSE f : Is(f))[n]
    BY <1>3, <1>7 DEF FlattenSeq
  <2>2. (CHOOSE f : Is(f)) = Flat
    BY <1>2 DEF Flat, IsFlat
  <2>3. n # 0
    BY <1>3
  <2> QED BY <1>2, <2>1, <2>2, <2>3 DEF Listed
<1>9. CASE d = 0
  <2>1. Listed(d + 1) = Directory[d + 1].name /\ string = <<>>
    <3>1. d + 1 \in 1 .. n /\ d + 1 = 1
      BY <1>3, <1>9
    <3> QED BY <1>5, <1>6, <1>9, <3>1 DEF Listed
  <2>2. Directory[d + 1].name \in Seq(Range(Directory[d + 1].name))
    <3>1. d + 1 \in DOMAIN Directory
      BY <1>3
    <3> QED BY <3>1, CommandsAssumption DEF CommandsConstants
  <2>3. <<>> \o Directory[d + 1].name = Directory[d + 1].name
    BY <2>2, ConcatEmptySeq
  <2> QED BY <1>8, <2>1, <2>3
<1>10. CASE d # 0
  <2>1. d + 1 \in 1 .. n /\ d + 1 # 1 /\ d + 1 - 1 = d /\ d + 1 # 0
    BY <1>3, <1>10
  <2>2. Flat[d + 1] = Flat[d] \o Directory[d + 1].name
    <3> DEFINE e == d + 1
    <3>1. e \in 1 .. n /\ e # 1 /\ e - 1 = d
      BY <2>1
    <3> HIDE DEF e
    <3>2. Flat[e] = Flat[e - 1] \o EntryNames[e]
      BY <1>5, <3>1
    <3>3. EntryNames[e] = Directory[e].name
      BY <1>6, <3>1
    <3> QED BY <3>1, <3>2, <3>3 DEF e
  <2> QED BY <1>8, <1>10, <2>1, <2>2 DEF Listed
<1> QED BY <1>9, <1>10

Bytes(chars) == chars \in Seq(Range(chars))

\* Between commands index_dir is 0 or behind the last entry; a program that starts
\* finds it 0, and has an entry.
Between ==
    /\ line \in Seq(Texture) /\ dir \in 0 .. Len(Directory)
    /\ pc \in {"prompt", "execute", "waits", "answer", "halted"} => dir \in {0, Len(Directory)}
    /\ pc \in {"prompt", "execute"} => arguments = <<>>
    /\ pc \in {"copy_program", "start"} => dir = 0 /\ file \in DOMAIN Directory

\* cat has printed its file as far as it has been read.
CatPrints ==
    /\ file \in DOMAIN Directory /\ arguments = Directory[file].name
    /\ Bytes(content)
    /\ Directory[file].filetype = 2 => pos \in 0 .. Len(content) /\ out = SubSeq(content, 1, pos)
    /\ Directory[file].filetype = 1 => out = Listed(dir)
    /\ Directory[file].filetype \notin {1, 2} => out = <<>>
    /\ Directory[file].filetype # 1 => dir = 0

CatPrinted ==
    CASE Directory[file].filetype = 2 -> arguments = Directory[file].name /\ out = content
      [] Directory[file].filetype = 1 -> out = FlattenSeq(EntryNames)
      [] OTHER -> out = <<>>

CatRefused == \A i \in DOMAIN Directory : Directory[i].name # arguments

\* Inductive, with CommandRuns.
CatRuns ==
    /\ Between
    /\ pc = "cat" => CatPrints
    /\ pc \in {"ls", "grep_next", "grep_read", "grep_line", "grep_close", "waits"} => ~Runs("cat")
    /\ pc = "answer" /\ rval = 0 /\ Runs("cat") => CatPrinted
    /\ pc = "answer" /\ rval = 2 /\ arguments # <<>> /\ Runs("cat") => CatRefused

LEMMA DirectoryIs ==
  /\ Len(Directory) \in Nat /\ DOMAIN Directory = 1 .. Len(Directory)
  /\ \A i, j \in DOMAIN Directory : Directory[j].name = Directory[i].name => j = i
<1>1. Directory \in Seq(Range(Directory))
  BY CommandsAssumption DEF CommandsConstants
<1>2. \A i, j \in DOMAIN Directory : Directory[j].name = Directory[i].name => j = i
  BY CommandsAssumption DEF CommandsConstants
<1> QED BY <1>1, <1>2

LEMMA ContentIs ==
  ASSUME NEW i, NEW chars \in ContentsOf(i)
  PROVE  Bytes(chars)
<1>1. Bytes(Executable)
  BY CommandsAssumption DEF Bytes, CommandsConstants
<1>2. ASSUME NEW t \in Texts PROVE Bytes(t)
  <2>1. t \in Seq(Range(t) \ {"nul"})
    BY CommandsAssumption DEF CommandsConstants
  <2> QED BY <2>1 DEF Bytes
<1>3. Bytes(<<>>)
  BY DEF Bytes
<1> QED BY <1>1, <1>2, <1>3 DEF ContentsOf

\* Between commands index_dir starts again.
LEMMA StartsAgain ==
  ASSUME dir \in {0, Len(Directory)}
  PROVE  FromTheStart(dir) = 0 /\ 0 \in 0 .. Len(Directory)
<1>1. PICK L \in Nat : L = Len(Directory)
  BY DirectoryIs
<1>2. dir = 0 \/ dir = L
  BY <1>1
<1>3. dir = L => dir >= L
  BY <1>1
<1> QED BY <1>1, <1>2, <1>3 DEF FromTheStart

LEMMA ShellEndsCat ==
  ASSUME CatRuns, CommandRuns', ShellEnds, pc = "prompt", arguments' = arguments
  PROVE  CatRuns'
<1>1. line' \in Seq(Texture)
  BY DEF CommandRuns
<1>2. arguments = <<>> /\ dir \in {0, Len(Directory)} /\ dir \in 0 .. Len(Directory)
  BY DEF CatRuns, Between
<1>3. pc' \in {"prompt", "halted"} /\ dir' \in {dir, FromTheStart(dir)}
  BY DEF ShellEnds
<1>4. dir' \in {0, Len(Directory)} /\ dir' \in 0 .. Len(Directory)
  BY <1>2, <1>3, StartsAgain
<1> QED BY <1>1, <1>2, <1>3, <1>4 DEF CatRuns, Between

\* The steps up to a program's first.
LEMMA BeforeStart ==
  ASSUME CommandRuns, CommandRuns', CatRuns, ReadLine \/ Execute \/ CopyProgram
  PROVE  CatRuns'
<1>1. CASE ReadLine
  <2>1. line' \in Seq(Texture) /\ pc = "prompt" /\ arguments' = arguments
    BY <1>1 DEF ReadLine, CommandRuns, process
  <2>2. ShellEnds \/ (pc' \in {"prompt", "execute"} /\ dir' = dir)
    BY <1>1 DEF ReadLine
  <2>3. CASE ShellEnds
    BY <2>1, <2>3, ShellEndsCat
  <2>4. CASE pc' \in {"prompt", "execute"} /\ dir' = dir
    BY <2>1, <2>4 DEF CatRuns, Between
  <2> QED BY <2>2, <2>3, <2>4
<1>2. CASE Execute
  <2> DEFINE name == StringAt(ParseCommand(buf), NameAt)
  <2>1. /\ pc = "execute" /\ line' = line
        /\ \/ Fails(2)
           \/ Fails(-1)
           \/ /\ Matches(name) # {} /\ pc' = "copy_program" /\ file' = FirstMatch(name)
              /\ dir' = FromTheStart(dir)
    BY <1>2 DEF Execute
  <2>2. dir \in {0, Len(Directory)} /\ line \in Seq(Texture) /\ arguments = <<>>
    BY <2>1 DEF CatRuns, Between
  <2> HIDE DEF name
  <2>3. CASE Fails(2) \/ Fails(-1)
    <3>1. pc' = "answer" /\ rval' # 0 /\ dir' = dir /\ arguments' = arguments
      BY <2>3 DEF Fails, process
    <3> QED BY <2>1, <2>2, <3>1 DEF CatRuns, Between
  <2>4. CASE /\ Matches(name) # {} /\ pc' = "copy_program" /\ file' = FirstMatch(name)
             /\ dir' = FromTheStart(dir)
    <3>1. dir' = 0
      BY <2>2, <2>4, StartsAgain
    <3>2. file' \in DOMAIN Directory
      BY <2>4, MatchIs DEF Matches
    <3>3. 0 \in 0 .. Len(Directory)
      BY DirectoryIs
    <3> QED BY <2>1, <2>2, <2>4, <3>1, <3>2, <3>3 DEF CatRuns, Between
  <2> QED BY <2>1, <2>3, <2>4
<1>3. CASE CopyProgram
  <2>1. /\ pc = "copy_program" /\ pc' \in {"copy_program", "start"}
        /\ line' = line /\ dir' = dir /\ file' = file
    BY <1>3 DEF CopyProgram, shell
  <2> QED BY <2>1 DEF CatRuns, Between
<1> QED BY <1>1, <1>2, <1>3

\* A program runs if it is that of the entry whose name is the first word.
LEMMA OneRuns ==
  ASSUME NEW program, file \in DOMAIN Directory, Directory[file].name = FirstWord
  PROVE  Runs(program) <=> Directory[file].program = program
BY DirectoryIs DEF Runs

LEMMA SameRuns ==
  ASSUME line' = line
  PROVE  Runs("cat")' <=> Runs("cat")
BY SameWords DEF Runs

LEMMA StartCat ==
  ASSUME CommandRuns, CatRuns, Start
  PROVE  CatRuns'
<1>1. pc = "start" /\ line' = line /\ dir' = dir /\ arguments' = arguments
  BY DEF Start
<1>2. /\ Between /\ dir = 0 /\ file \in DOMAIN Directory
      /\ line \in Seq(Texture) /\ Loads /\ dir \in 0 .. Len(Directory)
  BY <1>1 DEF CatRuns, CommandRuns, Between
<1>3. Directory[file].name = FirstWord
  BY <1>2 DEF Loads
<1>4. Runs("cat")' <=> Runs("cat")
  BY <1>1, SameRuns
<1>5. line' \in Seq(Texture) /\ dir' = 0 /\ dir' \in 0 .. Len(Directory) /\ dir' \in {0, Len(Directory)}
  BY <1>1, <1>2
<1>6. CASE Directory[file].program = "cat"
  <2>1. CASE CanOpen(arguments)
    <3>1. PICK chars \in ContentsOf(FirstMatch(arguments)) :
            /\ content' = chars /\ pos' = 0 /\ out' = <<>>
            /\ file' = FirstMatch(arguments)
            /\ pc' = "cat"
      BY <1>1, <1>6, <2>1 DEF Start, Open
    <3>2. PICK i \in Matches(arguments) : TRUE
      BY <2>1 DEF CanOpen
    <3>3. file' = i /\ Directory[i].name = arguments /\ i \in DOMAIN Directory
      BY <3>1, <3>2, MatchIs DEF Matches, SameName
    <3>5. Bytes(content)'
      <4>1. Bytes(chars)
        BY ContentIs
      <4> QED BY <3>1, <4>1 DEF Bytes
    <3>6. pos' \in 0 .. Len(content') /\ out' = SubSeq(content', 1, pos')
      <4>1. content' \in Seq(Range(content'))
        BY <3>5 DEF Bytes
      <4>2. SubSeq(content', 1, 0) = <<>> /\ 0 \in 0 .. Len(content')
        BY <4>1
      <4> QED BY <3>1, <4>2
    <3>7. out' = Listed(dir)'
      BY <1>5, <3>1 DEF Listed
    <3>8. CatPrints'
      BY <1>1, <1>5, <3>1, <3>3, <3>5, <3>6, <3>7 DEF CatPrints
    <3> QED BY <1>5, <3>1, <3>8 DEF CatRuns, Between
  <2>2. CASE ~CanOpen(arguments)
    <3>1. pc' = "answer" /\ rval' = IF arguments = <<>> THEN 3 ELSE 2
      BY <1>1, <1>6, <2>2 DEF Start, Return
    <3>2. ASSUME arguments # <<>>, NEW i \in DOMAIN Directory PROVE Directory[i].name # arguments
      <4>1. Len(Directory[i].name) <= NAME_SIZE
        BY CommandsAssumption DEF CommandsConstants
      <4>2. Matches(arguments) = {}
        BY <2>2, <3>2 DEF CanOpen
      <4> QED BY <4>1, <4>2 DEF Matches, SameName
    <3>3. rval' # 0 /\ (rval' = 2 => arguments # <<>>)
      BY <3>1
    <3>4. arguments # <<>> => CatRefused'
      BY <1>1, <3>2 DEF CatRefused
    <3> QED BY <1>5, <3>1, <3>3, <3>4 DEF CatRuns, Between
  <2> QED BY <2>1, <2>2
<1>7. CASE Directory[file].program # "cat"
  <2>1. ~Runs("cat")'
    BY <1>2, <1>3, <1>4, <1>7, OneRuns
  <2>2. pc' \in {"grep_next", "ls", "waits", "answer"}
    BY <1>1, <1>7 DEF Start, Return
  <2> QED BY <1>5, <2>1, <2>2 DEF CatRuns, Between
<1> QED BY <1>6, <1>7

\* What is read of a file is behind what has been, and nothing at its end only.
LEMMA ReadIs ==
  ASSUME Bytes(content), pos \in 0 .. Len(content), NEW size \in Nat \ {0}
  PROVE  /\ ReadData(size) \in Nat /\ pos + ReadData(size) \in 0 .. Len(content)
         /\ ReadData(size) = 0 => pos = Len(content)
         /\ ReadData(size) < size => pos + ReadData(size) = Len(content)
         /\ ReadData(size) <= size
         /\ SubSeq(content, 1, pos) \o Read(size) = SubSeq(content, 1, pos + ReadData(size))
<1>1. content \in Seq(Range(content))
  BY DEF Bytes
<1>2. PICK L \in Nat : L = Len(content)
  BY <1>1
<1>3. PICK p \in Nat : p = pos /\ p <= L
  BY <1>2
<1>4. PICK r \in Nat : r = ReadData(size) /\ p + r <= L /\ (r = 0 => p = L) /\ (r < size => p + r = L) /\ r <= size
  <2>1. ReadData(size) = IF L - p < size THEN L - p ELSE size
    BY <1>2, <1>3 DEF ReadData, Rest
  <2>2. CASE L - p < size
    <3>1. ReadData(size) = L - p /\ L - p \in Nat /\ p + (L - p) = L /\ L - p <= size
      BY <1>3, <2>1, <2>2
    <3>2. L - p = 0 => p = L
      BY <1>3
    <3> QED BY <1>3, <3>1, <3>2
  <2>3. CASE ~(L - p < size)
    <3>1. ReadData(size) = size /\ p + size <= L /\ size # 0 /\ ~(size < size) /\ size <= size
      BY <1>3, <2>1, <2>3
    <3> QED BY <3>1
  <2> QED BY <2>2, <2>3
<1>5. SubSeq(content, 1, p) \o SubSeq(content, p + 1, p + r) = SubSeq(content, 1, p + r)
  <2>1. p + r <= Len(content)
    BY <1>2, <1>4
  <2> QED BY ONLY <1>1, <2>1, p \in Nat, r \in Nat, TwoParts
<1>6. Read(size) = SubSeq(content, p + 1, p + r)
  BY <1>3, <1>4 DEF Read
<1>7. p + r \in 0 .. L
  BY <1>4
<1> QED BY <1>2, <1>3, <1>4, <1>5, <1>6, <1>7

LEMMA CatStep ==
  ASSUME CatRuns, Cat
  PROVE  CatRuns'
<1>1. /\ pc = "cat" /\ line' = line /\ content' = content /\ file' = file /\ arguments' = arguments
      /\ \/ /\ Directory[file].filetype = 2
            /\ out' = out \o Read(BUFSIZE) /\ pos' = pos + ReadData(BUFSIZE)
            /\ IF ReadData(BUFSIZE) = 0 THEN Return(0) ELSE UNCHANGED <<pc, rval>>
            /\ UNCHANGED dir
         \/ /\ Directory[file].filetype = 1 /\ dir < Len(Directory)
            /\ out' = out \o Directory[dir + 1].name /\ dir' = dir + 1
            /\ UNCHANGED <<pc, rval, pos>>
         \/ /\ Directory[file].filetype # 2
            /\ ~(Directory[file].filetype = 1 /\ dir < Len(Directory))
            /\ Return(0) /\ UNCHANGED <<out, pos, dir>>
  BY DEF Cat, process
<1>2. /\ line \in Seq(Texture) /\ dir \in 0 .. Len(Directory)
      /\ file \in DOMAIN Directory /\ arguments = Directory[file].name
      /\ Bytes(content)
      /\ Directory[file].filetype = 2 => pos \in 0 .. Len(content) /\ out = SubSeq(content, 1, pos)
      /\ Directory[file].filetype = 1 => out = Listed(dir)
      /\ Directory[file].filetype \notin {1, 2} => out = <<>>
  BY <1>1 DEF CatRuns, CatPrints, Between
<1>3. Bytes(content)' <=> Bytes(content)
  BY <1>1 DEF Bytes
<1>4. CASE Directory[file].filetype = 2
  <2>1. BUFSIZE \in Nat \ {0}
    BY ArraySizes
  <2>2. pos \in 0 .. Len(content) /\ out = SubSeq(content, 1, pos) /\ dir = 0
    BY <1>1, <1>2, <1>4 DEF CatRuns, CatPrints
  <2>3. /\ out' = out \o Read(BUFSIZE) /\ pos' = pos + ReadData(BUFSIZE)
        /\ IF ReadData(BUFSIZE) = 0 THEN Return(0) ELSE UNCHANGED <<pc, rval>>
        /\ UNCHANGED dir
    BY <1>1, <1>4
  <2>4. /\ pos' \in 0 .. Len(content) /\ out' = SubSeq(content, 1, pos')
        /\ ReadData(BUFSIZE) \in Nat /\ (ReadData(BUFSIZE) = 0 => pos = Len(content))
    BY <1>2, <2>1, <2>2, <2>3, ReadIs
  <2>5. CASE ReadData(BUFSIZE) = 0
    <3>1. pc' = "answer" /\ rval' = 0
      BY <2>3, <2>5 DEF Return
    <3>2. pos' = Len(content)
      <4>1. PICK L \in Nat : L = Len(content)
        BY <1>2 DEF Bytes
      <4> QED BY <2>2, <2>3, <2>4, <2>5, <4>1
    <3>3. out' = content
      BY <1>2, <2>4, <3>2, Whole DEF Bytes
    <3>4. CatPrinted'
      BY <1>1, <1>2, <1>3, <1>4, <3>3 DEF CatPrinted
    <3>5. dir' \in {0, Len(Directory)} /\ dir' \in 0 .. Len(Directory)
      BY <1>2, <2>2, <2>3
    <3> QED BY <1>1, <1>2, <3>1, <3>4, <3>5 DEF CatRuns, Between
  <2>6. CASE ReadData(BUFSIZE) # 0
    <3>1. pc' = "cat" /\ dir' = 0 /\ dir' \in 0 .. Len(Directory)
      BY <1>1, <1>2, <2>2, <2>3, <2>6
    <3>2. CatPrints'
      BY <1>1, <1>2, <1>3, <1>4, <2>4, <3>1 DEF CatPrints
    <3> QED BY <1>1, <1>2, <3>1, <3>2 DEF CatRuns, Between
  <2> QED BY <2>5, <2>6
<1>5. CASE Directory[file].filetype = 1 /\ dir < Len(Directory)
  <2>1. /\ out' = out \o Directory[dir + 1].name /\ dir' = dir + 1
        /\ UNCHANGED <<pc, rval, pos>> /\ out = Listed(dir)
    BY <1>1, <1>2, <1>5
  <2>2. out' = Listed(dir + 1)
    <3>1. dir \in Nat
      BY <1>2, DirectoryIs
    <3> QED BY <1>5, <2>1, <3>1, ListedSteps
  <2>3. dir' \in 0 .. Len(Directory)
    BY <1>2, <1>5, <2>1, DirectoryIs
  <2>4. out' = Listed(dir)'
    BY <2>1, <2>2 DEF Listed
  <2>5. CatPrints'
    BY <1>1, <1>2, <1>3, <1>5, <2>4 DEF CatPrints
  <2> QED BY <1>1, <1>2, <2>1, <2>3, <2>5 DEF CatRuns, Between
<1>6. CASE /\ Directory[file].filetype # 2
           /\ ~(Directory[file].filetype = 1 /\ dir < Len(Directory))
  <2>1. pc' = "answer" /\ rval' = 0 /\ out' = out /\ dir' = dir
    BY <1>1, <1>6 DEF Return
  <2>2. CASE Directory[file].filetype = 1
    <3>1. PICK L \in Nat : L = Len(Directory)
      BY DirectoryIs
    <3>2. dir = L
      BY <1>2, <1>6, <2>2, <3>1
    <3>3. PICK i \in 1 .. L : i = file
      BY <1>2, <3>1, DirectoryIs
    <3>4. FlattenSeq(EntryNames) = Listed(L)
      <4>1. 0 \in Nat /\ 0 < Len(Directory)
        BY <3>1, <3>3
      <4> QED BY <3>1, <4>1, ListedSteps
    <3>5. out' = FlattenSeq(EntryNames)
      BY <1>2, <2>1, <2>2, <3>2, <3>4
    <3>6. CatPrinted'
      BY <1>1, <2>2, <3>5 DEF CatPrinted
    <3> QED BY <1>1, <1>2, <2>1, <3>1, <3>2, <3>6 DEF CatRuns, Between
  <2>3. CASE Directory[file].filetype # 1
    <3>1. out' = <<>> /\ dir = 0
      BY <1>1, <1>2, <1>6, <2>1, <2>3 DEF CatRuns, CatPrints
    <3>2. CatPrinted'
      BY <1>1, <1>6, <2>3, <3>1 DEF CatPrinted
    <3> QED BY <1>1, <1>2, <2>1, <3>1, <3>2 DEF CatRuns, Between
  <2> QED BY <2>2, <2>3
<1> QED BY <1>1, <1>4, <1>5, <1>6

LEMMA OtherPrograms ==
  ASSUME CatRuns, Ls \/ GrepNext \/ GrepRead \/ GrepLine \/ GrepClose \/ Answer
  PROVE  CatRuns'
<1>1. line \in Seq(Texture) /\ dir \in 0 .. Len(Directory)
  BY DEF CatRuns, Between
<1>2. PICK L \in Nat : L = Len(Directory)
  BY DirectoryIs
<1>3. CASE Ls \/ GrepNext
  <2>1. /\ line' = line /\ pc \in {"ls", "grep_next"}
        /\ \/ pc' = "answer" /\ dir' = dir /\ ~(dir < L)
           \/ pc' \in {"ls", "grep_next", "grep_read"} /\ dir' \in {dir, dir + 1} /\ dir' \in 0 .. L
    <3>1. CASE Ls
      BY <1>1, <1>2, <3>1 DEF Ls, Return
    <3>2. CASE GrepNext
      BY <1>1, <1>2, <3>2 DEF GrepNext, Return, Open
    <3> QED BY <1>3, <3>1, <3>2
  <2>2. ~Runs("cat")'
    BY <2>1, SameRuns DEF CatRuns
  <2>3. CASE pc' = "answer" /\ dir' = dir /\ ~(dir < L)
    <3>1. dir' \in {0, L} /\ dir' \in 0 .. L
      BY <1>1, <1>2, <2>3
    <3> QED BY <1>1, <1>2, <2>1, <2>2, <2>3, <3>1 DEF CatRuns, Between
  <2> QED BY <1>1, <1>2, <2>1, <2>2, <2>3 DEF CatRuns, Between
<1>4. CASE GrepRead \/ GrepLine \/ GrepClose
  <2>1. /\ line' = line /\ dir' = dir
        /\ pc \in {"grep_read", "grep_line", "grep_close"}
        /\ pc' \in {"grep_next", "grep_read", "grep_line", "grep_close"}
    BY <1>4 DEF GrepRead, GrepLine, KeepPartial, SearchLine, AfterBuffer, GrepClose, shell
  <2>2. ~Runs("cat")'
    BY <2>1, SameRuns DEF CatRuns
  <2> QED BY <1>1, <2>1, <2>2 DEF CatRuns, Between
<1>5. CASE Answer
  <2>1. line' = line /\ dir' = dir /\ pc \in {"answer", "halted"} /\ pc' = "prompt" /\ arguments' = <<>>
    BY <1>5 DEF Answer
  <2> QED BY <1>1, <2>1 DEF CatRuns, Between
<1> QED BY <1>3, <1>4, <1>5

LEMMA OtherEnds ==
  ASSUME CatRuns, CommandRuns', StartShell \/ Awaited \/ Interrupted
  PROVE  CatRuns'
<1>1. line' \in Seq(Texture)
  BY DEF CommandRuns
<1>2. CASE StartShell
  <2>1. pc = "start" /\ pc' = "prompt" /\ dir' = dir /\ arguments' = <<>>
    BY <1>2 DEF StartShell
  <2>2. dir = 0 /\ dir \in 0 .. Len(Directory)
    BY <2>1 DEF CatRuns, Between
  <2> QED BY <1>1, <2>1, <2>2 DEF CatRuns, Between
<1>3. CASE Awaited
  <2>1. pc = "waits" /\ pc' = "answer" /\ dir' = dir /\ line' = line
    BY <1>3 DEF Awaited, Return
  <2>2. ~Runs("cat")' /\ dir \in {0, Len(Directory)} /\ dir \in 0 .. Len(Directory)
    BY <2>1, SameRuns DEF CatRuns, Between
  <2> QED BY <1>1, <2>1, <2>2 DEF CatRuns, Between
<1>4. CASE Interrupted
  <2>1. arguments' = arguments
    BY <1>4 DEF Interrupted, process
  <2>2. CASE pc = "prompt" /\ ShellEnds
    BY <2>1, <2>2, ShellEndsCat
  <2>3. CASE pc = "waits" /\ pc' = "halted" /\ dir' = dir
    <3>1. dir \in {0, Len(Directory)} /\ dir \in 0 .. Len(Directory)
      BY <2>3 DEF CatRuns, Between
    <3> QED BY <1>1, <2>3, <3>1 DEF CatRuns, Between
  <2> QED BY <1>4, <2>2, <2>3 DEF Interrupted
<1> QED BY <1>2, <1>3, <1>4

-----------------------------------------------------------------------------
(* What grep prints *)

\* The reference's recursive function, of a pattern and a text.
HasIt(p, chars) == \E i \in 0 .. Len(chars) - Len(p) : SubSeq(chars, i + 1, i + Len(p)) = p
EndedOf(p, at) == IF HasIt(p, at.line) THEN Append(at.lines, at.line) ELSE at.lines
NextOf(p, at, c) ==
    IF c = "nl" THEN [lines |-> EndedOf(p, at), line |-> <<>>]
    ELSE [lines |-> at.lines, line |-> Append(at.line, c)]
IsUpto(f, p, chars, n) ==
    f = [k \in 0 .. n |-> IF k = 0 THEN [lines |-> <<>>, line |-> <<>>] ELSE NextOf(p, f[k - 1], chars[k])]
Upto(p, chars) == CHOOSE f : IsUpto(f, p, chars, Len(chars))

\* What has been printed is what the first q bytes of the text have, and a line
\* starts there, or one has been printed that ends there.
StartsAt(printed, p, chars, q) ==
    /\ q \in 0 .. Len(chars)
    /\ printed = EndedOf(p, Upto(p, chars)[q])
    /\ Upto(p, chars)[q].line = <<>> \/ q = Len(chars) \/ chars[q + 1] = "nl"

\* Text that grep's buffer fits, after a buffer that no one has set.
Fits == content # Executable /\ leftover # "nl" /\ LinesFit(content)

\* The buffer has what was read of the file last; a newline before from has become
\* a "nul".
InBuffer(from) == last <= pos /\ \A k \in from + 1 .. last : data[k] = content[pos - last + k]

GrepTypes ==
    /\ arguments \in Seq(Texture) /\ arguments # <<>>
    /\ Bytes(data) /\ Len(data) = BUFSIZE + 1 /\ data[BUFSIZE + 1] \in {leftover, "nul"}
FileTypes == content \in ContentsOf(file) /\ pos \in 0 .. Len(content)

\* Inductive, with CommandRuns and CatRuns.
GrepRuns ==
    /\ pc \in {"grep_next", "grep_read", "grep_line", "grep_close"} => GrepTypes
    /\ pc \in {"grep_read", "grep_line"} => FileTypes /\ last \in 0 .. BUFSIZE
    /\ pc = "grep_read" =>
          /\ last < BUFSIZE
          /\ Fits => InBuffer(0) /\ StartsAt(out, arguments, content, pos - last)
    /\ pc = "grep_line" =>
          /\ line_start \in 0 .. BUFSIZE /\ (line_start = 0 \/ line_start < last)
          /\ cnt = 0 \/ last < BUFSIZE => pos = Len(content)
          /\ Fits => InBuffer(line_start) /\ StartsAt(out, arguments, content, pos - last + line_start)
    /\ pc = "grep_close" => (Fits => StartsAt(out, arguments, content, Len(content)))

-----------------------------------------------------------------------------
(* The reference's function *)

LEMMA UptoExists ==
  ASSUME NEW p, NEW chars, NEW n \in Nat
  PROVE  \E f : IsUpto(f, p, chars, n)
<1> DEFINE S == {m \in Nat : \E f : IsUpto(f, p, chars, m)}
           none == [lines |-> <<>>, line |-> <<>>]
<1> HIDE DEF none
<1>1. 0 \in S
  <2> DEFINE f == [k \in 0 .. 0 |-> none]
  <2>1. f = [k \in 0 .. 0 |-> IF k = 0 THEN none ELSE NextOf(p, f[k - 1], chars[k])]
    <3>1. \A k \in 0 .. 0 : none = IF k = 0 THEN none ELSE NextOf(p, f[k - 1], chars[k])
      OBVIOUS
    <3> QED BY <3>1
  <2>2. IsUpto(f, p, chars, 0)
    BY <2>1 DEF IsUpto, none
  <2> QED BY <2>2
<1>2. ASSUME NEW m \in Nat, m \in S PROVE m + 1 \in S
  <2>1. PICK f : IsUpto(f, p, chars, m)
    BY <1>2
  <2> DEFINE next == NextOf(p, f[m], chars[m + 1])
             g == [k \in 0 .. m + 1 |-> IF k = m + 1 THEN next ELSE f[k]]
  <2>2. \A k \in 0 .. m : f[k] = IF k = 0 THEN none ELSE NextOf(p, f[k - 1], chars[k])
    BY <2>1 DEF IsUpto, none
  <2>3. ASSUME NEW k \in 0 .. m + 1
        PROVE  g[k] = IF k = 0 THEN none ELSE NextOf(p, g[k - 1], chars[k])
    <3> HIDE DEF next
    <3>1. CASE k = m + 1
      <4>1. g[k] = next /\ k # 0
        BY <3>1
      <4>2. k - 1 = m /\ m \in 0 .. m + 1 /\ m # m + 1
        BY <3>1
      <4>3. g[k - 1] = f[m]
        BY <4>2
      <4> QED BY <3>1, <4>1, <4>3 DEF next
    <3>2. CASE k # m + 1
      <4>1. k \in 0 .. m /\ g[k] = f[k]
        BY <3>2
      <4>2. CASE k = 0
        BY <2>2, <4>1, <4>2
      <4>3. CASE k # 0
        <5>1. k - 1 \in 0 .. m + 1 /\ k - 1 # m + 1
          BY <4>1, <4>3
        <5>2. g[k - 1] = f[k - 1]
          BY <5>1
        <5> QED BY <2>2, <4>1, <4>3, <5>2
      <4> QED BY <4>2, <4>3
    <3> QED BY <3>1, <3>2
  <2>4. g = [k \in 0 .. m + 1 |-> g[k]]
    OBVIOUS
  <2> HIDE DEF g
  <2>5. IsUpto(g, p, chars, m + 1)
    BY <2>3, <2>4 DEF IsUpto, none
  <2> QED BY <2>5
<1> HIDE DEF S
<1>3. Nat \subseteq S
  BY <1>1, <1>2, Induction
<1> QED BY <1>3 DEF S

LEMMA UptoIs ==
  ASSUME NEW p, NEW chars, Len(chars) \in Nat
  PROVE  /\ Upto(p, chars)[0] = [lines |-> <<>>, line |-> <<>>]
         /\ \A k \in 1 .. Len(chars) : Upto(p, chars)[k] = NextOf(p, Upto(p, chars)[k - 1], chars[k])
<1>1. PICK n \in Nat : n = Len(chars)
  OBVIOUS
<1> DEFINE f == Upto(p, chars)
<1>2. IsUpto(f, p, chars, n)
  <2>1. \E g : IsUpto(g, p, chars, n)
    BY UptoExists
  <2> QED BY <1>1, <2>1 DEF Upto
<1> HIDE DEF f
<1>3. \A k \in 0 .. n : f[k] = IF k = 0 THEN [lines |-> <<>>, line |-> <<>>] ELSE NextOf(p, f[k - 1], chars[k])
  BY <1>2 DEF IsUpto
<1>4. 0 \in 0 .. n /\ \A k \in 1 .. n : k \in 0 .. n /\ k # 0
  OBVIOUS
<1> QED BY <1>1, <1>3, <1>4 DEF f

\* What follows a part of a sequence, appended to it, makes a longer part.
LEMMA LongerPart ==
  ASSUME NEW S, NEW s \in Seq(S), NEW q \in Nat, NEW m \in Nat, q + m + 1 <= Len(s)
  PROVE  Append(SubSeq(s, q + 1, q + m), s[q + m + 1]) = SubSeq(s, q + 1, q + m + 1)
<1>1. PICK t \in Nat : t = q + m
  OBVIOUS
<1>1a. PICK u \in Nat : u = q + m + 1
  OBVIOUS
<1> DEFINE a == SubSeq(s, q + 1, t)
           b == SubSeq(s, q + 1, u)
<1>2. q <= t /\ q <= u /\ t <= Len(s) /\ u <= Len(s) /\ t - q = m /\ u - q = m + 1
  BY <1>1, <1>1a
<1>3. a \in Seq(S) /\ Len(a) = t - q /\ \A k \in 1 .. t - q : a[k] = s[q + k]
  BY <1>2, Part
<1>4. b \in Seq(S) /\ Len(b) = u - q /\ \A k \in 1 .. u - q : b[k] = s[q + k]
  BY <1>2, Part
<1> HIDE DEF a, b
<1>5. s[u] \in S
  BY <1>1a, <1>2
<1>6. /\ Append(a, s[u]) \in Seq(S) /\ Len(Append(a, s[u])) = m + 1
      /\ \A k \in 1 .. m : Append(a, s[u])[k] = a[k]
      /\ Append(a, s[u])[m + 1] = s[u]
  BY <1>2, <1>3, <1>5, AppendProperties
<1>7. \A k \in 1 .. m + 1 : Append(a, s[u])[k] = b[k]
  <2> TAKE k \in 1 .. m + 1
  <2>1. CASE k \in 1 .. m
    BY <1>2, <1>3, <1>4, <1>6, <2>1
  <2>2. CASE k = m + 1
    <3>1. q + k = u
      BY <1>1a, <2>2
    <3> QED BY <1>2, <1>4, <1>6, <2>2, <3>1
  <2>3. k \in 1 .. m \/ k = m + 1
    OBVIOUS
  <2> QED BY <2>1, <2>2, <2>3
<1>8. Append(a, s[u]) = b
  BY <1>2, <1>4, <1>6, <1>7, SameSeq
<1> QED BY <1>1, <1>1a, <1>8 DEF a, b

Plain(chars, q, m) == \A k \in 1 .. m : chars[q + k] # "nl"

\* From the start of a line, the bytes before its newline are it.
LEMMA LineIs ==
  ASSUME NEW p, NEW chars, Bytes(chars), NEW q \in Nat, NEW m \in Nat, q + m <= Len(chars),
         Plain(chars, q, m), Upto(p, chars)[q].line = <<>>
  PROVE  /\ Upto(p, chars)[q + m].lines = Upto(p, chars)[q].lines
         /\ Upto(p, chars)[q + m].line = SubSeq(chars, q + 1, q + m)
<1> DEFINE f == Upto(p, chars)
           Is(k) == f[q + k].lines = f[q].lines /\ f[q + k].line = SubSeq(chars, q + 1, q + k)
           S == {k \in Nat : k <= m => Is(k)}
<1>1. PICK L \in Nat : L = Len(chars)
  BY DEF Bytes
<1>2. chars \in Seq(Range(chars))
  BY DEF Bytes
<1>3. \A k \in 1 .. L : f[k] = NextOf(p, f[k - 1], chars[k])
  BY <1>1, UptoIs
<1>3a. f[q].line = <<>>
  OBVIOUS
<1> HIDE DEF f
<1>4. 0 \in S
  <2>1. q + 0 = q /\ SubSeq(chars, q + 1, q) = <<>>
    BY <1>2
  <2> QED BY <1>3a, <2>1
<1>5. ASSUME NEW k \in Nat, k \in S PROVE k + 1 \in S
  <2> SUFFICES ASSUME k + 1 <= m PROVE Is(k + 1)
    OBVIOUS
  <2>1. Is(k)
    BY <1>5
  <2>2. PICK u \in Nat : u = q + k + 1
    OBVIOUS
  <2>3. u \in 1 .. L /\ u - 1 = q + k /\ q + (k + 1) = u /\ k + 1 \in 1 .. m /\ u <= Len(chars)
    BY <1>1, <2>2
  <2>4. f[u] = NextOf(p, f[q + k], chars[u]) /\ chars[u] # "nl"
    <3>1. chars[q + (k + 1)] # "nl"
      BY <2>3 DEF Plain
    <3>2. f[u] = NextOf(p, f[u - 1], chars[u])
      BY <1>3, <2>3
    <3> QED BY <2>3, <3>1, <3>2
  <2>5. f[u] = [lines |-> f[q + k].lines, line |-> Append(f[q + k].line, chars[u])]
    BY <2>4 DEF NextOf
  <2>6. Append(SubSeq(chars, q + 1, q + k), chars[q + k + 1]) = SubSeq(chars, q + 1, q + k + 1)
    <3>1. q + k + 1 <= Len(chars)
      BY <2>2, <2>3
    <3> QED BY ONLY <1>2, <3>1, q \in Nat, k \in Nat, LongerPart
  <2>7. Append(SubSeq(chars, q + 1, q + k), chars[u]) = SubSeq(chars, q + 1, u)
    BY <2>2, <2>6
  <2>8. f[u].lines = f[q].lines /\ f[u].line = SubSeq(chars, q + 1, u)
    <3>1. f[u].lines = f[q + k].lines /\ f[u].line = Append(f[q + k].line, chars[u])
      BY ONLY <2>5
    <3>2. f[q + k].lines = f[q].lines /\ f[q + k].line = SubSeq(chars, q + 1, q + k)
      BY ONLY <2>1
    <3> QED BY ONLY <2>7, <3>1, <3>2
  <2> QED BY <2>3, <2>8
<1> HIDE DEF S
<1>6. m \in S
  BY <1>4, <1>5, Induction
<1>7. Is(m)
  BY <1>6 DEF S
<1> QED BY <1>7 DEF f

LEMMA EmptyLine ==
  ASSUME NEW S, NEW p \in Seq(S), p # <<>>
  PROVE  ~HasIt(p, <<>>)
<1>1. PICK n \in Nat : n = Len(p) /\ n # 0
  BY EmptySeq
<1>2. Len(<<>>) = 0 /\ 0 .. 0 - n = {}
  BY <1>1
<1> QED BY <1>1, <1>2 DEF HasIt

Printed(printed, p, string) == IF HasIt(p, string) THEN Append(printed, string) ELSE printed

\* A line is searched: what has been printed then is what the text up to its end
\* has, its newline, if there is one, counted or not.
LEMMA Searched ==
  ASSUME NEW S, NEW p \in Seq(S), p # <<>>, NEW chars, Bytes(chars), NEW printed,
         NEW q \in Nat, NEW m \in Nat, q + m <= Len(chars),
         StartsAt(printed, p, chars, q), Plain(chars, q, m)
  PROVE  LET then == Printed(printed, p, SubSeq(chars, q + 1, q + m))
         IN  /\ q + m < Len(chars) /\ chars[q + m + 1] = "nl" => StartsAt(then, p, chars, q + m + 1)
             /\ q + m = Len(chars) \/ chars[q + m + 1] = "nl" => StartsAt(then, p, chars, q + m)
<1> DEFINE f == Upto(p, chars)
           string == SubSeq(chars, q + 1, q + m)
           then == Printed(printed, p, string)
<1>1. PICK L \in Nat : L = Len(chars)
  BY DEF Bytes
<1>2. chars \in Seq(Range(chars))
  BY DEF Bytes
<1>3. PICK e \in Nat : e = q + m
  OBVIOUS
<1>4. PICK u \in Nat : u = q + m + 1
  OBVIOUS
<1>5. u = e + 1 /\ e = u - 1 /\ e <= L /\ e \in 0 .. L /\ (e < L => u \in 1 .. L /\ u \in 0 .. L)
  BY <1>1, <1>3, <1>4
<1>6. \A k \in 1 .. L : f[k] = NextOf(p, f[k - 1], chars[k])
  BY <1>1, UptoIs
<1>7. printed = EndedOf(p, f[q]) /\ (f[q].line = <<>> \/ q = L \/ chars[q + 1] = "nl")
  BY <1>1 DEF StartsAt
<1>8. ~HasIt(p, <<>>)
  BY EmptyLine
<1>9. f[q].line = <<>> => f[e].lines = f[q].lines /\ f[e].line = string
  BY <1>3, LineIs
<1>10. then = EndedOf(p, f[e]) /\ (f[e].line = <<>> \/ e = L \/ chars[u] = "nl" \/ f[q].line = <<>>)
  <2>1. CASE f[q].line = <<>>
    <3> HIDE DEF f, string
    <3>1. printed = f[q].lines
      BY <1>7, <1>8, <2>1 DEF EndedOf
    <3> QED BY <1>9, <2>1, <3>1 DEF Printed, EndedOf
  <2>2. CASE f[q].line # <<>> /\ q = L
    <3>1. m = 0 /\ e = q
      BY <1>1, <1>3, <2>2
    <3>2. string = <<>>
      BY <1>2, <3>1
    <3> HIDE DEF f, string
    <3> QED BY <1>7, <1>8, <2>2, <3>1, <3>2 DEF Printed
  <2>3. CASE f[q].line # <<>> /\ chars[q + 1] = "nl"
    <3>1. m = 0
      <4>1. ~(1 \in 1 .. m)
        BY <2>3 DEF Plain
      <4> QED BY <4>1
    <3>2. string = <<>> /\ e = q /\ u = q + 1
      BY <1>2, <1>3, <1>4, <3>1
    <3> HIDE DEF f, string
    <3> QED BY <1>7, <1>8, <2>3, <3>2 DEF Printed
  <2> QED BY <1>7, <2>1, <2>2, <2>3
<1> HIDE DEF string, then, f
<1>11. ASSUME e < L, chars[u] = "nl" PROVE StartsAt(then, p, chars, u)
  <2>1. f[u] = NextOf(p, f[e], chars[u])
    BY <1>5, <1>6, <1>11
  <2>2. f[u].lines = EndedOf(p, f[e]) /\ f[u].line = <<>>
    BY <1>11, <2>1 DEF NextOf
  <2>3. EndedOf(p, f[u]) = then
    BY <1>8, <1>10, <2>2 DEF EndedOf
  <2> QED BY <1>1, <1>5, <1>11, <2>2, <2>3 DEF StartsAt, f
<1>12. ASSUME e = L \/ chars[u] = "nl" PROVE StartsAt(then, p, chars, e)
  <2>1. chars[e + 1] = chars[u]
    BY <1>5
  <2> QED BY <1>1, <1>5, <1>10, <1>12, <2>1 DEF StartsAt, f
<1> QED BY <1>1, <1>3, <1>4, <1>11, <1>12 DEF then, string

-----------------------------------------------------------------------------
(* grep's buffer *)

LEMMA BytesAre ==
  ASSUME NEW S, NEW n \in Nat, NEW a \in [1 .. n -> S]
  PROVE  Bytes(a) /\ Len(a) = n
BY DEF Bytes, Range

FoundAt(s, p, b, m) == \E check \in b + 1 .. b + m - Len(p) + 1 : SubSeq(s, check, check + Len(p) - 1) = p

\* The pattern is in a part of an array if it is in the string that is the part.
LEMMA SameFound ==
  ASSUME NEW S, NEW s \in Seq(S), NEW t \in Seq(S), NEW p \in Seq(S), NEW b \in Nat, NEW m \in Nat,
         b + m <= Len(s), Len(t) = m, Same(t, s, b, m)
  PROVE  FoundAt(s, p, b, m) <=> HasIt(p, t)
<1>1. PICK n \in Nat : n = Len(p)
  OBVIOUS
<1>2. ASSUME NEW i \in Nat, i + n <= m
      PROVE  SubSeq(s, b + i + 1, b + i + n) = SubSeq(t, i + 1, i + n)
  <2>1. PICK c \in Nat : c = b + i
    OBVIOUS
  <2>2. PICK d \in Nat : d = b + i + n
    OBVIOUS
  <2>3. PICK j \in Nat : j = i + n
    OBVIOUS
  <2> DEFINE x == SubSeq(s, c + 1, d)
             y == SubSeq(t, i + 1, j)
  <2>4. c <= d /\ d <= Len(s) /\ d - c = n /\ i <= j /\ j <= Len(t) /\ j - i = n
    BY <1>2, <2>1, <2>2, <2>3
  <2>5. x \in Seq(S) /\ Len(x) = d - c /\ \A k \in 1 .. d - c : x[k] = s[c + k]
    BY <2>4, Part
  <2>6. y \in Seq(S) /\ Len(y) = j - i /\ \A k \in 1 .. j - i : y[k] = t[i + k]
    BY <2>4, Part
  <2> HIDE DEF x, y
  <2>7. \A k \in 1 .. n : x[k] = y[k]
    <3> TAKE k \in 1 .. n
    <3>1. x[k] = s[c + k] /\ y[k] = t[i + k]
      BY <2>4, <2>5, <2>6
    <3>2. i + k \in 1 .. m /\ b + (i + k) = c + k
      BY <1>2, <2>1
    <3>3. t[i + k] = s[b + (i + k)]
      BY <3>2 DEF Same
    <3> QED BY <3>1, <3>2, <3>3
  <2>8. x = y
    BY <2>4, <2>5, <2>6, <2>7, SameSeq
  <2> QED BY <2>1, <2>2, <2>3, <2>8 DEF x, y
<1>3. ASSUME NEW check \in b + 1 .. b + m - n + 1, SubSeq(s, check, check + n - 1) = p
      PROVE  HasIt(p, t)
  <2>1. PICK i \in Nat : i = check - b - 1
    OBVIOUS
  <2>2. i \in 0 .. m - n /\ i + n <= m /\ check = b + i + 1 /\ check + n - 1 = b + i + n
    BY <2>1
  <2>3. SubSeq(t, i + 1, i + n) = p
    BY <1>2, <1>3, <2>2
  <2> QED BY <1>1, <2>2, <2>3 DEF HasIt
<1>4. ASSUME NEW i \in 0 .. m - n, SubSeq(t, i + 1, i + n) = p
      PROVE  \E check \in b + 1 .. b + m - n + 1 : SubSeq(s, check, check + n - 1) = p
  <2>1. PICK check \in Nat : check = b + i + 1
    OBVIOUS
  <2>2. check \in b + 1 .. b + m - n + 1 /\ check + n - 1 = b + i + n /\ i + n <= m
    BY <2>1
  <2>3. SubSeq(s, b + i + 1, b + i + n) = p
    <3>1. i \in Nat
      OBVIOUS
    <3>2. SubSeq(s, b + i + 1, b + i + n) = SubSeq(t, i + 1, i + n)
      BY ONLY <1>2, <2>2, <3>1
    <3> QED BY ONLY <1>4, <3>2
  <2>4. SubSeq(s, check, check + n - 1) = p
    BY <2>1, <2>2, <2>3
  <2> QED BY <2>2, <2>4
<1> QED BY <1>1, <1>3, <1>4 DEF HasIt, FoundAt

\* A text that grep is asked to search has no "nul".
LEMMA TextIs ==
  ASSUME Fits, FileTypes
  PROVE  content \in Seq(Range(content) \ {"nul"}) /\ LinesFit(content) /\ Bytes(content)
<1>1. content \in ContentsOf(file) /\ content # Executable
  BY DEF Fits, FileTypes
<1>2. ASSUME content \in Texts PROVE content \in Seq(Range(content) \ {"nul"})
  BY <1>2, CommandsAssumption DEF CommandsConstants
<1>3. content \in Texts \/ content = <<>>
  BY <1>1 DEF ContentsOf
<1>4. ASSUME content = <<>> PROVE content \in Seq(Range(content) \ {"nul"})
  BY <1>4
<1>5. Bytes(content)
  BY <1>1, ContentIs
<1> QED BY <1>2, <1>3, <1>4, <1>5 DEF Fits

GrepSizes == last \in 0 .. BUFSIZE /\ line_start \in 0 .. BUFSIZE /\ (line_start = 0 \/ line_start < last)

LEMMA LineEnd ==
  ASSUME GrepSizes
  PROVE  \E m \in Nat : /\ line_end = line_start + m /\ line_start + m <= last
                        /\ line_start + m = last \/ data[line_start + m + 1] = "nl"
                        /\ Plain(data, line_start, m)
<1>1. line_start \in Nat /\ last - line_start \in Nat
  BY ArraySizes DEF GrepSizes
<1>2. PICK m \in Nat : /\ Span(data, line_start, {"nl"}, last - line_start) = m
                       /\ m <= last - line_start
                       /\ m = last - line_start \/ data[line_start + m + 1] \in {"nl"}
                       /\ \A k \in 1 .. m : data[line_start + k] \notin {"nl"}
  BY <1>1, SpanEnds
<1>3. PICK a \in Nat : a = line_start
  BY <1>1
<1>4. PICK b \in Nat : b = last
  BY ArraySizes DEF GrepSizes
<1>5. a + m <= b /\ (m = b - a => a + m = b)
  BY <1>2, <1>3, <1>4
<1>6. line_end = a + m
  BY <1>2, <1>3 DEF line_end
<1>7. Plain(data, line_start, m)
  BY <1>2 DEF Plain
<1> QED BY <1>2, <1>3, <1>4, <1>5, <1>6, <1>7

LEMMA TerminatedIs ==
  ASSUME GrepTypes, NEW e \in Nat, e = line_end, e <= BUFSIZE
  PROVE  /\ Terminated \in [1 .. BUFSIZE + 1 -> Range(data) \cup {"nul"}]
         /\ Bytes(Terminated) /\ Len(Terminated) = BUFSIZE + 1
         /\ Terminated[e + 1] = "nul"
         /\ \A i \in 1 .. BUFSIZE + 1 : i # e + 1 => Terminated[i] = data[i]
         /\ Terminated[BUFSIZE + 1] \in {leftover, "nul"}
<1>1. PICK N \in Nat : N = BUFSIZE + 1
  BY ArraySizes
<1>2. data \in Seq(Range(data)) /\ Len(data) = N /\ data[N] \in {leftover, "nul"}
  BY <1>1 DEF GrepTypes, Bytes
<1>3. data \in [1 .. N -> Range(data)]
  BY <1>2
<1>4. PICK d \in Nat : d = e + 1
  OBVIOUS
<1>5. d \in 1 .. N
  BY <1>1, <1>4, ArraySizes
<1>6. Terminated = [data EXCEPT ![d] = "nul"]
  BY <1>4 DEF Terminated
<1>7. /\ Terminated \in [1 .. N -> Range(data) \cup {"nul"}] /\ Terminated[d] = "nul"
      /\ \A i \in 1 .. N : i # d => Terminated[i] = data[i]
  BY <1>3, <1>5, <1>6
<1>8. Bytes(Terminated) /\ Len(Terminated) = N
  BY <1>7, BytesAre
<1>9. Terminated[N] \in {leftover, "nul"}
  BY <1>2, <1>5, <1>7
<1> QED BY <1>1, <1>4, <1>7, <1>8, <1>9

\* The line that is searched, and printed, is the file's.
LEMMA LineString ==
  ASSUME GrepTypes, Fits, FileTypes, GrepSizes, InBuffer(line_start),
         NEW m \in Nat, line_end = line_start + m, line_start + m <= last, Plain(data, line_start, m),
         NEW q \in Nat, q = pos - last + line_start
  PROVE  /\ q + m <= pos /\ Plain(content, q, m)
         /\ \A k \in 1 .. m : data[line_start + k] = content[q + k]
         /\ StringAt(Terminated, line_start) = SubSeq(content, q + 1, q + m)
         /\ Found <=> HasIt(arguments, SubSeq(content, q + 1, q + m))
<1>1. /\ content \in Seq(Range(content) \ {"nul"}) /\ content \in Seq(Range(content))
      /\ arguments \in Seq(Texture) /\ data \in Seq(Range(data)) /\ Len(data) = BUFSIZE + 1
  BY TextIs DEF GrepTypes, Bytes
<1>2. PICK a \in Nat, b \in Nat, N \in Nat : a = line_start /\ b = last /\ N = BUFSIZE + 1
  BY ArraySizes DEF GrepSizes
<1>3. PICK p \in Nat, L \in Nat : p = pos /\ L = Len(content) /\ p <= L
  <2>1. pos \in 0 .. Len(content) /\ Len(content) \in Nat
    BY <1>1 DEF FileTypes
  <2> QED BY <2>1
<1>4. PICK e \in Nat : e = a + m
  OBVIOUS
<1>5. b < N /\ e <= b /\ q = p - b + a /\ b <= p /\ e = line_end /\ e <= BUFSIZE
  <2>1. b <= p
    BY <1>2, <1>3 DEF InBuffer
  <2>2. b <= BUFSIZE
    BY <1>2, ArraySizes DEF GrepSizes
  <2>3. a + m <= b /\ line_end = a + m /\ q = p - b + a
    BY <1>2, <1>3
  <2> QED BY <1>2, <1>4, <2>1, <2>2, <2>3, ArraySizes
<1>6. PICK r \in Nat : r = q + m
  OBVIOUS
<1>7. q <= r /\ r <= p /\ r <= L /\ r - q = m
  <2>1. /\ a \in Nat /\ b \in Nat /\ p \in Nat /\ L \in Nat /\ q \in Nat /\ r \in Nat
        /\ m \in Nat /\ e \in Nat /\ p <= L
    BY <1>3
  <2> QED BY ONLY <1>4, <1>5, <1>6, <2>1
<1> DEFINE string == SubSeq(content, q + 1, r)
           S == Range(data) \cup Range(content) \cup Texture \cup {"nul"}
<1>8. \A k \in 1 .. m : data[a + k] = content[q + k]
  <2> TAKE k \in 1 .. m
  <2>1. a + k \in a + 1 .. b /\ p - b + (a + k) = q + k
    BY <1>4, <1>5
  <2>2. data[a + k] = content[p - b + (a + k)]
    BY <1>2, <1>3, <2>1 DEF InBuffer
  <2> QED BY <2>1, <2>2
<1>9. Plain(content, q, m)
  BY <1>2, <1>8 DEF Plain
<1>10. /\ string \in Seq(Range(content) \ {"nul"}) /\ Len(string) = r - q
       /\ \A k \in 1 .. r - q : string[k] = content[q + k]
  <2>1. r <= Len(content)
    BY <1>3, <1>7
  <2> DEFINE T == Range(content) \ {"nul"}
  <2>2. content \in Seq(T) /\ q <= r
    BY <1>1, <1>7
  <2> HIDE DEF T
  <2>3. /\ SubSeq(content, q + 1, r) \in Seq(T) /\ Len(SubSeq(content, q + 1, r)) = r - q
        /\ \A k \in 1 .. r - q : SubSeq(content, q + 1, r)[k] = content[q + k]
    BY ONLY <2>1, <2>2, q \in Nat, r \in Nat, Part
  <2> QED BY <2>3 DEF T
<1> HIDE DEF string
<1>11. /\ Terminated \in [1 .. N -> Range(data) \cup {"nul"}] /\ Terminated[e + 1] = "nul"
       /\ \A i \in 1 .. N : i # e + 1 => Terminated[i] = data[i]
  <2> HIDE DEF S
  <2> QED BY <1>2, <1>5, TerminatedIs
<1>12. StringAt(Terminated, a) = string
  <2>1. Terminated \in [1 .. N -> S]
    BY <1>11
  <2>2. string \in Seq(S \ {"nul"})
    BY <1>10
  <2>3. a + Len(string) + 1 <= N /\ a + Len(string) + 1 = e + 1
    BY <1>4, <1>5, <1>7, <1>10
  <2>4. \A k \in 1 .. m : Terminated[a + k] = string[k]
    <3> TAKE k \in 1 .. m
    <3>1. a + k \in 1 .. N /\ a + k # e + 1
      BY <1>4, <1>5
    <3>2. Terminated[a + k] = data[a + k] /\ data[a + k] = content[q + k]
      BY <1>8, <1>11, <3>1
    <3> QED BY <1>7, <1>10, <3>2
  <2>5. Holds(Terminated, a, string)
    BY <1>7, <1>10, <1>11, <2>3, <2>4 DEF Holds
  <2> HIDE DEF S
  <2> QED BY <2>1, <2>2, <2>3, <2>5, HeldString
<1>13. Found <=> HasIt(arguments, string)
  <2>1. data \in Seq(S) /\ string \in Seq(S) /\ arguments \in Seq(S)
    BY <1>1, <1>10
  <2>2. a + m <= Len(data) /\ Len(string) = m
    <3>1. Len(data) = N /\ Len(string) = r - q
      BY <1>1, <1>2, <1>10
    <3>2. a + m <= N
      BY <1>4, <1>5
    <3> QED BY ONLY <1>7, <3>1, <3>2
  <2>3. Same(string, data, a, m)
    BY <1>7, <1>8, <1>10 DEF Same
  <2> HIDE DEF S
  <2>4. FoundAt(data, arguments, a, m) <=> HasIt(arguments, string)
    BY ONLY <2>1, <2>2, <2>3, a \in Nat, m \in Nat, SameFound
  <2>5. Found <=> FoundAt(data, arguments, a, m)
    BY <1>2, <1>4, <1>5 DEF Found, FoundAt
  <2> QED BY <2>4, <2>5
<1> QED BY <1>2, <1>3, <1>6, <1>7, <1>8, <1>9, <1>12, <1>13 DEF string

LEMMA LeftLine ==
  ASSUME GrepTypes, Len(Terminated) = BUFSIZE + 1
  PROVE  ToNul(SubSeq(Terminated, line_start + 1, BUFSIZE + 1)) = StringAt(Terminated, line_start)
BY DEF StringAt

\* A buffer that ends in no newline ends in a whole line, or at the end of the file.
LEMMA FullLine ==
  ASSUME GrepTypes, Fits, FileTypes, GrepSizes, InBuffer(line_start), ~Partial,
         cnt = 0 \/ last < BUFSIZE => pos = Len(content),
         NEW m \in Nat, line_end = line_start + m, line_start + m = last,
         NEW q \in Nat, q = pos - last + line_start, Plain(content, q, m)
  PROVE  pos = Len(content) \/ content[pos + 1] = "nl"
<1>1. PICK b \in Nat : b = last /\ b <= BUFSIZE
  BY ArraySizes DEF GrepSizes
<1>2. PICK p \in Nat, L \in Nat : p = pos /\ L = Len(content) /\ p <= L
  <2>1. Len(content) \in Nat /\ pos \in 0 .. Len(content)
    BY TextIs DEF FileTypes, Bytes
  <2>2. pos \in Nat /\ pos <= Len(content)
    BY ONLY <2>1
  <2> QED BY ONLY <2>1, <2>2
<1>3. CASE cnt = 0 \/ b < BUFSIZE
  BY <1>1, <1>2, <1>3
<1>4. CASE cnt # 0 /\ b = BUFSIZE
  <2>1. data[BUFSIZE + 1] # "nl"
    BY DEF GrepTypes, Fits
  <2>2. data[line_end + 1] # "nl"
    BY <1>1, <1>4, <2>1
  <2>3. line_start = 0
    BY <1>4, <2>2 DEF Partial
  <2>4. m = b /\ q = p - b
    BY <1>1, <1>2, <2>3
  <2>5. CASE p < L
    <3>1. PICK i \in Nat : i = p - b + 1
      BY <2>4
    <3>2. i \in 1 .. L - BUFSIZE
      BY <1>1, <1>2, <1>4, <2>4, <2>5, <3>1, ArraySizes
    <3>3. PICK k \in i .. i + BUFSIZE : content[k] = "nl"
      BY <1>2, <3>2 DEF Fits, LinesFit
    <3>4. CASE k <= p
      <4>1. k - q \in 1 .. m /\ q + (k - q) = k
        BY <1>4, <2>4, <3>1, <3>4, ArraySizes
      <4> QED BY <3>3, <4>1 DEF Plain
    <3>5. CASE k > p
      <4>1. k = p + 1
        BY <1>4, <3>1, <3>5, ArraySizes
      <4> QED BY <1>2, <3>3, <4>1
    <3>6. k <= p \/ k > p
      BY <3>1, ArraySizes
    <3> QED BY <3>4, <3>5, <3>6
  <2> QED BY <1>2, <2>5
<1>5. b < BUFSIZE \/ b = BUFSIZE
  BY <1>1, ArraySizes
<1> QED BY <1>3, <1>4, <1>5

LEMMA SearchedTo ==
  ASSUME GrepTypes, Fits, FileTypes, GrepSizes, InBuffer(line_start),
         cnt = 0 \/ last < BUFSIZE => pos = Len(content),
         StartsAt(out, arguments, content, pos - last + line_start),
         SearchLine
  PROVE  /\ line_end + 1 < last => /\ StartsAt(out', arguments, content, pos - last + (line_end + 1))
                                   /\ \A k \in line_end + 2 .. last : data'[k] = content[pos - last + k]
         /\ ~(line_end + 1 < last) => StartsAt(out', arguments, content, pos)
<1>1. PICK m \in Nat : /\ line_end = line_start + m /\ line_start + m <= last
                       /\ line_start + m = last \/ data[line_start + m + 1] = "nl"
                       /\ Plain(data, line_start, m)
  BY LineEnd
<1>2. PICK a \in Nat, b \in Nat : a = line_start /\ b = last /\ b <= BUFSIZE
  BY ArraySizes DEF GrepSizes
<1>3. PICK p \in Nat, L \in Nat : p = pos /\ L = Len(content) /\ p <= L
  <2>1. Len(content) \in Nat /\ pos \in 0 .. Len(content)
    BY TextIs DEF FileTypes, Bytes
  <2>2. pos \in Nat /\ pos <= Len(content)
    BY ONLY <2>1
  <2> QED BY ONLY <2>1, <2>2
<1>4. b <= p /\ \A k \in a + 1 .. b : data[k] = content[p - b + k]
  BY <1>2, <1>3 DEF InBuffer
<1>5. PICK e \in Nat : e = a + m /\ e <= b /\ e = line_end /\ (e = b \/ data[e + 1] = "nl")
  <2>1. a + m <= b /\ line_end = a + m /\ (a + m = b \/ data[a + m + 1] = "nl")
    BY <1>1, <1>2
  <2> QED BY <2>1
<1>6. PICK q \in Nat : q = p - b + a
  BY <1>4
<1> DEFINE string == SubSeq(content, q + 1, q + m)
<1>7. /\ q + m <= p /\ Plain(content, q, m) /\ StringAt(Terminated, line_start) = string
      /\ Found <=> HasIt(arguments, string)
  <2>1. q = pos - last + line_start
    BY <1>2, <1>3, <1>6
  <2> QED BY ONLY <1>1, <1>3, <2>1, q \in Nat, m \in Nat, LineString,
                  GrepTypes, Fits, FileTypes, GrepSizes, InBuffer(line_start)
<1>8. /\ Len(Terminated) = BUFSIZE + 1
      /\ \A i \in 1 .. BUFSIZE + 1 : i # e + 1 => Terminated[i] = data[i]
  <2>1. e = line_end /\ e <= BUFSIZE
    BY <1>2, <1>5, ArraySizes
  <2> QED BY ONLY <2>1, e \in Nat, GrepTypes, TerminatedIs
<1>9. out' = Printed(out, arguments, string)
  BY <1>7, <1>8, LeftLine DEF SearchLine, Printed
<1> DEFINE then == Printed(out, arguments, string)
<1>10. /\ q + m < L /\ content[q + m + 1] = "nl" => StartsAt(then, arguments, content, q + m + 1)
       /\ q + m = L \/ content[q + m + 1] = "nl" => StartsAt(then, arguments, content, q + m)
  <2>1. arguments \in Seq(Texture) /\ arguments # <<>> /\ Bytes(content)
    BY TextIs DEF GrepTypes
  <2>2. q + m <= Len(content) /\ StartsAt(out, arguments, content, q)
    BY <1>2, <1>3, <1>6, <1>7
  <2>3. LET longer == Printed(out, arguments, SubSeq(content, q + 1, q + m))
        IN  /\ q + m < Len(content) /\ content[q + m + 1] = "nl" => StartsAt(longer, arguments, content, q + m + 1)
            /\ q + m = Len(content) \/ content[q + m + 1] = "nl" => StartsAt(longer, arguments, content, q + m)
    BY ONLY <1>7, <2>1, <2>2, q \in Nat, m \in Nat, Searched
  <2> QED BY <1>3, <2>3
<1> HIDE DEF then, string
<1>11. out' = then
  BY <1>9 DEF then
<1>12. ASSUME e # b PROVE q + m < L /\ content[q + m + 1] = "nl"
  <2>1. e + 1 \in a + 1 .. b /\ p - b + (e + 1) = q + m + 1 /\ q + m < L
    BY <1>3, <1>4, <1>5, <1>6, <1>12
  <2>2. data[e + 1] = content[p - b + (e + 1)]
    BY <1>4, <2>1
  <2> QED BY <1>5, <1>12, <2>1, <2>2
<1>13. ASSUME e + 1 < b
       PROVE  /\ StartsAt(out', arguments, content, p - b + (e + 1))
              /\ \A k \in e + 2 .. b : data'[k] = content[p - b + k]
  <2>1. p - b + (e + 1) = q + m + 1 /\ e # b
    BY <1>5, <1>6, <1>13
  <2>2. \A k \in e + 2 .. b : data'[k] = content[p - b + k]
    <3> TAKE k \in e + 2 .. b
    <3>1. k \in 1 .. BUFSIZE + 1 /\ k # e + 1 /\ k \in a + 1 .. b
      BY <1>2, <1>5, ArraySizes
    <3>2. Terminated[k] = data[k] /\ data[k] = content[p - b + k]
      BY <1>4, <1>8, <3>1
    <3>3. data' = Terminated
      BY DEF SearchLine
    <3> QED BY <3>2, <3>3
  <2> QED BY <1>10, <1>11, <1>12, <2>1, <2>2
<1>14. ASSUME ~(e + 1 < b) PROVE StartsAt(out', arguments, content, p)
  <2>1. CASE e # b
    <3>1. q + m + 1 = p
      BY <1>5, <1>6, <1>14, <2>1
    <3> QED BY <1>10, <1>11, <1>12, <2>1, <3>1
  <2>2. CASE e = b
    <3>1. q + m = p /\ line_start + m = last /\ q = pos - last + line_start
      BY <1>2, <1>3, <1>5, <1>6, <2>2
    <3>2. pos = Len(content) \/ content[pos + 1] = "nl"
      <4>1. ~Partial
        BY DEF SearchLine
      <4> QED BY ONLY <1>1, <1>7, <3>1, <4>1, q \in Nat, m \in Nat, FullLine,
                      GrepTypes, Fits, FileTypes, GrepSizes, InBuffer(line_start),
                      cnt = 0 \/ last < BUFSIZE => pos = Len(content)
    <3>3. q + m = L \/ content[q + m + 1] = "nl"
      BY <1>3, <3>1, <3>2
    <3> QED BY <1>10, <1>11, <3>1, <3>3
  <2> QED BY <2>1, <2>2
<1> QED BY <1>2, <1>3, <1>5, <1>13, <1>14

\* What a step keeps that neither opens a file nor starts a program
GrepSame == /\ arguments' = arguments /\ content' = content /\ file' = file /\ leftover' = leftover

LEMMA SameFits ==
  ASSUME GrepSame
  PROVE  Fits' <=> Fits
BY DEF GrepSame, Fits, LinesFit

LEMMA KeepRuns ==
  ASSUME GrepRuns, pc = "grep_line", KeepPartial, GrepSame, pos' = pos
  PROVE  GrepRuns'
<1>1. /\ GrepTypes /\ FileTypes /\ GrepSizes
      /\ Fits => InBuffer(line_start) /\ StartsAt(out, arguments, content, pos - last + line_start)
  BY DEF GrepRuns, GrepSizes
<1>2. PICK m \in Nat : /\ line_end = line_start + m /\ line_start + m <= last
                       /\ line_start + m = last \/ data[line_start + m + 1] = "nl"
                       /\ Plain(data, line_start, m)
  BY <1>1, LineEnd
<1>3. PICK a \in Nat, b \in Nat, N \in Nat : a = line_start /\ b = last /\ N = BUFSIZE + 1
  BY <1>1, ArraySizes DEF GrepSizes
<1>4. /\ data[line_end + 1] # "nl" /\ line_start # 0 /\ pc' = "grep_read" /\ out' = out
      /\ last' = last - line_start
      /\ data' = Strcpy(Terminated, 0, ToNul(SubSeq(Terminated, line_start + 1, BUFSIZE + 1)))
  BY DEF KeepPartial, Partial
<1>5. a + m = b /\ a > 0 /\ a < b /\ b < N /\ line_end = b /\ b <= BUFSIZE
  <2>1. line_start + m = last
    BY <1>2, <1>4
  <2>2. b <= BUFSIZE /\ a < b
    BY <1>1, <1>3, <1>4, ArraySizes DEF GrepSizes
  <2> QED BY <1>2, <1>3, <1>4, <2>1, <2>2, ArraySizes
<1> DEFINE S == Range(data) \cup {"nul"}
           string == StringAt(Terminated, a)
<1>6. /\ Terminated \in [1 .. N -> S] /\ Len(Terminated) = N
      /\ Terminated[b + 1] = "nul" /\ Terminated[N] \in {leftover, "nul"}
  <2>1. b = line_end /\ b <= BUFSIZE
    BY <1>5
  <2> QED BY ONLY <1>1, <1>3, <2>1, b \in Nat, TerminatedIs
<1>7. data' = Strcpy(Terminated, 0, string)
  BY <1>1, <1>3, <1>4, <1>6, LeftLine
<1> HIDE DEF S
<1>8. string \in Seq(S) /\ a + Len(string) + 1 <= b + 1
  <2>1. PICK stop \in Nat : stop = b + 1
    OBVIOUS
  <2>2. stop \in a + 1 .. N /\ a + 0 + 1 <= N /\ Terminated[stop] = "nul"
    BY <1>5, <1>6, <2>1
  <2>3. Goes(Terminated, a, 0)
    BY DEF Goes
  <2> QED BY ONLY <1>6, <2>1, <2>2, <2>3, a \in Nat, N \in Nat, 0 \in Nat, LongString
<1> HIDE DEF string
<1>9. PICK l \in Nat : l = Len(string)
  BY <1>8
<1>10. l + 1 < N /\ 0 + l + 1 <= N
  BY <1>5, <1>8, <1>9
<1>11. /\ data' \in [1 .. N -> S] /\ Holds(data', 0, string)
       /\ Kept(data', Terminated, N, 0, l + 1)
  <2>1. 0 + Len(string) + 1 <= N /\ "nul" \in S
    BY <1>9, <1>10 DEF S
  <2> QED BY <1>6, <1>7, <1>8, <1>9, <2>1, StrcpyHolds
<1>12. GrepTypes'
  <2>1. data'[N] = Terminated[N]
    <3>1. N \in 1 .. N /\ N > 0 + (l + 1)
      BY <1>10
    <3> QED BY <1>11, <3>1 DEF Kept
  <2>2. Bytes(data') /\ Len(data') = N
    BY <1>11, BytesAre
  <2>3. Bytes(data)'
    BY <2>2 DEF Bytes
  <2> QED BY <1>1, <1>3, <1>6, <2>1, <2>2, <2>3 DEF GrepTypes, GrepSame
<1>13. FileTypes'
  BY <1>1 DEF FileTypes, GrepSame, ContentsOf
<1>14. last' \in 0 .. BUFSIZE /\ last' < BUFSIZE
  BY <1>3, <1>4, <1>5, ArraySizes
<1>15. ASSUME Fits PROVE InBuffer(0)' /\ StartsAt(out, arguments, content, pos - last + line_start)
  <2>1. InBuffer(line_start) /\ StartsAt(out, arguments, content, pos - last + line_start)
    BY <1>1, <1>15
  <2>2. PICK p \in Nat : p = pos
    <3>1. Len(content) \in Nat /\ pos \in 0 .. Len(content)
      BY <1>1, <1>15, TextIs DEF FileTypes, Bytes
    <3> QED BY <3>1
  <2>3. b <= p
    BY <1>3, <2>1, <2>2 DEF InBuffer
  <2>4. PICK q \in Nat : q = p - b + a
    BY <2>3
  <2>5. /\ Plain(content, q, m) /\ string = SubSeq(content, q + 1, q + m) /\ q + m <= p
    <3>1. q = pos - last + line_start
      BY <1>3, <2>2, <2>4
    <3>2. /\ q + m <= pos /\ Plain(content, q, m)
          /\ StringAt(Terminated, line_start) = SubSeq(content, q + 1, q + m)
      BY ONLY <1>1, <1>2, <1>15, <2>1, <3>1, q \in Nat, m \in Nat, LineString
    <3> QED BY <1>3, <2>2, <3>2 DEF string
  <2>6. l = m /\ \A k \in 1 .. m : string[k] = content[q + k]
    <3>1. PICK r \in Nat : r = q + m
      OBVIOUS
    <3>2. q <= r /\ r <= Len(content) /\ r - q = m
      <4>1. Len(content) \in Nat /\ pos \in 0 .. Len(content)
        BY <1>1, <1>15, TextIs DEF FileTypes, Bytes
      <4> QED BY <2>2, <2>5, <3>1, <4>1
    <3>3. content \in Seq(Range(content))
      BY <1>1, <1>15, TextIs DEF Bytes
    <3>4. /\ Len(SubSeq(content, q + 1, r)) = r - q
          /\ \A k \in 1 .. r - q : SubSeq(content, q + 1, r)[k] = content[q + k]
      BY ONLY <3>2, <3>3, q \in Nat, r \in Nat, Part
    <3> QED BY <1>9, <2>5, <3>1, <3>2, <3>4
  <2>7. ASSUME NEW k \in 1 .. b - a PROVE data'[k] = content[q + k]
    <3>1. k \in 1 .. m /\ 0 + k = k
      BY <1>5
    <3>2. data'[0 + k] = string[k]
      BY <1>9, <1>11, <2>6, <3>1 DEF Holds
    <3> QED BY <2>6, <3>1, <3>2
  <2>8. last' = b - a /\ pos' = p /\ b - a <= p /\ p - (b - a) = q /\ 0 + 1 = 1
    BY <1>3, <1>4, <1>5, <2>2, <2>3, <2>4
  <2>9. last' <= pos' /\ \A k \in 0 + 1 .. last' : data'[k] = content'[pos' - last' + k]
    BY <2>7, <2>8 DEF GrepSame
  <2>10. InBuffer(0)'
    BY <2>9 DEF InBuffer
  <2> QED BY <2>1, <2>10
<1>16. Fits' => InBuffer(0)' /\ StartsAt(out, arguments, content, pos - last)'
  <2> SUFFICES ASSUME Fits' PROVE InBuffer(0)' /\ StartsAt(out, arguments, content, pos - last)'
    OBVIOUS
  <2>1. Fits
    BY SameFits
  <2>2. InBuffer(0)' /\ StartsAt(out, arguments, content, pos - last + line_start)
    BY <1>15, <2>1
  <2>3. pos' - last' = pos - last + line_start
    <3>1. pos \in Int
      <4>1. Len(content) \in Nat /\ pos \in 0 .. Len(content)
        BY <1>1, <2>1, TextIs DEF FileTypes, Bytes
      <4> QED BY <4>1
    <3> QED BY <1>3, <1>4, <3>1
  <2>4. StartsAt(out', arguments', content', pos' - last')
    BY <1>4, <2>2, <2>3 DEF GrepSame
  <2> QED BY <2>2, <2>4
<1> QED BY <1>4, <1>12, <1>13, <1>14, <1>16 DEF GrepRuns

LEMMA SearchRuns ==
  ASSUME GrepRuns, pc = "grep_line", SearchLine, GrepSame, pos' = pos, cnt' = cnt
  PROVE  GrepRuns'
<1>1. /\ GrepTypes /\ FileTypes /\ GrepSizes
      /\ cnt = 0 \/ last < BUFSIZE => pos = Len(content)
      /\ Fits => InBuffer(line_start) /\ StartsAt(out, arguments, content, pos - last + line_start)
  BY DEF GrepRuns, GrepSizes
<1>2. PICK m \in Nat : line_end = line_start + m /\ line_start + m <= last
  BY <1>1, LineEnd
<1>3. PICK e \in Nat, b \in Nat : e = line_end /\ b = last /\ e <= b /\ b <= BUFSIZE
  <2>1. line_start \in Nat /\ last \in Nat /\ last <= BUFSIZE
    BY <1>1, ArraySizes DEF GrepSizes
  <2> QED BY <1>2, <2>1
<1>4. /\ data' = Terminated /\ line_start' = e + 1
      /\ IF e + 1 < b THEN pc' = pc /\ last' = last ELSE last' = 0 /\ pc' = AfterBuffer
  BY <1>3 DEF SearchLine
<1>5. GrepTypes'
  <2>1. Bytes(Terminated) /\ Len(Terminated) = BUFSIZE + 1 /\ Terminated[BUFSIZE + 1] \in {leftover, "nul"}
    <3>1. e = line_end /\ e <= BUFSIZE
      BY <1>3, ArraySizes
    <3> QED BY ONLY <1>1, <3>1, e \in Nat, TerminatedIs
  <2>2. Bytes(data')
    BY <1>4, <2>1
  <2>3. Bytes(data)'
    BY <2>2 DEF Bytes
  <2> QED BY <1>1, <1>4, <2>1, <2>3 DEF GrepTypes, GrepSame
<1>6. FileTypes'
  BY <1>1 DEF FileTypes, GrepSame, ContentsOf
<1>7. ASSUME Fits
      PROVE  /\ line_end + 1 < last => /\ StartsAt(out', arguments, content, pos - last + (line_end + 1))
                                       /\ \A k \in line_end + 2 .. last : data'[k] = content[pos - last + k]
             /\ ~(line_end + 1 < last) => StartsAt(out', arguments, content, pos)
             /\ InBuffer(line_start)
  BY <1>1, <1>7, SearchedTo
<1>8. CASE e + 1 < b
  <2>1. pc' = "grep_line" /\ last' = last
    BY <1>4, <1>8
  <2>2. line_start' \in 0 .. BUFSIZE /\ line_start' < last'
    BY <1>3, <1>4, <1>8, <2>1, ArraySizes
  <2>3. Fits' => InBuffer(line_start)' /\ StartsAt(out, arguments, content, pos - last + line_start)'
    <3> SUFFICES ASSUME Fits' PROVE InBuffer(line_start)' /\ StartsAt(out, arguments, content, pos - last + line_start)'
      OBVIOUS
    <3>1. Fits
      BY SameFits
    <3>2. /\ StartsAt(out', arguments, content, pos - last + (e + 1))
          /\ \A k \in e + 2 .. last : data'[k] = content[pos - last + k]
      BY <1>3, <1>7, <1>8, <3>1
    <3>3. StartsAt(out', arguments', content', pos' - last' + line_start')
      BY <1>4, <2>1, <3>2 DEF GrepSame
    <3>4. e + 1 + 1 = e + 2
      OBVIOUS
    <3>5. last' <= pos' /\ \A k \in line_start' + 1 .. last' : data'[k] = content'[pos' - last' + k]
      <4>1. last <= pos
        BY <1>7, <3>1 DEF InBuffer
      <4> QED BY <1>4, <2>1, <3>2, <3>4, <4>1 DEF GrepSame
    <3> QED BY <3>3, <3>5 DEF InBuffer
  <2>4. last' \in 0 .. BUFSIZE
    BY <1>1, <2>1 DEF GrepSizes
  <2>5. cnt' = 0 \/ last' < BUFSIZE => pos' = Len(content')
    BY <1>1, <2>1 DEF GrepSame
  <2> QED BY <1>5, <1>6, <2>1, <2>2, <2>3, <2>4, <2>5 DEF GrepRuns
<1>9. CASE ~(e + 1 < b)
  <2>1. last' = 0 /\ pc' = AfterBuffer
    BY <1>4, <1>9
  <2>2. ASSUME Fits' PROVE StartsAt(out', arguments', content', pos) /\ 0 <= pos /\ pos - 0 = pos
    <3>1. Fits
      BY <2>2, SameFits
    <3>2. StartsAt(out', arguments, content, pos)
      BY <1>3, <1>7, <1>9, <3>1
    <3>3. Len(content) \in Nat /\ pos \in 0 .. Len(content)
      BY <1>1, <3>1, TextIs DEF FileTypes, Bytes
    <3>4. 0 <= pos /\ pos - 0 = pos
      BY <3>3
    <3> QED BY <3>2, <3>4 DEF GrepSame
  <2>3. CASE cnt = 0
    <3>1. pc' = "grep_close" /\ pos = Len(content')
      BY <1>1, <2>1, <2>3 DEF AfterBuffer, GrepSame
    <3>2. Fits' => StartsAt(out', arguments', content', Len(content'))
      BY <2>2, <3>1
    <3> QED BY <1>5, <3>1, <3>2 DEF GrepRuns
  <2>4. CASE cnt # 0
    <3>1. pc' = "grep_read"
      BY <2>1, <2>4 DEF AfterBuffer
    <3>2. last' \in 0 .. BUFSIZE /\ last' < BUFSIZE
      BY <2>1, ArraySizes
    <3>3. Fits' => InBuffer(0)' /\ StartsAt(out, arguments, content, pos - last)'
      <4> SUFFICES ASSUME Fits' PROVE InBuffer(0)' /\ StartsAt(out, arguments, content, pos - last)'
        OBVIOUS
      <4>1. pos' - last' = pos
        BY <2>1, <2>2
      <4>2. StartsAt(out', arguments', content', pos' - last')
        BY <2>2, <4>1
      <4>3. last' <= pos' /\ \A k \in 0 + 1 .. last' : data'[k] = content'[pos' - last' + k]
        <5>1. 0 + 1 .. 0 = {}
          OBVIOUS
        <5> QED BY <2>1, <2>2, <5>1
      <4> QED BY <4>2, <4>3 DEF InBuffer
    <3> QED BY <1>5, <1>6, <3>1, <3>2, <3>3 DEF GrepRuns
  <2> QED BY <2>3, <2>4
<1> QED BY <1>8, <1>9

LEMMA ReadRuns ==
  ASSUME GrepRuns, GrepRead
  PROVE  GrepRuns'
<1> DEFINE isFile == Directory[file].filetype = 2
           read == IF isFile THEN Read(Room) ELSE <<>>
<1>1. /\ pc = "grep_read" /\ pc' = "grep_line" /\ line_start' = 0 /\ out' = out /\ GrepSame
      /\ data' = [i \in DOMAIN data |->
                   IF i - last \in DOMAIN read THEN read[i - last]
                   ELSE IF isFile /\ Len(read) < Room /\ i = last + Len(read) + 1 THEN "nul"
                   ELSE data[i]]
      /\ cnt' = Len(read) /\ last' = last + Len(read) /\ pos' = pos + Len(read)
  BY DEF GrepRead, process, GrepSame
<1>2. /\ GrepTypes /\ FileTypes /\ last \in 0 .. BUFSIZE /\ last < BUFSIZE
      /\ Fits => InBuffer(0) /\ StartsAt(out, arguments, content, pos - last)
  BY <1>1 DEF GrepRuns
<1>3. PICK b \in Nat, N \in Nat : b = last /\ N = BUFSIZE + 1 /\ b < BUFSIZE
  BY <1>2, ArraySizes
<1>4. /\ Bytes(content) /\ content \in Seq(Range(content))
  BY <1>2, ContentIs DEF FileTypes, Bytes
<1>5. PICK p \in Nat, L \in Nat : p = pos /\ L = Len(content) /\ p <= L
  <2>1. Len(content) \in Nat /\ pos \in 0 .. Len(content)
    BY <1>2, <1>4 DEF FileTypes
  <2>2. pos \in Nat /\ pos <= Len(content)
    BY ONLY <2>1
  <2> QED BY ONLY <2>1, <2>2
<1>6. PICK r \in Nat : /\ r = Len(read) /\ p + r <= L /\ b + r <= BUFSIZE
                       /\ (r = 0 \/ b + r < BUFSIZE) => p + r = L
                       /\ read \in Seq(Range(content)) /\ \A k \in 1 .. r : read[k] = content[p + k]
  <2>1. CASE isFile
    <3>1. PICK room \in Nat \ {0} : room = Room /\ room = BUFSIZE - b
      BY <1>3, ArraySizes DEF Room
    <3>2. PICK s \in Nat : s = ReadData(room) /\ p + s <= L /\ s <= room /\ (s = 0 \/ s < room => p + s = L)
      <4>1. /\ ReadData(room) \in Nat /\ pos + ReadData(room) \in 0 .. Len(content)
            /\ ReadData(room) = 0 => pos = Len(content)
            /\ ReadData(room) < room => pos + ReadData(room) = Len(content)
            /\ ReadData(room) <= room
        <5>1. pos \in 0 .. Len(content)
          BY <1>2 DEF FileTypes
        <5> QED BY <1>4, <5>1, ReadIs
      <4> QED BY <1>5, <4>1
    <3>3. PICK t \in Nat : t = p + s
      OBVIOUS
    <3>4. read = SubSeq(content, p + 1, t)
      BY <1>5, <2>1, <3>1, <3>2, <3>3 DEF Read
    <3>5. p <= t /\ t <= Len(content) /\ t - p = s
      BY <1>5, <3>2, <3>3
    <3>6. /\ SubSeq(content, p + 1, t) \in Seq(Range(content)) /\ Len(SubSeq(content, p + 1, t)) = t - p
          /\ \A k \in 1 .. t - p : SubSeq(content, p + 1, t)[k] = content[p + k]
      BY ONLY <1>4, <3>5, p \in Nat, t \in Nat, Part
    <3>7. b + s <= BUFSIZE /\ (s = 0 \/ b + s < BUFSIZE => p + s = L)
      BY <1>3, <3>1, <3>2, ArraySizes
    <3>8. read \in Seq(Range(content)) /\ Len(read) = s /\ \A k \in 1 .. s : read[k] = content[p + k]
      BY <3>4, <3>5, <3>6
    <3> HIDE DEF read
    <3> QED BY <3>2, <3>7, <3>8
  <2>2. CASE ~isFile
    <3>1. content = <<>>
      BY <1>2, <2>2 DEF FileTypes, ContentsOf
    <3>2. L = 0 /\ p = 0 /\ read = <<>>
      BY <1>5, <2>2, <3>1
    <3>3. p + 0 <= L /\ b + 0 <= BUFSIZE /\ p + 0 = L /\ 1 .. 0 = {}
      BY <1>3, <3>2, ArraySizes
    <3> HIDE DEF read
    <3>4. Len(read) = 0 /\ read \in Seq(Range(content))
      BY <3>2
    <3> QED BY <3>3, <3>4
  <2> QED BY <2>1, <2>2
<1> HIDE DEF read, isFile
<1>7. DOMAIN read = 1 .. r /\ DOMAIN data = 1 .. N /\ data \in Seq(Range(data))
  BY <1>2, <1>3, <1>6 DEF GrepTypes, Bytes
<1>8. data' = [i \in 1 .. N |->
                 IF i - b \in 1 .. r THEN read[i - b]
                 ELSE IF isFile /\ r < Room /\ i = b + r + 1 THEN "nul" ELSE data[i]]
  BY <1>1, <1>3, <1>6, <1>7
<1>9. GrepTypes'
  <2> DEFINE S == Range(data) \cup Range(content) \cup {"nul"}
  <2>1. \A i \in 1 .. N : data[i] \in S
    BY <1>7 DEF Range
  <2>2. \A k \in 1 .. r : read[k] \in S
    BY <1>6
  <2> HIDE DEF S
  <2>3. data' \in [1 .. N -> S]
    <3>1. "nul" \in S
      BY DEF S
    <3> QED BY <1>8, <2>1, <2>2, <3>1
  <2>4. Bytes(data') /\ Len(data') = N
    BY <2>3, BytesAre
  <2>5. data'[N] \in {leftover, "nul"}
    <3>1. N \in 1 .. N /\ N - b \notin 1 .. r
      BY <1>3, <1>6, ArraySizes
    <3>2. data'[N] = IF isFile /\ r < Room /\ N = b + r + 1 THEN "nul" ELSE data[N]
      BY <1>8, <3>1
    <3> QED BY <1>2, <1>3, <3>2 DEF GrepTypes
  <2>6. Bytes(data)'
    BY <2>4 DEF Bytes
  <2> QED BY <1>1, <1>2, <1>3, <2>4, <2>5, <2>6 DEF GrepTypes, GrepSame
<1>10. last' = b + r /\ pos' = p + r /\ cnt' = r
  BY <1>1, <1>3, <1>5, <1>6
<1>11. FileTypes'
  <2>1. pos' \in 0 .. L
    BY <1>6, <1>10
  <2> QED BY <1>1, <1>2, <1>5, <2>1 DEF FileTypes, GrepSame, ContentsOf
<1>12. last' \in 0 .. BUFSIZE /\ 0 \in 0 .. BUFSIZE /\ (cnt' = 0 \/ last' < BUFSIZE => pos' = Len(content'))
  <2>1. content' = content
    BY <1>1 DEF GrepSame
  <2> QED BY <1>5, <1>6, <1>10, <2>1, ArraySizes
<1>13. Fits' => InBuffer(line_start)' /\ StartsAt(out, arguments, content, pos - last + line_start)'
  <2> SUFFICES ASSUME Fits' PROVE InBuffer(line_start)' /\ StartsAt(out, arguments, content, pos - last + line_start)'
    OBVIOUS
  <2>1. InBuffer(0) /\ StartsAt(out, arguments, content, pos - last)
    BY <1>1, <1>2, SameFits
  <2>2. b <= p /\ \A k \in 1 .. b : data[k] = content[p - b + k]
    <3>1. 0 + 1 = 1
      OBVIOUS
    <3> QED BY <1>3, <1>5, <2>1, <3>1 DEF InBuffer
  <2>3. ASSUME NEW k \in 1 .. b + r PROVE data'[k] = content[p - b + k]
    <3>1. k \in 1 .. N
      BY <1>3, <1>6, ArraySizes
    <3>2. CASE k <= b
      <4>1. k - b \notin 1 .. r /\ k # b + r + 1 /\ k \in 1 .. b
        BY <3>2
      <4>2. data'[k] = data[k]
        BY <1>8, <3>1, <4>1
      <4> QED BY <2>2, <4>1, <4>2
    <3>3. CASE k > b
      <4>1. k - b \in 1 .. r /\ p + (k - b) = p - b + k
        BY <3>3
      <4>2. data'[k] = read[k - b]
        BY <1>8, <3>1, <4>1
      <4> QED BY <1>6, <4>1, <4>2
    <3>4. k <= b \/ k > b
      OBVIOUS
    <3> QED BY <3>2, <3>3, <3>4
  <2>4. b + r <= p + r /\ p + r - (b + r) = p - b /\ 0 + 1 = 1 /\ p - b + 0 = p - b
    BY <2>2
  <2>5. last' <= pos' /\ \A k \in line_start' + 1 .. last' : data'[k] = content'[pos' - last' + k]
    <3>1. content' = content /\ line_start' + 1 = 1 /\ last' = b + r /\ pos' - last' = p - b /\ last' <= pos'
      BY <1>1, <1>10, <2>4 DEF GrepSame
    <3> QED BY ONLY <2>3, <3>1
  <2>6. StartsAt(out', arguments', content', pos' - last' + line_start')
    BY <1>1, <1>3, <1>5, <1>10, <2>1, <2>4 DEF GrepSame
  <2> QED BY <2>5, <2>6 DEF InBuffer
<1>14. line_start' = 0 /\ pc' = "grep_line"
  BY <1>1
<1> QED BY <1>9, <1>11, <1>12, <1>13, <1>14 DEF GrepRuns

\* Other steps than grep's, and its own between files
LEMMA OutsideGrep ==
  ASSUME pc' \in {"prompt", "execute", "copy_program", "start", "cat", "ls", "waits", "answer", "halted"}
  PROVE  GrepRuns'
BY DEF GrepRuns

LEMMA StartGrep ==
  ASSUME CommandRuns, CatRuns, Start
  PROVE  GrepRuns'
<1>1. pc = "start" /\ arguments' = arguments
  BY DEF Start
<1>2. arguments \in Seq(Texture)
  <2>1. arguments = Cut(SecondWord, COMMAND_ARG_SZ) /\ line \in Seq(Texture)
    BY <1>1 DEF CommandRuns, CatRuns, Between, Loads
  <2>2. SecondWord \in Seq(Texture)
    BY <2>1, WordsAre
  <2> QED BY <2>1, <2>2, CutIs
<1>3. CASE pc' = "grep_next"
  <2>1. /\ arguments # <<>> /\ leftover' \in {"junk", "nl"}
        /\ data' = Fill(leftover', BUFSIZE + 1)
    BY <1>1, <1>3 DEF Start, Open, Return
  <2>2. PICK N \in Nat : N = BUFSIZE + 1 /\ N \in 1 .. N
    BY ArraySizes
  <2>3. data' \in [1 .. N -> {leftover'}] /\ data'[N] = leftover'
    BY <2>1, <2>2 DEF Fill
  <2>4. Bytes(data') /\ Len(data') = N
    BY <2>3, BytesAre
  <2>5. Bytes(data)'
    BY <2>4 DEF Bytes
  <2>6. GrepTypes'
    BY <1>1, <1>2, <2>1, <2>2, <2>3, <2>4, <2>5 DEF GrepTypes
  <2> QED BY <1>3, <2>6 DEF GrepRuns
<1>4. CASE pc' # "grep_next"
  <2>1. pc' \in {"cat", "ls", "waits", "answer"}
    BY <1>1, <1>4 DEF Start, Open, Return
  <2> QED BY <2>1, OutsideGrep
<1> QED BY <1>3, <1>4

LEMMA NextRuns ==
  ASSUME GrepRuns, GrepNext
  PROVE  GrepRuns'
<1>1. /\ pc = "grep_next" /\ last' = 0
      /\ arguments' = arguments /\ data' = data /\ leftover' = leftover
  BY DEF GrepNext
<1>2. GrepTypes /\ GrepTypes'
  <2>1. GrepTypes
    BY <1>1 DEF GrepRuns
  <2>2. Bytes(data)'
    BY <1>1, <2>1 DEF GrepTypes, Bytes
  <2> QED BY <1>1, <2>1, <2>2 DEF GrepTypes
<1>3. \/ pc' \in {"answer", "grep_next"}
      \/ \E fname : Open(fname, "grep_read")
  BY <1>1 DEF GrepNext, Return
<1>4. CASE pc' \in {"answer", "grep_next"}
  BY <1>2, <1>4 DEF GrepRuns
<1>5. ASSUME NEW fname, Open(fname, "grep_read") PROVE GrepRuns'
  <2>1. PICK chars \in ContentsOf(FirstMatch(fname)) :
          /\ content' = chars /\ pos' = 0 /\ out' = <<>>
          /\ file' = FirstMatch(fname) /\ pc' = "grep_read"
    BY <1>5 DEF Open
  <2>2. Bytes(chars)
    BY ContentIs
  <2>3. Len(chars) \in Nat /\ 0 \in 0 .. Len(chars)
    BY <2>2 DEF Bytes
  <2>4. FileTypes'
    BY <2>1, <2>3 DEF FileTypes, ContentsOf
  <2>5. StartsAt(<<>>, arguments, chars, 0)
    <3>1. Upto(arguments, chars)[0] = [lines |-> <<>>, line |-> <<>>]
      BY <2>3, UptoIs
    <3>2. ~HasIt(arguments, <<>>)
      BY <1>2, EmptyLine DEF GrepTypes
    <3>3. EndedOf(arguments, Upto(arguments, chars)[0]) = <<>> /\ Upto(arguments, chars)[0].line = <<>>
      BY <3>1, <3>2 DEF EndedOf
    <3> QED BY <2>3, <3>3 DEF StartsAt
  <2>6. StartsAt(out', arguments', content', pos' - last')
    <3>1. pos' - last' = 0
      BY <1>1, <2>1
    <3> QED BY <1>1, <2>1, <2>5, <3>1
  <2>7. last' <= pos' /\ \A k \in 0 + 1 .. last' : data'[k] = content'[pos' - last' + k]
    <3>1. 0 + 1 .. 0 = {}
      OBVIOUS
    <3> QED BY <1>1, <2>1, <3>1
  <2>8. last' \in 0 .. BUFSIZE /\ last' < BUFSIZE
    BY <1>1, ArraySizes
  <2> QED BY <1>2, <2>1, <2>4, <2>6, <2>7, <2>8 DEF GrepRuns, InBuffer
<1> QED BY <1>3, <1>4, <1>5

LEMMA GrepStep ==
  ASSUME GrepRuns, GrepRead \/ GrepLine \/ GrepClose
  PROVE  GrepRuns'
<1>1. CASE GrepRead
  BY <1>1, ReadRuns
<1>2. CASE GrepLine
  <2>1. pc = "grep_line" /\ GrepSame /\ pos' = pos /\ cnt' = cnt /\ (KeepPartial \/ SearchLine)
    BY <1>2 DEF GrepLine, GrepSame, process
  <2> QED BY <2>1, KeepRuns, SearchRuns
<1>3. CASE GrepClose
  <2>1. /\ pc = "grep_close" /\ pc' = "grep_next"
        /\ arguments' = arguments /\ data' = data /\ leftover' = leftover
    BY <1>3 DEF GrepClose, process
  <2>2. GrepTypes
    BY <2>1 DEF GrepRuns
  <2>3. Bytes(data)'
    BY <2>1, <2>2 DEF GrepTypes, Bytes
  <2>4. GrepTypes'
    BY <2>1, <2>2, <2>3 DEF GrepTypes
  <2> QED BY <2>1, <2>4 DEF GrepRuns
<1> QED BY <1>1, <1>2, <1>3

PrintRuns == CommandRuns /\ CatRuns /\ GrepRuns

LEMMA PrintInitially ==
  ASSUME CommandsInit
  PROVE  PrintRuns
<1>1. pc = "prompt" /\ line = <<>> /\ dir = 0 /\ arguments = <<>>
  BY DEF CommandsInit
<1>2. line \in Seq(Texture) /\ 0 \in 0 .. Len(Directory)
  BY <1>1, DirectoryIs
<1>3. CatRuns
  BY <1>1, <1>2 DEF CatRuns, Between
<1>4. GrepRuns
  BY <1>1 DEF GrepRuns
<1> QED BY <1>3, <1>4, CommandInitially DEF PrintRuns

LEMMA PrintStep ==
  ASSUME PrintRuns, [CommandsNext]_commands_vars
  PROVE  PrintRuns'
<1>1. CommandRuns /\ CatRuns /\ GrepRuns
  BY DEF PrintRuns
<1>2. CommandRuns'
  BY <1>1, CommandStep
<1>3. CASE ReadLine \/ Execute \/ CopyProgram
  <2>1. CatRuns'
    BY <1>1, <1>2, <1>3, BeforeStart
  <2>2. pc' \in {"prompt", "execute", "copy_program", "start", "answer", "halted"}
    BY <1>3 DEF ReadLine, ShellEnds, Execute, Fails, CopyProgram
  <2>3. GrepRuns'
    BY <2>2, OutsideGrep
  <2> QED BY <1>2, <2>1, <2>3 DEF PrintRuns
<1>4. CASE Start
  BY <1>1, <1>2, <1>4, StartCat, StartGrep DEF PrintRuns
<1>5. CASE Cat
  <2>1. pc' \in {"cat", "answer"}
    BY <1>5 DEF Cat, Return
  <2>2. GrepRuns'
    BY <2>1, OutsideGrep
  <2> QED BY <1>1, <1>2, <1>5, <2>2, CatStep DEF PrintRuns
<1>6. CASE Ls \/ Answer
  <2>1. pc' \in {"ls", "answer", "prompt"}
    BY <1>6 DEF Ls, Answer, Return
  <2>2. GrepRuns'
    BY <2>1, OutsideGrep
  <2>3. CatRuns'
    BY <1>1, <1>6, OtherPrograms
  <2> QED BY <1>2, <2>2, <2>3 DEF PrintRuns
<1>7. CASE GrepNext
  BY <1>1, <1>2, <1>7, NextRuns, OtherPrograms DEF PrintRuns
<1>8. CASE GrepRead \/ GrepLine \/ GrepClose
  BY <1>1, <1>2, <1>8, GrepStep, OtherPrograms DEF PrintRuns
<1>9. CASE StartShell \/ Awaited \/ Interrupted
  <2>1. pc' \in {"prompt", "answer", "halted"}
    BY <1>9 DEF StartShell, Awaited, Return, Interrupted, ShellEnds
  <2>2. GrepRuns'
    BY <2>1, OutsideGrep
  <2> QED BY <1>1, <1>2, <1>9, <2>2, OtherEnds DEF PrintRuns
<1>10. CASE UNCHANGED commands_vars
  <2>1. /\ pc' = pc /\ line' = line /\ rval' = rval /\ file' = file /\ arguments' = arguments
        /\ pos' = pos /\ content' = content /\ dir' = dir /\ out' = out /\ data' = data
        /\ last' = last /\ line_start' = line_start /\ cnt' = cnt /\ leftover' = leftover
    BY <1>10 DEF commands_vars, shell, process, grep
  <2>2. Runs("cat")' <=> Runs("cat")
    BY <2>1, SameRuns
  <2>3. CatRuns'
    BY <1>1, <2>1, <2>2 DEF CatRuns, Between, CatPrints, CatPrinted, CatRefused, Bytes, Listed
  <2>4. GrepRuns'
    <3>1. /\ GrepTypes' <=> GrepTypes
          /\ FileTypes' <=> FileTypes
          /\ Fits' <=> Fits
          /\ InBuffer(0)' <=> InBuffer(0)
          /\ InBuffer(line_start)' <=> InBuffer(line_start)
      BY <2>1 DEF GrepTypes, FileTypes, Fits, LinesFit, InBuffer, Bytes, ContentsOf
    <3>2. /\ StartsAt(out, arguments, content, pos - last)' <=> StartsAt(out, arguments, content, pos - last)
          /\ StartsAt(out, arguments, content, pos - last + line_start)'
               <=> StartsAt(out, arguments, content, pos - last + line_start)
          /\ StartsAt(out, arguments, content, Len(content))' <=> StartsAt(out, arguments, content, Len(content))
      BY <2>1 DEF StartsAt, Upto, IsUpto, EndedOf, NextOf, HasIt
    <3> QED BY <1>1, <2>1, <3>1, <3>2 DEF GrepRuns
  <2> QED BY <1>2, <2>3, <2>4 DEF PrintRuns
<1> QED BY <1>3, <1>4, <1>5, <1>6, <1>7, <1>8, <1>9, <1>10 DEF CommandsNext, Computes

\* The reference is the function that the invariant speaks of.
LEMMA ReferenceIs ==
  LinesWithPattern(content) = EndedOf(arguments, Upto(arguments, content)[Len(content)])
<1>1. \A chars : HasPattern(chars) <=> HasIt(arguments, chars)
  BY DEF HasPattern, HasIt
<1>2. \A at : Ended(at) = EndedOf(arguments, at)
  BY <1>1 DEF Ended, EndedOf
<1> DEFINE Is(f) ==
             f = [n \in 0 .. Len(content) |->
                    IF n = 0 THEN [lines |-> <<>>, line |-> <<>>]
                    ELSE IF content[n] = "nl" THEN [lines |-> Ended(f[n - 1]), line |-> <<>>]
                    ELSE [lines |-> f[n - 1].lines, line |-> Append(f[n - 1].line, content[n])]]
<1>3. LinesWithPattern(content) = Ended((CHOOSE f : Is(f))[Len(content)])
  BY DEF LinesWithPattern
<1>4. \A f : Is(f) <=> IsUpto(f, arguments, content, Len(content))
  BY <1>2 DEF IsUpto, NextOf
<1> HIDE DEF Is
<1>5. (CHOOSE f : Is(f)) = Upto(arguments, content)
  BY <1>4 DEF Upto
<1> QED BY <1>2, <1>3, <1>5

\* cat prints its file, of every length, from the first byte to the last, and finds
\* every file; grep prints the lines of a text that have the pattern, each once and in order, wherever its reads
\* cut them.
THEOREM ProgramsPrintTheText == CommandsSpec => []PrintsTheText
<1>1. CommandsInit => PrintRuns
  BY PrintInitially
<1>2. PrintRuns /\ [CommandsNext]_commands_vars => PrintRuns'
  BY PrintStep
<1>3. PrintRuns => PrintsTheText
  <2> SUFFICES ASSUME PrintRuns PROVE PrintsTheText
    OBVIOUS
  <2>1. ASSUME pc = "answer" /\ rval = 0 /\ Runs("cat") PROVE CatPrinted
    BY <2>1 DEF PrintRuns, CatRuns
  <2>2. ASSUME pc = "answer" /\ rval = 2 /\ arguments # <<>> /\ Runs("cat") PROVE CatRefused
    BY <2>2 DEF PrintRuns, CatRuns
  <2>3. ASSUME pc = "grep_close", Fits PROVE out = LinesWithPattern(content)
    <3>1. StartsAt(out, arguments, content, Len(content))
      BY <2>3 DEF PrintRuns, GrepRuns
    <3> QED BY <3>1, ReferenceIs DEF StartsAt
  <2> QED BY <2>1, <2>2, <2>3 DEF PrintsTheText, CatPrinted, CatRefused, EntryNames, Fits
<1> QED BY <1>1, <1>2, <1>3, PTL DEF CommandsSpec
=============================================================================
