--------------------------- MODULE TextDrawerProofs ----------------------------
(* The cursor stays on the screen and what was printed is on it, whatever  *)
(* the size of the screen; and, of Interrupts, the handlers that print with*)
(* the same cursor stay on it too, find their tables filled in and do not  *)
(* return; and, of Numbers, the text of a number reads back as the number. *)
EXTENDS TextDrawer, Numbers, Interrupts, SequenceTheorems, WellFoundedInduction, TLAPS

(* Where the cursor can be at the start of a round of putString's loop.    *)
CursorTypeOK == pos \in [x : Nat, y : Nat]

CursorInv == CursorTypeOK /\ CursorOnScreen

(* The cursor after a character or a line break: in a column of the        *)
(* screen, on a line that is at most one below it.                         *)
AfterRound(at) ==
  /\ at \in [x : Nat, y : Nat]
  /\ at.x + 1 <= Columns
  /\ at.y % GlyphBands = 0
  /\ at.y <= Bands

LEMMA NewLineAfterRound ==
  ASSUME CursorInv PROVE AfterRound(NewLine(pos)) /\ NewLine(pos).y >= GlyphBands
<1>. USE TextDrawerAssumption DEF GlyphBands
<1>1. pos.x \in Nat /\ pos.y \in Nat
  BY DEF CursorInv, CursorTypeOK
<1>2. pos.y % 4 = 0 /\ pos.y + 4 <= Bands
  BY DEF CursorInv, CursorOnScreen
<1>3. (pos.y + 4) % 4 = 0
  BY <1>1, <1>2
<1>. QED
  BY <1>1, <1>2, <1>3 DEF NewLine, AfterRound

LEMMA AdvanceAfterRound ==
  ASSUME CursorInv
  PROVE  /\ AfterRound(Advance(pos))
         /\ OffScreen(Advance(pos)) => Advance(pos).y >= GlyphBands
<1>. USE TextDrawerAssumption DEF GlyphBands
<1>1. CASE pos.x + 2 > Columns
  BY <1>1, NewLineAfterRound DEF Advance
<1>2. CASE ~(pos.x + 2 > Columns)
  BY <1>2 DEF Advance, AfterRound, OffScreen, CursorInv, CursorTypeOK, CursorOnScreen
<1>. QED
  BY <1>1, <1>2

(* The end of the round brings the cursor back onto the screen.            *)
LEMMA ScrollKeepsCursor ==
  ASSUME NEW screen, NEW lines, NEW at,
         AfterRound(at),
         OffScreen(at) => at.y >= GlyphBands,
         Scroll(screen, lines, at)
  PROVE  CursorInv'
<1>. USE TextDrawerAssumption DEF GlyphBands, AfterRound
<1>1. CASE OffScreen(at)
  <2>1. pos' = [at EXCEPT !.y = at.y - 4]
    BY <1>1 DEF Scroll
  <2>2. at.y - 4 \in Nat /\ (at.y - 4) % 4 = 0
    BY <1>1
  <2>3. pos' \in [x : Nat, y : Nat] /\ pos'.x = at.x /\ pos'.y = at.y - 4
    BY <2>1, <2>2
  <2>. QED
    BY <2>2, <2>3 DEF CursorInv, CursorTypeOK, CursorOnScreen
<1>2. CASE ~OffScreen(at)
  BY <1>2 DEF Scroll, OffScreen, CursorInv, CursorTypeOK, CursorOnScreen
<1>. QED
  BY <1>1, <1>2

(* putChar is only called with a cell of the framebuffer, for every size   *)
(* of the framebuffer that has room for one character.                     *)
THEOREM CursorStaysOnScreen == Spec => []CursorOnScreen
<1>1. Init => CursorInv
  BY TextDrawerAssumption DEF Init, CursorInv, CursorTypeOK, CursorOnScreen, GlyphBands
<1>2. CursorInv /\ [Next]_vars => CursorInv'
  <2>. SUFFICES ASSUME CursorInv, [Next]_vars PROVE CursorInv'
    OBVIOUS
  <2>1. CASE PrintNewLine
    BY <2>1, NewLineAfterRound, ScrollKeepsCursor DEF PrintNewLine
  <2>2. ASSUME NEW char \in Chars, PrintChar(char) PROVE CursorInv'
    BY <2>2, AdvanceAfterRound, ScrollKeepsCursor DEF PrintChar
  <2>3. CASE UNCHANGED vars
    BY <2>3 DEF vars, CursorInv, CursorTypeOK, CursorOnScreen
  <2>. QED
    BY <2>1, <2>2, <2>3 DEF Next
<1>3. CursorInv => CursorOnScreen
  BY DEF CursorInv
<1>. QED
  BY <1>1, <1>2, <1>3, PTL DEF Spec

-------------------------------------------------------------------------------
(* Text and pixels.                                                        *)

Pixels == [Screen -> SUBSET Chars]

Texts == [0 .. Lines - 1 -> [0 .. Columns - 1 -> Chars \union {Blank}]]

Drawn(screen, lines) ==
  \A line \in 0 .. Lines - 1, column \in 0 .. Columns - 1, band \in 0 .. GlyphBands - 1 :
    {lines[line][column]} \ {Blank} \subseteq screen[<<line * GlyphBands + band, column>>]

DrawnInv == CursorInv /\ pixels \in Pixels /\ text \in Texts /\ Drawn(pixels, text)

(* Every text line lies in the screen with all its bands.                  *)
LEMMA LineCells ==
  /\ Lines \in Nat \ {0} /\ Lines * GlyphBands <= Bands
  /\ Bands < (Lines + 1) * GlyphBands
  /\ \A line \in 0 .. Lines - 1, column \in 0 .. Columns - 1, band \in 0 .. GlyphBands - 1 :
       <<line * GlyphBands + band, column>> \in Screen
<1>. USE TextDrawerAssumption DEF GlyphBands
<1>1. Lines \in Nat \ {0} /\ Lines * 4 <= Bands /\ Bands < (Lines + 1) * 4
  BY DEF Lines
<1>2. ASSUME NEW line \in 0 .. Lines - 1, NEW column \in 0 .. Columns - 1, NEW band \in 0 .. GlyphBands - 1
      PROVE  <<line * GlyphBands + band, column>> \in Screen
  <2>1. line * GlyphBands + band \in 0 .. Bands - 1
    BY <1>1
  <2>. QED
    BY <2>1 DEF Screen
<1>. QED
  BY <1>1, <1>2

(* A character that is printed is drawn in full, over what was there.      *)
LEMMA PutCharDraws ==
  ASSUME DrawnInv, NEW char \in Chars
  PROVE  LET screen == putChar(pixels, char, pos)
             lines == [text EXCEPT ![pos.y \div GlyphBands][pos.x] = char]
         IN  screen \in Pixels /\ lines \in Texts /\ Drawn(screen, lines)
<1>. USE TextDrawerAssumption DEF GlyphBands
<1>. DEFINE screen == putChar(pixels, char, pos)
            L == pos.y \div 4
            lines == [text EXCEPT ![L][pos.x] = char]
<1>1. /\ pos.x \in 0 .. Columns - 1 /\ pos.y \in Nat
      /\ L \in 0 .. Lines - 1 /\ L * 4 = pos.y
  BY DEF DrawnInv, CursorInv, CursorTypeOK, CursorOnScreen, Lines
<1>2. screen \in Pixels
  BY DEF DrawnInv, Pixels, putChar
<1>3. text[L] \in [0 .. Columns - 1 -> Chars \union {Blank}]
  BY <1>1 DEF DrawnInv, Texts
<1>4. lines \in Texts
  BY <1>1, <1>3 DEF DrawnInv, Texts
<1>5. ASSUME NEW line \in 0 .. Lines - 1, NEW column \in 0 .. Columns - 1, NEW band \in 0 .. GlyphBands - 1
      PROVE  {lines[line][column]} \ {Blank} \subseteq screen[<<line * GlyphBands + band, column>>]
  <2>. DEFINE cell == <<line * GlyphBands + band, column>>
  <2>1. cell \in Screen /\ cell[1] = line * GlyphBands + band /\ cell[2] = column
    BY LineCells
  <2>2. /\ pixels[cell] \subseteq screen[cell]
        /\ column = pos.x /\ line * GlyphBands + band \in pos.y .. pos.y + 3 => char \in screen[cell]
    BY <2>1 DEF putChar
  <2>3. CASE line = L /\ column = pos.x
    <3>1. lines[line][column] = char
      BY <1>1, <1>3, <2>3 DEF DrawnInv, Texts
    <3>2. line * GlyphBands + band \in pos.y .. pos.y + 3
      BY <1>1, <2>3
    <3>. QED
      BY <2>2, <2>3, <3>1, <3>2
  <2>4. CASE ~(line = L /\ column = pos.x)
    <3>1. lines[line][column] = text[line][column]
      BY <1>1, <1>3, <2>4 DEF DrawnInv, Texts
    <3>2. {text[line][column]} \ {Blank} \subseteq pixels[cell]
      BY DEF DrawnInv, Drawn
    <3>. QED
      BY <2>2, <3>1, <3>2
  <2>. QED
    BY <2>3, <2>4
<1>6. Drawn(screen, lines)
  BY <1>5 DEF Drawn
<1>. QED
  BY <1>2, <1>4, <1>6

(* Scrolling keeps every line but the one at the top.                      *)
LEMMA ScrolledKeepsLines ==
  ASSUME NEW screen \in Pixels, NEW lines \in Texts, Drawn(screen, lines)
  PROVE  /\ Scrolled(screen) \in Pixels
         /\ ScrolledText(lines) \in Texts
         /\ Drawn(Scrolled(screen), ScrolledText(lines))
<1>. USE TextDrawerAssumption DEF GlyphBands
<1>1. ASSUME NEW cell \in Screen, cell[1] < Bands - 4
      PROVE  <<cell[1] + 4, cell[2]>> \in Screen
  BY <1>1 DEF Screen
<1>2. Scrolled(screen) \in Pixels
  BY <1>1 DEF Pixels, Scrolled, CopiedUp
<1>3. ScrolledText(lines) \in Texts
  <2>1. \A l \in 0 .. Lines - 1 : l < Lines - 1 => l + 1 \in 0 .. Lines - 1
    BY LineCells
  <2>. QED
    BY <2>1 DEF Texts, ScrolledText
<1>4. ASSUME NEW line \in 0 .. Lines - 1, NEW column \in 0 .. Columns - 1, NEW band \in 0 .. GlyphBands - 1
      PROVE  {ScrolledText(lines)[line][column]} \ {Blank}
               \subseteq Scrolled(screen)[<<line * GlyphBands + band, column>>]
  <2>1. CASE line < Lines - 1
    <3>. DEFINE cell == <<line * GlyphBands + band, column>>
    <3>1. /\ cell \in Screen /\ cell[1] = line * GlyphBands + band /\ cell[2] = column
          /\ line + 1 \in 0 .. Lines - 1
      <4>1. line + 1 \in 0 .. Lines - 1
        BY LineCells, <2>1
      <4>. QED
        BY LineCells, <4>1
    <3>2. cell[1] < Bands - 4
      BY LineCells, <2>1, <3>1
    <3>3. cell[1] + 4 = (line + 1) * GlyphBands + band
      BY <3>1
    <3>4. Scrolled(screen)[cell] = screen[<<cell[1] + 4, cell[2]>>]
      BY <3>1, <3>2 DEF Scrolled, CopiedUp
    <3>5. Scrolled(screen)[cell] = screen[<<(line + 1) * GlyphBands + band, column>>]
      BY <3>1, <3>3, <3>4
    <3>6. ScrolledText(lines)[line] = lines[line + 1]
      BY <2>1 DEF ScrolledText
    <3>7. {lines[line + 1][column]} \ {Blank} \subseteq screen[<<(line + 1) * GlyphBands + band, column>>]
      BY <3>1 DEF Drawn
    <3>. QED
      BY <3>5, <3>6, <3>7
  <2>2. CASE ~(line < Lines - 1)
    BY <2>2 DEF ScrolledText
  <2>. QED
    BY <2>1, <2>2
<1>. QED
  BY <1>2, <1>3, <1>4 DEF Drawn

LEMMA ScrollKeepsText ==
  ASSUME NEW screen \in Pixels, NEW lines \in Texts, Drawn(screen, lines), NEW at,
         Scroll(screen, lines, at)
  PROVE  pixels' \in Pixels /\ text' \in Texts /\ Drawn(pixels', text')
BY ScrolledKeepsLines DEF Scroll

LEMMA DrawnInductive == Spec => []DrawnInv
<1>1. Init => DrawnInv
  <2>. SUFFICES ASSUME Init PROVE DrawnInv
    OBVIOUS
  <2>1. CursorInv
    BY TextDrawerAssumption DEF Init, CursorInv, CursorTypeOK, CursorOnScreen, GlyphBands
  <2>2. pixels \in Pixels /\ text \in Texts
    BY DEF Init, Pixels, Texts
  <2>3. Drawn(pixels, text)
    BY DEF Init, Drawn
  <2>. QED
    BY <2>1, <2>2, <2>3 DEF DrawnInv
<1>2. DrawnInv /\ [Next]_vars => DrawnInv'
  <2>. SUFFICES ASSUME DrawnInv, [Next]_vars PROVE DrawnInv'
    OBVIOUS
  <2>0. CursorInv
    BY DEF DrawnInv
  <2>1. CASE PrintNewLine
    <3>1. CursorInv'
      BY <2>0, <2>1, NewLineAfterRound, ScrollKeepsCursor DEF PrintNewLine
    <3>2. pixels' \in Pixels /\ text' \in Texts /\ Drawn(pixels', text')
      BY <2>1, ScrollKeepsText DEF PrintNewLine, DrawnInv
    <3>. QED
      BY <3>1, <3>2 DEF DrawnInv, Pixels, Texts, Drawn
  <2>2. ASSUME NEW char \in Chars, PrintChar(char) PROVE DrawnInv'
    <3>1. CursorInv'
      BY <2>0, <2>2, AdvanceAfterRound, ScrollKeepsCursor DEF PrintChar
    <3>2. pixels' \in Pixels /\ text' \in Texts /\ Drawn(pixels', text')
      BY <2>2, PutCharDraws, ScrollKeepsText DEF PrintChar
    <3>. QED
      BY <3>1, <3>2 DEF DrawnInv, Pixels, Texts, Drawn
  <2>3. CASE UNCHANGED vars
    BY <2>3 DEF vars, DrawnInv, CursorInv, CursorTypeOK, CursorOnScreen, Pixels, Texts, Drawn
  <2>. QED
    BY <2>1, <2>2, <2>3 DEF Next
<1>. QED
  BY <1>1, <1>2, PTL DEF Spec

(* Types of cursor, pixels and text.                                       *)
THEOREM TypeCorrect == Spec => []TypeOK
<1>1. DrawnInv => TypeOK
  BY DEF DrawnInv, CursorInv, CursorTypeOK, Pixels, Texts, TypeOK
<1>. QED
  BY <1>1, DrawnInductive, PTL

(* What was printed to a line of the screen is drawn there in full, after  *)
(* any number of line breaks and scrolls (print.cpp:18-42).                *)
THEOREM PrintedTextStays == Spec => []TextIsDrawn
<1>1. DrawnInv => TextIsDrawn
  BY DEF DrawnInv, Drawn, TextIsDrawn, Printed, Shown
<1>. QED
  BY <1>1, DrawnInductive, PTL


-------------------------------------------------------------------------------
(* Nothing but the text is in the clean bands.                             *)

(* The clean bands of each line and the rows below the last one.           *)
Clear(screen, lines) ==
  /\ \A line \in 0 .. Lines - 1, column \in 0 .. Columns - 1, band \in CleanBands :
       screen[<<line * GlyphBands + band, column>>] = {lines[line][column]} \ {Blank}
  /\ \A cell \in Screen : cell[1] >= Lines * GlyphBands => screen[cell] = {}

(* Nothing is printed yet where the cursor will get to.                    *)
BlankAhead(at, lines) ==
  \A line \in 0 .. Lines - 1, column \in 0 .. Columns - 1 :
    \/ line * GlyphBands > at.y
    \/ line * GlyphBands = at.y /\ column >= at.x
    => lines[line][column] = Blank

ClearInv == DrawnInv /\ Clear(pixels, text) /\ BlankAhead(pos, text)

LEMMA CleanBandsType ==
  /\ CleanBands \subseteq 0 .. GlyphBands - 1
  /\ Bands % GlyphBands \in CleanBands
  /\ \A band \in CleanBands : band <= Bands % GlyphBands
  /\ Bands = Lines * GlyphBands + (Bands % GlyphBands)
BY TextDrawerAssumption DEF CleanBands, Lines, GlyphBands

(* A glyph is drawn where nothing is printed yet, and not below the last   *)
(* line.                                                                   *)
LEMMA PutCharClear ==
  ASSUME ClearInv, NEW char \in Chars
  PROVE  LET screen == putChar(pixels, char, pos)
             lines == [text EXCEPT ![pos.y \div GlyphBands][pos.x] = char]
         IN  Clear(screen, lines) /\ BlankAhead(Advance(pos), lines)
<1>. USE TextDrawerAssumption DEF GlyphBands
<1>. DEFINE screen == putChar(pixels, char, pos)
            L == pos.y \div 4
            lines == [text EXCEPT ![L][pos.x] = char]
<1>1. /\ pos.x \in 0 .. Columns - 1 /\ pos.y \in Nat
      /\ L \in 0 .. Lines - 1 /\ L * 4 = pos.y
  BY DEF ClearInv, DrawnInv, CursorInv, CursorTypeOK, CursorOnScreen, Lines
<1>2. text \in Texts /\ text[L] \in [0 .. Columns - 1 -> Chars \union {Blank}]
  BY <1>1 DEF ClearInv, DrawnInv, Texts
<1>3. char # Blank
  BY CharsAssumption
<1>4. ASSUME NEW line \in 0 .. Lines - 1, NEW column \in 0 .. Columns - 1
      PROVE  lines[line][column]
               = IF line = L /\ column = pos.x THEN char ELSE text[line][column]
  BY <1>1, <1>2 DEF Texts
<1>5. ASSUME NEW line \in 0 .. Lines - 1, NEW column \in 0 .. Columns - 1, NEW band \in CleanBands
      PROVE  screen[<<line * GlyphBands + band, column>>] = {lines[line][column]} \ {Blank}
  <2>. DEFINE cell == <<line * GlyphBands + band, column>>
  <2>1. band \in 0 .. GlyphBands - 1
    BY CleanBandsType
  <2>2. cell \in Screen /\ cell[1] = line * GlyphBands + band /\ cell[2] = column
    BY <2>1, LineCells
  <2>3. screen[cell] = IF column = pos.x /\ line * 4 + band \in pos.y .. pos.y + 3
                       THEN pixels[cell] \union {char} ELSE pixels[cell]
    BY <2>2 DEF putChar
  <2>4. line * 4 + band \in pos.y .. pos.y + 3 <=> line = L
    BY <1>1, <2>1
  <2>5. pixels[cell] = {text[line][column]} \ {Blank}
    BY DEF ClearInv, Clear
  <2>. HIDE DEF cell, screen, lines, L
  <2>6. CASE line = L /\ column = pos.x
    <3>1. text[line][column] = Blank
      BY <1>1, <2>6 DEF ClearInv, BlankAhead
    <3>. QED
      BY <1>3, <1>4, <2>3, <2>4, <2>5, <2>6, <3>1 DEF cell
  <2>7. CASE ~(line = L /\ column = pos.x)
    BY <1>4, <2>3, <2>4, <2>5, <2>7 DEF cell
  <2>. QED
    BY <2>6, <2>7
<1>6. ASSUME NEW cell \in Screen, cell[1] >= Lines * GlyphBands
      PROVE  screen[cell] = {}
  <2>1. cell[1] \notin pos.y .. pos.y + 3
    BY <1>1, <1>6, LineCells
  <2>2. pixels[cell] = {}
    BY <1>6 DEF ClearInv, Clear
  <2>. QED
    BY <2>1, <2>2 DEF putChar
<1>7. Clear(screen, lines)
  BY <1>5, <1>6 DEF Clear
<1>8. BlankAhead(Advance(pos), lines)
  <2>1. SUFFICES ASSUME NEW line \in 0 .. Lines - 1, NEW column \in 0 .. Columns - 1,
                        \/ line * 4 > Advance(pos).y
                        \/ line * 4 = Advance(pos).y /\ column >= Advance(pos).x
                 PROVE  lines[line][column] = Blank
    BY DEF BlankAhead
  <2>2. pos \in [x : Nat, y : Nat]
    BY DEF ClearInv, DrawnInv, CursorInv, CursorTypeOK
  <2>3. line * 4 > pos.y \/ (line * 4 = pos.y /\ column >= pos.x + 1)
    BY <2>1, <2>2, <1>1 DEF Advance, NewLine
  <2>4. ~(line = L /\ column = pos.x)
    BY <1>1, <2>3
  <2>5. text[line][column] = Blank
    BY <1>1, <2>3 DEF ClearInv, BlankAhead
  <2>. QED
    BY <1>4, <2>4, <2>5
<1>. QED
  BY <1>7, <1>8

(* The scroll clears the band behind the rows below the last line, which   *)
(* have nothing on them.                                                   *)
LEMMA ScrolledClear ==
  ASSUME NEW screen \in Pixels, NEW lines \in Texts, Clear(screen, lines)
  PROVE  Clear(Scrolled(screen), ScrolledText(lines))
<1>. USE TextDrawerAssumption DEF GlyphBands
<1>1. ASSUME NEW line \in 0 .. Lines - 1, NEW column \in 0 .. Columns - 1, NEW band \in CleanBands
      PROVE  Scrolled(screen)[<<line * GlyphBands + band, column>>]
               = {ScrolledText(lines)[line][column]} \ {Blank}
  <2>. DEFINE cell == <<line * GlyphBands + band, column>>
              below == <<(line + 1) * GlyphBands + band, column>>
  <2>1. /\ band \in 0 .. GlyphBands - 1 /\ band <= Bands % 4
        /\ Bands = Lines * 4 + (Bands % 4)
    BY CleanBandsType
  <2>2. cell \in Screen /\ cell[1] = line * GlyphBands + band /\ cell[2] = column
    BY <2>1, LineCells
  <2>3. cell[1] < Bands - 4 => Scrolled(screen)[cell] = screen[below]
    <3>1. <<cell[1] + 4, cell[2]>> = below
      BY <2>1, <2>2
    <3>. QED
      BY <2>1, <2>2, <3>1 DEF Scrolled, CopiedUp
  <2>4. CASE line < Lines - 1
    <3>1. line + 1 \in 0 .. Lines - 1 /\ cell[1] < Bands - 4
      BY <2>1, <2>2, <2>4, LineCells
    <3>2. ScrolledText(lines)[line] = lines[line + 1]
      BY <2>4 DEF ScrolledText
    <3>3. screen[below] = {lines[line + 1][column]} \ {Blank}
      BY <3>1 DEF Clear
    <3>. QED
      BY <2>3, <3>1, <3>2, <3>3
  <2>5. CASE line = Lines - 1
    <3>1. ScrolledText(lines)[line][column] = Blank
      BY <2>5 DEF ScrolledText
    <3>2. CASE band = Bands % 4
      <4>1. cell[1] = Bands - 4
        BY <2>1, <2>2, <2>5, <3>2, LineCells
      <4>. QED
        BY <2>2, <3>1, <4>1 DEF Scrolled
    <3>3. CASE band # Bands % 4
      <4>1. cell[1] < Bands - 4 /\ (line + 1) * 4 + band \in Lines * 4 .. Bands - 1
        BY <2>1, <2>2, <2>5, <3>3, LineCells
      <4>2. below \in Screen /\ below[1] >= Lines * 4
        BY <4>1, LineCells DEF Screen
      <4>3. screen[below] = {}
        BY <4>2 DEF Clear
      <4>. QED
        BY <2>3, <3>1, <4>1, <4>3
    <3>. QED
      BY <3>2, <3>3
  <2>. QED
    BY <2>4, <2>5, LineCells
<1>2. ASSUME NEW cell \in Screen, cell[1] >= Lines * GlyphBands
      PROVE  Scrolled(screen)[cell] = {}
  <2>1. cell[1] \in Nat /\ ~(cell[1] < Bands - 4)
    BY <1>2, LineCells DEF Screen
  <2>. QED
    BY <1>2, <2>1 DEF Scrolled, CopiedUp, Clear
<1>. QED
  BY <1>1, <1>2 DEF Clear

LEMMA ScrollKeepsClear ==
  ASSUME NEW screen \in Pixels, NEW lines \in Texts, Clear(screen, lines),
         NEW at, AfterRound(at), BlankAhead(at, lines),
         Scroll(screen, lines, at)
  PROVE  Clear(pixels', text') /\ BlankAhead(pos', text')
<1>. USE TextDrawerAssumption DEF GlyphBands
<1>1. CASE OffScreen(at)
  <2>1. pixels' = Scrolled(screen) /\ text' = ScrolledText(lines) /\ pos' = [at EXCEPT !.y = at.y - 4]
    BY <1>1 DEF Scroll
  <2>2. at.y = Lines * 4
    BY <1>1, LineCells DEF OffScreen, AfterRound
  <2>3. pos'.y = (Lines - 1) * 4
    BY <2>1, <2>2, LineCells DEF AfterRound
  <2>4. ASSUME NEW line \in 0 .. Lines - 1, NEW column \in 0 .. Columns - 1, line * 4 >= pos'.y
        PROVE  text'[line][column] = Blank
    <3>1. ~(line < Lines - 1)
      BY <2>3, <2>4, LineCells
    <3>. QED
      BY <2>1, <3>1 DEF ScrolledText
  <2>5. BlankAhead(pos', text')
    BY <2>3, <2>4, LineCells DEF BlankAhead
  <2>. QED
    BY <2>1, <2>5, ScrolledClear
<1>2. CASE ~OffScreen(at)
  BY <1>2 DEF Scroll
<1>. QED
  BY <1>1, <1>2

LEMMA NewLineBlankAhead ==
  ASSUME ClearInv PROVE BlankAhead(NewLine(pos), text)
<1>. USE TextDrawerAssumption DEF GlyphBands
<1>1. pos.x \in Nat /\ pos.y \in Nat
  BY DEF ClearInv, DrawnInv, CursorInv, CursorTypeOK
<1>. QED
  BY <1>1, LineCells DEF ClearInv, BlankAhead, NewLine

(* In one band of each line, and below the last one, only what was printed *)
(* is seen, although a scroll clears four rows of the sixteen (print.cpp). *)
THEOREM CleanBandsStayClear == Spec => []TextIsClear
<1>1. Init => Clear(pixels, text) /\ BlankAhead(pos, text)
  <2>. SUFFICES ASSUME Init PROVE Clear(pixels, text) /\ BlankAhead(pos, text)
    OBVIOUS
  <2>1. \A line \in 0 .. Lines - 1, column \in 0 .. Columns - 1 : text[line][column] = Blank
    BY DEF Init
  <2>2. \A line \in 0 .. Lines - 1, column \in 0 .. Columns - 1, band \in CleanBands :
          <<line * GlyphBands + band, column>> \in Screen
    BY LineCells, CleanBandsType
  <2>3. \A cell \in Screen : pixels[cell] = {}
    BY DEF Init
  <2>. QED
    BY <2>1, <2>2, <2>3 DEF Clear, BlankAhead
<1>2. ClearInv /\ DrawnInv' /\ [Next]_vars => Clear(pixels, text)' /\ BlankAhead(pos, text)'
  <2>. SUFFICES ASSUME ClearInv, [Next]_vars
                PROVE  Clear(pixels', text') /\ BlankAhead(pos', text')
    BY DEF Clear, BlankAhead
  <2>0. CursorInv /\ pixels \in Pixels /\ text \in Texts /\ Clear(pixels, text)
    BY DEF ClearInv, DrawnInv
  <2>1. CASE PrintNewLine
    BY <2>0, <2>1, NewLineAfterRound, NewLineBlankAhead, ScrollKeepsClear DEF PrintNewLine
  <2>2. ASSUME NEW char \in Chars, PrintChar(char)
        PROVE  Clear(pixels', text') /\ BlankAhead(pos', text')
    <3>. DEFINE screen == putChar(pixels, char, pos)
                lines == [text EXCEPT ![pos.y \div GlyphBands][pos.x] = char]
    <3>1. screen \in Pixels /\ lines \in Texts
      BY PutCharDraws DEF ClearInv
    <3>2. Clear(screen, lines) /\ BlankAhead(Advance(pos), lines)
      BY PutCharClear
    <3>3. Scroll(screen, lines, Advance(pos))
      BY <2>2 DEF PrintChar
    <3>4. AfterRound(Advance(pos))
      BY <2>0, AdvanceAfterRound
    <3>. HIDE DEF screen, lines
    <3>. QED
      BY <3>1, <3>2, <3>3, <3>4, ScrollKeepsClear
  <2>3. CASE UNCHANGED vars
    BY <2>0, <2>3 DEF vars, ClearInv
  <2>. QED
    BY <2>1, <2>2, <2>3 DEF Next
<1>3. ClearInv => TextIsClear
  BY DEF ClearInv, Clear, TextIsClear, Shown, Printed
<1>. QED
  BY <1>1, <1>2, <1>3, DrawnInductive, PTL DEF Spec, ClearInv

-------------------------------------------------------------------------------
(* The instructions and assignments main and the handlers are made of.     *)
Ops ==
  {"draw", "move", "wrap", "scroll", "newline", "gate 14", "gate 8", "gate 13",
   "memset", "entries", "lgdt", "data segments", "code segment", "lidt", "sti",
   "hlt", "ret", "iret"}

GlyphCode(i) ==
  IF i % 4 = 1 THEN "draw" ELSE IF i % 4 = 2 THEN "move"
  ELSE IF i % 4 = 3 THEN "wrap" ELSE "scroll"

IsCode(program, n) == program \in Seq(Ops) /\ Len(program) = n

(* One program after the other.                                            *)
Joins(u, first, m, t, n, k) ==
  /\ IsCode(u, k)
  /\ \A i \in 1 .. m : u[i] = first[i]
  /\ \A i \in 1 .. n : u[m + i] = t[i]

LEMMA Joined ==
  ASSUME NEW first, NEW m \in Nat, NEW t, NEW n \in Nat, NEW u, NEW k,
         IsCode(first, m), IsCode(t, n), u = first \o t, k = m + n
  PROVE  Joins(u, first, m, t, n, k)
<1>1. first \in Seq(Ops) /\ t \in Seq(Ops) /\ Len(first) = m /\ Len(t) = n
  BY DEF IsCode
<1>2. /\ first \o t \in Seq(Ops) /\ Len(first \o t) = Len(first) + Len(t)
      /\ \A i \in 1 .. Len(first) + Len(t) : (first \o t)[i] = IF i <= Len(first) THEN first[i] ELSE t[i - Len(first)]
  BY <1>1, ConcatProperties
<1>3. /\ u \in Seq(Ops) /\ Len(u) = k
      /\ \A i \in 1 .. k : u[i] = IF i <= m THEN first[i] ELSE t[i - m]
  BY <1>1, <1>2
<1>. QED
  BY <1>3 DEF IsCode, Joins

LEMMA GlyphsAt ==
  ASSUME NEW n \in Nat
  PROVE  IsCode(Glyphs(n), 4 * n) /\ \A i \in 1 .. 4 * n : Glyphs(n)[i] = GlyphCode(i)
<1>1. ASSUME NEW i \in 1 .. 4 * n
      PROVE  <<"draw", "move", "wrap", "scroll">>[((i - 1) % 4) + 1] = GlyphCode(i)
  <2>1. CASE i % 4 = 1
    <3>1. ((i - 1) % 4) + 1 = 1
      BY <2>1
    <3>. QED
      BY <2>1, <3>1 DEF GlyphCode
  <2>2. CASE i % 4 = 2
    <3>1. ((i - 1) % 4) + 1 = 2
      BY <2>2
    <3>. QED
      BY <2>2, <3>1 DEF GlyphCode
  <2>3. CASE i % 4 = 3
    <3>1. ((i - 1) % 4) + 1 = 3
      BY <2>3
    <3>. QED
      BY <2>3, <3>1 DEF GlyphCode
  <2>4. CASE i % 4 = 0
    <3>1. ((i - 1) % 4) + 1 = 4
      BY <2>4
    <3>. QED
      BY <2>4, <3>1 DEF GlyphCode
  <2>. QED
    BY <2>1, <2>2, <2>3, <2>4
<1>2. \A i \in 1 .. 4 * n : GlyphCode(i) \in Ops
  BY DEF GlyphCode, Ops
<1>3. Glyphs(n) = [i \in 1 .. 4 * n |-> GlyphCode(i)]
  BY <1>1 DEF Glyphs
<1>4. 4 * n \in Nat
  OBVIOUS
<1>. QED
  BY <1>2, <1>3, <1>4 DEF IsCode

LEMMA LineAt ==
  /\ IsCode(Line, 10) /\ \A i \in 1 .. 8 : Line[i] = GlyphCode(i)
  /\ Line[9] = "newline" /\ Line[10] = "scroll"
<1>0. EnabledLength \in Nat
  BY InterruptsAssumption
<1>1. IsCode(Glyphs(2), 8) /\ \A i \in 1 .. 8 : Glyphs(2)[i] = GlyphCode(i)
  <2>1. IsCode(Glyphs(2), 4 * 2) /\ \A i \in 1 .. 4 * 2 : Glyphs(2)[i] = GlyphCode(i)
    BY GlyphsAt
  <2>. QED
    BY <2>1 DEF Joins
<1>2. IsCode(LineBreak, 2) /\ LineBreak[1] = "newline" /\ LineBreak[2] = "scroll"
  BY DEF LineBreak, Ops, IsCode
<1>3. Joins(Line, Glyphs(2), 8, LineBreak, 2, 10)
  <2>1. IsCode(Glyphs(2), 8) /\ IsCode(LineBreak, 2) /\ Line = Glyphs(2) \o LineBreak
    BY <1>1, <1>2 DEF Line, Joins
  <2>2. 8 \in Nat /\ 2 \in Nat /\ 10 = 8 + 2
    BY <1>0
  <2>. QED
    BY <2>1, <2>2, Joined, Zenon
<1>. QED
  <2>1. Line[8 + 1] = LineBreak[1] /\ Line[8 + 2] = LineBreak[2]
    BY <1>3 DEF Joins
  <2>. QED
    BY <1>1, <1>2, <1>3, <2>1 DEF Joins

PanicCode ==
  <<"newline", "scroll", "newline", "scroll", "draw", "move", "wrap", "scroll",
    "newline", "scroll", "hlt", "iret">>

LEMMA PanicAt ==
  IsCode(Panic, 12) /\ \A i \in 1 .. 12 : Panic[i] = PanicCode[i]
<1>. DEFINE twoBreaks == LineBreak \o LineBreak
            message == twoBreaks \o Glyphs(1)
            printed == message \o LineBreak
            last == <<"hlt", "iret">>
<1>0. EnabledLength \in Nat
  BY InterruptsAssumption
<1>1. /\ IsCode(Glyphs(1), 4) /\ Glyphs(1)[1] = "draw" /\ Glyphs(1)[2] = "move"
      /\ Glyphs(1)[3] = "wrap" /\ Glyphs(1)[4] = "scroll"
  <2>1. IsCode(Glyphs(1), 4 * 1) /\ \A i \in 1 .. 4 * 1 : Glyphs(1)[i] = GlyphCode(i)
    BY GlyphsAt
  <2>2. /\ GlyphCode(1) = "draw" /\ GlyphCode(2) = "move" /\ GlyphCode(3) = "wrap"
        /\ GlyphCode(4) = "scroll"
    BY DEF GlyphCode
  <2>. QED
    BY <2>1, <2>2 DEF Joins
<1>2. IsCode(LineBreak, 2) /\ LineBreak[1] = "newline" /\ LineBreak[2] = "scroll"
  BY DEF LineBreak, Ops, IsCode
<1>3. IsCode(last, 2) /\ last[1] = "hlt" /\ last[2] = "iret"
  BY DEF Ops, IsCode
<1>4. Panic = printed \o last
  BY DEF Panic
<1>. HIDE DEF last
<1>5. Joins(twoBreaks, LineBreak, 2, LineBreak, 2, 4)
  <2>1. IsCode(LineBreak, 2) /\ IsCode(LineBreak, 2) /\ twoBreaks = LineBreak \o LineBreak
    BY <1>2 DEF twoBreaks, Joins
  <2>2. 2 \in Nat /\ 2 \in Nat /\ 4 = 2 + 2
    BY <1>0
  <2>. QED
    BY <2>1, <2>2, Joined, Zenon
<1>. HIDE DEF twoBreaks
<1>6. Joins(message, twoBreaks, 4, Glyphs(1), 4, 8)
  <2>1. IsCode(twoBreaks, 4) /\ IsCode(Glyphs(1), 4) /\ message = twoBreaks \o Glyphs(1)
    BY <1>1, <1>5 DEF message, Joins
  <2>2. 4 \in Nat /\ 4 \in Nat /\ 8 = 4 + 4
    BY <1>0
  <2>. QED
    BY <2>1, <2>2, Joined, Zenon
<1>. HIDE DEF message
<1>7. Joins(printed, message, 8, LineBreak, 2, 10)
  <2>1. IsCode(message, 8) /\ IsCode(LineBreak, 2) /\ printed = message \o LineBreak
    BY <1>2, <1>6 DEF printed, Joins
  <2>2. 8 \in Nat /\ 2 \in Nat /\ 10 = 8 + 2
    BY <1>0
  <2>. QED
    BY <2>1, <2>2, Joined, Zenon
<1>. HIDE DEF printed
<1>8. Joins(Panic, printed, 10, last, 2, 12)
  <2>1. IsCode(printed, 10) /\ IsCode(last, 2) /\ Panic = printed \o last
    BY <1>3, <1>7, <1>4 DEF Joins
  <2>2. 10 \in Nat /\ 2 \in Nat /\ 12 = 10 + 2
    BY <1>0
  <2>. QED
    BY <2>1, <2>2, Joined, Zenon
<1>9. /\ twoBreaks[1] = "newline" /\ twoBreaks[2] = "scroll"
      /\ twoBreaks[2 + 1] = "newline" /\ twoBreaks[2 + 2] = "scroll"
  BY <1>2, <1>5 DEF Joins
<1>10. /\ message[1] = "newline" /\ message[2] = "scroll" /\ message[3] = "newline"
       /\ message[4] = "scroll" /\ message[4 + 1] = "draw" /\ message[4 + 2] = "move"
       /\ message[4 + 3] = "wrap" /\ message[4 + 4] = "scroll"
  BY <1>1, <1>6, <1>9 DEF Joins
<1>11. /\ Panic[1] = "newline" /\ Panic[2] = "scroll" /\ Panic[3] = "newline"
       /\ Panic[4] = "scroll" /\ Panic[5] = "draw" /\ Panic[6] = "move"
       /\ Panic[7] = "wrap" /\ Panic[8] = "scroll"
  BY <1>7, <1>8, <1>10 DEF Joins
<1>12. printed[8 + 1] = "newline" /\ printed[8 + 2] = "scroll"
  BY <1>2, <1>7 DEF Joins
<1>13. Panic[9] = "newline" /\ Panic[10] = "scroll"
  BY <1>8, <1>12 DEF Joins
<1>14. Panic[10 + 1] = "hlt" /\ Panic[10 + 2] = "iret"
  BY <1>3, <1>8 DEF Joins
<1>. QED
  BY <1>8, <1>11, <1>13, <1>14 DEF PanicCode, Joins

(* The places of main: its lines of text and what is between them.         *)
LEMMA MainAt ==
  /\ IsCode(Main, 42 + 4 * EnabledLength)
  /\ \A i \in 1 .. 5 : Main[i] = SetupGDT[i]
  /\ \A i \in 1 .. 10 : Main[5 + i] = Line[i] /\ Main[18 + i] = Line[i] /\ Main[29 + i] = Line[i]
  /\ \A i \in 1 .. 3 : Main[15 + i] = InstallISR[i]
  /\ Main[29] = "lidt" /\ Main[40] = "sti"
  /\ \A i \in 1 .. 4 * EnabledLength : Main[40 + i] = GlyphCode(i)
  /\ Main[41 + 4 * EnabledLength] = "hlt" /\ Main[42 + 4 * EnabledLength] = "ret"
<1>. DEFINE n == 4 * EnabledLength
            printed == Glyphs(EnabledLength)
            lidt == <<"lidt">>
            sti == <<"sti">>
            last == <<"hlt", "ret">>
            s1 == InstallISR \o Line
            s2 == s1 \o lidt
            s3 == s2 \o Line
            s4 == s3 \o sti
            m1 == SetupGDT \o Line
            m2 == m1 \o SetupIDT
<1>0. n \in Nat
  BY InterruptsAssumption
<1>1. IsCode(printed, n) /\ \A i \in 1 .. n : printed[i] = GlyphCode(i)
  BY GlyphsAt, InterruptsAssumption
<1>2. IsCode(InstallISR, 3) /\ IsCode(SetupGDT, 5)
  BY DEF InstallISR, SetupGDT, Ops, IsCode
<1>3. /\ IsCode(last, 2) /\ last[1] = "hlt" /\ last[2] = "ret"
      /\ IsCode(lidt, 1) /\ lidt[1] = "lidt"
      /\ IsCode(sti, 1) /\ sti[1] = "sti"
  BY DEF Ops, IsCode
<1>4. IsCode(Line, 10)
  BY LineAt
<1>5. SetupIDT = s4 \o printed /\ Main = m2 \o last
  BY DEF SetupIDT, Main
<1>. HIDE DEF last, lidt, sti, printed, n
<1>6. Joins(s1, InstallISR, 3, Line, 10, 13)
  <2>1. IsCode(InstallISR, 3) /\ IsCode(Line, 10) /\ s1 = InstallISR \o Line
    BY <1>2, <1>4 DEF s1, Joins
  <2>2. 3 \in Nat /\ 10 \in Nat /\ 13 = 3 + 10
    BY <1>0
  <2>. QED
    BY <2>1, <2>2, Joined, Zenon
<1>. HIDE DEF s1
<1>7. Joins(s2, s1, 13, lidt, 1, 14)
  <2>1. IsCode(s1, 13) /\ IsCode(lidt, 1) /\ s2 = s1 \o lidt
    BY <1>3, <1>6 DEF s2, Joins
  <2>2. 13 \in Nat /\ 1 \in Nat /\ 14 = 13 + 1
    BY <1>0
  <2>. QED
    BY <2>1, <2>2, Joined, Zenon
<1>. HIDE DEF s2
<1>8. Joins(s3, s2, 14, Line, 10, 24)
  <2>1. IsCode(s2, 14) /\ IsCode(Line, 10) /\ s3 = s2 \o Line
    BY <1>4, <1>7 DEF s3, Joins
  <2>2. 14 \in Nat /\ 10 \in Nat /\ 24 = 14 + 10
    BY <1>0
  <2>. QED
    BY <2>1, <2>2, Joined, Zenon
<1>. HIDE DEF s3
<1>9. Joins(s4, s3, 24, sti, 1, 25)
  <2>1. IsCode(s3, 24) /\ IsCode(sti, 1) /\ s4 = s3 \o sti
    BY <1>3, <1>8 DEF s4, Joins
  <2>2. 24 \in Nat /\ 1 \in Nat /\ 25 = 24 + 1
    BY <1>0
  <2>. QED
    BY <2>1, <2>2, Joined, Zenon
<1>. HIDE DEF s4
<1>10. Joins(SetupIDT, s4, 25, printed, n, 25 + n)
  <2>1. IsCode(s4, 25) /\ IsCode(printed, n) /\ SetupIDT = s4 \o printed
    BY <1>1, <1>9, <1>5 DEF Joins
  <2>2. 25 \in Nat /\ n \in Nat /\ 25 + n = 25 + n
    BY <1>0
  <2>. QED
    BY <2>1, <2>2, Joined, Zenon
<1>11. Joins(m1, SetupGDT, 5, Line, 10, 15)
  <2>1. IsCode(SetupGDT, 5) /\ IsCode(Line, 10) /\ m1 = SetupGDT \o Line
    BY <1>2, <1>4 DEF m1, Joins
  <2>2. 5 \in Nat /\ 10 \in Nat /\ 15 = 5 + 10
    BY <1>0
  <2>. QED
    BY <2>1, <2>2, Joined, Zenon
<1>. HIDE DEF m1
<1>12. Joins(m2, m1, 15, SetupIDT, 25 + n, 40 + n)
  <2>1. IsCode(m1, 15) /\ IsCode(SetupIDT, 25 + n) /\ m2 = m1 \o SetupIDT
    BY <1>10, <1>11 DEF m2, Joins
  <2>2. 15 \in Nat /\ 25 + n \in Nat /\ 40 + n = 15 + (25 + n)
    BY <1>0
  <2>. QED
    BY <2>1, <2>2, Joined, Zenon
<1>. HIDE DEF m2
<1>13. Joins(Main, m2, 40 + n, last, 2, 42 + n)
  <2>1. IsCode(m2, 40 + n) /\ IsCode(last, 2) /\ Main = m2 \o last
    BY <1>3, <1>12, <1>5 DEF Joins
  <2>2. 40 + n \in Nat /\ 2 \in Nat /\ 42 + n = 40 + n + 2
    BY <1>0
  <2>. QED
    BY <2>1, <2>2, Joined, Zenon
<1>14. /\ \A i \in 1 .. 15 : Main[i] = m1[i]
       /\ \A i \in 1 .. 25 + n : Main[15 + i] = SetupIDT[i]
  BY <1>0, <1>12, <1>13 DEF Joins
<1>15. \A i \in 1 .. 25 : Main[15 + i] = s4[i]
  BY <1>0, <1>10, <1>14 DEF Joins
<1>16. \A i \in 1 .. 24 : Main[15 + i] = s3[i]
  BY <1>9, <1>15 DEF Joins
<1>17. \A i \in 1 .. 14 : Main[15 + i] = s2[i]
  BY <1>8, <1>16 DEF Joins
<1>18. \A i \in 1 .. 13 : Main[15 + i] = s1[i]
  BY <1>7, <1>17 DEF Joins
<1>19. \A i \in 1 .. 5 : Main[i] = SetupGDT[i]
  BY <1>11, <1>14 DEF Joins
<1>20. ASSUME NEW i \in 1 .. 10
       PROVE  Main[5 + i] = Line[i] /\ Main[18 + i] = Line[i] /\ Main[29 + i] = Line[i]
  <2>1. Main[5 + i] = Line[i]
    BY <1>11, <1>14 DEF Joins
  <2>2. Main[15 + (3 + i)] = s1[3 + i] /\ s1[3 + i] = Line[i]
    BY <1>6, <1>18 DEF Joins
  <2>3. Main[15 + (14 + i)] = s3[14 + i] /\ s3[14 + i] = Line[i]
    BY <1>8, <1>16 DEF Joins
  <2>. QED
    BY <2>1, <2>2, <2>3 DEF Joins
<1>21. \A i \in 1 .. 3 : Main[15 + i] = InstallISR[i]
  BY <1>6, <1>18 DEF Joins
<1>22. Main[29] = "lidt"
  <2>1. Main[15 + 14] = s2[14] /\ s2[13 + 1] = lidt[1]
    BY <1>7, <1>17 DEF Joins
  <2>. QED
    BY <2>1, <1>3 DEF Joins
<1>23. Main[40] = "sti"
  <2>1. Main[15 + 25] = s4[25] /\ s4[24 + 1] = sti[1]
    BY <1>9, <1>15 DEF Joins
  <2>. QED
    BY <2>1, <1>3 DEF Joins
<1>24. ASSUME NEW i \in 1 .. n PROVE Main[40 + i] = GlyphCode(i)
  <2>1. 25 + i \in 1 .. 25 + n /\ 15 + (25 + i) = 40 + i
    BY <1>0
  <2>. QED
    BY <2>1, <1>1, <1>10, <1>14 DEF Joins
<1>25. Main[41 + n] = "hlt" /\ Main[42 + n] = "ret"
  <2>1. Main[(40 + n) + 1] = last[1] /\ Main[(40 + n) + 2] = last[2]
    BY <1>13 DEF Joins
  <2>. QED
    BY <1>0, <2>1, <1>3 DEF Joins
<1>. QED
  BY <1>13, <1>19, <1>20, <1>21, <1>22, <1>23, <1>24, <1>25 DEF n, Joins

-------------------------------------------------------------------------------
(* Where the cursor is when this many steps of its glyphs were executed,   *)
(* and in a line.                                                          *)
GlyphCursor(done) == cursor.x = (done + 2) \div 4 /\ cursor.y < MessageLines

LineCursor(done) ==
  IF done = 9 THEN cursor.x = 0 /\ cursor.y <= MessageLines ELSE GlyphCursor(done)

AtLineStart == cursor.x = 0 /\ cursor.y < MessageLines

LineOffsets == {5, 18, 29}

InLine(k) == \E a \in LineOffsets : k \in a + 1 .. a + 10

(* The cursor when main executes its k-th instruction, a handler its p-th. *)
MainCursor(k) ==
  /\ \A a \in LineOffsets : k \in a + 1 .. a + 10 => LineCursor(k - a - 1)
  /\ k > 40 => GlyphCursor(k - 41)
  /\ k <= 40 /\ ~InLine(k) => AtLineStart

PanicCursor(p) ==
  CASE p = 1 -> cursor.x < MessageColumns /\ cursor.y < MessageLines
    [] p \in {2, 4, 10} -> cursor.x = 0 /\ cursor.y <= MessageLines
    [] p \in {7, 8, 9} -> cursor.x = 1 /\ cursor.y < MessageLines
    [] OTHER -> AtLineStart

(* What main has set up before its k-th instruction.                       *)
SetUp(k) ==
  /\ k > 2 => gdt = [code |-> "code", data |-> "data"]
  /\ cpu.gdtr = "kernel" => k > 3
  /\ k > 4 => cpu.ss = "data"
  /\ k > 5 => cpu.cs = "code"
  /\ k > 16 => gates[PageFault] = "handler"
  /\ k > 17 => gates[DoubleFault] = "handler"
  /\ k > 18 => gates[GeneralProtectionFault] = "handler"
  /\ cpu.idtr = "kernel" <=> k > 29

IsRest(rest, program, k) ==
  /\ rest \in Seq(Ops) /\ Len(rest) = Len(program) - k + 1
  /\ \A i \in 1 .. Len(rest) : rest[i] = program[k + i - 1]

StateTypes ==
  /\ cursor \in [x : Nat, y : Nat]
  /\ gdt \in [code : {"unknown", "null", "code"}, data : {"unknown", "null", "data"}]
  /\ gates \in [Vectors -> {"absent", "garbage", "handler"}]
  /\ cpu \in [gdtr : {"firmware", "kernel"}, cs : {"firmware", "unknown", "null", "code"},
              ss : {"firmware", "unknown", "null", "data"},
              idtr : {"firmware", "kernel"}, interrupts : BOOLEAN]
  /\ status \in {"running", "garbage"}
  /\ code \in Seq(Seq(Ops))

Hlt == 41 + 4 * EnabledLength

(* Main runs, interrupts being enabled behind its sti, ...                 *)
InMain(k) ==
  /\ Len(code) = 1 /\ IsRest(code[1], Main, k)
  /\ MainCursor(k) /\ SetUp(k)
  /\ cpu.interrupts <=> k > 40

(* ... or a handler, with interrupts disabled, and main, which it          *)
(* interrupted behind its sti, waits.                                      *)
InPanic(p) ==
  /\ Len(code) = 2 /\ IsRest(code[1], Panic, p)
  /\ PanicCursor(p) /\ SetUp(41)
  /\ ~cpu.interrupts

InterruptsInv ==
  /\ StateTypes
  /\ (\E k \in 1 .. Hlt : InMain(k)) \/ (\E p \in 1 .. 11 : InPanic(p))

LEMMA RestProperties ==
  ASSUME NEW program, NEW n \in Nat, IsCode(program, n), NEW k \in 1 .. n,
         NEW rest, IsRest(rest, program, k)
  PROVE  /\ Head(rest) = program[k]
         /\ IsRest(Tail(rest), program, k + 1)
         /\ Tail(rest) \in Seq(Ops)
<1>1. Len(program) = n /\ rest \in Seq(Ops) /\ Len(rest) = n - k + 1 /\ Len(rest) >= 1
      /\ \A i \in 1 .. Len(rest) : rest[i] = program[k + i - 1]
  BY DEF IsCode, IsRest
<1>2. rest # << >>
  BY <1>1
<1>3. /\ Tail(rest) \in Seq(Ops) /\ Len(Tail(rest)) = Len(rest) - 1
      /\ \A i \in 1 .. Len(Tail(rest)) : Tail(rest)[i] = rest[i + 1]
  BY <1>1, <1>2, HeadTailProperties
<1>4. Head(rest) = rest[1]
  BY <1>1, <1>2
<1>5. rest[1] = program[k]
  BY <1>1
<1>6. ASSUME NEW i \in 1 .. Len(Tail(rest)) PROVE Tail(rest)[i] = program[(k + 1) + i - 1]
  <2>1. Tail(rest)[i] = rest[i + 1] /\ i + 1 \in 1 .. Len(rest)
    BY <1>1, <1>3
  <2>2. rest[i + 1] = program[k + (i + 1) - 1]
    BY <1>1, <2>1
  <2>. QED
    BY <2>1, <2>2
<1>7. Len(Tail(rest)) = Len(program) - (k + 1) + 1
  BY <1>1, <1>3
<1>. QED
  BY <1>3, <1>4, <1>5, <1>6, <1>7 DEF IsRest

(* A whole program is what is left of it at its begin.                     *)
LEMMA WholeProgram ==
  ASSUME NEW program, NEW n \in Nat, IsCode(program, n)
  PROVE  IsRest(program, program, 1)
BY DEF IsCode, IsRest

LEMMA InterruptsInitially == InterruptsInit => InterruptsInv
<1>. SUFFICES ASSUME InterruptsInit PROVE InterruptsInv
  OBVIOUS
<1>0. IsCode(Main, 42 + 4 * EnabledLength) /\ EnabledLength \in Nat /\ MessageLines \in Nat
  BY MainAt, InterruptsAssumption
<1>1. Len(code) = 1 /\ code[1] = Main /\ code \in Seq(Seq(Ops))
  BY <1>0 DEF InterruptsInit, IsCode
<1>2. IsRest(code[1], Main, 1)
  BY <1>0, <1>1, WholeProgram DEF Hlt
<1>3. cursor \in [x : Nat, y : Nat] /\ cursor.x = 0 /\ cursor.y < MessageLines
  BY <1>0 DEF InterruptsInit
<1>4. StateTypes
  BY <1>1, <1>3 DEF InterruptsInit, StateTypes
<1>5. MainCursor(1)
  BY <1>3 DEF MainCursor, LineOffsets, AtLineStart
<1>6. SetUp(1) /\ ~cpu.interrupts
  BY DEF SetUp, InterruptsInit
<1>7. InMain(1)
  BY <1>1, <1>2, <1>5, <1>6 DEF InMain
<1>8. 1 \in 1 .. Hlt
  BY <1>0 DEF Hlt
<1>. QED
  BY <1>4, <1>7, <1>8 DEF InterruptsInv
-------------------------------------------------------------------------------
(* What the instruction that is executed does.                             *)
Executes(op) ==
  /\ status = "running" /\ status' = status
  /\ code' = [code EXCEPT ![1] = Tail(@)]
  /\ op \notin {"hlt", "ret", "iret"}
  /\ cursor' = CASE op = "move" -> [cursor EXCEPT !.x = @ + 1]
                 [] op = "wrap" -> Wrapped(cursor)
                 [] op = "newline" -> NextLine(cursor)
                 [] op = "scroll" -> ScrolledBack(cursor)
                 [] OTHER -> cursor
  /\ gdt' = CASE op = "memset" -> [code |-> "null", data |-> "null"]
              [] op = "entries" -> [code |-> "code", data |-> "data"]
              [] OTHER -> gdt
  /\ gates' = CASE op = "gate 8" -> [gates EXCEPT ![DoubleFault] = "handler"]
                [] op = "gate 13" -> [gates EXCEPT ![GeneralProtectionFault] = "handler"]
                [] op = "gate 14" -> [gates EXCEPT ![PageFault] = "handler"]
                [] OTHER -> gates
  /\ cpu' = CASE op = "lgdt" -> [cpu EXCEPT !.gdtr = "kernel"]
              [] op = "data segments" -> [cpu EXCEPT !.ss = gdt.data]
              [] op = "code segment" -> [cpu EXCEPT !.cs = gdt.code]
              [] op = "lidt" -> [cpu EXCEPT !.idtr = "kernel"]
              [] op = "sti" -> [cpu EXCEPT !.interrupts = TRUE]
              [] OTHER -> cpu

LEMMA ExecuteByOp ==
  ASSUME Execute PROVE Executes(Head(code[1]))
<1>. DEFINE op == Head(code[1])
<1>1. CASE Draw
  <2>1. op = "draw"
    BY <1>1 DEF Draw, Now
  <2>. QED
    BY <1>1, <2>1 DEF Draw, Now, Executes
<1>2. CASE MoveCursor
  <2>1. op \in {"move", "wrap", "newline", "scroll"}
    BY <1>2 DEF MoveCursor, Now
  <2>. QED
    BY <1>2, <2>1 DEF MoveCursor, Now, Executes
<1>3. CASE FillGDT
  <2>1. op \in {"memset", "entries"}
    BY <1>3 DEF FillGDT, Now
  <2>. QED
    BY <1>3, <2>1 DEF FillGDT, Now, Executes
<1>4. CASE InstallGate
  <2>. USE DEF Handled, DoubleFault, GeneralProtectionFault, PageFault
  <2>1. PICK vector \in Handled :
          /\ Now(CASE vector = 8 -> "gate 8" [] vector = 13 -> "gate 13" [] vector = 14 -> "gate 14")
          /\ gates' = [gates EXCEPT ![vector] = "handler"]
    BY <1>4 DEF InstallGate
  <2>2. CASE vector = 8
    BY <1>4, <2>1, <2>2 DEF InstallGate, Now, Executes
  <2>3. CASE vector = 13
    BY <1>4, <2>1, <2>3 DEF InstallGate, Now, Executes
  <2>4. CASE vector = 14
    BY <1>4, <2>1, <2>4 DEF InstallGate, Now, Executes
  <2>. QED
    BY <2>1, <2>2, <2>3, <2>4
<1>5. CASE SetRegister
  <2>1. op \in {"lgdt", "data segments", "code segment", "lidt", "sti"}
    BY <1>5 DEF SetRegister, Now
  <2>. QED
    BY <1>5, <2>1 DEF SetRegister, Now, Executes
<1>. QED
  BY <1>1, <1>2, <1>3, <1>4, <1>5 DEF Execute

(* A glyph that fits in the line leaves the cursor on the screen.          *)
LEMMA GlyphStep ==
  ASSUME StateTypes, NEW m \in Nat, m < MessageColumns, NEW done \in 0 .. 4 * m - 1,
         GlyphCursor(done), Executes(GlyphCode(done + 1))
  PROVE  GlyphCursor(done + 1)'
<1>. DEFINE op == GlyphCode(done + 1)
<1>0. /\ cursor \in [x : Nat, y : Nat] /\ cursor.x = (done + 2) \div 4
      /\ cursor.y < MessageLines
      /\ MessageLines \in Nat /\ MessageColumns \in Nat /\ done \in Nat
  BY InterruptsAssumption DEF StateTypes, GlyphCursor
<1>1. CASE done % 4 = 0
  <2>1. op = "draw"
    <3>1. (done + 1) % 4 = 1
      BY <1>0, <1>1
    <3>. QED
      BY <3>1 DEF GlyphCode
  <2>2. cursor' = cursor
    BY <2>1 DEF Executes
  <2>3. (done + 3) \div 4 = (done + 2) \div 4
    BY <1>0, <1>1
  <2>. QED
    BY <1>0, <2>2, <2>3 DEF GlyphCursor
<1>2. CASE done % 4 = 1
  <2>1. op = "move"
    <3>1. (done + 1) % 4 = 2
      BY <1>0, <1>2
    <3>. QED
      BY <3>1 DEF GlyphCode
  <2>2. cursor' = [cursor EXCEPT !.x = @ + 1]
    BY <2>1 DEF Executes
  <2>3. (done + 3) \div 4 = ((done + 2) \div 4) + 1
    BY <1>0, <1>2
  <2>. QED
    BY <1>0, <2>2, <2>3 DEF GlyphCursor
<1>3. CASE done % 4 = 2
  <2>1. op = "wrap"
    <3>1. (done + 1) % 4 = 3
      BY <1>0, <1>3
    <3>. QED
      BY <3>1 DEF GlyphCode
  <2>2. cursor' = Wrapped(cursor)
    BY <2>1 DEF Executes
  <2>3. (done + 3) \div 4 = (done + 2) \div 4 /\ (done + 2) \div 4 <= m
    BY <1>0, <1>3
  <2>4. ~(cursor.x + 1 > MessageColumns)
    BY <1>0, <2>3
  <2>. QED
    BY <1>0, <2>2, <2>3, <2>4 DEF GlyphCursor, Wrapped
<1>4. CASE done % 4 = 3
  <2>1. op = "scroll"
    <3>1. (done + 1) % 4 = 0
      BY <1>0, <1>4
    <3>. QED
      BY <3>1 DEF GlyphCode
  <2>2. cursor' = ScrolledBack(cursor)
    BY <2>1 DEF Executes
  <2>3. (done + 3) \div 4 = (done + 2) \div 4
    BY <1>0, <1>4
  <2>. QED
    BY <1>0, <2>2, <2>3 DEF GlyphCursor, ScrolledBack
<1>5. done % 4 \in {0, 1, 2, 3}
  BY <1>0
<1>. QED
  BY <1>1, <1>2, <1>3, <1>4, <1>5

LEMMA NewLineStep ==
  ASSUME StateTypes, cursor.y < MessageLines, Executes("newline")
  PROVE  cursor'.x = 0 /\ cursor'.y <= MessageLines
BY InterruptsAssumption DEF StateTypes, Executes, NextLine

LEMMA ScrollStep ==
  ASSUME StateTypes, cursor.x = 0, cursor.y <= MessageLines, Executes("scroll")
  PROVE  AtLineStart'
BY InterruptsAssumption DEF StateTypes, Executes, ScrolledBack, AtLineStart

LEMMA LineStep ==
  ASSUME StateTypes, NEW done \in 0 .. 9, LineCursor(done), Executes(Line[done + 1])
  PROVE  IF done < 9 THEN LineCursor(done + 1)' ELSE AtLineStart'
<1>1. CASE done < 8
  <2>1. Line[done + 1] = GlyphCode(done + 1)
    BY <1>1, LineAt
  <2>2. done \in 0 .. 4 * 2 - 1 /\ 2 \in Nat /\ 2 < MessageColumns
    BY <1>1, InterruptsAssumption
  <2>3. GlyphCursor(done + 1)'
    BY <1>1, <2>1, <2>2, GlyphStep DEF LineCursor
  <2>. QED
    BY <1>1, <2>3 DEF LineCursor
<1>2. CASE done = 8
  <2>1. Line[done + 1] = "newline"
    BY <1>2, LineAt
  <2>2. cursor.y < MessageLines
    BY <1>2 DEF LineCursor, GlyphCursor
  <2>. QED
    BY <1>2, <2>1, <2>2, NewLineStep DEF LineCursor
<1>3. CASE done = 9
  <2>1. Line[done + 1] = "scroll"
    BY <1>3, LineAt
  <2>. QED
    BY <1>3, <2>1, ScrollStep DEF LineCursor
<1>. QED
  BY <1>1, <1>2, <1>3

-------------------------------------------------------------------------------
(* What main executes between its lines of text.                           *)
LEMMA SetUpCode ==
  /\ Main[1] = "memset" /\ Main[2] = "entries" /\ Main[3] = "lgdt"
  /\ Main[4] = "data segments" /\ Main[5] = "code segment"
  /\ Main[16] = "gate 14" /\ Main[17] = "gate 8" /\ Main[18] = "gate 13"
  /\ Main[29] = "lidt" /\ Main[40] = "sti"
<1>1. \A i \in 1 .. 5 : Main[i] = SetupGDT[i]
  BY MainAt
<1>2. Main[15 + 1] = InstallISR[1] /\ Main[15 + 2] = InstallISR[2] /\ Main[15 + 3] = InstallISR[3]
  BY MainAt
<1>3. /\ SetupGDT[1] = "memset" /\ SetupGDT[2] = "entries" /\ SetupGDT[3] = "lgdt"
      /\ SetupGDT[4] = "data segments" /\ SetupGDT[5] = "code segment"
      /\ InstallISR[1] = "gate 14" /\ InstallISR[2] = "gate 8" /\ InstallISR[3] = "gate 13"
  BY DEF SetupGDT, InstallISR
<1>4. Main[29] = "lidt" /\ Main[40] = "sti"
  BY MainAt
<1>5. /\ Main[1] = SetupGDT[1] /\ Main[2] = SetupGDT[2] /\ Main[3] = SetupGDT[3]
      /\ Main[4] = SetupGDT[4] /\ Main[5] = SetupGDT[5]
  BY <1>1
<1>6. Main[16] = InstallISR[1] /\ Main[17] = InstallISR[2] /\ Main[18] = InstallISR[3]
  BY <1>2
<1>. QED
  BY <1>3, <1>4, <1>5, <1>6

(* A step of main keeps the cursor where MainCursor says, ...              *)
LEMMA MainCursorStep ==
  ASSUME StateTypes, NEW k \in 1 .. Hlt - 1, MainCursor(k), Executes(Main[k])
  PROVE  MainCursor(k + 1)'
<1>. DEFINE n == 4 * EnabledLength
<1>0. /\ EnabledLength \in Nat /\ n \in Nat /\ k \in 1 .. 40 + n /\ MessageLines \in Nat
      /\ Hlt = 41 + n
  BY InterruptsAssumption DEF Hlt
<1>1. ASSUME NEW a \in LineOffsets, k \in a + 1 .. a + 10
      PROVE  MainCursor(k + 1)'
  <2>. DEFINE done == k - a - 1
  <2>1. done \in 0 .. 9 /\ LineCursor(done) /\ k = a + (done + 1) /\ done + 1 \in 1 .. 10 /\ k <= 39
    BY <1>0, <1>1 DEF MainCursor, LineOffsets
  <2>2. Main[k] = Line[done + 1]
    BY <2>1, MainAt DEF LineOffsets
  <2>3. IF done < 9 THEN LineCursor(done + 1)' ELSE AtLineStart'
    <3>. HIDE DEF done
    <3>. QED
      BY <2>1, <2>2, LineStep
  <2>4. CASE done < 9
    <3>1. \A b \in LineOffsets : k + 1 \in b + 1 .. b + 10 => b = a /\ (k + 1) - b - 1 = done + 1
      BY <1>0, <2>1, <2>4 DEF LineOffsets
    <3>2. InLine(k + 1)
      <4>1. k + 1 \in a + 1 .. a + 10
        BY <1>0, <2>1, <2>4 DEF LineOffsets
      <4>. QED
        BY <4>1 DEF InLine
    <3>3. LineCursor(done + 1)'
      BY <2>3, <2>4
    <3>4. ~(k + 1 > 40)
      BY <1>0, <2>1
    <3>. HIDE DEF done
    <3>. QED
      BY <3>1, <3>2, <3>3, <3>4 DEF MainCursor
  <2>5. CASE done = 9
    <3>1. k + 1 \in {16, 29, 40}
      BY <1>0, <2>1, <2>5 DEF LineOffsets
    <3>2. AtLineStart'
      BY <2>3, <2>5
    <3>3. \A b \in LineOffsets : k + 1 \notin b + 1 .. b + 10
      BY <3>1 DEF LineOffsets
    <3>. QED
      BY <3>1, <3>2, <3>3 DEF MainCursor
  <2>. QED
    BY <2>1, <2>4, <2>5
<1>2. CASE k <= 40 /\ ~InLine(k)
  <2>1. k \in {1, 2, 3, 4, 5, 16, 17, 18, 29, 40}
    <3>1. k \notin 6 .. 15 /\ k \notin 19 .. 28 /\ k \notin 30 .. 39
      BY <1>2 DEF InLine, LineOffsets
    <3>. QED
      BY <1>0, <1>2, <3>1
  <2>2. Main[k] \notin {"move", "wrap", "newline", "scroll"}
    BY <2>1, SetUpCode
  <2>3. cursor' = cursor /\ AtLineStart
    BY <1>2, <2>2 DEF Executes, MainCursor
  <2>4. AtLineStart'
    BY <2>3 DEF AtLineStart
  <2>5. \A b \in LineOffsets : k + 1 \in b + 1 .. b + 10 => (k + 1) - b - 1 = 0
    BY <2>1 DEF LineOffsets
  <2>6. LineCursor(0)'
    BY <2>4 DEF LineCursor, GlyphCursor, AtLineStart
  <2>7. k + 1 > 40 => GlyphCursor((k + 1) - 41)'
    BY <1>0, <1>2, <2>1, <2>4 DEF GlyphCursor, AtLineStart
  <2>. QED
    BY <2>4, <2>5, <2>6, <2>7 DEF MainCursor
<1>3. CASE k > 40
  <2>. DEFINE done == k - 41
  <2>1. done \in 0 .. n - 1 /\ done + 1 \in 1 .. n /\ k = 40 + (done + 1) /\ GlyphCursor(done)
    BY <1>0, <1>3 DEF MainCursor
  <2>2. Main[k] = GlyphCode(done + 1)
    BY <2>1, MainAt
  <2>3. EnabledLength < MessageColumns
    BY InterruptsAssumption
  <2>4. GlyphCursor(done + 1)'
    <3>. HIDE DEF done
    <3>. QED
      BY <1>0, <2>1, <2>2, <2>3, GlyphStep
  <2>5. done + 1 = (k + 1) - 41 /\ k + 1 > 40 /\ \A b \in LineOffsets : k + 1 \notin b + 1 .. b + 10
    BY <1>0, <1>3 DEF LineOffsets
  <2>. HIDE DEF done
  <2>. QED
    BY <1>0, <2>4, <2>5 DEF MainCursor
<1>. QED
  BY <1>0, <1>1, <1>2, <1>3 DEF InLine

(* ... and everything set up that it is behind.                            *)
LEMMA SetUpStep ==
  ASSUME StateTypes, NEW k \in 1 .. Hlt - 1, SetUp(k), Executes(Main[k]),
         cpu.interrupts <=> k > 40
  PROVE  SetUp(k + 1)' /\ (cpu'.interrupts <=> k + 1 > 40)
<1>. USE DEF DoubleFault, GeneralProtectionFault, PageFault
<1>0. /\ EnabledLength \in Nat /\ k \in Nat /\ k >= 1 /\ Handled \subseteq Vectors
      /\ k <= 40 + 4 * EnabledLength
  BY InterruptsAssumption DEF Hlt, Vectors
<1>1. /\ gates \in [Vectors -> {"absent", "garbage", "handler"}] /\ 8 \in Vectors
      /\ 13 \in Vectors /\ 14 \in Vectors
      /\ gdt \in [code : {"unknown", "null", "code"}, data : {"unknown", "null", "data"}]
      /\ cpu \in [gdtr : {"firmware", "kernel"},
              cs : {"firmware", "unknown", "null", "code"},
              ss : {"firmware", "unknown", "null", "data"},
              idtr : {"firmware", "kernel"}, interrupts : BOOLEAN]
  BY <1>0 DEF StateTypes, Handled
<1>2. CASE k = 1
  <2>1. gdt' = [code |-> "null", data |-> "null"] /\ gates' = gates /\ cpu' = cpu
    BY <1>2, SetUpCode DEF Executes
  <2>. QED
    BY <1>1, <1>2, <2>1 DEF SetUp
<1>3. CASE k = 2
  <2>1. gdt' = [code |-> "code", data |-> "data"] /\ gates' = gates /\ cpu' = cpu
    BY <1>3, SetUpCode DEF Executes
  <2>. QED
    BY <1>1, <1>3, <2>1 DEF SetUp
<1>4. CASE k = 3
  <2>1. cpu' = [cpu EXCEPT !.gdtr = "kernel"] /\ gdt' = gdt /\ gates' = gates
    BY <1>4, SetUpCode DEF Executes
  <2>. QED
    BY <1>1, <1>4, <2>1 DEF SetUp
<1>5. CASE k = 4
  <2>1. cpu' = [cpu EXCEPT !.ss = gdt.data] /\ gdt' = gdt /\ gates' = gates
    BY <1>5, SetUpCode DEF Executes
  <2>. QED
    BY <1>1, <1>5, <2>1 DEF SetUp
<1>6. CASE k = 5
  <2>1. cpu' = [cpu EXCEPT !.cs = gdt.code] /\ gdt' = gdt /\ gates' = gates
    BY <1>6, SetUpCode DEF Executes
  <2>. QED
    BY <1>1, <1>6, <2>1 DEF SetUp
<1>7. CASE k = 16
  <2>1. gates' = [gates EXCEPT ![14] = "handler"] /\ gdt' = gdt /\ cpu' = cpu
    BY <1>7, SetUpCode DEF Executes
  <2>. QED
    BY <1>1, <1>7, <2>1 DEF SetUp
<1>8. CASE k = 17
  <2>1. gates' = [gates EXCEPT ![8] = "handler"] /\ gdt' = gdt /\ cpu' = cpu
    BY <1>8, SetUpCode DEF Executes
  <2>. QED
    BY <1>1, <1>8, <2>1 DEF SetUp
<1>9. CASE k = 18
  <2>1. gates' = [gates EXCEPT ![13] = "handler"] /\ gdt' = gdt /\ cpu' = cpu
    BY <1>9, SetUpCode DEF Executes
  <2>. QED
    BY <1>1, <1>9, <2>1 DEF SetUp
<1>10. CASE k = 29
  <2>1. cpu' = [cpu EXCEPT !.idtr = "kernel"] /\ gdt' = gdt /\ gates' = gates
    BY <1>10, SetUpCode DEF Executes
  <2>. QED
    BY <1>1, <1>10, <2>1 DEF SetUp
<1>11. CASE k = 40
  <2>1. cpu' = [cpu EXCEPT !.interrupts = TRUE] /\ gdt' = gdt /\ gates' = gates
    BY <1>11, SetUpCode DEF Executes
  <2>. QED
    BY <1>1, <1>11, <2>1 DEF SetUp
<1>12. CASE k \in 6 .. 15 \/ k \in 19 .. 28 \/ k \in 30 .. 39 \/ k > 40
  <2>1. Main[k] \in {"draw", "move", "wrap", "scroll", "newline"}
    <3>1. ASSUME NEW a \in LineOffsets, k \in a + 1 .. a + 10
          PROVE  Main[k] \in {"draw", "move", "wrap", "scroll", "newline"}
      <4>1. k - a \in 1 .. 10 /\ k = a + (k - a) /\ a \in Nat
        BY <1>0, <3>1 DEF LineOffsets
      <4>2. Main[a + (k - a)] = Line[k - a]
        BY <4>1, MainAt DEF LineOffsets
      <4>. QED
        BY <4>1, <4>2, LineAt DEF GlyphCode
    <3>2. CASE k > 40
      <4>1. k - 40 \in 1 .. 4 * EnabledLength /\ k = 40 + (k - 40)
        BY <1>0, <3>2
      <4>2. Main[40 + (k - 40)] = GlyphCode(k - 40)
        BY <4>1, MainAt
      <4>. QED
        BY <4>1, <4>2 DEF GlyphCode
    <3>3. (\E a \in LineOffsets : k \in a + 1 .. a + 10) \/ k > 40
      BY <1>12 DEF LineOffsets
    <3>. QED
      BY <3>1, <3>2, <3>3
  <2>2. gdt' = gdt /\ gates' = gates /\ cpu' = cpu
    BY <2>1 DEF Executes
  <2>. QED
    BY <1>0, <1>12, <2>2 DEF SetUp
<1>. QED
  BY <1>0, <1>2, <1>3, <1>4, <1>5, <1>6, <1>7, <1>8, <1>9, <1>10, <1>11, <1>12

LEMMA TypesStep ==
  ASSUME StateTypes, Len(code) \in {1, 2}, code[1] # << >>,
         NEW op \in Ops, Executes(op)
  PROVE  StateTypes' /\ Len(code') = Len(code) /\ code'[1] = Tail(code[1])
         /\ (Len(code) = 2 => code'[2] = code[2])
<1>. USE DEF DoubleFault, GeneralProtectionFault, PageFault
<1>1. /\ gates \in [Vectors -> {"absent", "garbage", "handler"}] /\ 8 \in Vectors
      /\ 13 \in Vectors /\ 14 \in Vectors
  BY DEF StateTypes, Handled, Vectors
<1>2. code \in Seq(Seq(Ops)) /\ 1 \in 1 .. Len(code) /\ code[1] \in Seq(Ops)
  BY DEF StateTypes
<1>3. Tail(code[1]) \in Seq(Ops)
  BY <1>2, HeadTailProperties
<1>4. code' = [code EXCEPT ![1] = Tail(code[1])]
  BY DEF Executes
<1>5. code' \in Seq(Seq(Ops)) /\ Len(code') = Len(code) /\ code'[1] = Tail(code[1])
      /\ (Len(code) = 2 => code'[2] = code[2])
  <2>1. /\ code' \in Seq(Seq(Ops)) /\ Len(code') = Len(code)
        /\ \A j \in 1 .. Len(code) : code'[j] = IF j = 1 THEN Tail(code[1]) ELSE code[j]
    BY <1>2, <1>3, <1>4, ExceptSeq
  <2>. QED
    BY <2>1
<1>6. cursor' \in [x : Nat, y : Nat]
  <2>1. /\ [cursor EXCEPT !.x = @ + 1] \in [x : Nat, y : Nat]
        /\ NextLine(cursor) \in [x : Nat, y : Nat]
        /\ Wrapped(cursor) \in [x : Nat, y : Nat]
    BY DEF StateTypes, NextLine, Wrapped
  <2>2. op = "scroll" => ScrolledBack(cursor) \in [x : Nat, y : Nat]
    BY InterruptsAssumption DEF StateTypes, ScrolledBack
  <2>3. cursor \in [x : Nat, y : Nat]
    BY DEF StateTypes
  <2>. QED
    BY <2>1, <2>2, <2>3 DEF Executes
<1>7. gates' \in [Vectors -> {"absent", "garbage", "handler"}]
  BY <1>1 DEF Executes
<1>8. gdt' \in [code : {"unknown", "null", "code"}, data : {"unknown", "null", "data"}]
  BY DEF StateTypes, Executes
<1>9. cpu' \in [gdtr : {"firmware", "kernel"},
              cs : {"firmware", "unknown", "null", "code"},
              ss : {"firmware", "unknown", "null", "data"},
              idtr : {"firmware", "kernel"}, interrupts : BOOLEAN]
  BY DEF StateTypes, Executes
<1>. QED
  BY <1>5, <1>6, <1>7, <1>8, <1>9 DEF StateTypes, Executes

LEMMA MainStep ==
  ASSUME StateTypes, NEW k \in 1 .. Hlt, InMain(k), Execute
  PROVE  StateTypes' /\ k + 1 \in 1 .. Hlt /\ InMain(k + 1)'
<1>0. EnabledLength \in Nat /\ 42 + 4 * EnabledLength \in Nat /\ Hlt = 41 + 4 * EnabledLength
      /\ k \in 1 .. 42 + 4 * EnabledLength
  BY InterruptsAssumption DEF Hlt
<1>1. /\ IsRest(code[1], Main, k) /\ Len(code) = 1 /\ MainCursor(k) /\ SetUp(k)
      /\ cpu.interrupts <=> k > 40
  BY DEF InMain
<1>2. IsCode(Main, 42 + 4 * EnabledLength)
  BY MainAt
<1>3. /\ Head(code[1]) = Main[k] /\ IsRest(Tail(code[1]), Main, k + 1) /\ Main[k] \in Ops
      /\ code[1] # << >>
  <2>1. Head(code[1]) = Main[k] /\ IsRest(Tail(code[1]), Main, k + 1)
    BY <1>0, <1>1, <1>2, RestProperties
  <2>2. Main[k] \in Ops /\ Len(code[1]) > 0
    BY <1>0, <1>1, <1>2 DEF IsCode, IsRest
  <2>. QED
    BY <2>1, <2>2
<1>4. Executes(Main[k])
  BY <1>3, ExecuteByOp
<1>5. k \in 1 .. Hlt - 1
  <2>1. Main[Hlt] = "hlt"
    BY MainAt DEF Hlt
  <2>2. Main[k] # "hlt"
    BY <1>4 DEF Executes
  <2>3. k # Hlt
    BY <2>1, <2>2
  <2>. QED
    BY <1>0, <2>3
<1>6. StateTypes' /\ Len(code') = 1 /\ code'[1] = Tail(code[1])
  BY <1>1, <1>3, <1>4, TypesStep
<1>7. MainCursor(k + 1)'
  BY <1>1, <1>4, <1>5, MainCursorStep
<1>8. SetUp(k + 1)' /\ (cpu'.interrupts <=> k + 1 > 40)
  BY <1>1, <1>4, <1>5, SetUpStep
<1>9. IsRest(code[1], Main, k + 1)'
  BY <1>3, <1>6
<1>. QED
  BY <1>0, <1>5, <1>6, <1>7, <1>8, <1>9 DEF InMain

LEMMA PanicStep ==
  ASSUME StateTypes, NEW p \in 1 .. 11, InPanic(p), Execute
  PROVE  StateTypes' /\ p + 1 \in 1 .. 11 /\ InPanic(p + 1)'
<1>1. /\ IsRest(code[1], Panic, p) /\ Len(code) = 2 /\ PanicCursor(p) /\ SetUp(41)
      /\ ~cpu.interrupts
  BY DEF InPanic
<1>2. /\ IsCode(Panic, 12) /\ Panic[1] = "newline" /\ Panic[2] = "scroll"
      /\ Panic[3] = "newline" /\ Panic[4] = "scroll" /\ Panic[5] = "draw" /\ Panic[6] = "move"
      /\ Panic[7] = "wrap" /\ Panic[8] = "scroll" /\ Panic[9] = "newline"
      /\ Panic[10] = "scroll" /\ Panic[11] = "hlt"
  BY PanicAt DEF PanicCode
<1>3. /\ Head(code[1]) = Panic[p] /\ IsRest(Tail(code[1]), Panic, p + 1) /\ Panic[p] \in Ops
      /\ code[1] # << >>
  <2>1. Head(code[1]) = Panic[p] /\ IsRest(Tail(code[1]), Panic, p + 1)
    BY <1>1, <1>2, RestProperties
  <2>2. Panic \in Seq(Ops) /\ Len(Panic) = 12 /\ Len(code[1]) = Len(Panic) - p + 1
    BY <1>1, <1>2 DEF IsCode, IsRest
  <2>3. Panic[p] \in Ops
    <3>1. p \in 1 .. Len(Panic)
      BY <2>2
    <3>. QED
      BY <2>2, <3>1, ElementOfSeq
  <2>4. code[1] # << >>
    BY <2>2
  <2>. QED
    BY <2>1, <2>3, <2>4
<1>4. Executes(Panic[p])
  BY <1>3, ExecuteByOp
<1>5. p \in 1 .. 10
  <2>1. Panic[p] # "hlt"
    BY <1>4 DEF Executes
  <2>. QED
    BY <1>2, <2>1
<1>6. StateTypes' /\ Len(code') = 2 /\ code'[1] = Tail(code[1])
  BY <1>1, <1>3, <1>4, TypesStep
<1>7. gdt' = gdt /\ gates' = gates /\ cpu' = cpu
  <2>1. Panic[p] \in {"draw", "move", "wrap", "scroll", "newline"}
    <3>1. p \in {1, 2, 3, 4, 5, 6, 7, 8, 9, 10}
      BY <1>5
    <3>. QED
      BY <1>2, <3>1
  <2>. QED
    BY <1>4, <2>1 DEF Executes
<1>8. SetUp(41)' /\ ~cpu'.interrupts
  BY <1>1, <1>7 DEF SetUp
<1>9. PanicCursor(p + 1)'
  <2>0. /\ cursor \in [x : Nat, y : Nat] /\ MessageColumns \in Nat /\ MessageColumns > 2
        /\ MessageLines \in Nat /\ MessageLines > 0
    BY InterruptsAssumption DEF StateTypes
  <2>1. CASE p \in {1, 3, 9}
    <3>1. cursor.y < MessageLines
      BY <1>1, <2>1 DEF PanicCursor, AtLineStart
    <3>2. cursor'.x = 0 /\ cursor'.y <= MessageLines
      BY <1>2, <1>4, <2>1, <3>1, NewLineStep
    <3>. QED
      BY <2>1, <3>2 DEF PanicCursor
  <2>2. CASE p \in {2, 4, 10}
    <3>1. cursor.x = 0 /\ cursor.y <= MessageLines
      BY <1>1, <2>2 DEF PanicCursor
    <3>2. AtLineStart'
      BY <1>2, <1>4, <2>2, <3>1, ScrollStep
    <3>. QED
      BY <2>2, <3>2 DEF PanicCursor
  <2>3. CASE p = 5
    <3>1. cursor' = cursor /\ AtLineStart
      BY <1>1, <1>2, <1>4, <2>3 DEF PanicCursor, Executes
    <3>. QED
      BY <2>3, <3>1 DEF PanicCursor, AtLineStart
  <2>4. CASE p = 6
    <3>1. cursor' = [cursor EXCEPT !.x = @ + 1] /\ AtLineStart
      BY <1>1, <1>2, <1>4, <2>4 DEF PanicCursor, Executes
    <3>. QED
      BY <2>0, <2>4, <3>1 DEF PanicCursor, AtLineStart
  <2>5. CASE p = 7
    <3>1. cursor' = Wrapped(cursor) /\ cursor.x = 1 /\ cursor.y < MessageLines
      BY <1>1, <1>2, <1>4, <2>5 DEF PanicCursor, Executes
    <3>. QED
      BY <2>0, <2>5, <3>1 DEF PanicCursor, Wrapped
  <2>6. CASE p = 8
    <3>1. cursor' = ScrolledBack(cursor) /\ cursor.x = 1 /\ cursor.y < MessageLines
      BY <1>1, <1>2, <1>4, <2>6 DEF PanicCursor, Executes
    <3>. QED
      BY <2>0, <2>6, <3>1 DEF PanicCursor, ScrolledBack
  <2>. QED
    BY <1>5, <2>1, <2>2, <2>3, <2>4, <2>5, <2>6
<1>10. IsRest(code[1], Panic, p + 1)'
  BY <1>3, <1>6
<1>. QED
  BY <1>5, <1>6, <1>8, <1>9, <1>10 DEF InPanic

(* An interrupt comes only behind sti, and finds a handler.                *)
LEMMA DeliverStep ==
  ASSUME InterruptsInv, NEW vector \in Irqs, Deliver(vector) PROVE InterruptsInv'
<1>1. PICK k \in 1 .. Hlt : InMain(k)
  BY DEF InterruptsInv, InPanic, Deliver
<1>2. /\ StateTypes /\ Len(code) = 1 /\ MainCursor(k) /\ SetUp(k) /\ k > 40
      /\ IsRest(code[1], Main, k)
  BY <1>1 DEF InMain, InterruptsInv, Deliver
<1>3. CASE Taken(vector) = "handler"
  <2>. DEFINE rest == IF Waits THEN [code EXCEPT ![1] = Tail(@)] ELSE code
  <2>1. code[1] \in Seq(Ops) /\ code[1] # << >> /\ code \in Seq(Seq(Ops)) /\ 1 \in 1 .. Len(code)
    BY <1>2, InterruptsAssumption, MainAt DEF IsRest, IsCode, StateTypes, Hlt
  <2>2. Tail(code[1]) \in Seq(Ops)
    BY <2>1, HeadTailProperties
  <2>3. rest \in Seq(Seq(Ops)) /\ Len(rest) = 1
    <3>1. Len([code EXCEPT ![1] = Tail(code[1])]) = Len(code)
          /\ [code EXCEPT ![1] = Tail(code[1])] \in Seq(Seq(Ops))
      BY <2>1, <2>2, ExceptSeq
    <3>. QED
      BY <1>2, <2>1, <3>1
  <2>4. Panic \in Seq(Ops) /\ <<Panic>> \in Seq(Seq(Ops)) /\ Len(<<Panic>>) = 1
    BY PanicAt DEF IsCode
  <2>. HIDE DEF rest
  <2>5. /\ <<Panic>> \o rest \in Seq(Seq(Ops))
        /\ Len(<<Panic>> \o rest) = Len(<<Panic>>) + Len(rest)
        /\ \A i \in 1 .. Len(<<Panic>>) + Len(rest) :
             (<<Panic>> \o rest)[i] = IF i <= Len(<<Panic>>) THEN <<Panic>>[i] ELSE rest[i - Len(<<Panic>>)]
    BY <2>3, <2>4, ConcatProperties
  <2>6. code' = <<Panic>> \o rest
    BY <1>3 DEF Deliver, rest
  <2>7. code' \in Seq(Seq(Ops)) /\ Len(code') = 2 /\ code'[1] = Panic
    BY <2>3, <2>4, <2>5, <2>6
  <2>8. IsRest(code[1], Panic, 1)'
    BY <2>7, PanicAt, WholeProgram
  <2>9. cursor' = cursor /\ gdt' = gdt /\ gates' = gates /\ status' = status
        /\ cpu' = [cpu EXCEPT !.interrupts = FALSE]
    BY <1>3 DEF Deliver, GateDisables
  <2>10. StateTypes' /\ ~cpu'.interrupts
    BY <1>2, <2>7, <2>9 DEF StateTypes
  <2>11. SetUp(41)'
    BY <1>2, <2>9 DEF SetUp, StateTypes
  <2>12. PanicCursor(1)'
    <3>1. cursor.x = ((k - 41) + 2) \div 4 /\ cursor.y < MessageLines
      BY <1>2 DEF MainCursor, GlyphCursor
    <3>2. k \in 41 .. 41 + 4 * EnabledLength /\ EnabledLength \in Nat
          /\ EnabledLength < MessageColumns /\ MessageColumns \in Nat
      BY <1>2, InterruptsAssumption DEF Hlt
    <3>3. ((k - 41) + 2) \div 4 <= EnabledLength
      BY <3>2
    <3>. QED
      BY <2>9, <3>1, <3>2, <3>3 DEF PanicCursor
  <2>13. InPanic(1)'
    BY <2>7, <2>8, <2>10, <2>11, <2>12 DEF InPanic
  <2>. QED
    BY <2>10, <2>13 DEF InterruptsInv
<1>4. CASE Taken(vector) # "handler"
  <2>1. /\ cursor' = cursor /\ gdt' = gdt /\ gates' = gates /\ code' = code /\ cpu' = cpu
        /\ status' = "garbage"
    BY <1>4 DEF Deliver
  <2>2. StateTypes'
    BY <1>2, <2>1 DEF StateTypes
  <2>3. InMain(k)'
    BY <1>1, <2>1 DEF InMain, MainCursor, LineCursor, GlyphCursor, AtLineStart, SetUp
  <2>. QED
    BY <2>2, <2>3 DEF InterruptsInv
<1>. QED
  BY <1>3, <1>4

LEMMA InterruptsInductive ==
  ASSUME InterruptsInv, [InterruptsNext]_processor PROVE InterruptsInv'
<1>1. CASE Execute
  <2>1. ASSUME NEW k \in 1 .. Hlt, InMain(k) PROVE InterruptsInv'
    BY <1>1, <2>1, MainStep DEF InterruptsInv
  <2>2. ASSUME NEW p \in 1 .. 11, InPanic(p) PROVE InterruptsInv'
    BY <1>1, <2>2, PanicStep DEF InterruptsInv
  <2>. QED
    BY <2>1, <2>2 DEF InterruptsInv
<1>2. ASSUME NEW vector \in Irqs, Deliver(vector) PROVE InterruptsInv'
  BY <1>2, DeliverStep
<1>3. CASE UNCHANGED processor
  BY <1>3 DEF processor, InterruptsInv, StateTypes, InMain, InPanic, MainCursor, PanicCursor,
              LineCursor, GlyphCursor, AtLineStart, SetUp
<1>. QED
  BY <1>1, <1>2, <1>3 DEF InterruptsNext

LEMMA InterruptsAlways == InterruptsSpec => []InterruptsInv
<1>1. InterruptsInv /\ [InterruptsNext]_processor => InterruptsInv'
  BY InterruptsInductive
<1>. QED
  BY <1>1, InterruptsInitially, PTL DEF InterruptsSpec

(* What the next instruction can be.                                       *)
LEMMA NextInstruction ==
  ASSUME InterruptsInv
  PROVE  \/ \E k \in 1 .. Hlt : InMain(k) /\ Head(code[1]) = Main[k]
         \/ \E p \in 1 .. 11 : InPanic(p) /\ Head(code[1]) = Panic[p]
<1>0. EnabledLength \in Nat /\ 42 + 4 * EnabledLength \in Nat /\ Hlt = 41 + 4 * EnabledLength
  BY InterruptsAssumption DEF Hlt
<1>1. ASSUME NEW k \in 1 .. Hlt, InMain(k) PROVE Head(code[1]) = Main[k]
  <2>1. k \in 1 .. 42 + 4 * EnabledLength /\ IsRest(code[1], Main, k)
        /\ IsCode(Main, 42 + 4 * EnabledLength)
    BY <1>0, <1>1, MainAt DEF InMain
  <2>. QED
    BY <1>0, <2>1, RestProperties
<1>2. ASSUME NEW p \in 1 .. 11, InPanic(p) PROVE Head(code[1]) = Panic[p]
  <2>1. p \in 1 .. 12 /\ IsRest(code[1], Panic, p) /\ IsCode(Panic, 12)
    BY <1>2, PanicAt DEF InPanic
  <2>. QED
    BY <2>1, RestProperties
<1>. QED
  BY <1>1, <1>2 DEF InterruptsInv

(* The code of main, by what it is.                                        *)
LEMMA MainCode ==
  ASSUME NEW k \in 1 .. Hlt
  PROVE  /\ Main[k] \notin {"ret", "iret"}
         /\ Main[k] = "draw" =>
              \/ \E a \in LineOffsets : k \in a + 1 .. a + 8
              \/ k \in 41 .. Hlt - 1
<1>0. EnabledLength \in Nat /\ Hlt = 41 + 4 * EnabledLength
  BY InterruptsAssumption DEF Hlt
<1>1. ASSUME NEW a \in LineOffsets, k \in a + 1 .. a + 10
      PROVE  /\ Main[k] \notin {"ret", "iret"}
             /\ Main[k] = "draw" => k \in a + 1 .. a + 8
  <2>1. k - a \in 1 .. 10 /\ k = a + (k - a) /\ a \in Nat
    BY <1>0, <1>1 DEF LineOffsets
  <2>2. Main[a + (k - a)] = Line[k - a]
    BY <2>1, MainAt DEF LineOffsets
  <2>. QED
    BY <2>1, <2>2, LineAt DEF GlyphCode
<1>2. CASE k \in 41 .. Hlt - 1
  <2>1. k - 40 \in 1 .. 4 * EnabledLength /\ k = 40 + (k - 40)
    BY <1>0, <1>2
  <2>2. Main[40 + (k - 40)] = GlyphCode(k - 40)
    BY <2>1, MainAt
  <2>. QED
    BY <1>2, <2>1, <2>2 DEF GlyphCode
<1>3. CASE k = Hlt
  BY <1>0, <1>3, MainAt
<1>4. CASE k \in {1, 2, 3, 4, 5, 16, 17, 18, 29, 40}
  BY <1>4, SetUpCode
<1>5. k \in 41 .. Hlt - 1 \/ k = Hlt \/ k \in {1, 2, 3, 4, 5, 16, 17, 18, 29, 40}
      \/ \E a \in LineOffsets : k \in a + 1 .. a + 10
  BY <1>0 DEF LineOffsets
<1>. QED
  BY <1>1, <1>2, <1>3, <1>4, <1>5

(* Whatever the size of the screen, what handlers and main print is on it, *)
(* and nothing returns to where no code is.                                *)
THEOREM HandlersDrawOnScreen == InterruptsSpec => []DrawsOnScreen
<1>1. InterruptsInv => DrawsOnScreen
  <2>. SUFFICES ASSUME InterruptsInv PROVE DrawsOnScreen
    OBVIOUS
  <2>0. /\ MessageColumns \in Nat /\ MessageColumns > 2 /\ MessageLines \in Nat
        /\ MessageLines > 0 /\ EnabledLength \in Nat /\ EnabledLength < MessageColumns
        /\ Hlt = 41 + 4 * EnabledLength
    BY InterruptsAssumption DEF Hlt
  <2>1. StateTypes
    BY DEF InterruptsInv
  <2>2. ASSUME NEW k \in 1 .. Hlt, InMain(k), Head(code[1]) = Main[k] PROVE DrawsOnScreen
    <3>1. MainCursor(k) /\ Len(code) = 1
      BY <2>2 DEF InMain
    <3>2. ASSUME NEW a \in LineOffsets, k \in a + 1 .. a + 10
          PROVE  /\ cursor.x <= 2 /\ cursor.y <= MessageLines
                 /\ k \in a + 1 .. a + 8 => cursor.y < MessageLines
      <4>1. k - a - 1 \in 0 .. 9 /\ (k - a - 1 = 9 \/ ((k - a - 1) + 2) \div 4 <= 2)
            /\ (k \in a + 1 .. a + 8 => k - a - 1 # 9)
        BY <3>2 DEF LineOffsets
      <4>2. LineCursor(k - a - 1)
        BY <3>1, <3>2 DEF MainCursor
      <4>. QED
        BY <2>0, <4>1, <4>2, <2>1 DEF LineCursor, GlyphCursor, StateTypes
    <3>3. CASE k > 40
      <4>1. ((k - 41) + 2) \div 4 <= EnabledLength
        BY <2>0, <3>3
      <4>. QED
        BY <2>0, <2>1, <2>2, <3>1, <3>3, <4>1, MainCode
           DEF MainCursor, GlyphCursor, DrawsOnScreen, NothingReturns, InterruptsTypeOK, StateTypes
    <3>4. CASE k <= 40 /\ ~InLine(k)
      <4>1. AtLineStart
        BY <3>1, <3>4 DEF MainCursor
      <4>. QED
        BY <2>0, <2>1, <2>2, <3>1, <4>1, MainCode
           DEF AtLineStart, DrawsOnScreen, NothingReturns, InterruptsTypeOK, StateTypes
    <3>5. CASE InLine(k)
      <4>1. PICK a \in LineOffsets : k \in a + 1 .. a + 10
        BY <3>5 DEF InLine
      <4>2. Main[k] = "draw" => k \in a + 1 .. a + 8
        <5>1. k <= 40 /\ \A b \in LineOffsets : k \in b + 1 .. b + 8 => b = a
          BY <4>1 DEF LineOffsets
        <5>. QED
          BY <5>1, MainCode
      <4>3. cursor.x <= 2 /\ cursor.y <= MessageLines
            /\ (Main[k] = "draw" => cursor.y < MessageLines)
        BY <3>2, <4>1, <4>2
      <4>. QED
        BY <2>0, <2>1, <2>2, <3>1, <4>3, MainCode
           DEF DrawsOnScreen, NothingReturns, InterruptsTypeOK, StateTypes
    <3>. QED
      BY <3>3, <3>4, <3>5
  <2>3. ASSUME NEW p \in 1 .. 11, InPanic(p), Head(code[1]) = Panic[p] PROVE DrawsOnScreen
    <3>1. PanicCursor(p) /\ Len(code) = 2
      BY <2>3 DEF InPanic
    <3>2. Panic[p] \notin {"ret", "iret"} /\ (Panic[p] = "draw" => p = 5)
      BY PanicAt DEF PanicCode
    <3>3. /\ cursor.x < MessageColumns /\ cursor.y <= MessageLines
          /\ p = 5 => cursor.y < MessageLines
      BY <2>0, <2>1, <3>1 DEF PanicCursor, AtLineStart, StateTypes
    <3>. QED
      BY <2>0, <2>1, <2>3, <3>1, <3>2, <3>3
         DEF DrawsOnScreen, NothingReturns, InterruptsTypeOK, StateTypes
  <2>. QED
    BY <2>2, <2>3, NextInstruction
<1>. QED
  BY <1>1, InterruptsAlways, PTL

(* No table, segment or handler is used before it is filled in, whatever   *)
(* the pages of the tables held before and wherever interrupts arrive.     *)
THEOREM TablesAreFilled == InterruptsSpec => []TablesFilledBeforeUse
<1>1. InterruptsInv => TablesFilledBeforeUse
  <2>. SUFFICES ASSUME InterruptsInv PROVE TablesFilledBeforeUse
    OBVIOUS
  <2>1. ASSUME NEW k \in 1 .. Hlt, InMain(k) PROVE TablesFilledBeforeUse
    BY <2>1 DEF InMain, SetUp, TablesFilledBeforeUse, Handled
  <2>2. ASSUME NEW p \in 1 .. 11, InPanic(p) PROVE TablesFilledBeforeUse
    BY <2>2 DEF InPanic, SetUp, TablesFilledBeforeUse, Handled
  <2>. QED
    BY <2>1, <2>2 DEF InterruptsInv
<1>. QED
  BY <1>1, InterruptsAlways, PTL

(* Nothing runs behind the hlt of a panic.                                 *)
THEOREM HaltsForEver == InterruptsSpec => PanicIsFinal
<1>1. InterruptsInv /\ [InterruptsNext]_processor => [~(Panicking /\ Halted)]_processor
  <2>. SUFFICES ASSUME InterruptsInv, InterruptsNext, Panicking, Halted PROVE FALSE
    OBVIOUS
  <2>1. Head(code[1]) = "hlt" /\ Len(code) > 1
    BY DEF Halted, Waits, Panicking
  <2>2. ~Execute
    BY <2>1, ExecuteByOp DEF Executes
  <2>3. ASSUME NEW vector \in Irqs, Deliver(vector) PROVE FALSE
    <3>1. \A k \in 1 .. Hlt : ~InMain(k)
      <4> SUFFICES ASSUME NEW k \in 1 .. Hlt, InMain(k) PROVE FALSE
        OBVIOUS
      <4>1. Len(code) = 1
        BY DEF InMain
      <4>2. Len(code) > 1
        BY <2>1
      <4>. QED
        BY <4>1, <4>2
    <3>2. PICK p \in 1 .. 11 : InPanic(p)
      BY <3>1 DEF InterruptsInv
    <3>. QED
      BY <2>3, <3>2 DEF InPanic, Deliver
  <2>. QED
    BY <2>2, <2>3 DEF InterruptsNext
<1>. QED
  BY <1>1, InterruptsAlways, PTL DEF InterruptsSpec, PanicIsFinal

-------------------------------------------------------------------------------
(* Numbers.  Powers of 256 and of ten, as far as types and buffers go.     *)
LEMMA PowerValues ==
  /\ Power \in [0 .. 8 -> Nat \ {0}] /\ Power[0] = 1 /\ Power[8] = 18446744073709551616
  /\ \A k \in 0 .. 7 : Power[k + 1] = 256 * Power[k]
  /\ \A k \in 1 .. 8 : 256 <= Power[k] /\ Power[k] <= Power[8]
<1> DEFINE P(f) == f = [k \in 0 .. 8 |-> IF k = 0 THEN 1 ELSE 256 * f[k - 1]]
           g == [k \in 0 .. 8 |->
                   CASE k = 0 -> 1 [] k = 1 -> 256 [] k = 2 -> 65536 [] k = 3 -> 16777216
                     [] k = 4 -> 4294967296 [] k = 5 -> 1099511627776
                     [] k = 6 -> 281474976710656 [] k = 7 -> 72057594037927936
                     [] k = 8 -> 18446744073709551616]
<1>1. Power = CHOOSE f : P(f)
  BY DEF Power
<1>2. /\ DOMAIN g = 0 .. 8
      /\ g[0] = 1 /\ g[1] = 256 /\ g[2] = 65536 /\ g[3] = 16777216 /\ g[4] = 4294967296
      /\ g[5] = 1099511627776 /\ g[6] = 281474976710656 /\ g[7] = 72057594037927936
      /\ g[8] = 18446744073709551616
  OBVIOUS
<1>3. \A k \in 0 .. 8 : \/ k = 0 \/ k = 1 \/ k = 2 \/ k = 3 \/ k = 4 \/ k = 5 \/ k = 6
                        \/ k = 7 \/ k = 8
  OBVIOUS
<1>4. P(g)
  <2>1. \A k \in 0 .. 8 : g[k] = IF k = 0 THEN 1 ELSE 256 * g[k - 1]
    <3>1. /\ 1 - 1 = 0 /\ 2 - 1 = 1 /\ 3 - 1 = 2 /\ 4 - 1 = 3 /\ 5 - 1 = 4 /\ 6 - 1 = 5
          /\ 7 - 1 = 6 /\ 8 - 1 = 7
      OBVIOUS
    <3> HIDE DEF g
    <3> QED
      BY <1>2, <1>3, <3>1
  <2>2. g = [k \in 0 .. 8 |-> g[k]]
    OBVIOUS
  <2> HIDE DEF g
  <2> QED
    BY <2>1, <2>2
<1>5. P(Power)
  <2> HIDE DEF P, g
  <2> QED
    BY <1>1, <1>4
<1>6. /\ DOMAIN Power = 0 .. 8 /\ Power[0] = 1
      /\ \A k \in 1 .. 8 : Power[k] = 256 * Power[k - 1]
  BY <1>5
<1>7. /\ 1 - 1 = 0 /\ 2 - 1 = 1 /\ 3 - 1 = 2 /\ 4 - 1 = 3 /\ 5 - 1 = 4 /\ 6 - 1 = 5
      /\ 7 - 1 = 6 /\ 8 - 1 = 7
  OBVIOUS
<1>8. /\ Power[1] = 256 /\ Power[2] = 65536 /\ Power[3] = 16777216
      /\ Power[4] = 4294967296 /\ Power[5] = 1099511627776 /\ Power[6] = 281474976710656
      /\ Power[7] = 72057594037927936 /\ Power[8] = 18446744073709551616
  <2>1. Power[1] = 256 /\ Power[2] = 65536 /\ Power[3] = 16777216
    BY <1>6, <1>7
  <2>2. Power[4] = 4294967296 /\ Power[5] = 1099511627776 /\ Power[6] = 281474976710656
    BY <1>6, <1>7, <2>1
  <2> QED
    BY <1>6, <1>7, <2>1, <2>2
<1>9. \A k \in 0 .. 8 : Power[k] \in Nat \ {0}
  BY <1>3, <1>6, <1>8
<1>10. \A k \in 0 .. 7 : Power[k + 1] = 256 * Power[k]
  <2> TAKE k \in 0 .. 7
  <2>1. k + 1 \in 1 .. 8 /\ (k + 1) - 1 = k
    OBVIOUS
  <2> QED
    BY <1>6, <2>1
<1>11. \A k \in 1 .. 8 : 256 <= Power[k] /\ Power[k] <= Power[8]
  <2>1. \A k \in 1 .. 8 : k \in 0 .. 8 /\ k # 0
    OBVIOUS
  <2> QED
    BY <1>3, <1>8, <2>1
<1> QED
  BY <1>5, <1>6, <1>8, <1>9, <1>10, <1>11

Ten ==
  [k \in 0 .. 20 |->
     CASE k = 0 -> 1 [] k = 1 -> 10 [] k = 2 -> 100 [] k = 3 -> 1000 [] k = 4 -> 10000
       [] k = 5 -> 100000 [] k = 6 -> 1000000 [] k = 7 -> 10000000 [] k = 8 -> 100000000
       [] k = 9 -> 1000000000 [] k = 10 -> 10000000000 [] k = 11 -> 100000000000
       [] k = 12 -> 1000000000000 [] k = 13 -> 10000000000000
       [] k = 14 -> 100000000000000 [] k = 15 -> 1000000000000000
       [] k = 16 -> 10000000000000000 [] k = 17 -> 100000000000000000
       [] k = 18 -> 1000000000000000000 [] k = 19 -> 10000000000000000000
       [] k = 20 -> 100000000000000000000]

LEMMA TenValues ==
  /\ \A k \in 0 .. 20 : Ten[k] \in Nat
  /\ Ten[0] = 1 /\ Ten[19] = 10000000000000000000 /\ Ten[20] = 100000000000000000000
  /\ \A k \in 0 .. 19 : Ten[k + 1] = 10 * Ten[k]
<1>1. /\ Ten[0] = 1 /\ Ten[1] = 10 /\ Ten[2] = 100 /\ Ten[3] = 1000
      /\ Ten[4] = 10000
  BY DEF Ten
<1>2. /\ Ten[5] = 100000 /\ Ten[6] = 1000000 /\ Ten[7] = 10000000
      /\ Ten[8] = 100000000 /\ Ten[9] = 1000000000
  BY DEF Ten
<1>3. /\ Ten[10] = 10000000000 /\ Ten[11] = 100000000000
      /\ Ten[12] = 1000000000000 /\ Ten[13] = 10000000000000
      /\ Ten[14] = 100000000000000
  BY DEF Ten
<1>4. /\ Ten[15] = 1000000000000000 /\ Ten[16] = 10000000000000000
      /\ Ten[17] = 100000000000000000 /\ Ten[18] = 1000000000000000000
      /\ Ten[19] = 10000000000000000000 /\ Ten[20] = 100000000000000000000
  BY DEF Ten
<1>5. /\ \A k \in 0 .. 20 : \/ k \in 0 .. 4 \/ k \in 5 .. 9 \/ k \in 10 .. 14 \/ k \in 15 .. 20
      /\ \A k \in 0 .. 4 : k = 0 \/ k = 1 \/ k = 2 \/ k = 3 \/ k = 4
      /\ \A k \in 5 .. 9 : k = 5 \/ k = 6 \/ k = 7 \/ k = 8 \/ k = 9
      /\ \A k \in 10 .. 14 : k = 10 \/ k = 11 \/ k = 12 \/ k = 13 \/ k = 14
      /\ \A k \in 15 .. 20 : k = 15 \/ k = 16 \/ k = 17 \/ k = 18 \/ k = 19 \/ k = 20
  OBVIOUS
<1>6. \A k \in 0 .. 20 : Ten[k] \in Nat
  BY <1>1, <1>2, <1>3, <1>4, <1>5
<1>7. \A k \in 0 .. 4 : Ten[k + 1] = 10 * Ten[k]
  BY <1>1, <1>2, <1>5
<1>8. \A k \in 5 .. 9 : Ten[k + 1] = 10 * Ten[k]
  BY <1>2, <1>3, <1>5
<1>9. \A k \in 10 .. 14 : Ten[k + 1] = 10 * Ten[k]
  BY <1>3, <1>4, <1>5
<1>10. \A k \in 15 .. 20 : k \in 0 .. 19 => Ten[k + 1] = 10 * Ten[k]
  BY <1>4, <1>5
<1>11. \A k \in 0 .. 19 : Ten[k + 1] = 10 * Ten[k]
  <2> TAKE k \in 0 .. 19
  <2>1. k \in 0 .. 20
    OBVIOUS
  <2> QED
    BY <1>5, <1>7, <1>8, <1>9, <1>10, <2>1
<1> QED
  BY <1>1, <1>4, <1>6, <1>11

(* Where the digits can begin: behind the sign.                            *)
Lowest == IF type.signed THEN 2 ELSE 0

LEMMA TypeRange ==
  ASSUME type \in Types
  PROVE  /\ type.signed \in BOOLEAN /\ type.bytes \in 1 .. 8
         /\ Modulus \in Nat /\ Modulus >= 256 /\ Modulus <= 18446744073709551616
         /\ Modulus = 2 * (Modulus \div 2) /\ Modulus \div 2 \in Nat
         /\ Minimum = (IF type.signed THEN -(Modulus \div 2) ELSE 0)
         /\ Values = Minimum .. Minimum + Modulus - 1
         /\ Last = (IF type.signed THEN 20 ELSE 19)
<1>1. type.signed \in BOOLEAN /\ type.bytes \in 1 .. 8
  BY NumbersAssumption
<1>2. /\ Modulus = Power[type.bytes]
      /\ Power[type.bytes] \in Nat /\ 256 <= Power[type.bytes]
      /\ Power[type.bytes] <= 18446744073709551616
  BY <1>1, PowerValues DEF Modulus
<1>3. PICK k \in 0 .. 7 : type.bytes = k + 1
  <2>1. type.bytes - 1 \in 0 .. 7 /\ type.bytes = (type.bytes - 1) + 1
    BY <1>1
  <2> QED
    BY <2>1
<1>4. Modulus = 256 * Power[k] /\ Power[k] \in Nat
  BY <1>2, <1>3, PowerValues
<1>5. Modulus \div 2 = 128 * Power[k]
  BY <1>4
<1> QED
  BY <1>1, <1>2, <1>4, <1>5 DEF Minimum, Values, Last

LEMMA QuotientRounds ==
  ASSUME NEW n \in Int
  PROVE  /\ Quotient(n) \in Int
         /\ n >= 0 => /\ n = 10 * Quotient(n) + Remainder(n) /\ Remainder(n) \in 0 .. 9
                      /\ Quotient(n) >= 0 /\ Quotient(n) <= n
                      /\ Digit(n) = Zero + Remainder(n)
         /\ n < 0 => Quotient(n) <= 0
<1>1. CASE n >= 0
  <2>1. /\ n = 10 * (n \div 10) + (n % 10) /\ (n % 10) \in 0 .. 9 /\ n \div 10 \in Int
        /\ n \div 10 >= 0 /\ n \div 10 <= n
    BY <1>1
  <2>2. Quotient(n) = n \div 10
    BY <1>1 DEF Quotient
  <2>3. Remainder(n) = (n % 10)
    BY <2>1, <2>2 DEF Remainder
  <2>4. Digit(n) = Zero + Remainder(n)
    BY <2>1, <2>3 DEF Digit, Zero
  <2> QED
    BY <1>1, <2>1, <2>2, <2>3, <2>4
<1>2. CASE n < 0
  <2>1. (-n) \div 10 \in Int /\ (-n) \div 10 >= 0
    BY <1>2
  <2> QED
    BY <1>2, <2>1 DEF Quotient
<1> QED
  BY <1>1, <1>2

(* What the loop begins with.                                              *)
Start == IF v < 0 THEN Negated(v) ELSE v

LEMMA StartFits ==
  ASSUME type \in Types, v \in Values
  PROVE  /\ Start \in Values /\ Start < Ten[Last - Lowest + 1]
         /\ (type.signed => v # Minimum) => Start = Size(v) /\ Start >= 0
<1>1. /\ v \in Int /\ Minimum \in Int /\ v >= Minimum /\ v <= Minimum + Modulus - 1
  BY TypeRange
<1>2. /\ Start \in Int /\ Start >= Minimum /\ Start <= Minimum + Modulus - 1
      /\ (type.signed => v # Minimum) => Start = Size(v) /\ Start >= 0
  <2>1. CASE type.signed
    BY <1>1, <2>1, TypeRange DEF Start, Negated, Size
  <2>2. CASE ~type.signed
    <3>1. v >= 0
      BY <1>1, <2>2, TypeRange
    <3> QED
      BY <1>1, <2>2, <3>1 DEF Start, Size
  <2> QED
    BY <2>1, <2>2
<1>3. Start < Ten[Last - Lowest + 1]
  <2>1. CASE type.signed
    <3>1. Last - Lowest + 1 = 19
      BY <2>1, TypeRange DEF Lowest
    <3>2. Start <= 9223372036854775808
      BY <1>2, <2>1, TypeRange
    <3> QED
      BY <1>2, <3>1, <3>2, TenValues
  <2>2. CASE ~type.signed
    <3>1. Last - Lowest + 1 = 20
      BY <2>2, TypeRange DEF Lowest
    <3>2. Start <= 18446744073709551615
      BY <1>2, <2>2, TypeRange
    <3> QED
      BY <1>2, <3>1, <3>2, TenValues
  <2> QED
    BY <2>1, <2>2
<1>4. Start \in Values
  BY <1>1, <1>2, TypeRange
<1> QED
  BY <1>2, <1>3, <1>4

(* The place of the first digit, and of the last digit written.            *)
First == IF pc = "done" /\ negativ THEN Last - index + 1 ELSE Last - index
Written == IF pc = "digits" THEN First + 1 ELSE First
Signed == pc = "done" /\ negativ

(* What is left of the number at each place, from the place of the last    *)
(* digit on.                                                               *)
Divided(q) ==
  /\ q[Last] = Start
  /\ \A p \in First .. Last : q[p] < Ten[p - Lowest + 1]
  /\ \A p \in First .. Last - 1 : q[p] = Quotient(q[p + 1]) /\ q[p] > 0
  /\ value = q[First]
  /\ pc # "digits" => ~MoreDigits(q[First])
  /\ \A p \in Written .. Last : s[p] = Digit(q[p])

Quotients == [First .. Last -> Values]

NumberKinds ==
  /\ type \in Types /\ v \in Values /\ negativ \in BOOLEAN
  /\ pc \in {"digits", "sign", "done"}
  /\ v < 0 => negativ
  /\ negativ => type.signed
  /\ pc = "sign" => negativ

Places ==
  /\ index \in 0 .. Last /\ First \in Lowest .. Last
  /\ DOMAIN s = Written .. Last \union (IF Signed THEN {First - 1} ELSE {})
  /\ Signed => s[First - 1] = Minus

NumbersInv == NumberKinds /\ Places /\ \E q \in Quotients : Divided(q)

LEMMA ValueRange ==
  ASSUME type \in Types, v \in Values
  PROVE  /\ Values \subseteq Int /\ 0 \in Values
         /\ \A n \in Values : n >= 0 => Quotient(n) \in Values
<1>1. /\ Minimum \in Int /\ Minimum <= 0 /\ Minimum + Modulus - 1 >= 0
      /\ Minimum + Modulus - 1 \in Int
  BY TypeRange
<1>2. Values \subseteq Int /\ 0 \in Values
  BY <1>1 DEF Values
<1>3. ASSUME NEW n \in Values, n >= 0
      PROVE  Quotient(n) \in Values
  <2>1. Quotient(n) \in Int /\ Quotient(n) >= 0 /\ Quotient(n) <= n
    BY <1>2, <1>3, QuotientRounds
  <2> QED
    BY <1>1, <1>3, <2>1 DEF Values
<1> QED
  BY <1>2, <1>3

LEMMA NumbersInitInv ==
  NumbersInit => NumbersInv
<1> SUFFICES ASSUME NumbersInit
             PROVE  NumbersInv
  OBVIOUS
<1>1. /\ type \in Types /\ v \in Values /\ pc = "digits" /\ index = 0 /\ s = << >>
      /\ value = Start
      /\ negativ \in BOOLEAN /\ (v < 0 => negativ) /\ (negativ => v < 0 \/ type.signed)
  BY DEF NumbersInit, Start
<1>2. v < 0 => type.signed
  BY <1>1, TypeRange
<1>3. NumberKinds
  BY <1>1, <1>2 DEF NumberKinds
<1>4. First = Last /\ Written = Last + 1 /\ ~Signed
  BY <1>1, TypeRange DEF First, Written, Signed
<1>5. Last \in Nat /\ Lowest \in 0 .. Last
  BY <1>1, TypeRange DEF Lowest
<1>6. Places
  BY <1>1, <1>4, <1>5 DEF Places
<1>7. Start \in Values /\ Start < Ten[Last - Lowest + 1]
  BY <1>1, StartFits
<1>8. Divided([p \in First .. Last |-> Start])
  <2>1. First .. Last = {Last} /\ First .. Last - 1 = {} /\ Written .. Last = {}
    BY <1>4, <1>5
  <2> QED
    BY <1>1, <1>4, <1>7, <2>1 DEF Divided
<1>9. [p \in First .. Last |-> Start] \in Quotients
  BY <1>7 DEF Quotients
<1> QED
  BY <1>3, <1>6, <1>8, <1>9 DEF NumbersInv

LEMMA NumbersTypesStay ==
  ASSUME UNCHANGED <<type, v>>
  PROVE  /\ Values' = Values /\ Last' = Last /\ Lowest' = Lowest /\ Start' = Start
         /\ Minimum' = Minimum /\ Modulus' = Modulus
BY DEF Values, Last, Lowest, Start, Minimum, Modulus, Negated

LEMMA NextDigitKeeps ==
  ASSUME NumbersInv, NextDigit
  PROVE  NumbersInv'
<1>1. /\ pc = "digits" /\ MoreDigits(value) /\ value' = Quotient(value)
      /\ index' = (index + 1) % 256 /\ UNCHANGED <<type, v, negativ, pc>>
      /\ s' = [i \in DOMAIN s \union {Last - index} |->
                 IF i = Last - index THEN Digit(value) ELSE s[i]]
  BY DEF NextDigit, Put, NextIndex
<1>2. PICK q \in Quotients : Divided(q)
  BY DEF NumbersInv
<1>3. NumberKinds /\ Places
  BY DEF NumbersInv
<1>4. NumberKinds'
  <2>1. Values' = Values
    BY <1>1, NumbersTypesStay
  <2> QED
    BY <1>1, <1>3, <2>1 DEF NumberKinds
<1>5. /\ Values' = Values /\ Last' = Last /\ Lowest' = Lowest /\ Start' = Start
  BY <1>1, NumbersTypesStay
<1>6. /\ Last \in {19, 20} /\ Lowest \in {0, 2} /\ Last - Lowest <= 19 /\ index \in 0 .. Last
      /\ type \in Types /\ v \in Values
      /\ First = Last - index /\ First \in Lowest .. Last /\ Written = First + 1
      /\ ~Signed /\ DOMAIN s = Written .. Last
  <2>1. type \in Types /\ v \in Values
    BY <1>3 DEF NumberKinds
  <2>2. Last \in {19, 20} /\ Lowest \in {0, 2} /\ Last - Lowest <= 19
    BY <2>1, TypeRange DEF Lowest
  <2> QED
    BY <1>1, <1>3, <2>1, <2>2 DEF Places, First, Written, Signed
<1>7. value = q[First] /\ value \in Int /\ value < Ten[First - Lowest + 1]
      /\ value \in Values
  <2>1. First \in First .. Last
    BY <1>6
  <2>2. q[First] \in Values
    BY <1>2, <2>1 DEF Quotients
  <2>3. Values \subseteq Int
    BY <1>6, ValueRange
  <2> QED
    BY <1>2, <2>1, <2>2, <2>3 DEF Divided
<1>8. /\ Quotient(value) \in Values /\ Quotient(value) > 0
      /\ value = 10 * Quotient(value) + Remainder(value) /\ Remainder(value) \in 0 .. 9
      /\ Quotient(value) \in Int
  <2>1. Quotient(value) > 0 /\ Quotient(value) \in Int
    BY <1>1, <1>7, QuotientRounds DEF MoreDigits
  <2>2. value >= 0
    <3>1. value < 0 => Quotient(value) <= 0
      BY <1>7, QuotientRounds
    <3> QED
      BY <1>7, <2>1, <3>1
  <2> QED
    BY <1>6, <1>7, <2>1, <2>2, QuotientRounds, ValueRange
<1>9. First > Lowest /\ Quotient(value) < Ten[First - Lowest]
  <2>1. First - Lowest \in 0 .. 19
    BY <1>6
  <2>2. Ten[(First - Lowest) + 1] = 10 * Ten[First - Lowest] /\ Ten[First - Lowest] \in Nat
    BY <2>1, TenValues
  <2>3. First - Lowest + 1 = (First - Lowest) + 1
    BY <1>6
  <2>4. Quotient(value) < Ten[First - Lowest]
    BY <1>7, <1>8, <2>2, <2>3
  <2>5. First # Lowest
    <3>1. First = Lowest => First - Lowest = 0
      BY <1>6
    <3> QED
      BY <1>8, <2>4, <3>1, TenValues
  <2> QED
    BY <1>6, <2>4, <2>5
<1>10. index' = index + 1 /\ index' \in 0 .. Last
  <2>1. index + 1 \in 0 .. Last
    BY <1>6, <1>9
  <2> QED
    BY <1>1, <1>6, <2>1
<1>11. First' = First - 1 /\ Written' = First /\ ~Signed'
  BY <1>1, <1>5, <1>6, <1>10 DEF First, Written, Signed
<1>12. DOMAIN s' = First .. Last
  <2>1. DOMAIN s' = Written .. Last \union {First}
    BY <1>1, <1>6
  <2> QED
    BY <1>6, <2>1
<1>13. Places'
  <2>1. First' \in Lowest .. Last
    BY <1>6, <1>9, <1>11
  <2> QED
    BY <1>5, <1>10, <1>11, <1>12, <2>1 DEF Places
<1>14. PICK r : r = [p \in First - 1 .. Last |->
                      IF p = First - 1 THEN Quotient(value) ELSE q[p]]
  OBVIOUS
<1>15. r \in Quotients'
  <2>1. \A p \in First - 1 .. Last : p # First - 1 => p \in First .. Last
    BY <1>6
  <2>2. r \in [First - 1 .. Last -> Values]
    BY <1>2, <1>8, <1>14, <2>1 DEF Quotients
  <2>3. Quotients' = [First - 1 .. Last -> Values]
    BY <1>5, <1>11 DEF Quotients
  <2> QED
    BY <2>2, <2>3
<1>16. Divided(r)'
  <2>1. /\ r[First - 1] = Quotient(value)
        /\ \A p \in First .. Last : r[p] = q[p]
    BY <1>6, <1>14
  <2>2. Last \in First .. Last /\ First \in First .. Last
    BY <1>6
  <2>3. r[Last] = Start
    BY <1>2, <2>1, <2>2 DEF Divided
  <2>4. \A p \in First - 1 .. Last : r[p] < Ten[p - Lowest + 1]
    <3> SUFFICES ASSUME NEW p \in First - 1 .. Last
                 PROVE  r[p] < Ten[p - Lowest + 1]
      OBVIOUS
    <3>1. CASE p = First - 1
      <4>1. p - Lowest + 1 = First - Lowest
        BY <1>6, <3>1
      <4> QED
        BY <1>9, <2>1, <3>1, <4>1
    <3>2. CASE p # First - 1
      <4>1. p \in First .. Last
        BY <1>6, <3>2
      <4> QED
        BY <1>2, <2>1, <4>1 DEF Divided
    <3> QED
      BY <3>1, <3>2
  <2>5. \A p \in First - 1 .. Last - 1 : r[p] = Quotient(r[p + 1]) /\ r[p] > 0
    <3> SUFFICES ASSUME NEW p \in First - 1 .. Last - 1
                 PROVE  r[p] = Quotient(r[p + 1]) /\ r[p] > 0
      OBVIOUS
    <3>1. CASE p = First - 1
      <4>1. p + 1 = First
        BY <1>6, <3>1
      <4> QED
        BY <1>7, <1>8, <2>1, <2>2, <3>1, <4>1
    <3>2. CASE p # First - 1
      <4>1. p \in First .. Last /\ p + 1 \in First .. Last /\ p \in First .. Last - 1
        BY <1>6, <3>2
      <4> QED
        BY <1>2, <2>1, <4>1 DEF Divided
    <3> QED
      BY <3>1, <3>2
  <2>6. value' = r[First']
    BY <1>1, <1>11, <2>1
  <2>7. \A p \in First .. Last : s'[p] = Digit(r[p])
    <3> SUFFICES ASSUME NEW p \in First .. Last
                 PROVE  s'[p] = Digit(r[p])
      OBVIOUS
    <3>1. s'[p] = IF p = First THEN Digit(value) ELSE s[p]
      BY <1>1, <1>6, <1>12
    <3>2. CASE p = First
      BY <1>7, <2>1, <3>1, <3>2
    <3>3. CASE p # First
      <4>1. p \in Written .. Last
        BY <1>6, <3>3
      <4> QED
        BY <1>2, <2>1, <3>1, <3>3, <4>1 DEF Divided
    <3> QED
      BY <3>2, <3>3
  <2>8. pc' = "digits"
    BY <1>1
  <2>9. \A p \in Written' .. Last' : s'[p] = Digit(r[p])
    BY <1>5, <1>11, <2>7
  <2>10. \A p \in First' .. Last' : r[p] < Ten[p - Lowest' + 1]
    BY <1>5, <1>11, <2>4
  <2>11. \A p \in First' .. Last' - 1 : r[p] = Quotient(r[p + 1]) /\ r[p] > 0
    BY <1>5, <1>11, <2>5
  <2> QED
    BY <1>5, <2>3, <2>6, <2>8, <2>9, <2>10, <2>11 DEF Divided
<1> QED
  BY <1>4, <1>13, <1>15, <1>16 DEF NumbersInv

LEMMA LastDigitKeeps ==
  ASSUME NumbersInv, LastDigit
  PROVE  NumbersInv'
<1>1. /\ pc = "digits" /\ ~MoreDigits(value) /\ pc' = (IF negativ THEN "sign" ELSE "done")
      /\ UNCHANGED <<type, v, value, index, negativ>>
      /\ s' = [i \in DOMAIN s \union {Last - index} |->
                 IF i = Last - index THEN Digit(value) ELSE s[i]]
  BY DEF LastDigit, Put
<1>2. PICK q \in Quotients : Divided(q)
  BY DEF NumbersInv
<1>3. NumberKinds /\ Places
  BY DEF NumbersInv
<1>4. /\ Values' = Values /\ Last' = Last /\ Lowest' = Lowest /\ Start' = Start
  BY <1>1, NumbersTypesStay
<1>5. NumberKinds'
  BY <1>1, <1>3, <1>4 DEF NumberKinds
<1>6. /\ Last \in Int /\ Lowest \in Int /\ First \in Int /\ index \in Int
      /\ First = Last - index /\ First \in Lowest .. Last /\ Written = First + 1
      /\ ~Signed /\ DOMAIN s = Written .. Last
  <2>1. type \in Types
    BY <1>3 DEF NumberKinds
  <2>2. Last \in {19, 20} /\ Lowest \in {0, 2}
    BY <2>1, TypeRange DEF Lowest
  <2> QED
    BY <1>1, <1>3, <2>2 DEF Places, First, Written, Signed
<1>7. negativ \in BOOLEAN
  BY <1>3 DEF NumberKinds
<1>8. First' = First /\ Written' = First /\ ~Signed'
  BY <1>1, <1>4, <1>6, <1>7 DEF First, Written, Signed
<1>9. DOMAIN s' = First .. Last
  <2>1. DOMAIN s' = Written .. Last \union {First}
    BY <1>1, <1>6
  <2> QED
    BY <1>6, <2>1
<1>10. Places'
  <2>1. index' \in 0 .. Last' /\ First' \in Lowest' .. Last'
    BY <1>1, <1>3, <1>4, <1>8 DEF Places
  <2> QED
    BY <1>4, <1>8, <1>9, <2>1 DEF Places
<1>11. q \in Quotients'
  BY <1>2, <1>4, <1>8 DEF Quotients
<1>12. value = q[First]
  BY <1>2 DEF Divided
<1>13. \A p \in First .. Last : s'[p] = Digit(q[p])
  <2> SUFFICES ASSUME NEW p \in First .. Last
               PROVE  s'[p] = Digit(q[p])
    OBVIOUS
  <2>1. s'[p] = IF p = First THEN Digit(value) ELSE s[p]
    BY <1>1, <1>6, <1>9
  <2>2. CASE p = First
    BY <1>12, <2>1, <2>2
  <2>3. CASE p # First
    <3>1. p \in Written .. Last
      BY <1>6, <2>3
    <3> QED
      BY <1>2, <2>1, <2>3, <3>1 DEF Divided
  <2> QED
    BY <2>2, <2>3
<1>14. Divided(q)'
  <2>1. \A p \in Written' .. Last' : s'[p] = Digit(q[p])
    BY <1>4, <1>8, <1>13
  <2>2. value' = q[First'] /\ ~MoreDigits(q[First'])
    BY <1>1, <1>8, <1>12
  <2>3. /\ q[Last'] = Start'
        /\ \A p \in First' .. Last' : q[p] < Ten[p - Lowest' + 1]
        /\ \A p \in First' .. Last' - 1 : q[p] = Quotient(q[p + 1]) /\ q[p] > 0
    BY <1>2, <1>4, <1>8 DEF Divided
  <2> QED
    BY <2>1, <2>2, <2>3 DEF Divided
<1> QED
  BY <1>5, <1>10, <1>11, <1>14 DEF NumbersInv

LEMMA SignKeeps ==
  ASSUME NumbersInv, Sign
  PROVE  NumbersInv'
<1>1. /\ pc = "sign" /\ pc' = "done" /\ index' = (index + 1) % 256
      /\ UNCHANGED <<type, v, value, negativ>>
      /\ s' = [i \in DOMAIN s \union {Last - index - 1} |->
                 IF i = Last - index - 1 THEN Minus ELSE s[i]]
  BY DEF Sign, Put, NextIndex
<1>2. PICK q \in Quotients : Divided(q)
  BY DEF NumbersInv
<1>3. NumberKinds /\ Places
  BY DEF NumbersInv
<1>4. /\ Values' = Values /\ Last' = Last /\ Lowest' = Lowest /\ Start' = Start
  BY <1>1, NumbersTypesStay
<1>5. NumberKinds' /\ negativ
  BY <1>1, <1>3, <1>4 DEF NumberKinds
<1>6. /\ Last = 20 /\ Lowest = 2 /\ index \in 0 .. 18
      /\ First = Last - index /\ First \in 2 .. 20 /\ Written = First
      /\ ~Signed /\ DOMAIN s = First .. Last
  <2>1. type \in Types /\ type.signed
    BY <1>1, <1>3 DEF NumberKinds
  <2>2. Last = 20 /\ Lowest = 2
    BY <2>1, TypeRange DEF Lowest
  <2> QED
    BY <1>1, <1>3, <2>2 DEF Places, First, Written, Signed
<1>7. index' = index + 1 /\ index' \in 0 .. Last
  <2>1. index + 1 \in 0 .. 19
    BY <1>6
  <2> QED
    BY <1>1, <1>6, <2>1
<1>8. First' = First /\ Written' = First /\ Signed'
  BY <1>1, <1>4, <1>5, <1>6, <1>7 DEF First, Written, Signed
<1>9. /\ DOMAIN s' = First .. Last \union {First - 1}
      /\ s'[First - 1] = Minus
      /\ \A p \in First .. Last : s'[p] = s[p]
  BY <1>1, <1>6
<1>10. Places'
  <2>1. index' \in 0 .. Last' /\ First' \in Lowest' .. Last'
    BY <1>4, <1>6, <1>7, <1>8
  <2> QED
    BY <1>4, <1>8, <1>9, <2>1 DEF Places
<1>11. q \in Quotients'
  BY <1>2, <1>4, <1>8 DEF Quotients
<1>12. Divided(q)'
  <2>1. \A p \in Written' .. Last' : s'[p] = Digit(q[p])
    BY <1>2, <1>4, <1>6, <1>8, <1>9 DEF Divided
  <2>2. value' = q[First'] /\ ~MoreDigits(q[First'])
    BY <1>1, <1>2, <1>8 DEF Divided
  <2>3. /\ q[Last'] = Start'
        /\ \A p \in First' .. Last' : q[p] < Ten[p - Lowest' + 1]
        /\ \A p \in First' .. Last' - 1 : q[p] = Quotient(q[p + 1]) /\ q[p] > 0
    BY <1>2, <1>4, <1>8 DEF Divided
  <2> QED
    BY <2>1, <2>2, <2>3 DEF Divided
<1> QED
  BY <1>5, <1>10, <1>11, <1>12 DEF NumbersInv

LEMMA NumbersStutter ==
  ASSUME NumbersInv, UNCHANGED numberVars
  PROVE  NumbersInv'
<1>1. UNCHANGED <<type, v, value, index, negativ, s, pc>>
  BY DEF numberVars
<1>2. PICK q \in Quotients : Divided(q)
  BY DEF NumbersInv
<1>3. NumberKinds /\ Places
  BY DEF NumbersInv
<1>4. /\ Values' = Values /\ Last' = Last /\ Lowest' = Lowest /\ Start' = Start
  BY <1>1, NumbersTypesStay
<1>5. First' = First /\ Written' = Written /\ Signed' = Signed
  BY <1>1, <1>4 DEF First, Written, Signed
<1>6. NumberKinds' /\ Places'
  BY <1>1, <1>3, <1>4, <1>5 DEF NumberKinds, Places
<1>7. q \in Quotients' /\ Divided(q)'
  BY <1>1, <1>2, <1>4, <1>5 DEF Quotients, Divided
<1> QED
  BY <1>6, <1>7 DEF NumbersInv

LEMMA NumbersInvariant ==
  NumbersSpec => []NumbersInv
<1>1. NumbersInv /\ [NumbersNext]_numberVars => NumbersInv'
  BY NextDigitKeeps, LastDigitKeeps, SignKeeps, NumbersStutter DEF NumbersNext
<1> QED
  BY <1>1, NumbersInitInv, PTL DEF NumbersSpec

-------------------------------------------------------------------------------
(* What a reader reads is what any function gives that continues from each *)
(* character to the next as the reader does.                               *)
LEMMA SmallestExists ==
  ASSUME NEW S \in SUBSET Nat, S # {}
  PROVE  \E n \in S : \A m \in S : n <= m
<1>1. PICK n \in S : \A m \in S : ~(<<m, n>> \in OpToRel(<, Nat))
  BY NatLessThanWellFounded, WFMin, Zenon
<1>2. \A m \in S : ~(m < n)
  BY <1>1 DEF OpToRel
<1>3. n \in Nat /\ \A m \in S : m \in Nat
  OBVIOUS
<1> QED
  BY <1>2, <1>3

LEMMA ReadsAs ==
  ASSUME NEW numeral, NEW base, NEW digitOf, NEW f, Len(numeral) \in Nat,
         f = [i \in 0 .. Len(numeral) |->
                IF i = 0 THEN 0 ELSE f[i - 1] * base + digitOf[numeral[i]]]
  PROVE  Reads(numeral, base, digitOf) = f[Len(numeral)]
<1> DEFINE n == Len(numeral)
           P(g) == g = [i \in 0 .. n |->
                          IF i = 0 THEN 0 ELSE g[i - 1] * base + digitOf[numeral[i]]]
<1>1. Reads(numeral, base, digitOf) = (CHOOSE g : P(g))[n]
  BY DEF Reads
<1>2. P(f)
  OBVIOUS
<1>3. P(CHOOSE g : P(g))
  <2> HIDE DEF P
  <2> QED
    BY <1>2
<1>4. ASSUME NEW g, P(g)
      PROVE  g[n] = f[n]
  <2> DEFINE D == {i \in 0 .. n : g[i] # f[i]}
  <2>1. n \in Nat
    OBVIOUS
  <2>2. \A i \in 0 .. n : /\ g[i] = IF i = 0 THEN 0 ELSE g[i - 1] * base + digitOf[numeral[i]]
                          /\ f[i] = IF i = 0 THEN 0 ELSE f[i - 1] * base + digitOf[numeral[i]]
    BY <1>2, <1>4
  <2> HIDE DEF P, n
  <2>3. D = {}
    <3> SUFFICES ASSUME D # {}
                 PROVE  FALSE
      OBVIOUS
    <3>1. D \in SUBSET Nat
      BY <2>1
    <3>2. PICK i \in D : \A j \in D : i <= j
      <4> HIDE DEF D
      <4> QED
        BY <3>1, SmallestExists
    <3>3. i \in 0 .. n /\ g[i] # f[i]
      OBVIOUS
    <3>4. i # 0
      BY <2>2, <3>3
    <3>5. i - 1 \in 0 .. n /\ ~(i <= i - 1)
      BY <2>1, <3>3, <3>4
    <3>6. g[i - 1] = f[i - 1]
      BY <3>2, <3>5
    <3> QED
      BY <2>2, <3>3, <3>4, <3>6
  <2>4. n \in 0 .. n
    BY <2>1
  <2> QED
    BY <2>3, <2>4
<1> QED
  <2> HIDE DEF P
  <2> QED
    BY <1>1, <1>3, <1>4

LEMMA DigitValues ==
  ASSUME type \in Types
  PROVE  /\ \A d \in 0 .. 9 : Decimal[Zero + d] = d
         /\ \A d \in 0 .. 15 : Hexadecimal[Nibble(d)] = d
<1>1. \A d \in 0 .. 9 : Zero + d \in 0 .. 255 /\ Zero + d \in Zero .. Zero + 9
  BY DEF Zero
<1>2. \A d \in 0 .. 9 : Decimal[Zero + d] = d
  BY <1>1 DEF Decimal, Zero
<1>3. ASSUME NEW d \in 0 .. 15
      PROVE  Hexadecimal[Nibble(d)] = d
  <2>1. CASE d <= 9
    <3>1. Nibble(d) = Zero + d /\ d \in 0 .. 9
      BY <2>1 DEF Nibble, Zero
    <3>2. Zero + d \in 0 .. 255 /\ Zero + d \notin 65 .. 70
      BY <3>1 DEF Zero
    <3> QED
      BY <1>2, <3>1, <3>2 DEF Hexadecimal
  <2>2. CASE ~(d <= 9)
    <3>1. Nibble(d) = d + 55 /\ d + 55 \in 65 .. 70 /\ d + 55 \in 0 .. 255
      BY <2>2 DEF Nibble
    <3> QED
      BY <3>1 DEF Hexadecimal
  <2> QED
    BY <2>1, <2>2
<1> QED
  BY <1>2, <1>3

LEMMA SeqOf ==
  ASSUME NEW S, NEW n \in Nat, NEW f \in [1 .. n -> S]
  PROVE  f \in Seq(S) /\ Len(f) = n
<1>1. f \in Seq(S)
  BY SeqDef
<1>2. Len(f) \in Nat /\ 1 .. Len(f) = 1 .. n
  BY <1>1, LenProperties
<1> QED
  BY <1>1, <1>2

(* What is put, without its sign.                                          *)
Digits == IF negativ THEN Tail(PrintedNumber) ELSE PrintedNumber

LEMMA DigitsPrinted ==
  ASSUME NumbersInv, pc = "done"
  PROVE  /\ Len(Digits) = Last - First + 1
         /\ \A i \in 1 .. Last - First + 1 : Digits[i] = s[First + i - 1]
         /\ negativ => PrintedNumber[1] = Minus
<1>1. NumberKinds /\ Places
  BY DEF NumbersInv
<1>2. /\ type \in Types /\ negativ \in BOOLEAN /\ index \in 0 .. Last
      /\ First \in Lowest .. Last /\ Last \in {19, 20} /\ Lowest \in {0, 2}
  <2>1. type \in Types /\ negativ \in BOOLEAN
    BY <1>1 DEF NumberKinds
  <2> QED
    BY <1>1, <2>1, TypeRange DEF Places, Lowest
<1> DEFINE Chr == {s[p] : p \in 0 .. 20}
<1>3. PrintedNumber = [i \in 1 .. index + 1 |-> s[Last - index + i - 1]]
  BY DEF PrintedNumber
<1>4. \A i \in 1 .. index + 1 : Last - index + i - 1 \in 0 .. 20
  BY <1>2
<1>5. PrintedNumber \in [1 .. index + 1 -> Chr]
  BY <1>3, <1>4
<1>6. PrintedNumber \in Seq(Chr) /\ Len(PrintedNumber) = index + 1
  <2> HIDE DEF Chr
  <2>1. index + 1 \in Nat
    BY <1>2
  <2> QED
    BY <1>5, <2>1, SeqOf
<1>7. CASE negativ
  <2>1. Digits = Tail(PrintedNumber) /\ First = Last - index + 1 /\ Signed
    BY <1>7 DEF Digits, First, Signed
  <2>2. PrintedNumber # << >>
    <3>1. Len(PrintedNumber) # 0
      BY <1>2, <1>6
    <3> QED
      BY <3>1
  <2>3. /\ Len(Digits) = (index + 1) - 1
        /\ \A i \in 1 .. Len(Digits) : Digits[i] = PrintedNumber[i + 1]
    <3> HIDE DEF Chr
    <3> QED
      BY <1>6, <2>1, <2>2, HeadTailProperties
  <2>4. Len(Digits) = Last - First + 1 /\ Last - First + 1 = index
    BY <1>2, <2>1, <2>3
  <2>5. \A i \in 1 .. index : /\ i + 1 \in 1 .. index + 1
                             /\ Last - index + (i + 1) - 1 = First + i - 1
    BY <1>2, <2>1
  <2>6. \A i \in 1 .. index : Digits[i] = s[First + i - 1]
    BY <1>3, <2>3, <2>4, <2>5
  <2>7. 1 \in 1 .. index + 1 /\ Last - index + 1 - 1 = First - 1
    BY <1>2, <2>1
  <2>8. PrintedNumber[1] = Minus
    BY <1>1, <1>3, <2>1, <2>7 DEF Places
  <2> QED
    BY <2>4, <2>6, <2>8
<1>8. CASE ~negativ
  <2>1. Digits = PrintedNumber /\ First = Last - index
    BY <1>8 DEF Digits, First
  <2>2. Last - First + 1 = index + 1
    BY <1>2, <2>1
  <2> QED
    BY <1>3, <1>6, <1>8, <2>1, <2>2
<1> QED
  BY <1>2, <1>7, <1>8

LEMMA DecimalReadsBack ==
  ASSUME NumbersInv
  PROVE  PrintsNumber
<1> SUFFICES ASSUME pc = "done", type.signed => v # Minimum
             PROVE  /\ Reads(Digits, 10, Decimal) = Size(v)
                    /\ Digits[1] = Zero => Len(Digits) = 1
                    /\ v < 0 => PrintedNumber[1] = Minus
  BY DEF PrintsNumber, Digits
<1>1. PICK q \in Quotients : Divided(q)
  BY DEF NumbersInv
<1>2. NumberKinds /\ Places
  BY DEF NumbersInv
<1>3. /\ type \in Types /\ v \in Values /\ Written = First
      /\ First \in Lowest .. Last /\ Last \in {19, 20} /\ Lowest \in {0, 2}
      /\ Values \subseteq Int
  <2>1. type \in Types /\ v \in Values
    BY <1>2 DEF NumberKinds
  <2> QED
    BY <1>2, <2>1, TypeRange, ValueRange DEF Places, Lowest, Written
<1> DEFINE n == Last - First + 1
<1>4. n \in Nat /\ n >= 1 /\ First + n - 1 = Last
  BY <1>3
<1>5. /\ Len(Digits) = n
      /\ \A i \in 1 .. n : Digits[i] = s[First + i - 1]
      /\ negativ => PrintedNumber[1] = Minus
  BY DigitsPrinted
<1>6. \A p \in First .. Last : q[p] \in Int /\ q[p] >= 0 /\ (p # Last => q[p] > 0)
  <2> SUFFICES ASSUME NEW p \in First .. Last
               PROVE  q[p] \in Int /\ q[p] >= 0 /\ (p # Last => q[p] > 0)
    OBVIOUS
  <2>1. q[p] \in Int
    BY <1>1, <1>3 DEF Quotients
  <2>2. CASE p = Last
    BY <1>1, <1>3, <2>1, <2>2, StartFits DEF Divided
  <2>3. CASE p # Last
    <3>1. p \in First .. Last - 1
      BY <1>3, <2>3
    <3> QED
      BY <1>1, <2>1, <3>1 DEF Divided
  <2> QED
    BY <2>2, <2>3
<1>7. \A p \in First .. Last :
        /\ q[p] = 10 * Quotient(q[p]) + Remainder(q[p]) /\ Remainder(q[p]) \in 0 .. 9
        /\ Quotient(q[p]) \in Int /\ Quotient(q[p]) >= 0
        /\ s[p] = Zero + Remainder(q[p])
  <2> TAKE p \in First .. Last
  <2>1. s[p] = Digit(q[p])
    BY <1>1, <1>3 DEF Divided
  <2> QED
    BY <1>6, <2>1, QuotientRounds
<1>8. Quotient(q[First]) = 0
  <2>1. First \in First .. Last
    BY <1>3
  <2>2. ~(Quotient(q[First]) > 0)
    BY <1>1 DEF Divided, MoreDigits
  <2> QED
    BY <1>7, <2>1, <2>2
<1> DEFINE f == [i \in 0 .. n |-> IF i = 0 THEN 0 ELSE q[First + i - 1]]
<1>9. /\ f[0] = 0
      /\ \A i \in 1 .. n : f[i] = q[First + i - 1]
  <2>1. \A i \in 1 .. n : i \in 0 .. n /\ i # 0
    BY <1>4
  <2>2. 0 \in 0 .. n
    BY <1>4
  <2> HIDE DEF n
  <2> QED
    BY <2>1, <2>2
<1>10. \A i \in 1 .. n : f[i] = f[i - 1] * 10 + Decimal[Digits[i]]
  <2> SUFFICES ASSUME NEW i \in 1 .. n
               PROVE  f[i] = f[i - 1] * 10 + Decimal[Digits[i]]
    OBVIOUS
  <2> DEFINE p == First + i - 1
  <2>1. p \in First .. Last /\ i \in Int
    BY <1>3
  <2>2. f[i] = q[p] /\ Digits[i] = s[p]
    BY <1>5, <1>9
  <2>3. Decimal[Digits[i]] = Remainder(q[p]) /\ Remainder(q[p]) \in Int
    <3>1. s[p] = Zero + Remainder(q[p]) /\ Remainder(q[p]) \in 0 .. 9
      BY <1>7, <2>1
    <3>2. Remainder(q[p]) \in Int
      BY <3>1
    <3>3. Decimal[Zero + Remainder(q[p])] = Remainder(q[p])
      <4> HIDE DEF p
      <4> QED
        BY <1>3, <3>1, DigitValues
    <3> QED
      BY <2>2, <3>1, <3>2, <3>3
  <2>4. f[i - 1] = Quotient(q[p])
    <3>1. CASE i = 1
      <4>1. p = First /\ i - 1 = 0
        BY <1>3, <3>1
      <4> QED
        BY <1>8, <1>9, <4>1
    <3>2. CASE i # 1
      <4>1. i - 1 \in 1 .. n /\ First + (i - 1) - 1 = p - 1
        BY <1>3, <3>2
      <4>2. p - 1 \in First .. Last - 1 /\ (p - 1) + 1 = p
        BY <1>3, <3>2
      <4>3. f[i - 1] = q[p - 1]
        <5> HIDE DEF f, n, p
        <5> QED
          BY <1>9, <4>1
      <4>4. q[p - 1] = Quotient(q[(p - 1) + 1])
        <5> HIDE DEF p
        <5> QED
          BY <1>1, <4>2 DEF Divided
      <4> QED
        BY <4>2, <4>3, <4>4
    <3> QED
      BY <3>1, <3>2
  <2>5. q[p] = 10 * Quotient(q[p]) + Remainder(q[p]) /\ Quotient(q[p]) \in Int
    BY <1>7, <2>1
  <2> HIDE DEF f, p, n
  <2> QED
    BY <2>2, <2>3, <2>4, <2>5
<1>11. f = [i \in 0 .. n |-> IF i = 0 THEN 0 ELSE f[i - 1] * 10 + Decimal[Digits[i]]]
  <2>1. \A i \in 0 .. n : i # 0 => i \in 1 .. n
    BY <1>4
  <2>2. f = [i \in 0 .. n |-> f[i]]
    OBVIOUS
  <2> HIDE DEF f, n
  <2> QED
    BY <1>9, <1>10, <2>1, <2>2
<1>12. Reads(Digits, 10, Decimal) = f[n]
  <2> HIDE DEF f, n
  <2> QED
    BY <1>4, <1>5, <1>11, ReadsAs
<1>13. f[n] = q[Last]
  <2>1. n \in 1 .. n
    BY <1>4
  <2> HIDE DEF f, n
  <2> QED
    BY <1>4, <1>9, <2>1
<1>14. q[Last] = Size(v)
  BY <1>1, <1>3, StartFits DEF Divided
<1>15. Digits[1] = Zero => Len(Digits) = 1
  <2> SUFFICES ASSUME Digits[1] = Zero
               PROVE  Len(Digits) = 1
    OBVIOUS
  <2>1. First \in First .. Last /\ First + 1 - 1 = First
    BY <1>3
  <2>2. Digits[1] = s[First]
    <3>1. 1 \in 1 .. n
      BY <1>4
    <3> QED
      BY <1>5, <2>1, <3>1
  <2>3. q[First] = 0
    BY <1>7, <1>8, <2>1, <2>2 DEF Zero
  <2>4. First = Last
    BY <1>6, <2>1, <2>3
  <2> QED
    BY <1>3, <1>5, <2>4
<1>16. v < 0 => PrintedNumber[1] = Minus
  BY <1>2, <1>5 DEF NumberKinds
<1> QED
  BY <1>12, <1>13, <1>14, <1>15, <1>16

LEMMA QuotientUnique ==
  ASSUME NEW n \in Int, NEW d \in Nat \ {0}, NEW a \in Int, NEW r \in 0 .. d - 1,
         n = d * a + r
  PROVE  n \div d = a
<1> DEFINE b == n \div d
           t == n % d
<1>1. b \in Int /\ t \in Int /\ t >= 0 /\ t < d /\ n = d * b + t
  OBVIOUS
<1>2. d * (a - b) = t - r
  <2>1. d * (a - b) = d * a - d * b
    BY <1>1
  <2> HIDE DEF b, t
  <2>2. d * a \in Int /\ d * b \in Int
    BY <1>1
  <2> QED
    BY <1>1, <2>1, <2>2
<1> HIDE DEF b, t
<1>3. ~(a - b >= 1)
  <2> SUFFICES ASSUME a - b >= 1
               PROVE  FALSE
    OBVIOUS
  <2>1. d * (a - b) >= d
    BY <1>1
  <2> QED
    BY <1>1, <1>2, <2>1
<1>4. ~(a - b <= -1)
  <2> SUFFICES ASSUME a - b <= -1
               PROVE  FALSE
    OBVIOUS
  <2>1. d * (a - b) <= -d
    BY <1>1
  <2> QED
    BY <1>1, <1>2, <2>1
<1>5. a = b
  BY <1>1, <1>3, <1>4
<1> QED
  BY <1>5 DEF b

LEMMA DivideTwice ==
  ASSUME NEW n \in Nat, NEW d \in Nat \ {0}
  PROVE  (n \div d) \div 256 = n \div (256 * d)
<1> DEFINE a == n \div d
           r == n % d
           b == a \div 256
           c == a % 256
<1>1. a \in Int /\ r \in Int /\ r >= 0 /\ r < d /\ n = d * a + r
  OBVIOUS
<1> HIDE DEF a, r
<1>2. b \in Int /\ c \in Int /\ c >= 0 /\ c <= 255 /\ a = 256 * b + c
  BY <1>1
<1> HIDE DEF b, c
<1>3. n = (256 * d) * b + (d * c + r)
  <2>1. d * a = d * (256 * b) + d * c
    BY <1>2
  <2>2. d * (256 * b) = (256 * d) * b
    BY <1>2
  <2>3. d * c \in Int /\ (256 * d) * b \in Int
    BY <1>2
  <2> QED
    BY <1>1, <2>1, <2>2, <2>3
<1>4. d * c + r \in 0 .. 256 * d - 1
  <2>1. d * c >= 0 /\ d * c <= d * 255 /\ d * c \in Int
    BY <1>2
  <2> QED
    BY <1>1, <2>1
<1>5. 256 * d \in Nat \ {0}
  OBVIOUS
<1>6. n \div (256 * d) = b
  BY <1>2, <1>3, <1>4, <1>5, QuotientUnique
<1> QED
  BY <1>6 DEF a, b

(* The bits of the number, without its last k bytes.                       *)
Above(k) == (v % Modulus) \div Power[k]

LEMMA BytesMakeNumber ==
  ASSUME type \in Types, v \in Values
  PROVE  /\ Above(0) = v % Modulus /\ Above(type.bytes) = 0
         /\ \A k \in 0 .. type.bytes :
              Above(k) \in Nat
         /\ \A k \in 0 .. type.bytes - 1 :
              Byte(v, k) \in 0 .. 255 /\ Above(k) = 256 * Above(k + 1) + Byte(v, k)
<1> DEFINE u == v % Modulus
<1>1. /\ type.bytes \in 1 .. 8 /\ Modulus \in Nat \ {0} /\ v \in Int
      /\ Modulus = Power[type.bytes]
  BY TypeRange, ValueRange DEF Modulus
<1>2. u \in Nat /\ u < Modulus
  BY <1>1
<1>3. \A k \in 0 .. type.bytes : Above(k) = u \div Power[k]
  BY DEF Above
<1> HIDE DEF u
<1>4. \A k \in 0 .. type.bytes : Power[k] \in Nat \ {0}
  <2>1. \A k \in 0 .. type.bytes : k \in 0 .. 8
    BY <1>1
  <2> QED
    BY <2>1, PowerValues
<1>5. \A k \in 0 .. type.bytes : Above(k) \in Nat
  <2> TAKE k \in 0 .. type.bytes
  <2>1. Power[k] \in Nat \ {0} /\ Above(k) = u \div Power[k]
    BY <1>3, <1>4
  <2>2. u \div Power[k] \in Nat
    BY <1>2, <2>1
  <2> QED
    BY <2>1, <2>2
<1>6. Above(0) = u
  <2>1. 0 \in 0 .. type.bytes /\ Power[0] = 1
    BY <1>1, PowerValues
  <2>2. u \div 1 = u
    BY <1>2
  <2> QED
    BY <1>3, <2>1, <2>2
<1>7. Above(type.bytes) = 0
  <2>1. u \div Modulus = 0
    <3>1. u = Modulus * 0 + u /\ u \in 0 .. Modulus - 1
      BY <1>1, <1>2
    <3> QED
      BY <1>1, <1>2, <3>1, QuotientUnique
  <2>2. type.bytes \in 0 .. type.bytes
    BY <1>1
  <2> QED
    BY <1>1, <1>3, <2>1, <2>2
<1>8. ASSUME NEW k \in 0 .. type.bytes - 1
      PROVE  Byte(v, k) \in 0 .. 255 /\ Above(k) = 256 * Above(k + 1) + Byte(v, k)
  <2>1. k \in 0 .. type.bytes /\ k + 1 \in 0 .. type.bytes /\ k \in 0 .. 7
    BY <1>1
  <2>2. Byte(v, k) = (Above(k) % 256)
    BY DEF Byte, Above
  <2>3. Above(k) \in Nat
    BY <1>5, <2>1
  <2>4. Power[k + 1] = 256 * Power[k] /\ Power[k] \in Nat \ {0}
    BY <1>4, <2>1, PowerValues
  <2>5. (u \div Power[k]) \div 256 = u \div (256 * Power[k])
    BY <1>2, <2>4, DivideTwice
  <2>6. Above(k + 1) = Above(k) \div 256
    BY <1>3, <2>1, <2>4, <2>5
  <2>7. Above(k) = 256 * (Above(k) \div 256) + (Above(k) % 256) /\ (Above(k) % 256) \in 0 .. 255
    BY <2>3
  <2> QED
    BY <2>2, <2>6, <2>7
<1> QED
  BY <1>5, <1>6, <1>7, <1>8 DEF u

LEMMA HexReadsBack ==
  ASSUME type \in Types, v \in Values
  PROVE  HexPrintsBits
<1> DEFINE n == 2 * type.bytes
           shown == [i \in 1 .. n |-> Hex(v)[i - 1]]
<1>1. type.bytes \in 1 .. 8 /\ n \in Nat
  <2>1. type.bytes \in 1 .. 8
    BY TypeRange
  <2> QED
    BY <2>1
<1>2. \A i \in 1 .. n : i - 1 \in 0 .. n - 1
  BY <1>1
<1>3. Len(shown) = n
  <2> DEFINE Chr == {Hex(v)[i - 1] : i \in 1 .. n}
  <2>1. shown \in [1 .. n -> Chr]
    OBVIOUS
  <2> HIDE DEF shown, Chr
  <2> QED
    BY <1>1, <2>1, SeqOf
<1> DEFINE f == [i \in 0 .. n |->
                   IF i % 2 = 0 THEN Above(type.bytes - (i \div 2))
                   ELSE Above(type.bytes - (i \div 2)) * 16
                        + (Byte(v, type.bytes - (i \div 2) - 1) \div 16)]
<1>4. \A k \in 0 .. type.bytes - 1 :
        /\ Hexadecimal[shown[2 * k + 1]] = Byte(v, type.bytes - k - 1) \div 16
        /\ Hexadecimal[shown[2 * k + 2]] = (Byte(v, type.bytes - k - 1) % 16)
  <2> SUFFICES ASSUME NEW k \in 0 .. type.bytes - 1
               PROVE  /\ Hexadecimal[shown[2 * k + 1]] = Byte(v, type.bytes - k - 1) \div 16
                      /\ Hexadecimal[shown[2 * k + 2]] = (Byte(v, type.bytes - k - 1) % 16)
    OBVIOUS
  <2> DEFINE b == Byte(v, type.bytes - k - 1)
  <2>1. b \in 0 .. 255
    <3>1. type.bytes - k - 1 \in 0 .. type.bytes - 1
      BY <1>1
    <3> QED
      BY <3>1, BytesMakeNumber
  <2>2. /\ 2 * k \in 0 .. n - 1 /\ (2 * k) \div 2 = k /\ (2 * k) % 2 = 0
        /\ 2 * k + 1 \in 0 .. n - 1 /\ (2 * k + 1) \div 2 = k /\ (2 * k + 1) % 2 = 1
        /\ 2 * k + 1 \in 1 .. n /\ (2 * k + 1) - 1 = 2 * k
        /\ 2 * k + 2 \in 1 .. n /\ (2 * k + 2) - 1 = 2 * k + 1
    BY <1>1
  <2>3. HexPosition(2 * k) = type.bytes - k - 1 /\ HexPosition(2 * k + 1) = type.bytes - k - 1
    BY <2>2 DEF HexPosition
  <2>4. Hex(v)[2 * k] = Nibble(b \div 16)
    BY <2>2, <2>3 DEF Hex
  <2>5. Hex(v)[2 * k + 1] = Nibble(b % 16)
    BY <2>2, <2>3 DEF Hex
  <2>6. shown[2 * k + 1] = Nibble(b \div 16) /\ shown[2 * k + 2] = Nibble(b % 16)
    BY <2>2, <2>4, <2>5
  <2> HIDE DEF shown
  <2>7. b \div 16 \in 0 .. 15 /\ (b % 16) \in 0 .. 15
    <3> HIDE DEF b
    <3> QED
      BY <2>1
  <2> QED
    BY <2>6, <2>7, DigitValues
<1>5. /\ f[0] = 0
      /\ \A k \in 0 .. type.bytes - 1 :
           /\ f[2 * k] = Above(type.bytes - k)
           /\ f[2 * k + 1] = Above(type.bytes - k) * 16 + (Byte(v, type.bytes - k - 1) \div 16)
           /\ f[2 * k + 2] = Above(type.bytes - k - 1)
  <2>1. ASSUME NEW k \in 0 .. type.bytes - 1
        PROVE  /\ f[2 * k] = Above(type.bytes - k)
               /\ f[2 * k + 1] = Above(type.bytes - k) * 16 + (Byte(v, type.bytes - k - 1) \div 16)
               /\ f[2 * k + 2] = Above(type.bytes - k - 1)
    <3>1. /\ 2 * k \in 0 .. n /\ (2 * k) \div 2 = k /\ (2 * k) % 2 = 0
          /\ 2 * k + 1 \in 0 .. n /\ (2 * k + 1) \div 2 = k /\ (2 * k + 1) % 2 = 1
          /\ 2 * k + 2 \in 0 .. n /\ (2 * k + 2) \div 2 = k + 1 /\ (2 * k + 2) % 2 = 0
          /\ type.bytes - (k + 1) = type.bytes - k - 1
      BY <1>1
    <3>2. f[2 * k] = Above(type.bytes - k)
      BY <3>1
    <3>3. f[2 * k + 1] = Above(type.bytes - k) * 16 + (Byte(v, type.bytes - k - 1) \div 16)
      BY <3>1
    <3>4. f[2 * k + 2] = Above(type.bytes - k - 1)
      BY <3>1
    <3> QED
      BY <3>2, <3>3, <3>4
  <2>2. 0 \in 0 .. type.bytes - 1 /\ 2 * 0 = 0 /\ type.bytes - 0 = type.bytes
    BY <1>1
  <2> HIDE DEF f
  <2> QED
    BY <2>1, <2>2, BytesMakeNumber
<1>6. \A k \in 0 .. type.bytes - 1 :
        /\ f[2 * k + 1] = f[2 * k] * 16 + Hexadecimal[shown[2 * k + 1]]
        /\ f[2 * k + 2] = f[2 * k + 1] * 16 + Hexadecimal[shown[2 * k + 2]]
  <2> HIDE DEF f, shown, n
  <2> SUFFICES ASSUME NEW k \in 0 .. type.bytes - 1
               PROVE  /\ f[2 * k + 1] = f[2 * k] * 16 + Hexadecimal[shown[2 * k + 1]]
                      /\ f[2 * k + 2] = f[2 * k + 1] * 16 + Hexadecimal[shown[2 * k + 2]]
    OBVIOUS
  <2> DEFINE b == Byte(v, type.bytes - k - 1)
             a == Above(type.bytes - k)
             c == Above(type.bytes - k - 1)
  <2>1. b \in 0 .. 255 /\ a \in Nat /\ c = 256 * a + b
    <3>1. /\ type.bytes - k - 1 \in 0 .. type.bytes - 1
          /\ (type.bytes - k - 1) + 1 = type.bytes - k
          /\ type.bytes - k \in 0 .. type.bytes
      BY <1>1
    <3> QED
      BY <3>1, BytesMakeNumber
  <2>2. /\ f[2 * k] = a /\ f[2 * k + 1] = a * 16 + (b \div 16) /\ f[2 * k + 2] = c
        /\ Hexadecimal[shown[2 * k + 1]] = b \div 16
        /\ Hexadecimal[shown[2 * k + 2]] = (b % 16)
    BY <1>4, <1>5
  <2> HIDE DEF a, b, c
  <2>3. b = 16 * (b \div 16) + (b % 16) /\ b \div 16 \in Int /\ (b % 16) \in Int
    BY <2>1
  <2>4. c = (a * 16 + (b \div 16)) * 16 + (b % 16)
    BY <2>1, <2>3
  <2> QED
    BY <2>2, <2>4
<1>7. \A i \in 1 .. n : f[i] = f[i - 1] * 16 + Hexadecimal[shown[i]]
  <2> SUFFICES ASSUME NEW i \in 1 .. n
               PROVE  f[i] = f[i - 1] * 16 + Hexadecimal[shown[i]]
    OBVIOUS
  <2>1. \E k \in 0 .. type.bytes - 1 :
          \/ i = 2 * k + 1 /\ i - 1 = 2 * k
          \/ i = 2 * k + 2 /\ i - 1 = 2 * k + 1
    <3>1. (i - 1) \div 2 \in 0 .. type.bytes - 1
      BY <1>1
    <3>2. \/ i = 2 * ((i - 1) \div 2) + 1 /\ i - 1 = 2 * ((i - 1) \div 2)
          \/ i = 2 * ((i - 1) \div 2) + 2 /\ i - 1 = 2 * ((i - 1) \div 2) + 1
      BY <1>1
    <3> QED
      BY <3>1, <3>2
  <2> HIDE DEF f, shown, n
  <2> QED
    BY <1>6, <2>1
<1>8. f = [i \in 0 .. n |-> IF i = 0 THEN 0 ELSE f[i - 1] * 16 + Hexadecimal[shown[i]]]
  <2>1. \A i \in 0 .. n : i # 0 => i \in 1 .. n
    BY <1>1
  <2>2. f = [i \in 0 .. n |-> f[i]]
    OBVIOUS
  <2> HIDE DEF f, n, shown
  <2> QED
    BY <1>5, <1>7, <2>1, <2>2
<1>9. Reads(shown, 16, Hexadecimal) = f[n]
  <2> HIDE DEF f, n, shown
  <2>1. Len(shown) \in Nat
    BY <1>1, <1>3
  <2>2. f = [i \in 0 .. Len(shown) |->
              IF i = 0 THEN 0 ELSE f[i - 1] * 16 + Hexadecimal[shown[i]]]
    BY <1>3, <1>8
  <2>3. Reads(shown, 16, Hexadecimal) = f[Len(shown)]
    BY <2>1, <2>2, ReadsAs
  <2> QED
    BY <1>3, <2>3
<1>10. f[n] = v % Modulus
  <2>1. /\ type.bytes - 1 \in 0 .. type.bytes - 1 /\ 2 * (type.bytes - 1) + 2 = n
        /\ type.bytes - (type.bytes - 1) - 1 = 0
    BY <1>1
  <2> HIDE DEF f, n
  <2>2. f[n] = Above(0)
    BY <1>5, <2>1
  <2> QED
    BY <2>2, BytesMakeNumber
<1> QED
  BY <1>9, <1>10 DEF HexPrintsBits

(* Whatever type the number has, and whatever negativ began with, its      *)
(* decimal text reads back as the number but for the two failures of       *)
(* signed types, its hexadecimal text as its bits, and each character is   *)
(* put in the buffer (print.h:61-117).                                     *)
THEOREM NumbersAreRead == NumbersSpec => []NumbersReadBack
<1>1. NumbersInv => NumbersReadBack
  <2> SUFFICES ASSUME NumbersInv
               PROVE  NumbersReadBack
    OBVIOUS
  <2>1. NumberKinds /\ Places
    BY DEF NumbersInv
  <2>2. type \in Types /\ v \in Values /\ negativ \in BOOLEAN
    BY <2>1 DEF NumberKinds
  <2>3. /\ Last \in {19, 20} /\ index \in 0 .. Last /\ First \in Lowest .. Last
        /\ Lowest \in {0, 2} /\ (Signed => Lowest = 2)
    BY <2>1, <2>2, TypeRange DEF NumberKinds, Places, Lowest, Signed
  <2>4. DOMAIN s \subseteq 0 .. Last
    <3>1. Written \in Int /\ Written >= First /\ DOMAIN s = Written .. Last \union (IF Signed THEN {First - 1} ELSE {})
      BY <2>1, <2>3 DEF Written, Places
    <3> QED
      BY <2>3, <3>1
  <2>5. pc = "done" => Last - index .. Last = DOMAIN s
    <3> SUFFICES ASSUME pc = "done"
                 PROVE  Last - index .. Last = DOMAIN s
      OBVIOUS
    <3>1. CASE negativ
      <4>1. Signed /\ Written = First /\ First = Last - index + 1
        BY <3>1 DEF Signed, Written, First
      <4>2. DOMAIN s = First .. Last \union {First - 1}
        BY <2>1, <4>1 DEF Places
      <4> QED
        BY <2>3, <4>1, <4>2
    <3>2. CASE ~negativ
      <4>1. ~Signed /\ Written = First /\ First = Last - index
        BY <3>2 DEF Signed, Written, First
      <4> QED
        BY <2>1, <2>3, <4>1 DEF Places
    <3> QED
      BY <2>2, <3>1, <3>2
  <2>6. value \in Values
    <3>1. PICK q \in Quotients : Divided(q)
      BY DEF NumbersInv
    <3>2. First \in First .. Last
      BY <2>3
    <3> QED
      BY <3>1, <3>2 DEF Quotients, Divided
  <2>7. NumbersTypeOK
    BY <2>1, <2>2, <2>3, <2>4, <2>5, <2>6 DEF NumbersTypeOK, NumberKinds
  <2> QED
    BY <2>2, <2>7, DecimalReadsBack, HexReadsBack DEF NumbersReadBack
<1> QED
  BY <1>1, NumbersInvariant, PTL

===============================================================================
