------------------------------ MODULE TextDrawer ------------------------------
(***************************************************************************)
(* The kernel's text output: a cursor, glyphs drawn over what is on the    *)
(* framebuffer, and scrolling by copying the framebuffer onto itself.  The *)
(* framebuffer is seen in columns of 8 pixels and bands of 4 pixel rows; a *)
(* glyph is four bands high.  Four rows are what one scroll clears: the    *)
(* memset for 32-bit values advances by one byte per value.                *)
(***************************************************************************)
EXTENDS Naturals

CONSTANTS
  Columns,   \* fb.Width / 8
  Bands,     \* fb.Height / 4; BufferSize is PixelsPerScanLine * Height * 4
  Chars

GlyphBands == 4

ASSUME TextDrawerAssumption ==
  /\ Columns \in Nat \ {0}
  /\ Bands \in Nat /\ Bands >= GlyphBands

Blank == "blank"

ASSUME CharsAssumption == Blank \notin Chars

VARIABLES
  pos,      \* the cursor: column and band
  pixels,   \* the characters parts of whose glyphs are in a column of a band
  text      \* history: the line and column characters were printed to,
            \* lines counted from the one at the top of the screen

vars == <<pos, pixels, text>>

Lines == Bands \div GlyphBands

Screen == (0 .. Bands - 1) \X (0 .. Columns - 1)

-------------------------------------------------------------------------------
(* Glyphs are drawn over what is there.                                    *)
putChar(screen, char, at) ==
  [cell \in Screen |->
     IF cell[2] = at.x /\ cell[1] \in at.y .. at.y + GlyphBands - 1
     THEN screen[cell] \union {char} ELSE screen[cell]]

(* Scrolling: memcpy moves the rows below the first sixteen up, memset     *)
(* clears the first quarter of the last sixteen.                           *)
CopiedUp(screen) ==
  [cell \in Screen |->
     IF cell[1] < Bands - GlyphBands THEN screen[<<cell[1] + GlyphBands, cell[2]>>]
     ELSE screen[cell]]

(* Mutants: the scrolled screen is not cleared, is cleared a line too high.*)
ScrolledUncleared(screen) == CopiedUp(screen)

ScrolledClearsAbove(screen) ==
  [cell \in Screen |->
     IF cell[1] = Bands - 2 * GlyphBands THEN {} ELSE CopiedUp(screen)[cell]]

Scrolled(screen) ==
  [cell \in Screen |->
     IF cell[1] = Bands - GlyphBands THEN {} ELSE CopiedUp(screen)[cell]]

(* Mutant: the height of the glyph is counted in pixel rows.               *)
OffScreenRows(at) == at.y + 4 * GlyphBands > Bands

OffScreen(at) == at.y + GlyphBands > Bands

NewLine(at) == [x |-> 0, y |-> at.y + GlyphBands]

(* Mutant: the line is broken one character late.                          *)
AdvanceLate(at) ==
  IF at.x + 1 > Columns THEN NewLine(at) ELSE [at EXCEPT !.x = @ + 1]

Advance(at) ==
  IF at.x + 2 > Columns THEN NewLine(at) ELSE [at EXCEPT !.x = @ + 1]

ScrolledText(lines) ==
  [l \in 0 .. Lines - 1 |->
     IF l < Lines - 1 THEN lines[l + 1] ELSE [c \in 0 .. Columns - 1 |-> Blank]]

(* The end of a round of putString's loop.                                 *)
Scroll(screen, lines, at) ==
  IF OffScreen(at)
  THEN /\ pixels' = Scrolled(screen)
       /\ pos' = [at EXCEPT !.y = @ - GlyphBands]
       /\ text' = ScrolledText(lines)
  ELSE /\ pixels' = screen
       /\ pos' = at
       /\ text' = lines

-------------------------------------------------------------------------------
(* _start clears the framebuffer and constructs KernelDrawer.              *)
Init ==
  /\ pos = [x |-> 0, y |-> 0]
  /\ pixels = [cell \in Screen |-> {}]
  /\ text = [l \in 0 .. Lines - 1 |-> [c \in 0 .. Columns - 1 |-> Blank]]

PrintNewLine == Scroll(pixels, text, NewLine(pos))

PrintChar(char) ==
  Scroll(putChar(pixels, char, pos),
         [text EXCEPT ![pos.y \div GlyphBands][pos.x] = char],
         Advance(pos))

Next == PrintNewLine \/ \E char \in Chars : PrintChar(char)

Spec == Init /\ [][Next]_vars

-------------------------------------------------------------------------------
(* Types of the drawer's state (print.h:55-59).                            *)
TypeOK ==
  /\ pos \in [x : Nat, y : Nat]
  /\ pixels \in [Screen -> SUBSET Chars]
  /\ text \in [0 .. Lines - 1 -> [0 .. Columns - 1 -> Chars \union {Blank}]]

(* putChar, which checks nothing, is only called with a cell of the        *)
(* framebuffer, aligned to a text line.                                    *)
CursorOnScreen ==
  /\ pos.x + 1 <= Columns
  /\ pos.y + GlyphBands <= Bands
  /\ pos.y % GlyphBands = 0

Shown(line, band, column) == pixels[<<line * GlyphBands + band, column>>]

Printed(line, column) == {text[line][column]} \ {Blank}

(* Every character of the lines on the screen is drawn in full where it    *)
(* was printed, through any number of line breaks and scrolls.             *)
TextIsDrawn ==
  \A line \in 0 .. Lines - 1, column \in 0 .. Columns - 1, band \in 0 .. GlyphBands - 1 :
    Printed(line, column) \subseteq Shown(line, band, column)

(* The bands in which nothing else is drawn: the rows below the last line  *)
(* and the one band that is cleared.  The others of a line show the line   *)
(* that was at the bottom before, too.                                     *)
CleanBands == 0 .. Bands % GlyphBands

TextIsClear ==
  \A line \in 0 .. Lines - 1, column \in 0 .. Columns - 1, band \in CleanBands :
    Shown(line, band, column) = Printed(line, column)

===============================================================================
