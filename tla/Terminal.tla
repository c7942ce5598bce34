------------------------------ MODULE Terminal ------------------------------
(***************************************************************************)
(* The text console (terminal/console.rs) over the framebuffer, with its   *)
(* built-in bitmap font.  Every entry point holds CONSOLE_LOCK with        *)
(* interrupts off, so each is one step.                                    *)
(*                                                                         *)
(* Positions are pixels: x is the left edge of a cell, y its baseline.     *)
(* Instead of pixels the screen holds the glyphs that were drawn and not   *)
(* cleared since, and the carets.  A glyph stands here for ink right of    *)
(* the two pixel columns a caret covers and below its two top rows; the    *)
(* font has a few wider ones (a T), and what a caret or a clear one pixel  *)
(* off takes of those is left out.  A line scrolled past the top is        *)
(* forgotten.                                                              *)
(***************************************************************************)
EXTENDS Integers, SequencesExt

CONSTANTS
    Width,              \* of the framebuffer, in pixels
    Heights             \* and the heights it may have

VARIABLES
    height,             \* the framebuffer's, fixed at boot
    term                \* CONSOLE and SAVED_CURSOR

CharWidth == 14         \* bitmap::CHAR_WIDTH

LineHeight == 28        \* bitmap::CHAR_HEIGHT

Descent == 6            \* CHAR_HEIGHT - ASCENT

Ascent == LineHeight - Descent

CaretWidth == 2

Smaller(a, b) == IF a < b THEN a ELSE b

Larger(a, b) == IF a > b THEN a ELSE b

Damaged == "damaged"    \* a glyph of which only a part is left

\* console_size: columns and rows as the programs are told.
ConsoleCols == Width \div CharWidth

ConsoleRows == height \div LineHeight

BlankTerminal ==
    [x |-> 0, y |-> LineHeight, esc |-> "Normal", params |-> <<0, 0, 0, 0>>, count |-> 0,
     glyphs |-> {}, carets |-> {}, saved |-> [x |-> 0, y |-> 0]]

TermInit == height \in Heights /\ term = BlankTerminal

-----------------------------------------------------------------------------
(* The framebuffer.                                                        *)

\* Pixels [from, to) of a glyph or caret inside pixels [low, high)
Covered(from, to, low, high) == low <= from /\ to <= high

Apart(from, to, low, high) == to <= low \/ high <= from

\* clear_rect: what lies inside goes, what is cut is damaged.
ClearRect(t, x, y, w, h) ==
    LET right == Smaller(x + w, Width)
        bottom == Smaller(y + h, height)
        Left(g) == g.x + CaretWidth
        Top(g) == g.y - Ascent + CaretWidth
        Right(g) == Smaller(g.x + CharWidth, Width)
        Bottom(g) == Smaller(g.y + Descent, height)
        whole(g) == /\ Covered(Left(g), Right(g), x, right)
                    /\ Covered(Top(g), Bottom(g), y, bottom)
        none(g) == \/ Apart(Left(g), Right(g), x, right)
                   \/ Apart(Top(g), Bottom(g), y, bottom)
    IN  [t EXCEPT
            !.glyphs = {IF none(g) THEN g ELSE [g EXCEPT !.ch = Damaged] :
                            g \in {k \in @ : ~whole(k)}},
            !.carets = {p \in @ :
                ~ /\ Covered(p.x, Smaller(p.x + CaretWidth, Width), x, right)
                  /\ Covered(p.y - Ascent, Smaller(p.y + Descent, height), y, bottom)}]

\* FramebufferInfo::clear
ClearAll(t) == [t EXCEPT !.glyphs = {}, !.carets = {}]

\* FramebufferInfo::scroll_up
ScrollUp(t, n) ==
    [t EXCEPT !.glyphs = {[g EXCEPT !.y = @ - n] : g \in {k \in @ : k.y > n}},
              !.carets = {[p EXCEPT !.y = @ - n] : p \in {k \in @ : k.y > n}}]

\* draw_cursor: nothing of a caret past the right or the bottom edge is seen.
DrawCursor(t, p, visible) ==
    [t EXCEPT !.carets = IF visible /\ p.x < Width /\ p.y - Ascent < height
                         THEN @ \cup {p} ELSE @ \ {p}]

-----------------------------------------------------------------------------
(* Console: characters.                                                    *)

Position(t) == [x |-> t.x, y |-> t.y]

\* newline: the scroll takes back the line it moved down.
Newline(t) ==
    IF t.y + LineHeight >= height
    THEN [ScrollUp(t, LineHeight) EXCEPT !.x = 0]
    ELSE [t EXCEPT !.x = 0, !.y = @ + LineHeight]

\* The pixel rows of the current line that erase_to_end_of_line and
\* clear_cell clear: one more than the glyphs have.
LineTop(t) == Larger(t.y - Ascent, 0)

LineRows(t) == Larger(Smaller(t.y + Descent + 1, height) - LineTop(t), 1)

EraseNothing(t) == t

EraseToEndOfLine(t) ==
    IF t.x < Width THEN ClearRect(t, t.x, LineTop(t), Width - t.x, LineRows(t)) ELSE t

\* clear_cell: one pixel column more than the cell, in the next one's margin.
ClearCell(t) ==
    IF t.x < Width
    THEN ClearRect(t, t.x, LineTop(t), Smaller(CharWidth + 1, Width - t.x), LineRows(t))
    ELSE t

\* Glyphs are clipped to the screen; a space has no ink.
PutGlyph(t, c) ==
    IF c = " " \/ t.x + CaretWidth >= Width \/ t.y - Ascent + CaretWidth >= height THEN t
    ELSE [t EXCEPT !.glyphs = @ \cup {[x |-> t.x, y |-> t.y, ch |-> c]}]

\* draw_char: wrap, make room below, clear the cell, draw, advance.
DrawChar(t, c) ==
    LET wrapped == IF t.x + CharWidth >= Width THEN Newline(t) ELSE t
        placed == IF wrapped.y + Descent >= height THEN Newline(wrapped) ELSE wrapped
    IN  [PutGlyph(ClearCell(placed), c) EXCEPT !.x = @ + CharWidth]

-----------------------------------------------------------------------------
(* Console: escape sequences.                                              *)

Digits == <<"0", "1", "2", "3", "4", "5", "6", "7", "8", "9">>

DigitValue(c) == (CHOOSE i \in DOMAIN Digits : Digits[i] = c) - 1

\* A parameter that is 0 or missing counts as 1.
AtLeastOne(n) == Larger(n, 1)

\* csi_dispatch.  A J below the screen clears nothing.
CsiDispatch(t, cmd) ==
    LET p0 == t.params[1]
        p1 == t.params[2]
    IN  CASE cmd = "J" /\ p0 \in {2, 3} -> [ClearAll(t) EXCEPT !.x = 0, !.y = LineHeight]
          [] cmd = "J" /\ p0 = 1 -> ClearRect(t, 0, 0, Width, LineTop(t))
          [] cmd = "J" /\ p0 \notin {1, 2, 3} ->
                ClearRect(t, 0, LineTop(t), Width, Larger(height - LineTop(t), 0))
          [] cmd = "K" -> EraseToEndOfLine(t)
          [] cmd \in {"H", "f"} ->
                [t EXCEPT !.x = (AtLeastOne(p1) - 1) * CharWidth,
                          !.y = LineHeight + (AtLeastOne(p0) - 1) * LineHeight]
          [] cmd = "A" -> [t EXCEPT !.y = Larger(@ - AtLeastOne(p0) * LineHeight, LineHeight)]
          [] cmd = "B" -> [t EXCEPT !.y = Smaller(@ + AtLeastOne(p0) * LineHeight, height - Descent)]
          [] cmd = "C" -> [t EXCEPT !.x = Smaller(@ + AtLeastOne(p0) * CharWidth, Width)]
          [] cmd = "D" -> [t EXCEPT !.x = Larger(@ - AtLeastOne(p0) * CharWidth, 0)]
          [] OTHER -> t

MaxParam == 65535       \* u16, saturating

\* process_char in each state of the parser
InNormal(t, c) ==
    CASE c = "LF" -> Newline(t)
      [] c = "CR" -> [t EXCEPT !.x = 0]
      [] c = "BS" -> [t EXCEPT !.x = Larger(@ - CharWidth, 0)]
      [] c = "ESC" -> [t EXCEPT !.esc = "Esc"]
      [] OTHER -> DrawChar(t, c)

InEsc(t, c) ==
    IF c = "[" THEN [t EXCEPT !.esc = "Csi", !.params = <<0, 0, 0, 0>>, !.count = 0]
    ELSE [t EXCEPT !.esc = "Normal"]

InCsi(t, c) ==
    CASE c \in Range(Digits) ->
            [t EXCEPT !.params[Smaller(t.count, 3) + 1] =
                Smaller(Smaller(@ * 10, MaxParam) + DigitValue(c), MaxParam)]
      [] c = ";" -> [t EXCEPT !.count = Smaller(@ + 1, 3)]
      [] OTHER -> [CsiDispatch([t EXCEPT !.count = @ + 1], c) EXCEPT !.esc = "Normal"]

ProcessChar(t, c) ==
    CASE t.esc = "Normal" -> InNormal(t, c)
      [] t.esc = "Esc" -> InEsc(t, c)
      [] t.esc = "Csi" -> InCsi(t, c)

\* print
PrintTo(t, text) == FoldLeft(ProcessChar, t, text)

-----------------------------------------------------------------------------
(* The entry points.                                                       *)

\* screen_print, what SYS_WRITE to the console does: the old caret goes, a new
\* one is drawn where the text ends.
ScreenPrint(text) ==
    LET printed == PrintTo(DrawCursor(term, term.saved, FALSE), text)
    IN  term' = DrawCursor([printed EXCEPT !.saved = Position(printed)], Position(printed), TRUE)

\* _println: the kernel's own messages leave the caret alone.
KernelPrintln(text) == term' = Newline(PrintTo(term, text))

\* save_cursor_pos, restore_cursor_pos, draw_saved_cursor
CursorSave == term' = [DrawCursor(term, term.saved, FALSE) EXCEPT !.saved = Position(term)]

CursorRestore == term' = [term EXCEPT !.x = term.saved.x, !.y = term.saved.y]

CursorDraw(visible) == term' = DrawCursor(term, term.saved, visible)

-----------------------------------------------------------------------------
(* What is on the screen.                                                  *)

\* Baselines of the rows that H addresses, counted from 1
Baseline(row) == row * LineHeight

\* Row `row` shows exactly this text.
RowShows(row, text) ==
    {g \in term.glyphs : g.y = Baseline(row)} =
    {[x |-> (i - 1) * CharWidth, y |-> Baseline(row), ch |-> text[i]] :
        i \in {k \in DOMAIN text : text[k] # " "}}
=============================================================================
