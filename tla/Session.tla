------------------------------- MODULE Session ------------------------------
(***************************************************************************)
(* What a user at the console sees: the shell's line editor                *)
(* (programs/shell.rs) and the two full-screen programs it runs, the pager *)
(* (programs/less.rs) and the process monitor (programs/ktop.rs), writing  *)
(* to the terminal, between whose writes the kernel prints messages.       *)
(*                                                                         *)
(* A program's writes wait in `out`; each reaches the terminal in a step   *)
(* of its own, as do the chunks of 256 bytes in which print_user_bytes     *)
(* passes a long write on, and the program goes on when all have.  A text  *)
(* is a sequence of characters; widths are chosen so that a program's own  *)
(* lines fit a row.                                                        *)
(***************************************************************************)
EXTENDS Terminal, FiniteSets

CONSTANTS
    Chars,          \* printable characters that are typed
    BufSize,        \* BUF_SIZE: one more than the longest line
    MaxHistory,     \* MAX_HISTORY
    ChunkMax,       \* keys one read returns: 1 on the console, 32 on a pipe
    Prompt,         \* PROMPT
    Outputs,        \* what an ordinary command writes
    LessName,       \* the line that runs the pager
    KtopName,       \* and the one that runs the monitor
    DocLines,       \* lines of the pager's input
    MaxRows,        \* most rows of the monitor's list
    Pasts,          \* lines entered before
    MaxTyped,       \* bound: keys read by the shell
    MaxNoise        \* bound: kernel messages

VARIABLES
    doing,      \* start, reading, running, less, ktop or exited
    out,        \* writes still to be made: [text, kind]
    line,       \* read_line: [text, pos, age, saved]
    history,    \* HISTORY and HISTORY_COUNT: [slot, count]
    top,        \* less: first line shown
    mon,        \* ktop: [scroll, total]
    entered,    \* history variable: the lines entered, oldest first
    shown,      \* history variable: what the screen was last made to show
    noise,      \* kernel messages so far
    typed       \* keys read by the shell so far

sessionVars == <<height, term, doing, out, line, history, top, mon, entered, shown, noise, typed>>

Keys == Chars \cup {"ENTER", "CTRLC", "DEL", "LEFT", "RIGHT", "UP", "DOWN"}

Nothing == [kind |-> "nothing"]

EmptyLine == [text |-> <<>>, pos |-> 0, age |-> 0, saved |-> <<>>]

HistoryLine(h, age) == h.slot[(h.count - age) % MaxHistory]

PushLate(h, text) ==
    [slot |-> [h.slot EXCEPT ![(h.count + 1) % MaxHistory] = text], count |-> h.count + 1]

\* push_history
Push(h, text) ==
    [slot |-> [h.slot EXCEPT ![h.count % MaxHistory] = text], count |-> h.count + 1]

EmptyHistory == [slot |-> [s \in 0 .. MaxHistory - 1 |-> <<>>], count |-> 0]

\* A prompt on a cleared screen, some commands after the shell started
SessionInit ==
    /\ TermInit
    /\ doing = "start" /\ out = <<>> /\ line = EmptyLine
    /\ entered \in Pasts /\ history = FoldLeft(Push, EmptyHistory, entered)
    /\ top = 0 /\ mon = [scroll |-> 0, total |-> 1]
    /\ shown = Nothing /\ noise = 0 /\ typed = 0

-----------------------------------------------------------------------------
(* Writing.                                                                *)

CrLf == <<"CR", "LF">>

ClearHome == <<"ESC", "[", "2", "J", "ESC", "[", "H">>

EraseLine == <<"ESC", "[", "K">>

Numeral(n) == IF n < 10 THEN <<Digits[n + 1]>> ELSE <<Digits[(n \div 10) + 1], Digits[(n % 10) + 1]>>

\* redraw: the whole line, then back from its end to the cursor.
Redraw(text, pos) ==
    <<"CR">> \o EraseLine \o Prompt \o text \o
    (IF pos < Len(text) THEN <<"ESC", "[">> \o Numeral(Len(text) - pos) \o <<"D">> ELSE <<>>)

LineWrite(text, pos) ==
    [kind |-> "line", text |-> Redraw(text, pos), of |-> text, pos |-> pos]

Plain(text) == [kind |-> "plain", text |-> text]

\* The first, the middle and the last writes of a frame
FrameOf(what, texts) ==
    [i \in DOMAIN texts |->
        [kind |-> IF i = 1 THEN "first" ELSE IF i = Len(texts) THEN "last" ELSE "middle",
         text |-> texts[i], what |-> what]]

\* A baseline that H addresses and where text stays
OnRow(y) == \E row \in 1 .. ConsoleRows : y = Baseline(row) /\ y + Descent < height

\* SYS_WRITE to the console.  `shown` notes a redrawn line, with whether the
\* parser and the cursor were where the editor expects them, and a frame none
\* of whose writes was disturbed.
WriteOut ==
    /\ out # <<>>
    /\ ScreenPrint(Head(out).text)
    /\ out' = Tail(out)
    /\ shown' = LET w == Head(out) IN
        CASE w.kind = "line" ->
                [kind |-> "line", text |-> w.of, pos |-> w.pos,
                 whole |-> term.esc = "Normal" /\ OnRow(term.y)]
          [] w.kind = "first" -> [kind |-> "begun"]
          [] w.kind = "middle" -> shown
          [] w.kind = "last" /\ shown.kind = "begun" -> w.what
          [] OTHER -> Nothing
    /\ UNCHANGED <<doing, line, history, top, mon, entered, noise, typed>>

\* A kernel message, printed wherever the cursor is
KernelMessage ==
    /\ noise < MaxNoise
    /\ KernelPrintln(<<"k">>)
    /\ noise' = noise + 1 /\ shown' = Nothing
    /\ UNCHANGED <<doing, out, line, history, top, mon, entered, typed>>

-----------------------------------------------------------------------------
(* The line editor.                                                        *)

Recalled(l, text, age) == [l EXCEPT !.text = text, !.pos = Len(text), !.age = age]

\* One key of read_line's loop
Edit(l, k) ==
    CASE k \in Chars /\ Len(l.text) < BufSize - 1 ->
            [l EXCEPT !.text = InsertAt(@, l.pos + 1, k), !.pos = @ + 1]
      [] k = "DEL" /\ l.pos > 0 -> [l EXCEPT !.text = RemoveAt(@, l.pos), !.pos = @ - 1]
      [] k = "LEFT" /\ l.pos > 0 -> [l EXCEPT !.pos = @ - 1]
      [] k = "RIGHT" /\ l.pos < Len(l.text) -> [l EXCEPT !.pos = @ + 1]
      [] k = "UP" /\ l.age < Smaller(history.count, MaxHistory) ->
            Recalled([l EXCEPT !.saved = IF l.age = 0 THEN l.text ELSE @],
                     HistoryLine(history, l.age + 1), l.age + 1)
      [] k = "DOWN" /\ l.age > 0 ->
            Recalled(l, IF l.age = 1 THEN l.saved ELSE HistoryLine(history, l.age - 1), l.age - 1)
      [] OTHER -> l

\* The keys of a chunk up to the one that ends the line; the rest is dropped.
Before(chunk) ==
    LET ends == {i \in DOMAIN chunk : chunk[i] \in {"ENTER", "CTRLC"}}
    IN  IF ends = {} THEN chunk
        ELSE SubSeq(chunk, 1, (CHOOSE i \in ends : \A j \in ends : i <= j) - 1)

\* Entry of read_line
StartLine ==
    /\ doing = "start" /\ out = <<>>
    /\ line' = EmptyLine /\ out' = <<LineWrite(<<>>, 0)>> /\ doing' = "reading"
    /\ UNCHANGED <<term, history, top, mon, entered, shown, noise, typed>>

\* One round of read_line's loop: a chunk of keys that leaves the line open,
\* completes it or cancels it.
Round(chunk) ==
    LET edited == FoldLeft(Edit, line, Before(chunk))
        last == IF Before(chunk) = chunk THEN "none" ELSE chunk[Len(Before(chunk)) + 1]
        text == edited.text
    IN  /\ typed' = typed + Len(chunk) /\ typed' <= MaxTyped
        /\ \/ /\ last = "none"
              /\ line' = edited /\ out' = <<LineWrite(text, edited.pos)>>
              /\ UNCHANGED <<doing, history, entered>>
           \/ /\ last = "CTRLC"
              /\ out' = <<Plain(<<"^", "C">> \o CrLf)>> /\ doing' = "start"
              /\ UNCHANGED <<line, history, entered>>
           \/ /\ last = "ENTER"
              /\ out' = <<LineWrite(text, Len(text)), Plain(CrLf)>>
              /\ line' = EmptyLine
              /\ IF text = <<>> THEN doing' = "start" /\ UNCHANGED <<history, entered>>
                 ELSE /\ history' = Push(history, text) /\ entered' = Append(entered, text)
                      /\ doing' = "running"
        /\ UNCHANGED <<term, top, mon, shown, noise>>

ReadLine ==
    /\ doing = "reading" /\ out = <<>>
    /\ \E n \in 1 .. ChunkMax : \E chunk \in [1 .. n -> Keys] : Round(chunk)

\* Ctrl+C on the console is a caught SIGINT.
CaughtSigint ==
    /\ doing = "reading" /\ out = <<>>
    /\ typed' = typed + 1 /\ typed' <= MaxTyped
    /\ out' = <<Plain(<<"^", "C">> \o CrLf)>> /\ doing' = "start"
    /\ UNCHANGED <<term, line, history, top, mon, entered, shown, noise>>

\* Standard input was closed.
ShellExit ==
    /\ doing = "reading" /\ out = <<>> /\ doing' = "exited"
    /\ UNCHANGED <<term, out, line, history, top, mon, entered, shown, noise, typed>>

\* execute: an ordinary command writes something and ends; cmd_clear's output
\* is one of Outputs.
Command(text) ==
    /\ doing = "running" /\ out = <<>> /\ Last(entered) \notin {LessName, KtopName}
    /\ out' = <<Plain(text)>> /\ doing' = "start"
    /\ UNCHANGED <<term, line, history, top, mon, entered, shown, noise, typed>>

\* A command that uses the cursor calls instead: SYS_CURSOR_SAVE, _RESTORE, _DRAW
CursorCommand ==
    /\ doing = "running" /\ out = <<>> /\ Last(entered) \notin {LessName, KtopName}
    /\ CursorSave \/ CursorRestore \/ \E visible \in BOOLEAN : CursorDraw(visible)
    /\ doing' = "start" /\ shown' = Nothing
    /\ UNCHANGED <<out, line, history, top, mon, entered, noise, typed>>

-----------------------------------------------------------------------------
(* The pager.                                                              *)

\* Lines of a page: one row is left for the status bar.
PageRows == IF ConsoleRows >= 2 THEN ConsoleRows - 1 ELSE 23

MaxTop == Larger(DocLines - PageRows, 0)

DocLine(i) == Numeral(i)

\* redraw of less: the page, then the status bar without a newline.
PageText(first) ==
    LET end == Smaller(first + PageRows, DocLines)
    IN  FrameOf([kind |-> "page", top |-> first],
            <<ClearHome>> \o [i \in 1 .. end - first |-> DocLine(first + i - 1) \o CrLf]
            \o <<<<"s">>>>)

LessStart ==
    /\ doing = "running" /\ out = <<>> /\ Last(entered) = LessName
    /\ doing' = "less" /\ top' = 0 /\ out' = PageText(0)
    /\ UNCHANGED <<term, line, history, mon, entered, shown, noise, typed>>

\* space, b, j and k
PageKeys(t) ==
    {Smaller(t + PageRows, MaxTop), Larger(t - PageRows, 0), Smaller(t + 1, MaxTop), Larger(t - 1, 0)}

LessKey ==
    /\ doing = "less" /\ out = <<>>
    /\ top' \in PageKeys(top) /\ out' = PageText(top')
    /\ UNCHANGED <<term, doing, line, history, mon, entered, shown, noise, typed>>

LessQuit ==
    /\ doing = "less" /\ out = <<>>
    /\ doing' = "start" /\ out' = <<Plain(ClearHome)>>
    /\ UNCHANGED <<term, line, history, top, mon, entered, shown, noise, typed>>

-----------------------------------------------------------------------------
(* The monitor.                                                            *)

HeaderLines == 1    \* stands for the title, the bars and the column header

FooterLines == 2

\* Rows left for the list
ListRows == Larger(ConsoleRows - (HeaderLines + FooterLines), 1)

\* write_sep: dashes as wide as the screen
Separator == [i \in 1 .. Smaller(ConsoleCols, 96) |-> "-"]

Under(n, bound) == Smaller(n, Larger(bound - ListRows, 0))

PaddingUncleared(printed) == [i \in 1 .. Larger(ListRows - printed, 0) |-> CrLf]

\* Rows vacated by a shrinking list are blanked.
Padding(printed) == [i \in 1 .. Larger(ListRows - printed, 0) |-> EraseLine \o CrLf]

\* One frame over a list of n rows: scroll is clamped by the previous frame's
\* count, rows are drawn, scroll is clamped again by the new count, and the
\* list is padded by what the new scroll would have drawn.
Monitor(m, n) ==
    LET drawFrom == Under(m.scroll, m.total)
        drawn == [i \in 1 .. Larger(Smaller(n, drawFrom + ListRows) - drawFrom, 0) |->
                    Numeral(drawFrom + i - 1) \o EraseLine \o CrLf]
        scroll == Under(drawFrom, n)
        printed == Smaller(n, scroll + ListRows) - scroll
    IN  [mon |-> [scroll |-> scroll, total |-> n],
         out |-> FrameOf([kind |-> "monitor", from |-> drawFrom, total |-> n, shrunk |-> scroll # drawFrom],
            <<<<"ESC", "[", "H", "h">> \o EraseLine \o CrLf>> \o drawn \o Padding(printed) \o
            <<Separator \o EraseLine \o CrLf, <<"f">> \o EraseLine>>)]

\* The list has at least the kernel's row.
KtopStart ==
    /\ doing = "running" /\ out = <<>> /\ Last(entered) = KtopName
    /\ doing' = "ktop" /\ out' = <<Plain(ClearHome)>>
    /\ mon' = [scroll |-> 0, total |-> 1]
    /\ UNCHANGED <<term, line, history, top, entered, shown, noise, typed>>

KtopFrame(n) ==
    /\ doing = "ktop" /\ out = <<>>
    /\ mon' = Monitor(mon, n).mon /\ out' = Monitor(mon, n).out
    /\ UNCHANGED <<term, doing, line, history, top, entered, shown, noise, typed>>

\* Up and Down; Down goes past the end until the next frame.
KtopKey ==
    /\ doing = "ktop" /\ out = <<>>
    /\ \E scroll \in {Larger(mon.scroll - 1, 0), mon.scroll + 1} :
        scroll <= MaxRows /\ mon' = [mon EXCEPT !.scroll = scroll]
    /\ UNCHANGED <<term, doing, out, line, history, top, entered, shown, noise, typed>>

KtopQuit ==
    /\ doing = "ktop" /\ out = <<>>
    /\ doing' = "start" /\ out' = <<Plain(ClearHome)>>
    /\ UNCHANGED <<term, line, history, top, mon, entered, shown, noise, typed>>

SessionNext ==
    /\ \/ WriteOut \/ KernelMessage
       \/ StartLine \/ ReadLine \/ CaughtSigint \/ ShellExit
       \/ \E text \in Outputs : Command(text)
       \/ CursorCommand
       \/ LessStart \/ LessKey \/ LessQuit
       \/ KtopStart \/ KtopKey \/ KtopQuit
       \/ \E n \in 1 .. MaxRows : KtopFrame(n)
    /\ UNCHANGED height

SessionSpec == SessionInit /\ [][SessionNext]_sessionVars

-----------------------------------------------------------------------------
(* Properties.                                                             *)

\* A redrawn line is what the row of the cursor shows, after the prompt and
\* with nothing behind it, and the only caret of the row is at the editing
\* position: redraw of shell.rs relies on the terminal's CR, K and D, whatever
\* was printed before.  Lines that do not fit the row are left out, as is a
\* redraw that begins inside an unfinished escape sequence or off the rows.
LineShown ==
    (/\ shown.kind = "line" /\ shown.whole
     /\ (Len(Prompt) + Len(shown.text)) * CharWidth < Width)
    =>  \E row \in 1 .. ConsoleRows :
            /\ term.y = Baseline(row)
            /\ RowShows(row, Prompt \o shown.text)
            /\ {p \in term.carets : p.y = term.y} =
               {[x |-> (Len(Prompt) + shown.pos) * CharWidth, y |-> term.y]}

\* The descent of the last row that H addresses is on the screen.  Where it is
\* not, as at heights of 480 and 900, a character drawn there scrolls first.
LastRowFits == Baseline(ConsoleRows) + Descent < height

\* A page of less and a frame of ktop stay where they were drawn: the first row
\* of the screen shows the first line, and the bar at the bottom the last row;
\* rows the list no longer fills are blank (the padding that replaces clearing
\* the screen).  Two exceptions: a frame of ktop whose list shrank under the
\* scroll position since the frame before is not as tall as the screen, and
\* where the last row does not fit, a frame that uses it scrolls its first line
\* away ("the frame is exactly `rows` lines tall").
FrameShownWhereItFits ==
    /\ shown.kind = "page" =>
        LET n == Smaller(PageRows, DocLines - shown.top)
        IN  n + 1 < ConsoleRows \/ LastRowFits =>
            /\ \A row \in 1 .. n : RowShows(row, DocLine(shown.top + row - 1))
            /\ RowShows(n + 1, <<"s">>)
    /\ (shown.kind = "monitor" /\ ~shown.shrunk /\ LastRowFits) =>
        /\ RowShows(1, <<"h">>)
        /\ RowShows(ConsoleRows - 1, Separator) /\ RowShows(ConsoleRows, <<"f">>)
        /\ \A row \in 1 .. ListRows :
            RowShows(HeaderLines + row,
                     IF shown.from + row <= shown.total THEN Numeral(shown.from + row - 1) ELSE <<>>)

\* The line and its cursor are in the buffer.  The ring holds the last
\* MaxHistory lines entered, so Up recalls the one that many lines back (slot
\* arithmetic of push_history and read_line, past the point where the ring
\* wraps).  The only caret on the screen is the one SAVED_CURSOR knows of,
\* unless a kernel message moved the screen under it.
SessionInv ==
    /\ Len(line.text) < BufSize /\ Len(line.saved) < BufSize
    /\ line.pos \in 0 .. Len(line.text)
    /\ line.age <= Smaller(history.count, MaxHistory)
    /\ \A age \in 1 .. Smaller(history.count, MaxHistory) :
        HistoryLine(history, age) = entered[Len(entered) + 1 - age]
    /\ noise = 0 => term.carets \subseteq {term.saved}
=============================================================================
