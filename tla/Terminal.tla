------------------------------ MODULE Terminal ------------------------------
(***************************************************************************)
(* The line editor of terminal/terminal.go, with the screen it writes to.  *)
(*                                                                         *)
(* s is the Terminal and the device together: the operators below are the  *)
(* methods of Terminal, each from state to state, and what they queue in   *)
(* outBuf acts on the device at once (the lock is held until it has been   *)
(* written).  The device is the VT100 that the comments of advanceCursor   *)
(* expect: a character in the last column leaves the cursor there, the     *)
(* next one wraps, and a newline goes to the start of the next row.  Its   *)
(* cells are numbered from the row where the prompt begins.  A key is what *)
(* bytesToKey returns; a prompt has no escape sequences.                   *)
(***************************************************************************)
EXTENDS Integers, Sequences, SequencesExt

CONSTANTS
    Chars,          \* printable characters that are typed or pasted
    Keys,           \* the other keys that may be pressed
    Prompt, Other,  \* the prompt, and one that SetPrompt sets
    Secret,         \* the prompt of ReadPassword
    Width,          \* width of the screen
    Widths,         \* widths that SetSize sets
    maxLineLength,
    Completion,     \* the line that the AutoCompleteCallback returns on a tab
    HistoryMax,     \* defaultNumEntries
    Calls,          \* which of "ReadPassword", "Write", "SetPrompt" are called; "ReadError": reads fail
    Rows,           \* bound: rows of the screen that are looked at
    MaxLines,       \* bound: lines read
    MaxChars,       \* bound: characters in them, all together
    MaxOther        \* bound: calls of ReadPassword, Write, SetPrompt and SetSize, and read errors

ASSUME TerminalAssumption ==
    /\ Width \in Nat \ {0} /\ Widths \subseteq Nat \ {0}
    /\ {maxLineLength, HistoryMax, Rows, MaxLines, MaxChars, MaxOther} \subseteq Nat /\ HistoryMax > 0

VARIABLES
    s,          \* Terminal and device
    mode,       \* "idle", "line" or "password": in readLine; "callback": the lock is free
    lines,      \* history: the lines read with echo
    result,     \* what the last readLine returned: kind, typed (some of it was typed)
    typed,      \* history: a key that was not pasted went into this line
    met,        \* history: "NewPrompt", "SetSize", "ReadError": what this line has met
    calls       \* how many of what MaxOther bounds

vars == <<s, mode, lines, result, typed, met, calls>>

Blank == [i \in 0..(Rows * Width - 1) |-> " "]

Init ==
    /\ s = [line |-> <<>>, pos |-> 0, echo |-> TRUE, pasteActive |-> FALSE, prompt |-> Prompt, oldPrompt |-> Prompt,
            drawn |-> <<>>,         \* history: the prompt that is on the screen
            cursorX |-> 0, cursorY |-> 0, maxLine |-> 0, width |-> Width,
            entries |-> [i \in 0..(HistoryMax - 1) |-> <<>>], head |-> 0, size |-> 0,
            historyIndex |-> -1, historyPending |-> <<>>,
            pasted |-> FALSE,                             \* lineIsPasted of readLine
            p |-> 0, wrap |-> FALSE, cells |-> Blank]     \* device
    /\ mode = "idle" /\ lines = <<>> /\ calls = 0 /\ typed = FALSE
    /\ result = [kind |-> "none", typed |-> FALSE]
    /\ met = {}

-----------------------------------------------------------------------------
(* The device.                                                             *)

Put(t, c) ==
    LET at == IF t.wrap THEN t.p + 1 ELSE t.p
        last == at % t.width = t.width - 1
    IN  [t EXCEPT !.cells = [i \in DOMAIN @ |-> IF i = at THEN c ELSE @[i]],
                  !.p = IF last THEN at ELSE at + 1, !.wrap = last]
PutAll(t, cs) == FoldLeft(Put, t, cs)

NewLine(t) == [t EXCEPT !.p = ((t.p \div t.width) + 1) * t.width, !.wrap = FALSE]

(* Rows above the one the cursor is in are forgotten.                      *)
Scroll(t) ==
    LET from == (t.p \div t.width) * t.width IN
    [t EXCEPT !.p = @ - from,
              !.cells = [i \in DOMAIN @ |-> IF i + from \in DOMAIN @ THEN @[i + from] ELSE " "]]

move(t, up, down, left, right) ==
    LET x == t.p % t.width
        row == (t.p \div t.width) - up + down
        col == (IF x < left THEN 0 ELSE x - left) + right
    IN  IF up + down + left + right = 0 THEN t
        ELSE [t EXCEPT !.p = row * t.width + (IF col < t.width THEN col ELSE t.width - 1),
                       !.wrap = FALSE]

clearLineToRight(t) ==
    [t EXCEPT !.cells = [i \in DOMAIN @ |->
        IF i >= t.p /\ i \div t.width = t.p \div t.width THEN " " ELSE @[i]]]

-----------------------------------------------------------------------------
(* Cursor and line of Terminal.                                            *)

Diff(a, b) == IF a > b THEN a - b ELSE 0

moveCursorToPos(t, pos) ==
    LET at == Len(t.prompt) + pos
        y == at \div t.width
        x == at % t.width
    IN  IF ~t.echo THEN t
        ELSE move([t EXCEPT !.cursorX = x, !.cursorY = y],
                  Diff(t.cursorY, y), Diff(y, t.cursorY), Diff(t.cursorX, x), Diff(x, t.cursorX))

(* Mutant: the newline that takes the cursor off a full row is missing.    *)
advanceCursor_NoNewline(t, places) ==
    LET x == t.cursorX + places
        y == t.cursorY + (x \div t.width)
    IN  [t EXCEPT !.cursorX = x % t.width, !.cursorY = y,
                  !.maxLine = IF y > @ THEN y ELSE @]

advanceCursor(t, places) ==
    LET x == t.cursorX + places
        y == t.cursorY + (x \div t.width)
        u == [t EXCEPT !.cursorX = x % t.width, !.cursorY = y,
                       !.maxLine = IF y > @ THEN y ELSE @]
    IN  IF places > 0 /\ x % t.width = 0 THEN NewLine(u) ELSE u

(* writeLine queues as much as fits in a row and then advances the cursor, *)
(* which is the same as one character after the other.                     *)
writeLine(t, cs) == FoldLeft(LAMBDA u, c : advanceCursor(Put(u, c), 1), t, cs)

(* The two ways in which the prompt is written.                            *)
WritePrompt(t) == writeLine([t EXCEPT !.drawn = t.prompt], t.prompt)
QueuePrompt(t) == advanceCursor(PutAll([t EXCEPT !.drawn = t.prompt], t.prompt), Len(t.prompt))

Spaces(n) == [i \in 1..n |-> " "]

(* Mutant: the new line is written whether or not there is echo.           *)
setLine_Echo(t, newLine, newPos) ==
    [moveCursorToPos(writeLine(moveCursorToPos(t, 0), newLine), newPos) EXCEPT
        !.line = newLine, !.pos = newPos]

setLine(t, newLine, newPos) ==
    LET shorter == Diff(Len(t.line), Len(newLine))
        u == IF t.echo
             THEN moveCursorToPos(
                    writeLine(moveCursorToPos(t, 0), newLine \o Spaces(shorter)), newPos)
             ELSE t
    IN  [u EXCEPT !.line = newLine, !.pos = newPos]

eraseNPreviousChars(t, n) ==
    LET k == IF t.pos < n THEN t.pos ELSE n
        pos == t.pos - k
        left == SubSeq(t.line, 1, pos)
        rest == SubSeq(t.line, t.pos + 1, Len(t.line))
        u == moveCursorToPos([t EXCEPT !.pos = pos], pos)
        v == [u EXCEPT !.line = left \o rest]
    IN  IF n = 0 THEN t
        ELSE IF ~t.echo THEN v
        ELSE moveCursorToPos(
                advanceCursor(PutAll(writeLine(v, rest), Spaces(k)), k), pos)

addKeyToLine(t, key) ==
    LET left == SubSeq(t.line, 1, t.pos)
        rest == <<key>> \o SubSeq(t.line, t.pos + 1, Len(t.line))
        u == [t EXCEPT !.line = left \o rest]
        v == IF t.echo THEN writeLine(u, rest) ELSE u
    IN  moveCursorToPos([v EXCEPT !.pos = @ + 1], t.pos + 1)

(* The two loops of countToLeftWord: a position is an index from 0, as in  *)
(* the code.  The second stops at 0 without looking at that character.     *)
At(t, i) == t.line[i + 1]
countToLeftWord(t) ==
    LET skipped == CHOOSE i \in 0..(t.pos - 1) :
                      /\ i = 0 \/ At(t, i) # " "
                      /\ \A j \in (i + 1)..(t.pos - 1) : At(t, j) = " "
        start == CHOOSE i \in 0..skipped :
                      /\ i = 0 \/ (i > 1 /\ At(t, i - 1) = " ")
                      /\ \A j \in (i + 1)..skipped : j > 1 => At(t, j - 1) # " "
    IN  IF t.pos = 0 THEN 0 ELSE t.pos - start

countToRightWord(t) ==
    LET space == CHOOSE i \in t.pos..Len(t.line) :
                      /\ i = Len(t.line) \/ At(t, i) = " "
                      /\ \A j \in t.pos..(i - 1) : At(t, j) # " "
    IN  (CHOOSE i \in space..Len(t.line) :
            /\ i = Len(t.line) \/ At(t, i) # " "
            /\ \A j \in space..(i - 1) : At(t, j) = " ") - t.pos

-----------------------------------------------------------------------------
(* stRingBuffer                                                            *)

AddEntry(t, a) ==
    LET h == (t.head + 1) % HistoryMax IN
    [t EXCEPT !.head = h, !.entries[h] = a, !.size = IF @ < HistoryMax THEN @ + 1 ELSE @]

NthPreviousEntry(t, n) ==
    IF n >= t.size THEN [ok |-> FALSE, value |-> <<>>]
    ELSE [ok |-> TRUE,
          value |-> t.entries[IF t.head < n THEN t.head - n + HistoryMax ELSE t.head - n]]

-----------------------------------------------------------------------------
(* handleKey, for every key but Enter and those of the callback.           *)

To(t, pos) == moveCursorToPos([t EXCEPT !.pos = pos], pos)

Recall(t, n) ==
    LET e == NthPreviousEntry(t, n)
        pending == IF t.historyIndex = -1 THEN t.line ELSE t.historyPending
        u == [t EXCEPT !.historyPending = pending, !.historyIndex = n]
    IN  IF e.ok THEN setLine(u, e.value, Len(e.value)) ELSE t

Down(t) ==
    CASE t.historyIndex = -1 -> t
      [] t.historyIndex = 0 ->
            [setLine(t, t.historyPending, Len(t.historyPending)) EXCEPT !.historyIndex = -1]
      [] OTHER -> Recall(t, t.historyIndex - 1)

DeleteLine(t) ==
    moveCursorToPos([writeLine(t, Spaces(Len(t.line) - t.pos)) EXCEPT !.line = SubSeq(@, 1, t.pos)],
                    t.pos)

ClearScreen(t) ==
    LET u == [t EXCEPT !.cells = [i \in DOMAIN @ |-> " "], !.p = 0, !.wrap = FALSE,
                       !.cursorX = 0, !.cursorY = 0]
        v == QueuePrompt(u)
    IN  setLine(v, t.line, t.pos)

handleKey(t, key) ==
    CASE t.pasteActive -> addKeyToLine(t, key)
      [] ~t.pasteActive /\ key = "backspace" -> IF t.pos = 0 THEN t ELSE eraseNPreviousChars(t, 1)
      [] ~t.pasteActive /\ key = "altleft" -> To(t, t.pos - countToLeftWord(t))
      [] ~t.pasteActive /\ key = "altright" -> To(t, t.pos + countToRightWord(t))
      [] ~t.pasteActive /\ key = "left" -> IF t.pos = 0 THEN t ELSE To(t, t.pos - 1)
      [] ~t.pasteActive /\ key = "right" -> IF t.pos = Len(t.line) THEN t ELSE To(t, t.pos + 1)
      [] ~t.pasteActive /\ key = "home" -> IF t.pos = 0 THEN t ELSE To(t, 0)
      [] ~t.pasteActive /\ key = "end" -> IF t.pos = Len(t.line) THEN t ELSE To(t, Len(t.line))
      [] ~t.pasteActive /\ key = "up" -> Recall(t, t.historyIndex + 1)
      [] ~t.pasteActive /\ key = "down" -> Down(t)
      [] ~t.pasteActive /\ key = "deleteword" -> eraseNPreviousChars(t, countToLeftWord(t))
      [] ~t.pasteActive /\ key = "deleteline" -> DeleteLine(t)
      [] ~t.pasteActive /\ key = "ctrl-d" ->
            IF t.pos < Len(t.line) THEN eraseNPreviousChars([t EXCEPT !.pos = @ + 1], 1) ELSE t
      [] ~t.pasteActive /\ key = "ctrl-u" -> eraseNPreviousChars(t, t.pos)
      [] ~t.pasteActive /\ key = "clearscreen" -> ClearScreen(t)
      [] OTHER -> IF key \in Chars /\ Len(t.line) < maxLineLength THEN addKeyToLine(t, key) ELSE t

(* The keyEnter case, up to the row where the next prompt will begin.      *)
Enter(t) ==
    Scroll(NewLine([moveCursorToPos(t, Len(t.line)) EXCEPT
        !.line = <<>>, !.pos = 0, !.cursorX = 0, !.cursorY = 0, !.maxLine = 0]))

-----------------------------------------------------------------------------
(* readLine                                                                *)

InRead == mode \in {"line", "password"}
BlankRow == s.cursorX = 0 /\ s.cursorY = 0
Meets(what) == met' = IF BlankRow THEN met ELSE met \cup {what}

(* ReadLine and ReadPassword: the prompt is written if nothing is on the   *)
(* row.                                                                    *)
Begin(kind) ==
    LET t == [s EXCEPT !.oldPrompt = s.prompt, !.prompt = IF kind = "password" THEN Secret ELSE @,
                       !.echo = (kind = "line"), !.pasted = s.pasteActive]
    IN
    /\ mode = "idle" /\ Len(lines) < MaxLines
    /\ \/ kind = "line" /\ calls' = calls
       \/ kind = "password" /\ "ReadPassword" \in Calls /\ calls < MaxOther /\ calls' = calls + 1
    /\ mode' = kind
    /\ s' = IF BlankRow THEN WritePrompt(t) ELSE t
    /\ IF t.prompt = s.drawn THEN met' = met ELSE Meets("NewPrompt")
    /\ typed' = (typed /\ s.line # <<>>)
    /\ UNCHANGED <<lines, result>>

(* What ReadPassword undoes when readLine returns.                         *)
Restore(t) == IF mode = "password" THEN [t EXCEPT !.prompt = t.oldPrompt, !.echo = TRUE] ELSE t

(* Enter, typed or pasted, ends the line.                                  *)
ReturnLine ==
    LET t == Enter(s)
        pasted == s.pasted /\ s.pasteActive
    IN
    /\ InRead /\ mode' = "idle"
    /\ s' = Restore(IF s.echo THEN AddEntry([t EXCEPT !.historyIndex = -1], s.line) ELSE t)
    /\ lines' = IF s.echo THEN Append(lines, s.line) ELSE lines
    /\ result' = [kind |-> IF pasted THEN "pasted" ELSE "line", typed |-> typed /\ "ReadError" \notin met]
    /\ met' = met \cap {"NewPrompt"}
    /\ UNCHANGED <<typed, calls>>

(* Mutant: a paste into a line that has been begun counts as a pasted line.*)
PasteStart_Any ==
    /\ InRead /\ ~s.pasteActive /\ "paste" \in Keys
    /\ s' = [s EXCEPT !.pasteActive = TRUE, !.pasted = TRUE]
    /\ UNCHANGED <<mode, lines, result, typed, met, calls>>

PasteStart ==
    /\ InRead /\ ~s.pasteActive /\ "paste" \in Keys
    /\ s' = [s EXCEPT !.pasteActive = TRUE, !.pasted = @ \/ s.line = <<>>]
    /\ typed' = (typed /\ s.line # <<>>)
    /\ UNCHANGED <<mode, lines, result, met, calls>>

PasteEnd ==
    /\ InRead /\ s.pasteActive
    /\ s' = [s EXCEPT !.pasteActive = FALSE]
    /\ UNCHANGED <<mode, lines, result, typed, met, calls>>

(* Ctrl-D on an empty line: io.EOF.                                        *)
ReturnEOF ==
    /\ InRead /\ ~s.pasteActive /\ "ctrl-d" \in Keys /\ s.line = <<>> /\ Len(lines) < MaxLines
    /\ mode' = "idle" /\ s' = Restore(s)
    /\ result' = [kind |-> "eof", typed |-> FALSE]
    /\ UNCHANGED <<lines, typed, met, calls>>

(* The Read fails: readLine returns with the line as it is.                *)
ReturnError ==
    /\ InRead /\ "ReadError" \in Calls /\ calls < MaxOther /\ calls' = calls + 1
    /\ mode' = "idle" /\ s' = Restore(s)
    /\ result' = [kind |-> "error", typed |-> FALSE]
    /\ met' = IF s.line = <<>> THEN met ELSE met \cup {"ReadError"}
    /\ UNCHANGED <<lines, typed>>

Press(key) ==
    /\ InRead /\ s.cursorY < Rows - 1 /\ "NewPrompt" \notin met         \* bounds
    /\ s.pasteActive => key \in Chars /\ Len(s.line) < maxLineLength    \* bound: not in the code
    /\ key = "ctrl-d" => s.line # <<>>
    /\ key \in Chars => Len(FlattenSeq(lines)) + Len(s.line) < MaxChars
    /\ s' = handleKey([s EXCEPT !.pasted = @ /\ s.pasteActive], key)
    /\ typed' = (typed \/ ~s.pasteActive)
    /\ UNCHANGED <<mode, lines, result, met, calls>>

(* A tab calls the callback, without the lock; its line replaces ours.     *)
Complete ==
    /\ \/ /\ mode = "line" /\ ~s.pasteActive /\ "tab" \in Keys
          /\ mode' = "callback" /\ s' = [s EXCEPT !.pasted = FALSE]
       \/ /\ mode = "callback" /\ mode' = "line"
          /\ s' = setLine(s, Completion, Len(Completion))
    /\ typed' = TRUE
    /\ UNCHANGED <<lines, result, met, calls>>

-----------------------------------------------------------------------------
(* Other goroutines, while the lock is free.                               *)

(* Write clears the rows from the cursor's up to the first, writes a line  *)
(* of text that ends in a newline, and then prompt and line again.         *)
Write ==
    LET up(t, i) == clearLineToRight(move([t EXCEPT !.cursorY = @ - 1], 1, 0, 0, 0))
        t0 == clearLineToRight(move([s EXCEPT !.cursorX = 0], 0, 0, s.cursorX, 0))
        t1 == FoldLeft(up, t0, [i \in 1..s.cursorY |-> i])
        t2 == WritePrompt(Scroll(NewLine(t1)))
        t3 == IF s.echo THEN writeLine(t2, s.line) ELSE t2
    IN
    /\ "Write" \in Calls /\ calls < MaxOther /\ calls' = calls + 1
    /\ s' = IF BlankRow THEN Scroll(NewLine(s)) ELSE moveCursorToPos(t3, s.pos)
    /\ UNCHANGED <<mode, lines, result, typed, met>>

SetPrompt ==
    /\ "SetPrompt" \in Calls /\ calls < MaxOther /\ calls' = calls + 1
    /\ s' = [s EXCEPT !.prompt = Other]
    /\ Meets("NewPrompt")
    /\ UNCHANGED <<mode, lines, result, typed>>

(* clearAndRepaintLinePlusNPrevious.  What the device makes of its rows    *)
(* when it changes its width is its own affair: the screen starts blank.   *)
Repaint(t) ==
    LET u == [t EXCEPT !.cursorX = 0, !.cursorY = 0, !.p = 0, !.wrap = FALSE, !.cells = Blank]
        v == QueuePrompt(u)
    IN  moveCursorToPos(writeLine(v, t.line), t.pos)

SetSize(w) ==
    LET t == [s EXCEPT !.width = w]
    IN
    /\ calls < MaxOther /\ calls' = calls + 1 /\ w # s.width
    /\ s' = IF s.line = <<>> /\ BlankRow THEN t ELSE Repaint(t)
    /\ Meets("SetSize")
    /\ UNCHANGED <<mode, lines, result, typed>>

Next ==
    \/ \E k \in {"line", "password"} : Begin(k)
    \/ \E key \in Chars \cup (Keys \ {"paste", "tab"}) : Press(key)
    \/ ReturnLine \/ ReturnEOF \/ ReturnError \/ PasteStart \/ PasteEnd \/ Complete
    \/ Write \/ SetPrompt
    \/ \E w \in Widths : SetSize(w)

Spec == Init /\ [][Next]_vars

-----------------------------------------------------------------------------

(* While a line is read, the screen shows the prompt and the line, with    *)
(* nothing left over of what was there before, and the device's cursor is  *)
(* where cursorX and cursorY say and where pos belongs (terminal.go        *)
(* 69-71): after every key, every wrap and every erasure over rows, after  *)
(* a Write, a SetSize, an EOF and a read error.  Not once the prompt has   *)
(* changed under a line (SetPrompt during readLine, or a read that goes on *)
(* with another prompt), and not for the password that SetSize repaints.   *)
ScreenTrue ==
    LET text == s.drawn \o (IF s.echo THEN s.line ELSE <<>>)
        at == Len(s.drawn) + s.pos
    IN
    mode # "idle" /\ "NewPrompt" \notin met /\ ~(~s.echo /\ "SetSize" \in met) =>
        /\ ~s.wrap /\ s.p = s.cursorY * s.width + s.cursorX
        /\ s.echo => s.p = at
        /\ \A i \in DOMAIN s.cells : s.cells[i] = IF i < Len(text) THEN text[i + 1] ELSE " "

(* ErrPasteIndicator is returned only with a line that "consists only of   *)
(* pasted data" (terminal.go 837), over any mixture of pastes, typing and  *)
(* erasing; not said of a line that is read on after a read error, where   *)
(* readLine has forgotten what was typed before.                           *)
PasteTrue == result.kind = "pasted" => ~result.typed

(* ReadPassword reads "without echo" (terminal.go 641-642): nothing but    *)
(* the prompt is on the screen, whatever keys of history and completion    *)
(* are pressed and whatever is written meanwhile.  Not after SetSize, which*)
(* repaints the line whether or not there is echo (terminal.go 772).       *)
PasswordHidden ==
    mode = "password" /\ met = {} => \A i \in DOMAIN s.cells : i >= Len(s.drawn) => s.cells[i] = " "

=============================================================================
