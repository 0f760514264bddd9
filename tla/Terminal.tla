------------------------------ MODULE Terminal -----------------------------
(***************************************************************************)
(* What happens to the keys that a user hits: the keyboard's scan codes    *)
(* become characters (kbd.c of xv6, kern/console.c of JOS), which are      *)
(* buffered, edited and echoed on the screen.  xv6 edits and echoes in the *)
(* interrupt handler; JOS collects characters in a ring, and its monitor   *)
(* edits them in readline() and cuts the line into words.  The interrupts  *)
(* and locks of xv6 are in Console.                                        *)
(***************************************************************************)
EXTENDS Integers, FiniteSetsExt, SequencesExt

CONSTANTS
  COLS, ROWS,    \* of the screen: 80 and 25
  CONSBUFSIZE,   \* ring of JOS
  BUFLEN,        \* line of readline()
  LINE_BUF,      \* INPUT_BUF of xv6
  ARGS,          \* MAXARGS of the monitor
  Scripts        \* what users do: sequences of events

VARIABLES
  os,            \* "xv6" or "jos"
  script, got,   \* the events, and how many of them have come
  port,          \* bytes of the last of them that are still to come
  shift,         \* the variable of kbdgetc(): a set of flags
  ring,          \* JOS: the characters received, [buf, rpos, wpos]
  taken,         \* JOS: how many of them cons_getc() has returned
  line,          \* JOS: the line in readline(); xv6: input.buf from w to e
  ahead,         \* xv6: input.buf from r to w, counted
  crt,           \* the screen: [cell, pos], and top, the rows scrolled away
  start, wrote   \* xv6: where the line starts, or Lost; a process has written

termvars == <<os, script, got, port, shift, ring, taken, line, ahead, crt, start, wrote>>

-----------------------------------------------------------------------------
(* The tables, which agree in xv6 and JOS, for some keys: a code and what  *)
(* it means alone, with shift and with control.  C('U') is written ^U, and *)
(* the character 0 NO.                                                     *)
NO == "no"
E0 == 224
Break == 128   \* added to the code of a key that is released

charmap ==
  {<<14, "bs", "bs", NO>>, <<22, "u", "U", "^U">>, <<25, "p", "P", "^P">>, <<28, "nl", "nl", "cr">>,
   <<30, "a", "A", "^A">>, <<32, "d", "D", "^D">>, <<57, " ", " ", NO>>, <<211, "del", "del", "del">>}
Entry(data, column) ==
  IF \E row \in charmap : row[1] = data THEN (CHOOSE row \in charmap : row[1] = data)[column] ELSE NO
normalmap(data) == Entry(data, 2)
shiftmap(data) == Entry(data, 3)
ctlmap(data) == Entry(data, 4)
charcode(flags, data) ==
  IF "CTL" \in flags THEN ctlmap(data) ELSE IF "SHIFT" \in flags THEN shiftmap(data) ELSE normalmap(data)

shiftcode(data) ==
  CASE data \in {29, 157} -> {"CTL"} [] data \in {42, 54} -> {"SHIFT"} [] data \in {56, 184} -> {"ALT"}
    [] OTHER -> {}
togglecode(data) == IF data = 58 THEN {"CAPSLOCK"} ELSE {}

Letters == {22, 25, 30, 32}
capslock(c) ==
  IF \E k \in Letters : normalmap(k) = c THEN shiftmap(CHOOSE k \in Letters : normalmap(k) = c)
  ELSE IF \E k \in Letters : shiftmap(k) = c THEN normalmap(CHOOSE k \in Letters : shiftmap(k) = c)
  ELSE c

(* kbdgetc() on a byte: the flags and the character it leaves.             *)
released_any(flags, data) == data - Break
released(flags, data) == IF "E0ESC" \in flags THEN data ELSE data - Break
pressed(flags, data) == IF "E0ESC" \in flags THEN data + Break ELSE data

Toggle(flags, bits) == (flags \cup bits) \ (flags \cap bits)
Made(flags, code) ==
  LET c == charcode(flags, code)
  IN  [flags |-> flags, c |-> IF "CAPSLOCK" \in flags THEN capslock(c) ELSE c]

kbdgetc(flags, data) ==
  IF data = E0 THEN [flags |-> flags \cup {"E0ESC"}, c |-> NO]
  ELSE IF data >= Break
    THEN [flags |-> flags \ (shiftcode(released(flags, data)) \cup {"E0ESC"}), c |-> NO]
  ELSE Made(Toggle((flags \ {"E0ESC"}) \cup shiftcode(pressed(flags, data)),
                   togglecode(pressed(flags, data))),
            pressed(flags, data))

(* kbd_proc_data() of JOS is the same, and resets the machine.             *)
kbd_proc_data(flags, data) ==
  LET k == kbdgetc(flags, data)
  IN  IF {"CTL", "ALT"} \subseteq k.flags /\ k.c = "del" THEN [k EXCEPT !.c = "reset"] ELSE k

-----------------------------------------------------------------------------
(* The screen of xv6, whose last row is not used, ...                      *)
BLANK == " "
ScreenCells == 0 .. COLS * ROWS - 1
Used == COLS * (ROWS - 1)

cgascroll(s) ==
  IF s.pos < Used THEN s
  ELSE [pos |-> s.pos - COLS, top |-> s.top + 1,
        cell |-> [k \in ScreenCells |-> IF k \in (s.pos - COLS)..(Used - 1) THEN BLANK
                                  ELSE IF k < Used - COLS THEN s.cell[k + COLS] ELSE s.cell[k]]]
cgacursor(s) == [s EXCEPT !.cell[s.pos] = BLANK]
cgaputc(s, c) ==
  cgacursor(cgascroll(
    CASE c = "nl" -> [s EXCEPT !.pos = @ + COLS - (@ % COLS)]
      [] c = "BACKSPACE" -> [s EXCEPT !.pos = Max({@ - 1, 0})]
      [] OTHER -> [s EXCEPT !.cell[s.pos] = c, !.pos = @ + 1]))

(* ... and of JOS, where a tab is five calls of cons_putc() first.         *)
CRT_SIZE == COLS * ROWS

cga_scroll(s) ==
  IF s.pos < CRT_SIZE THEN s
  ELSE [pos |-> s.pos - COLS, top |-> s.top + 1,
        cell |-> [k \in ScreenCells |-> IF k < CRT_SIZE - COLS THEN s.cell[k + COLS] ELSE BLANK]]
cga_put(s, c) ==
  cga_scroll(
    CASE c = "bs" -> IF s.pos = 0 THEN s ELSE [s EXCEPT !.cell[s.pos - 1] = BLANK, !.pos = @ - 1]
      [] c = "nl" -> [s EXCEPT !.pos = (@ + COLS) - (@ % COLS)]
      [] c = "cr" -> [s EXCEPT !.pos = @ - (@ % COLS)]
      [] OTHER -> [s EXCEPT !.cell[s.pos] = c, !.pos = @ + 1])
cga_putc(s, c) == IF c = "tab" THEN FoldLeft(cga_put, s, <<" ", " ", " ", " ", " ">>) ELSE cga_put(s, c)

cputs(s, text) == FoldLeft(cga_putc, s, text)

-----------------------------------------------------------------------------
(* runcmd() of the monitor: the words of a line, and what it prints, of    *)
(* which a letter stands for a text.  A command is one letter.             *)
WHITESPACE == {" ", "tab", "cr", "nl"}

RECURSIVE Argv(_, _)
Skip(s, white) == SubSeq(s, Min({i \in DOMAIN s : (s[i] \in WHITESPACE) # white} \cup {Len(s) + 1}), Len(s))
Argv(argv, s) ==
  IF Skip(s, TRUE) = <<>> THEN [ok |-> TRUE, argv |-> argv]
  ELSE IF Len(argv) = ARGS - 1 THEN [ok |-> FALSE, argv |-> argv]
  ELSE LET word == Skip(s, TRUE)
           rest == Skip(word, FALSE)
       IN  Argv(Append(argv, SubSeq(word, 1, Len(word) - Len(rest))), rest)

commands == [a |-> <<"o", "nl">>, A |-> <<"tab", "o", "nl">>]  \* help, backtrace
monitor_runcmd(s) ==
  LET r == Argv(<<>>, s)
  IN  IF ~r.ok THEN <<"m", "nl">>
      ELSE IF r.argv = <<>> THEN <<>>
      ELSE IF Len(r.argv[1]) = 1 /\ r.argv[1][1] \in DOMAIN commands THEN commands[r.argv[1][1]]
      ELSE <<"u", "nl">>

(* readline() on one character, and the monitor around it.                 *)
PROMPT == <<"K">>
Controls == {"nl", "cr", "bs", "tab", "^U", "^P", "^A", "^D"}  \* below ' '

Edit(l, s) == line' = l /\ crt' = s
readline(c) ==
  IF c \in {"bs", "DEL"} /\ line # <<>> THEN Edit(Front(line), cga_putc(crt, "bs"))
  ELSE IF c \notin Controls /\ Len(line) < BUFLEN - 1 THEN Edit(Append(line, c), cga_putc(crt, c))
  ELSE IF c \in {"nl", "cr"} THEN Edit(<<>>, cputs(crt, <<"nl">> \o monitor_runcmd(line) \o PROMPT))
  ELSE Edit(line, crt)

(* The monitor polls: getchar() until cons_getc() has a character.         *)
monitor ==
  /\ os = "jos" /\ ring.rpos # ring.wpos
  /\ ring' = [ring EXCEPT !.rpos = IF @ + 1 = CONSBUFSIZE THEN 0 ELSE @ + 1]
  /\ taken' = taken + 1
  /\ readline(ring.buf[ring.rpos])
  /\ UNCHANGED <<os, script, got, port, shift, ahead, start, wrote>>

cons_intr(c) ==
  /\ ring' = IF c = NO THEN ring
             ELSE [ring EXCEPT !.buf[ring.wpos] = c, !.wpos = IF @ + 1 = CONSBUFSIZE THEN 0 ELSE @ + 1]
  /\ UNCHANGED <<taken, line, ahead, crt, start>>

-----------------------------------------------------------------------------
(* consoleintr() of xv6 on one character, with the echo of consputc().     *)
Write(s, text) == FoldLeft(cgaputc, s, text)
Lost == -1  \* something was printed in the middle of the line
Place(s) == s.top * COLS + s.pos
Line(l, s) ==
  /\ line' = l /\ crt' = s /\ UNCHANGED ahead
  /\ start' = IF start = Lost /\ l = <<>> THEN Place(s) ELSE start
PrintOver(text) == crt' = Write(crt, text) /\ start' = IF line = <<>> THEN Place(crt') ELSE Lost
Erased(s, n) == Write(s, [k \in 1..n |-> "BACKSPACE"])

Ends(c) == c \in {"nl", "^D"} \/ ahead + Len(line) + 1 = LINE_BUF
Stored(c) ==
  IF Ends(c) THEN crt' = cgaputc(crt, c) /\ line' = <<>> /\ ahead' = ahead + Len(line) + 1 /\ start' = Place(crt')
  ELSE Line(Append(line, c), cgaputc(crt, c))

consoleintr(c) ==
  /\ CASE c = "^P" -> PrintOver(<<"o", "nl">>) /\ UNCHANGED <<line, ahead>>
       [] c = "^U" -> Line(<<>>, Erased(crt, Len(line)))
       [] c \in {"bs", "DEL"} ->
            IF line = <<>> THEN Line(line, crt) ELSE Line(Front(line), Erased(crt, 1))
       [] OTHER -> IF c # NO /\ ahead + Len(line) < LINE_BUF THEN Stored(IF c = "cr" THEN "nl" ELSE c)
                   ELSE Line(line, crt)
  /\ UNCHANGED <<ring, taken>>

(* A process reads a character, or writes a text.                          *)
consoleread ==
  /\ os = "xv6" /\ ahead > 0 /\ ahead' = ahead - 1
  /\ UNCHANGED <<os, script, got, port, shift, ring, taken, line, crt, start, wrote>>
consolewrite ==
  /\ os = "xv6" /\ ~wrote /\ wrote' = TRUE
  /\ \E text \in {<<"o">>, <<"o", "nl">>} : PrintOver(text)
  /\ UNCHANGED <<os, script, got, port, shift, ring, taken, line, ahead>>

-----------------------------------------------------------------------------
(* The user: <<"down", key>>, <<"up", key>>, or <<"rx", c>>, a character   *)
(* from the serial line.  Grey keys send E0 first, and hide a left shift   *)
(* that is held from the system.                                           *)
Code ==
  [a |-> 30, u |-> 22, p |-> 25, d |-> 32, enter |-> 28, space |-> 57, back |-> 14, lshift |-> 42,
   rshift |-> 54, ctl |-> 29, rctl |-> 29, alt |-> 56, ralt |-> 56, caps |-> 58, delete |-> 83]
Grey == {"rctl", "ralt", "delete"}

LeftShift(i) ==
  \E j \in 1..i : script[j] = <<"down", "lshift">> /\ \A k \in j..i : script[k] # <<"up", "lshift">>

Bytes(i) ==
  LET key  == script[i][2]
      pre  == IF key \in Grey THEN <<E0>> ELSE <<>>
      hide == key = "delete" /\ LeftShift(i)
  IN  IF script[i][1] = "down"
        THEN (IF hide THEN <<E0, Code.lshift + Break>> ELSE <<>>) \o pre \o <<Code[key]>>
        ELSE pre \o <<Code[key] + Break>> \o (IF hide THEN <<E0, Code.lshift>> ELSE <<>>)

(* A byte from the keyboard, or a character from the serial line: a round  *)
(* of the loop in consoleintr() or cons_intr().  The rest may come later.  *)
Received(c) ==
  /\ os' = IF c = "reset" THEN "off" ELSE os
  /\ IF os = "xv6" THEN consoleintr(c) ELSE cons_intr(IF c = "reset" THEN NO ELSE c)
Getc(k) == shift' = k.flags /\ Received(k.c)
getc(data) == Getc(IF os = "xv6" THEN kbdgetc(shift, data) ELSE kbd_proc_data(shift, data))

Coming == IF port # <<>> THEN port ELSE Bytes(got + 1)
kbdintr ==
  /\ os # "off"
  /\ port # <<>> \/ (got < Len(script) /\ script[got + 1][1] # "rx")
  /\ got' = IF port # <<>> THEN got ELSE got + 1
  /\ port' = Tail(Coming) /\ getc(Head(Coming))
  /\ UNCHANGED <<script, wrote>>
uartintr ==
  /\ os # "off" /\ port = <<>> /\ got < Len(script) /\ script[got + 1][1] = "rx"
  /\ got' = got + 1 /\ Getc([flags |-> shift, c |-> script[got + 1][2]])
  /\ UNCHANGED <<script, port, wrote>>

(* The screen is blank, with the cursor at the top or near the end.        *)
Blank(pos) == [cell |-> [k \in ScreenCells |-> BLANK], pos |-> pos, top |-> 0]
TerminalInit ==
  /\ os \in {"xv6", "jos"} /\ script \in Scripts /\ got = 0 /\ port = <<>> /\ shift = {}
  /\ ring = [buf |-> [k \in 0 .. CONSBUFSIZE - 1 |-> NO], rpos |-> 0, wpos |-> 0] /\ taken = 0
  /\ line = <<>> /\ ahead = 0 /\ wrote = FALSE
  /\ \E pos \in {0, Used - 2} : crt = IF os = "jos" THEN cputs(Blank(pos), PROMPT) ELSE Blank(pos)
  /\ start = Place(crt)

TerminalNext == kbdintr \/ uartintr \/ monitor \/ consoleread \/ consolewrite

-----------------------------------------------------------------------------
(* The modifiers as the user sees them: one is on when its last key event  *)
(* was a press, and caps lock is on after an odd number of presses.        *)
Modifier(key) ==
  CASE key \in {"lshift", "rshift"} -> {"SHIFT"} [] key \in {"ctl", "rctl"} -> {"CTL"}
    [] key \in {"alt", "ralt"} -> {"ALT"} [] OTHER -> {}
RECURSIVE Flags(_), Chars(_)
Flags(i) ==
  IF i = 0 THEN {}
  ELSE LET before == Flags(i - 1)
           key    == script[i][2]
       IN  CASE script[i] = <<"down", "caps">> -> Toggle(before, {"CAPSLOCK"})
             [] script[i][1] = "down" /\ key # "caps" -> before \cup Modifier(key)
             [] script[i][1] = "up" -> before \ Modifier(key)
             [] OTHER -> before

(* After the bytes of a key kbdgetc() knows which modifiers are on and is  *)
(* not in the middle of an E0 sequence, whatever was pressed and released  *)
(* in between: no modifier is stuck or lost.  Only control, alt and delete *)
(* together reset JOS.                                                     *)
ModifiersRight ==
  /\ port = <<>> => shift = Flags(got)
  /\ os = "off" => {"CTL", "ALT"} \subseteq Flags(got) /\ script[got] = <<"down", "delete">>

(* The characters that the events up to i mean.                            *)
KeyMeans(key, flags) ==
  CASE key \in {"a", "u", "p", "d"} ->
         LET row == CHOOSE r \in charmap : r[2] = key
         IN  IF "CTL" \in flags THEN row[4]
             ELSE IF ("SHIFT" \in flags) # ("CAPSLOCK" \in flags) THEN row[3] ELSE row[2]
    [] key = "enter" -> IF "CTL" \in flags THEN "cr" ELSE "nl"
    [] key \in {"space", "back"} -> IF "CTL" \in flags THEN NO ELSE IF key = "space" THEN " " ELSE "bs"
    [] key = "delete" -> "del"
    [] OTHER -> NO
Chars(i) ==
  IF i = 0 THEN <<>>
  ELSE Chars(i - 1) \o
       CASE script[i][1] = "rx" -> <<script[i][2]>>
         [] script[i][1] = "down" /\ KeyMeans(script[i][2], Flags(i)) # NO -> <<KeyMeans(script[i][2], Flags(i))>>
         [] OTHER -> <<>>

(* The ring of JOS holds the last characters that came in, in order, and   *)
(* as many as were not taken yet, except that CONSBUFSIZE of them are lost *)
(* each time that the writer, which never looks at rpos, laps the reader.   *)
RingRight ==
  os = "jos" /\ port = <<>> =>
    LET n    == (ring.wpos - ring.rpos) % CONSBUFSIZE
        came == Chars(got)
    IN  /\ (Len(came) - taken) % CONSBUFSIZE = n
        /\ \A k \in 1..n : ring.buf[(ring.rpos + k - 1) % CONSBUFSIZE] = came[Len(came) - n + k]

(* The line being edited is what the screen shows before the cursor, after *)
(* any wrapping, scrolling and erasing: in JOS always and after the        *)
(* prompt, in xv6 until something else is printed.  Erasing goes back to   *)
(* where the line started, nothing is left behind the cursor, and the      *)
(* cursor stays in the rows in use: cgaputc() never panics.                *)
Shows(text) ==
  /\ Len(text) <= crt.pos
  /\ \A k \in DOMAIN text : crt.cell[crt.pos - Len(text) + k - 1] = text[k]
ScreenRight ==
  /\ crt.pos \in 0 .. (IF os = "xv6" THEN Used ELSE CRT_SIZE) - 1
  /\ \A k \in ScreenCells : k >= crt.pos => crt.cell[k] = BLANK
  /\ os = "jos" => Shows(PROMPT \o line)
  /\ os = "xv6" /\ start # Lost => Shows(line) /\ Place(crt) = start + Len(line)

(* runcmd() finds the words of the line: a command has at most MAXARGS - 1 *)
(* of them.                                                                *)
WordsRight ==
  LET starts == {i \in DOMAIN line : line[i] # " " /\ (i = 1 \/ line[i - 1] = " ")}
      ends   == {i \in DOMAIN line : line[i] # " " /\ (i = Len(line) \/ line[i + 1] = " ")}
      nth(S, k) == CHOOSE i \in S : Cardinality({j \in S : j <= i}) = k
      r      == Argv(<<>>, line)
  IN  IF Cardinality(starts) >= ARGS THEN ~r.ok
      ELSE r.ok /\ r.argv = [k \in 1..Cardinality(starts) |-> SubSeq(line, nth(starts, k), nth(ends, k))]

(* From the keys to the command: what the user hits is what the systems    *)
(* understand, show and run.                                               *)
TerminalRight == ModifiersRight /\ RingRight /\ ScreenRight /\ WordsRight

=============================================================================
