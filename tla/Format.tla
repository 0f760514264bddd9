------------------------------- MODULE Format ------------------------------
(***************************************************************************)
(* Formatted output and the routines on strings and memory of xv6          *)
(* (printf.c, console.c, ulib.c, string.c) and of JOS (lib/printfmt.c,     *)
(* lib/string.c), as operators that follow their loops.  A character is a  *)
(* one-letter string, NUL ends a string; an int has the values of a uint   *)
(* modulo UMAX.  task holds the inputs of one call.                        *)
(***************************************************************************)
EXTENDS Integers, FiniteSetsExt, SequencesExt

CONSTANTS
  UMAX,  \* 2^32
  LMAX,  \* 2^64, of unsigned long long
  MAXERROR,
  Tasks  \* the calls that are checked

VARIABLE task

NULCHAR == "0c"
Digit == <<"0", "1", "2", "3", "4", "5", "6", "7", "8", "9", "a", "b", "c", "d", "e", "f">>
NullPointer == <<NULCHAR>>  \* a char pointer that is 0
NullText == <<"(", "n", "u", "l", "l", ")">>
Fill(n, c) == [i \in 1..Max({n, 0}) |-> c]
Char(s, i) == IF i <= Len(s) THEN s[i] ELSE NULCHAR

-----------------------------------------------------------------------------
(* printf() and cprintf() of xv6: printint() puts the digits into a buffer *)
(* from the last to the first.                                             *)
RECURSIVE Buffer(_, _), printf(_, _, _), printnum(_, _, _, _), vprintfmt(_, _), escape(_, _, _, _)

Buffer(x, base) ==
  <<Digit[(x % base) + 1]>> \o IF x \div base = 0 THEN <<>> ELSE Buffer(x \div base, base)

printint_int(xx, base, sgn) ==
  Reverse(IF sgn /\ xx < 0 THEN Append(Buffer((-xx) % (UMAX \div 2), base), "-") ELSE Buffer(xx % UMAX, base))
printint(xx, base, sgn) ==
  Reverse(IF sgn /\ xx < 0 THEN Append(Buffer((-xx) % UMAX, base), "-") ELSE Buffer(xx % UMAX, base))

(* With chars the conversion %c is known (printf.c), without it is not     *)
(* (console.c).  A % at the end prints nothing.                            *)
printf(fmt, args, chars) ==
  LET c    == fmt[2]
      next == SubSeq(fmt, 3, Len(fmt))
      with(text) == text \o printf(next, Tail(args), chars)
  IN  IF fmt = <<>> THEN <<>>
      ELSE IF fmt[1] # "%" THEN <<fmt[1]>> \o printf(Tail(fmt), args, chars)
      ELSE IF Len(fmt) = 1 THEN <<>>
      ELSE CASE c = "d" -> with(printint(args[1], 10, TRUE))
             [] c \in {"x", "p"} -> with(printint(args[1], 16, FALSE))
             [] c = "s" -> with(IF args[1] = NullPointer THEN NullText ELSE args[1])
             [] c = "c" /\ chars -> with(<<args[1]>>)
             [] c = "%" -> <<c>> \o printf(next, args, chars)
             [] OTHER -> <<"%", c>> \o printf(next, args, chars)

cprintf(fmt, args) == printf(fmt, args, FALSE)

-----------------------------------------------------------------------------
(* vprintfmt() of JOS.                                                     *)
printnum(num, base, width, padc) ==
  Append(IF num >= base THEN printnum(num \div base, base, width - 1, padc)
         ELSE Fill(width - 1, padc),
         Digit[(num % base) + 1])

getuint(n, lflag) == n % (IF lflag >= 2 THEN LMAX ELSE UMAX)

(* %s: strnlen() with a precision of -1 has no limit.                      *)
strnlen(s, limit) == IF limit < 0 THEN Len(s) ELSE Min({Len(s), limit})

putstring(f, p) ==
  LET n     == strnlen(p, f.precision)
      left  == IF f.width > 0 /\ f.padc # "-" THEN f.width - n ELSE 0
      right == IF f.width > 0 /\ f.padc # "-" THEN 0 ELSE f.width - n
  IN  Fill(left, f.padc) \o SubSeq(p, 1, n) \o Fill(right, " ")

vprintfmt(fmt, args) ==
  IF fmt = <<>> THEN <<>>
  ELSE IF fmt[1] # "%" THEN <<fmt[1]>> \o vprintfmt(Tail(fmt), args)
  ELSE escape([padc |-> " ", width |-> -1, precision |-> -1, lflag |-> 0], Tail(fmt), Tail(fmt), args)

(* The switch, reached by reswitch after a flag; all is what follows the % *)
(* and is printed literally if the escape is not known.                    *)
Nines == {Digit[i] : i \in 1..10}
Value(c) == CHOOSE v \in 0..9 : Digit[v + 1] = c
Sized(f, n) == IF f.width < 0 THEN [f EXCEPT !.width = n, !.precision = -1] ELSE [f EXCEPT !.precision = n]
Number(s) == FoldLeft(LAMBDA n, c : n * 10 + Value(c), 0, s)

(* The names of the errors are abstracted to one word.                     *)
error_text(err) ==
  IF err >= MAXERROR \/ err = 0 THEN vprintfmt(<<"e", " ", "%", "d">>, <<err>>)
  ELSE vprintfmt(<<"%", "s">>, <<<<"e">>>>)

escape(f, fmt, all, args) ==
  LET ch   == Char(fmt, 1)
      next == Tail(fmt)
      again(g) == escape(g, next, all, args)
      run  == Min({i \in 1..(Len(fmt) + 1) : Char(fmt, i) \notin Nines})
      with(text) == text \o vprintfmt(next, Tail(args))
      number(num, base) == with(printnum(num, base, f.width, f.padc))
      signed == args[1]
  IN  CASE ch \in {"-", "0"} -> again([f EXCEPT !.padc = ch])
        [] ch \in Nines \ {"0"} ->
             escape(Sized(f, Number(SubSeq(fmt, 1, run - 1))), SubSeq(fmt, run, Len(fmt)), all, args)
        [] ch = "*" -> escape(Sized(f, args[1]), next, all, Tail(args))
        [] ch = "." -> again([f EXCEPT !.width = Max({@, 0})])
        [] ch = "#" -> again(f)  \* all characters are printable
        [] ch = "l" -> again([f EXCEPT !.lflag = @ + 1])
        [] ch = "c" -> with(<<args[1]>>)
        [] ch = "e" -> with(error_text(Max({args[1], -args[1]})))
        [] ch = "s" -> with(putstring(f, IF args[1] = NullPointer THEN NullText ELSE args[1]))
        [] ch = "d" /\ signed < 0 -> <<"-">> \o number(-signed, 10)
        [] ch = "d" /\ signed >= 0 -> number(signed, 10)
        [] ch = "u" -> number(getuint(args[1], f.lflag), 10)
        [] ch = "o" -> number(getuint(args[1], f.lflag), 8)
        [] ch = "x" -> number(getuint(args[1], f.lflag), 16)
        [] ch = "p" -> <<"0", "x">> \o number(getuint(args[1], 0), 16)
        [] ch = "%" -> <<ch>> \o vprintfmt(next, args)
        [] OTHER -> <<"%">> \o vprintfmt(all, args)

(* vsnprintf() into n places: sprintputch() counts what does not fit.      *)
E_INVAL == 3

sprintputch(b, ch) ==
  [cnt |-> b.cnt + 1, room |-> IF b.room > 0 THEN b.room - 1 ELSE 0,
   text |-> IF b.room > 0 THEN Append(b.text, ch) ELSE b.text]

vsnprintf(n, fmt, args) ==
  IF n < 1 THEN [cnt |-> -E_INVAL, room |-> 0, text |-> <<>>]
  ELSE FoldLeft(sprintputch, [cnt |-> 0, room |-> n - 1, text |-> <<>>], vprintfmt(fmt, args))

-----------------------------------------------------------------------------
(* The other way: strtol() of JOS, and atoi().                             *)
RECURSIVE strtol_digits(_, _, _), atoi(_, _)

DigitValue(c) == IF \E v \in 0..15 : Digit[v + 1] = c THEN CHOOSE v \in 0..15 : Digit[v + 1] = c ELSE 99

strtol_digits(s, base, val) ==
  IF s = <<>> \/ DigitValue(Char(s, 1)) >= base THEN val
  ELSE strtol_digits(Tail(s), base, val * base + DigitValue(s[1]))

strtol(s, base) ==
  LET a    == SubSeq(s, Min({t \in 1..(Len(s) + 1) : Char(s, t) # " "}), Len(s))
      neg  == Char(a, 1) = "-"
      b    == IF Char(a, 1) \in {"+", "-"} THEN Tail(a) ELSE a
      hex  == base \in {0, 16} /\ Char(b, 1) = "0" /\ Char(b, 2) = "x"
      oct  == ~hex /\ base = 0 /\ Char(b, 1) = "0"
      val  == IF hex THEN strtol_digits(SubSeq(b, 3, Len(b)), 16, 0)
              ELSE IF oct THEN strtol_digits(Tail(b), 8, 0)
              ELSE strtol_digits(b, IF base = 0 THEN 10 ELSE base, 0)
  IN  IF neg THEN -val ELSE val

atoi(s, n) == IF Char(s, 1) \in Nines THEN atoi(Tail(s), n * 10 + Value(s[1])) ELSE n

-----------------------------------------------------------------------------
(* Copies.  A memory is a function from addresses; a destination of n      *)
(* characters is a sequence whose places after the n-th are not its own.   *)
CopyCells(mem, dst, src, order) ==
  FoldLeft(LAMBDA m, i : [m EXCEPT ![dst + i] = m[src + i]], mem, order)
Upwards(n) == [i \in 1..n |-> i - 1]

umemmove(mem, dst, src, n) == CopyCells(mem, dst, src, Upwards(n))

memmove(mem, dst, src, n) ==
  CopyCells(mem, dst, src, IF src < dst /\ src + n > dst THEN Reverse(Upwards(n)) ELSE Upwards(n))

(* JOS moves four bytes at a time when everything is aligned.              *)
CopyWords(mem, dst, src, order) ==
  FoldLeft(LAMBDA m, i : [m EXCEPT ![dst + i] = m[src + i], ![dst + i + 1] = m[src + i + 1],
                                   ![dst + i + 2] = m[src + i + 2], ![dst + i + 3] = m[src + i + 3]],
           mem, order)
jmemmove(mem, dst, src, n) ==
  LET back  == src < dst /\ src + n > dst
      words == src % 4 = 0 /\ dst % 4 = 0 /\ n % 4 = 0
      order == IF words THEN [i \in 1..(n \div 4) |-> 4 * (i - 1)] ELSE Upwards(n)
      way   == IF back THEN Reverse(order) ELSE order
  IN  IF words THEN CopyWords(mem, dst, src, way) ELSE CopyCells(mem, dst, src, way)

RECURSIVE CopyString(_, _, _, _)
CopyString(dst, t, i, n) ==
  IF n <= 0 THEN [dst |-> dst, i |-> i, n |-> n - 1]
  ELSE IF Char(t, i) = NULCHAR THEN [dst |-> [dst EXCEPT ![i] = NULCHAR], i |-> i + 1, n |-> n - 1]
  ELSE CopyString([dst EXCEPT ![i] = t[i]], t, i + 1, n - 1)

(* strncpy(): the second loop pads; in JOS one loop does both.             *)
strncpy(dst, t, n) ==
  LET r == CopyString(dst, t, 1, n)
  IN  [k \in DOMAIN dst |-> IF k \in r.i..(r.i + r.n - 1) THEN NULCHAR ELSE r.dst[k]]

jstrncpy(dst, t, n) ==
  FoldLeft(LAMBDA s, k : [s EXCEPT ![k] = Char(t, k)], dst, [k \in 1..n |-> k])

(* safestrcpy(): the copy stops one short of n, and a zero follows it.     *)
safestrcpy(dst, t, n) ==
  LET r == CopyString(dst, t, 1, n - 1)
  IN  IF n <= 0 THEN dst ELSE [r.dst EXCEPT ![r.i] = NULCHAR]

strlcpy(dst, t, n) ==
  LET m == Min({Len(t), n - 1})
  IN  IF n = 0 THEN dst
      ELSE [k \in DOMAIN dst |-> IF k <= m THEN t[k] ELSE IF k = m + 1 THEN NULCHAR ELSE dst[k]]

RECURSIVE strncmp(_, _, _)
strncmp(p, q, n) ==
  IF n = 0 THEN 0
  ELSE IF Char(p, 1) # NULCHAR /\ Char(p, 1) = Char(q, 1) THEN strncmp(Tail(p), Tail(q), n - 1)
  ELSE DigitValue(Char(p, 1)) - DigitValue(Char(q, 1))

-----------------------------------------------------------------------------
FormatInit == task \in Tasks

Padded(width, zero) == (IF zero THEN <<"0">> ELSE <<>>) \o (IF width = 0 THEN <<>> ELSE <<Digit[width + 1]>>)
Base(c) == CASE c \in {"d", "u"} -> 10 [] c = "o" -> 8 [] OTHER -> 16

(* A number that is printed can be read back: strtol() and atoi() return   *)
(* the number that vprintfmt(), printf() or cprintf() was given, the least *)
(* int included, as the conversion takes it (signed, or modulo the width   *)
(* of its type), through any padding; the result is as long as the width.  *)
(* Excepted are a negative number and a pointer padded with blanks, whose  *)
(* sign or 0x comes before the blanks.                                     *)
NumbersReadBack ==
  task.op = "number" =>
    LET n    == task.n
        long == [i \in 1..task.long |-> "l"]
        s    == vprintfmt(<<"%">> \o Padded(task.width, task.zero) \o long \o <<task.conv>>, <<n>>)
        want == IF task.conv = "d" THEN n ELSE getuint(n, IF task.conv = "p" THEN 0 ELSE task.long)
    IN  /\ (n >= 0 /\ task.conv # "p") \/ task.zero \/ task.width = 0 => strtol(s, Base(task.conv)) = want
        /\ Len(s) >= task.width
        /\ strtol(printf(<<"%", "d">>, <<n>>, TRUE), 10) = n
        /\ strtol(cprintf(<<"%", "x">>, <<n>>), 16) = n % UMAX
        /\ n >= 0 => atoi(printf(<<"%", "d">>, <<n>>, TRUE), 0) = n

(* No routine writes outside the n places it is given, and what it writes  *)
(* is the text as far as it fits: vsnprintf(), strlcpy() and safestrcpy()  *)
(* leave room for the zero, strncpy() pads with zeros.                     *)
TextFits ==
  task.op = "text" =>
    LET t   == task.text
        n   == task.n
        dst == <<"?", "?", "?", "?", "?", "?">>
        cut == SubSeq(t, 1, Min({Len(t), n - 1}))
        kept(s) == \A k \in (n + 1)..6 : s[k] = "?"
        holds(s) == kept(s) /\ (n > 0 => SubSeq(s, 1, Len(cut) + 1) = Append(cut, NULCHAR))
        pads(s) == kept(s) /\ \A k \in 1..n : s[k] = Char(t, k)
        b   == vsnprintf(n, <<"a", "%", "s">>, <<t>>)
    IN  /\ holds(safestrcpy(dst, t, n)) /\ holds(strlcpy(dst, t, n))
        /\ pads(strncpy(dst, t, n)) /\ pads(jstrncpy(dst, t, n))
        /\ n > 0 => /\ b.cnt = 1 + Len(t) /\ Len(b.text) < n
                    /\ b.text = SubSeq(<<"a">> \o t, 1, Min({n - 1, b.cnt}))
        /\ strncmp(t, cut, n) = 0 <=> (Len(t) < n \/ n = 0)

(* memmove() of the kernels moves overlapping memory as if through a copy; *)
(* the one of the user library, which only goes upwards, does if the       *)
(* source is not just below the destination.                               *)
MovesWhole ==
  task.op = "move" =>
    LET mem  == [a \in 0..15 |-> a]
        dst  == task.dst
        src  == task.src
        n    == task.n
        want == [a \in 0..15 |-> IF a \in dst..(dst + n - 1) THEN a - dst + src ELSE a]
    IN  /\ memmove(mem, dst, src, n) = want /\ jmemmove(mem, dst, src, n) = want
        /\ ~(src < dst /\ dst < src + n) => umemmove(mem, dst, src, n) = want

(* Formatted output and the string and memory routines do what their       *)
(* callers expect, at the edges of ints and of buffers too.                *)
FormatRight == NumbersReadBack /\ TextFits /\ MovesWhole

=============================================================================
