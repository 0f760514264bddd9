------------------------------- MODULE Lookup ------------------------------
(***************************************************************************)
(* Programs and routines that search: grep.c and wc.c of xv6, which read a *)
(* file through a buffer, and the search of the kernel's symbol table in   *)
(* kern/kdebug.c of JOS.  query holds the inputs of one call.              *)
(***************************************************************************)
EXTENDS Integers, FiniteSetsExt, SequencesExt

CONSTANTS
  GREPBUF,  \* size of buf in grep.c
  WCBUF,    \* size of buf in wc.c
  Queries   \* the calls that are checked

VARIABLE query

NEWLINE == "nl"

-----------------------------------------------------------------------------
(* The regular expressions of grep.c: ^ . * $.                             *)
RECURSIVE matchhere(_, _), matchstar(_, _, _), grep(_, _, _)

Letter(s, i) == IF i <= Len(s) THEN s[i] ELSE "end"
From(s, i) == SubSeq(s, i, Len(s))

matchhere(re, text) ==
  IF re = <<>> THEN TRUE
  ELSE IF Letter(re, 2) = "*" THEN matchstar(re[1], From(re, 3), text)
  ELSE IF re = <<"$">> THEN text = <<>>
  ELSE /\ text # <<>> /\ re[1] \in {".", text[1]}
       /\ matchhere(Tail(re), Tail(text))

matchstar(c, re, text) ==
  \/ matchhere(re, text)
  \/ text # <<>> /\ c \in {".", text[1]} /\ matchstar(c, re, Tail(text))

match(re, text) ==
  IF Letter(re, 1) = "^" THEN matchhere(Tail(re), text)
  ELSE \E i \in 1..(Len(text) + 1) : matchhere(re, From(text, i))

(* grep(): kept is the start of a line that the last read() cut; it goes   *)
(* to the front of the buffer, unless it is all that is in it.             *)
Matching(pattern, text) ==
  LET ends   == {i \in DOMAIN text : text[i] = NEWLINE}
      line(i) == SubSeq(text, Max({j \in ends : j < i} \cup {0}) + 1, i - 1)
      one(i) == IF i \in ends /\ match(pattern, line(i)) THEN Append(line(i), NEWLINE) ELSE <<>>
  IN  FoldLeft(LAMBDA o, i : o \o one(i), <<>>, [i \in DOMAIN text |-> i])

grep_next(pattern, text, input) ==
  LET last == Max({i \in DOMAIN text : text[i] = NEWLINE} \cup {0})
  IN  grep(pattern, IF last = 0 THEN <<>> ELSE From(text, last + 1), input)

Room(kept, input) == Min({GREPBUF - Len(kept) - 1, Len(input)})

grep(pattern, kept, input) ==
  LET n == Room(kept, input)
  IN  IF n <= 0 THEN <<>>
      ELSE LET text == kept \o SubSeq(input, 1, n)
           IN  Matching(pattern, text) \o grep_next(pattern, text, From(input, n + 1))

-----------------------------------------------------------------------------
(* wc(): lines, words and characters, a word going on through a read().    *)
RECURSIVE wc_read(_, _)

wc_char(s, ch) ==
  LET space == ch \in {" ", NEWLINE}
  IN  [l |-> s.l + (IF ch = NEWLINE THEN 1 ELSE 0), c |-> s.c + 1,
       w |-> s.w + (IF space \/ s.inword THEN 0 ELSE 1), inword |-> ~space]

wc_read(s, input) ==
  LET n == Min({WCBUF, Len(input)})
  IN  IF n = 0 THEN s ELSE wc_read(FoldLeft(wc_char, s, SubSeq(input, 1, n)), From(input, n + 1))

wc(input) == wc_read([l |-> 0, c |-> 0, w |-> 0, inword |-> FALSE], input)

-----------------------------------------------------------------------------
(* A symbol table: entries [type, value, desc, name] from index 0.         *)
Back(stabs, type, m, l) == Max({k \in l..m : stabs[k].type = type} \cup {l - 1})

RECURSIVE binsearch_loop(_, _, _)

binsearch_loop(stabs, type, s) ==
  LET true_m == (s.l + s.r) \div 2
      m      == Back(stabs, type, true_m, s.l)
      hit    == [s EXCEPT !.any = TRUE]
      v      == stabs[m].value
  IN  IF s.l > s.r THEN s
      ELSE IF m < s.l THEN binsearch_loop(stabs, type, [s EXCEPT !.l = true_m + 1])
      ELSE IF v < s.addr THEN binsearch_loop(stabs, type, [hit EXCEPT !.left = m, !.l = true_m + 1])
      ELSE IF v > s.addr THEN binsearch_loop(stabs, type, [hit EXCEPT !.right = m - 1, !.r = m - 1])
      ELSE binsearch_loop(stabs, type, [hit EXCEPT !.left = m, !.l = m, !.addr = @ + 1])

stab_bracket(stabs, type, s) ==
  LET stop == IF s.right < s.left THEN s.right ELSE Back(stabs, type, s.right, s.left + 1)
  IN  IF s.any THEN <<stop, s.right>> ELSE <<s.left, s.left - 1>>

stab_binsearch(stabs, left, right, type, addr) ==
  stab_bracket(stabs, type, binsearch_loop(stabs, type,
    [l |-> left, r |-> right, left |-> left, right |-> right, any |-> FALSE, addr |-> addr]))

(* debuginfo_eip(): the file, in it the function, in it the line, whose    *)
(* values count from the start of the function; each is a bracket.         *)
NoFile == "unknown"

Eipdebuginfo(stabs, file, fun, line) ==
  LET named == {k \in file[1]..line[1] :
                  stabs[k].type = "SOL" \/ (stabs[k].type = "SO" /\ stabs[k].value # 0)}
      args  == Min({k \in (fun[1] + 1)..Max({fun[1] + 1, fun[2]}) :
                      k >= fun[2] \/ stabs[k].type # "PSYM"}) - (fun[1] + 1)
  IN  IF file[1] = 0 \/ line[2] < line[1] THEN [ok |-> FALSE]
      ELSE [ok |-> TRUE, line |-> stabs[line[2]].desc,
            fn |-> IF fun[1] <= fun[2] THEN stabs[fun[1]].name ELSE NoFile,
            file |-> IF named = {} THEN NoFile ELSE stabs[Max(named)].name,
            narg |-> IF fun[1] < fun[2] THEN args ELSE 0]

lline(stabs, addr, file, fun) ==
  LET found == fun[1] <= fun[2]
      base  == IF found THEN stabs[fun[1]].value ELSE 0
      in    == IF found THEN fun ELSE file
  IN  Eipdebuginfo(stabs, file, fun, stab_binsearch(stabs, in[1], in[2], "SLINE", addr - base))
lfun(stabs, addr, file) ==
  lline(stabs, addr, file, stab_binsearch(stabs, file[1], file[2], "FUN", addr))
debuginfo_eip(stabs, addr) ==
  lfun(stabs, addr, stab_binsearch(stabs, 0, Max(DOMAIN stabs), "SO", addr))

-----------------------------------------------------------------------------
LookupInit == query \in Queries

(* What a regular expression stands for: a sequence of items, each a       *)
(* character that may be starred, laid over consecutive pieces of the      *)
(* text, from its start after ^ and to its end before a last $.            *)
RECURSIVE Items(_)
Items(re) ==
  IF re = <<>> THEN <<>>
  ELSE IF Letter(re, 2) = "*" THEN << <<re[1], TRUE>> >> \o Items(From(re, 3))
  ELSE IF re = <<"$">> THEN << <<"$", FALSE>> >>
  ELSE << <<re[1], FALSE>> >> \o Items(Tail(re))

Fits(re, text) ==
  LET anchored == Letter(re, 1) = "^"
      all   == Items(IF anchored THEN Tail(re) ELSE re)
      ended == all # <<>> /\ Letter(all, Len(all)) = <<"$", FALSE>>
      it    == IF ended THEN SubSeq(all, 1, Len(all) - 1) ELSE all
      over(i, from, to) == /\ it[i][2] \/ to = from + 1
                           /\ \A k \in (from + 1)..to : it[i][1] \in {".", text[k]}
  IN  \E cuts \in [0..Len(it) -> 0..Len(text)] :
        /\ \A i \in 1..Len(it) : cuts[i - 1] <= cuts[i] /\ over(i, cuts[i - 1], cuts[i])
        /\ anchored => cuts[0] = 0
        /\ ended => cuts[Len(it)] = Len(text)

LinesOf(file) ==
  [i \in 1..Len(SelectSeq(file, LAMBDA ch : ch = NEWLINE)) |->
     LET ends == {k \in DOMAIN file : file[k] = NEWLINE}
         end  == CHOOSE k \in ends : Cardinality({j \in ends : j <= k}) = i
     IN  SubSeq(file, Max({j \in ends : j < end} \cup {0}) + 1, end)]

(* grep() prints exactly the lines that fit the expression, in order and   *)
(* wherever its reads cut them, if no line is longer than its buffer.      *)
GrepRight ==
  query.op = "grep" =>
    LET lines == LinesOf(query.file)
        short(s) == Len(s) < GREPBUF
        wanted(s) == Fits(query.re, SubSeq(s, 1, Len(s) - 1))
    IN  (\A i \in DOMAIN lines : short(lines[i])) /\ (query.file = <<>> \/ Last(query.file) = NEWLINE)
          => grep(query.re, <<>>, query.file) = FlattenSeq(SelectSeq(lines, wanted))

(* wc() counts a word once wherever its reads cut it.                      *)
WcRight ==
  query.op = "wc" =>
    LET f     == query.file
        space(i) == f[i] \in {" ", NEWLINE}
        got   == wc(f)
    IN  /\ got.c = Len(f) /\ got.l = Len(LinesOf(f))
        /\ got.w = Cardinality({i \in DOMAIN f : ~space(i) /\ (i = 1 \/ space(i - 1))})

(* stab_binsearch() brackets an address as a search from the first entry   *)
(* to the last would: left is the last entry of the type that is not above *)
(* the address, right is just before the next one.  debuginfo_eip() then   *)
(* finds the function that an address lies in, the line, and the           *)
(* parameters.  No two entries of a type lie at consecutive addresses.     *)
StabRight ==
  query.op = "stab" =>
    LET t     == query.stabs
        last  == Max(DOMAIN t)
        below(type, a, l, r) == {k \in l..r : t[k].type = type /\ t[k].value <= a}
        above(type, a, l, r) == {k \in l..r : t[k].type = type /\ t[k].value > a}
        info  == debuginfo_eip(t, query.addr)
        so    == Max(below("SO", query.addr, 0, last))
        end   == Min(above("SO", query.addr, 0, last) \cup {last + 1}) - 1
        funs  == below("FUN", query.addr, so, end)
        fun   == Max(funs)
        over  == Min(above("FUN", query.addr, so, end) \cup {end + 1}) - 1
        line  == Max(below("SLINE", query.addr - t[fun].value, fun, over))
    IN  /\ below("SO", query.addr, 0, last) # {} =>
             stab_binsearch(t, 0, last, "SO", query.addr) = <<so, end>>
        /\ below("SO", query.addr, 0, last) # {} /\ funs # {} =>
             info = [ok |-> TRUE, line |-> t[line].desc, fn |-> t[fun].name, file |-> t[so].name,
                     narg |-> Cardinality({k \in fun..over : t[k].type = "PSYM"})]


=============================================================================
