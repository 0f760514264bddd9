------------------------------- MODULE Shell -------------------------------
(***************************************************************************)
(* The shell of xv6 (sh.c) and the one of the first homework (HW1/sh.c):   *)
(* the parser, on the characters of the line, and runcmd() as processes    *)
(* that take one system call at a time.  The kernel is what its modules    *)
(* promise: a pipe is a bounded channel, fork() copies the descriptors.    *)
(* cat and echo are the programs run.                                      *)
(***************************************************************************)
EXTENDS Integers, FiniteSetsExt, SequencesExt, Functions, TLC

CONSTANTS
  MAXARGS,  \* of struct execcmd
  PIPEROOM, \* bytes a pipe holds
  NPIDS,    \* processes the kernel has room for
  FAILS,    \* bound: calls of fork() and pipe() that fail for lack of room
  Typed,    \* command trees whose text is parsed
  Sessions  \* shells, and the sequences of trees typed into them

VARIABLES
  sh,     \* "xv6" or "hw1"
  buf,    \* the line read, character by character
  typed,  \* the trees typed so far; buf is the text of the last
  lines,  \* trees still to be typed
  procs,  \* the processes
  chan,   \* what each pipe holds
  ofile,  \* the open files: name and offset
  files,  \* contents by name
  out,    \* output on the console
  fails   \* failed calls of fork() and pipe()

shvars == <<sh, buf, typed, lines, procs, chan, ofile, files, out, fails>>

-----------------------------------------------------------------------------
(* Parsing.  A position is an index of buf, one more than its length is    *)
(* es; a result is a tree, the position after it, and whether the parser   *)
(* has got this far without exit().  A word is a pair of positions.        *)
NUL == "nul"
whitespace == {" "}
xv6_symbols == {"<", "|", ">", "&", ";", "(", ")"}
hw1_symbols == {"<", "|", ">"}
symbols == IF sh = "xv6" THEN xv6_symbols ELSE hw1_symbols
es == Len(buf) + 1
At(s) == IF s < es THEN buf[s] ELSE NUL
Until(s, stop) == Min({i \in s..es : i = es \/ buf[i] \in stop})
Past(s) == Min({i \in s..es : i = es \/ buf[i] \notin whitespace})

execcmd(argv) == <<"EXEC", argv>>
redircmd(cmd, file, mode) == <<"REDIR", cmd, file, mode>>
pipecmd(left, right) == <<"PIPE", left, right>>
listcmd(left, right) == <<"LIST", left, right>>
backcmd(cmd) == <<"BACK", cmd>>

(* The end of the token at q.                                              *)
WordEnd(q) == Until(q, whitespace \cup symbols)
xv6_end(q) ==
  CASE At(q) = NUL -> q
    [] At(q) = ">" /\ At(q + 1) = ">" -> q + 2
    [] At(q) \in xv6_symbols /\ ~(At(q) = ">" /\ At(q + 1) = ">") -> q + 1
    [] OTHER -> WordEnd(q)
hw1_end(q) ==
  CASE At(q) = NUL -> q [] At(q) \in hw1_symbols -> q + 1 [] OTHER -> WordEnd(q)

gettoken(s) ==
  LET q  == Past(s)
      eq == IF sh = "xv6" THEN xv6_end(q) ELSE hw1_end(q)
  IN  [tok |-> IF At(q) \in symbols \cup {NUL} THEN At(q) ELSE "a",
       word |-> <<q, eq>>, s |-> Past(eq)]

peek(s, toks) == At(Past(s)) \in toks

Fail(s) == [ok |-> FALSE, cmd |-> execcmd(<<>>), s |-> s]
Got(cmd, s) == [ok |-> TRUE, cmd |-> cmd, s |-> s]
RECURSIVE parseline(_), parsepipe(_), parseredirs(_, _, _), ampersands(_), arguments(_, _, _)

(* The redirections at s, the first innermost, around the command cmd.     *)
(* They are kept as a sequence until the arguments are complete.           *)
redirection(redirs, mode, f) == parseredirs(f.tok = "a", Append(redirs, <<f.word, mode>>), f.s)
parseredirs(ok, redirs, s) ==
  IF ~ok \/ ~peek(s, {"<", ">"}) THEN [ok |-> ok, redirs |-> redirs, s |-> s]
  ELSE redirection(redirs, gettoken(s).tok, gettoken(gettoken(s).s))

Redirected(cmd, redirs) ==
  FoldLeft(LAMBDA c, r : redircmd(c, r[1], r[2]), cmd, redirs)

(* The loop of parseexec(): argv so far, after the redirections r; t is    *)
(* the token there.                                                        *)
argument(argv, r, t, stops) ==
  CASE ~r.ok -> Fail(r.s)
    [] peek(r.s, stops) \/ t.tok = NUL -> Got(Redirected(execcmd(argv), r.redirs), r.s)
    [] t.tok # "a" \/ Len(argv) + 1 >= MAXARGS -> Fail(r.s)
    [] OTHER -> arguments(Append(argv, t.word), parseredirs(TRUE, r.redirs, t.s), stops)
arguments(argv, r, stops) == argument(argv, r, gettoken(r.s), stops)

blockredirs(cmd, r) == [ok |-> r.ok, cmd |-> Redirected(cmd, r.redirs), s |-> r.s]
blockend(c) ==
  IF ~c.ok \/ ~peek(c.s, {")"}) THEN Fail(c.s)
  ELSE blockredirs(c.cmd, parseredirs(TRUE, <<>>, gettoken(c.s).s))
parseblock(s) == blockend(parseline(gettoken(s).s))

xv6_exec(s) ==
  IF peek(s, {"("}) THEN parseblock(s)
  ELSE arguments(<<>>, parseredirs(TRUE, <<>>, s), {"|", ")", "&", ";"})
hw1_exec(s) == arguments(<<>>, parseredirs(TRUE, <<>>, s), {"|"})
parseexec(s) == IF sh = "xv6" THEN xv6_exec(s) ELSE hw1_exec(s)

piped(c) ==
  IF ~c.ok \/ ~peek(c.s, {"|"}) THEN c
  ELSE [parsepipe(gettoken(c.s).s) EXCEPT !.cmd = pipecmd(c.cmd, @)]
parsepipe(s) == piped(parseexec(s))

ampersands(c) ==
  IF c.ok /\ peek(c.s, {"&"}) THEN ampersands(Got(backcmd(c.cmd), gettoken(c.s).s)) ELSE c

listed(c) ==
  IF ~c.ok \/ ~peek(c.s, {";"}) THEN c
  ELSE [parseline(gettoken(c.s).s) EXCEPT !.cmd = listcmd(c.cmd, @)]
xv6_line(s) == listed(ampersands(parsepipe(s)))
hw1_line(s) == parsepipe(s)
parseline(s) == IF sh = "xv6" THEN xv6_line(s) ELSE hw1_line(s)

(* nulterminate() writes a zero at the end of every word, so that a word   *)
(* runs to the first zero; mkcopy() in the other shell copies it.          *)
RECURSIVE Words(_), Named(_, _)
Words(cmd) ==
  CASE cmd[1] = "EXEC"  -> ToSet(cmd[2])
    [] cmd[1] = "REDIR" -> Words(cmd[2]) \cup {cmd[3]}
    [] cmd[1] = "BACK"  -> Words(cmd[2])
    [] OTHER            -> Words(cmd[2]) \cup Words(cmd[3])

nulterminate_none(cmd) == {}
nulterminate(cmd) == {w[2] : w \in Words(cmd)}

xv6_string(zeros, w) ==
  SubSeq(buf, w[1], Min({i \in w[1]..es : i \in zeros \cup {es}}) - 1)
mkcopy(w) == SubSeq(buf, w[1], w[2] - 1)
String(zeros, w) == IF sh = "xv6" THEN xv6_string(zeros, w) ELSE mkcopy(w)

Named(zeros, cmd) ==
  CASE cmd[1] = "EXEC"  -> execcmd([i \in DOMAIN cmd[2] |-> String(zeros, cmd[2][i])])
    [] cmd[1] = "REDIR" -> redircmd(Named(zeros, cmd[2]), String(zeros, cmd[3]), cmd[4])
    [] cmd[1] = "BACK"  -> backcmd(Named(zeros, cmd[2]))
    [] OTHER            -> <<cmd[1], Named(zeros, cmd[2]), Named(zeros, cmd[3])>>

parsed(c) == [ok |-> c.ok /\ Past(c.s) = es, cmd |-> Named(nulterminate(c.cmd), c.cmd)]
parsecmd == parsed(parseline(1))

-----------------------------------------------------------------------------
(* Running.  A process is a record: pp its parent (0 is init), fd what its *)
(* descriptors are open on, p the two descriptors that pipe() returned,    *)
(* run the calls it has still to make; when there are none it exits.       *)
Pids == 1..NPIDS
THE_SHELL == 1
Fds == 0..5
P0 == 10  \* p[0] and p[1] as arguments of a call
P1 == 11
Closed == <<"closed", 0>>
Console == <<"con", 0>>
Free == [pp |-> 0, st |-> "free", fd |-> [f \in Fds |-> Closed], p |-> <<0, 0>>, run |-> <<>>]
CAT == <<"c">>
ECHO == <<"e">>

Fd(p, x) == IF x \in {P0, P1} THEN procs[p].p[x - 9] ELSE x
Calls(p, op) == procs[p].st = "live" /\ procs[p].run # <<>> /\ Head(procs[p].run)[1] = op
Arg(p) == Head(procs[p].run)[2]
Rest(p) == Tail(procs[p].run)
Lowest(fd) == Min({f \in Fds : fd[f] = Closed})
IsOpen(end) == \E q \in Pids : \E f \in Fds : procs[q].fd[f] = end
Children(p) == {q \in Pids : procs[q].st # "free" /\ procs[q].pp = p}

Then(p, code, fd) == [procs EXCEPT ![p].run = code, ![p].fd = fd]
Continue(p) == procs' = Then(p, Rest(p), procs[p].fd)
Kernel == <<chan, ofile, files, out, fails>>
Input == <<sh, buf, typed, lines>>

(* runcmd(): the calls a command makes, up to the runcmd() or exec() it    *)
(* ends in.  A redirection is for descriptor 0 or 1.                       *)
RedirFd(mode) == IF mode = "<" THEN 0 ELSE 1

PipeCalls_open(left, right) ==
  << <<"pipe", 0>>,
     <<"fork", << <<"close", 1>>, <<"dup", P1>>, <<"close", P0>>, <<"close", P1>>, <<"run", left>> >> >>,
     <<"fork", << <<"close", 0>>, <<"dup", P0>>, <<"close", P0>>, <<"run", right>> >> >>,
     <<"close", P0>>, <<"close", P1>>, <<"wait", 0>>, <<"wait", 0>> >>
PipeCalls(left, right) ==
  << <<"pipe", 0>>,
     <<"fork", << <<"close", 1>>, <<"dup", P1>>, <<"close", P0>>, <<"close", P1>>, <<"run", left>> >> >>,
     <<"fork", << <<"close", 0>>, <<"dup", P0>>, <<"close", P0>>, <<"close", P1>>, <<"run", right>> >> >>,
     <<"close", P0>>, <<"close", P1>>, <<"wait", 0>>, <<"wait", 0>> >>

ListCalls_nowait(left, right) ==
  << <<"fork", << <<"run", left>> >> >>, <<"run", right>> >>
ListCalls(left, right) ==
  << <<"fork", << <<"run", left>> >> >>, <<"wait", 0>>, <<"run", right>> >>

ExecCalls(argv) == IF argv = <<>> THEN <<>> ELSE << <<"exec", argv>> >>
RedirCalls(cmd, file, mode) ==
  << <<"close", RedirFd(mode)>>, <<"open", <<file, mode>> >>, <<"run", cmd>> >>

xv6_calls(cmd) ==
  CASE cmd[1] = "EXEC"  -> ExecCalls(cmd[2])
    [] cmd[1] = "REDIR" -> RedirCalls(cmd[2], cmd[3], cmd[4])
    [] cmd[1] = "LIST"  -> ListCalls(cmd[2], cmd[3])
    [] cmd[1] = "PIPE"  -> PipeCalls(cmd[2], cmd[3])
    [] cmd[1] = "BACK"  -> << <<"fork", << <<"run", cmd[2]>> >> >> >>

(* The homework's shell runs the right of a pipe itself, and never comes   *)
(* to its waitpid().                                                       *)
hw1_calls(cmd) ==
  CASE cmd[1] = "EXEC"  -> ExecCalls(cmd[2])
    [] cmd[1] = "REDIR" -> RedirCalls(cmd[2], cmd[3], cmd[4])
    [] cmd[1] = "PIPE"  ->
         << <<"pipe", 0>>,
            <<"fork", << <<"close", 1>>, <<"close", P0>>, <<"dup2", 1>>, <<"run", cmd[2]>> >> >>,
            <<"close", 0>>, <<"close", P1>>, <<"dup2", 0>>, <<"run", cmd[3]>> >>

CallsOf(cmd) == IF sh = "xv6" THEN xv6_calls(cmd) ELSE hw1_calls(cmd)

runcmd(p) ==
  /\ Calls(p, "run")
  /\ procs' = Then(p, CallsOf(Arg(p)), procs[p].fd)
  /\ UNCHANGED <<Input, Kernel>>

(* The child of main(): runcmd(parsecmd(buf)).                             *)
parse(p) ==
  /\ Calls(p, "parse")
  /\ procs' = Then(p, IF parsecmd.ok THEN << <<"run", parsecmd.cmd>> >> ELSE <<>>, procs[p].fd)
  /\ UNCHANGED <<Input, Kernel>>

-----------------------------------------------------------------------------
(* The system calls, as the shell uses them.  A call that fails makes the  *)
(* xv6 shell panic(), which is exit(); the other one goes on.              *)
panic(p) == procs' = Then(p, <<>>, procs[p].fd)
GiveUp(p) == IF sh = "xv6" THEN panic(p) ELSE Continue(p)

close(p) ==
  /\ Calls(p, "close")
  /\ procs' = Then(p, Rest(p), [procs[p].fd EXCEPT ![Fd(p, Arg(p))] = Closed])
  /\ UNCHANGED <<Input, Kernel>>

dup(p) ==
  LET fd == procs[p].fd
  IN  /\ Calls(p, "dup")
      /\ procs' = Then(p, Rest(p), [fd EXCEPT ![Lowest(fd)] = fd[Fd(p, Arg(p))]])
      /\ UNCHANGED <<Input, Kernel>>

dup2(p) ==
  LET fd == procs[p].fd
  IN  /\ Calls(p, "dup2")
      /\ procs' = Then(p, Rest(p), [fd EXCEPT ![Arg(p)] = fd[Fd(p, Arg(p) + P0)]])
      /\ UNCHANGED <<Input, Kernel>>

(* open(): xv6 has no O_TRUNC.  cat opens its arguments itself.            *)
Opened(p, name, code) ==
  LET i  == Min({j \in DOMAIN ofile : ~IsOpen(<<"file", j>>)})
      fd == procs[p].fd
  IN  /\ procs' = Then(p, code, [fd EXCEPT ![Lowest(fd)] = <<"file", i>>])
      /\ ofile' = [ofile EXCEPT ![i] = [name |-> name, off |-> 0]]

open(p) ==
  LET name == Arg(p)[1]
      mode == Arg(p)[2]
  IN  /\ Calls(p, "open")
      /\ IF mode = "<" /\ name \notin DOMAIN files
         THEN GiveUp(p) /\ UNCHANGED <<ofile, files>>
         ELSE /\ Opened(p, name, Rest(p))
              /\ files' = IF mode = "<" THEN files
                          ELSE IF sh = "xv6" THEN files @@ (name :> <<>>)
                          ELSE (name :> <<>>) @@ files
      /\ UNCHANGED <<Input, chan, out, fails>>

pipe(p) ==
  LET n  == Min({k \in DOMAIN chan : ~IsOpen(<<"r", k>>) /\ ~IsOpen(<<"w", k>>)})
      fd == procs[p].fd
      r  == Lowest(fd)
      w  == Min({f \in Fds : f > r /\ fd[f] = Closed})
  IN  /\ Calls(p, "pipe")
      /\ \/ /\ procs' = [Then(p, Rest(p), [fd EXCEPT ![r] = <<"r", n>>, ![w] = <<"w", n>>])
                           EXCEPT ![p].p = <<r, w>>]
            /\ chan' = [chan EXCEPT ![n] = <<>>] /\ UNCHANGED fails
         \/ /\ sh = "xv6" /\ fails < FAILS /\ fails' = fails + 1
            /\ GiveUp(p) /\ UNCHANGED chan
      /\ UNCHANGED <<Input, ofile, files, out>>

fork(p) ==
  LET room == {q \in Pids : procs[q].st = "free"}
  IN  /\ Calls(p, "fork")
      /\ \/ /\ room # {}
            /\ procs' = [Then(p, Rest(p), procs[p].fd) EXCEPT
                           ![Min(room)] = [procs[p] EXCEPT !.pp = p, !.run = Arg(p)]]
            /\ UNCHANGED fails
         \/ (room = {} \/ fails < FAILS) /\ fails' = fails + 1 /\ GiveUp(p)
      /\ UNCHANGED <<Input, chan, ofile, files, out>>

wait(p) ==
  /\ Calls(p, "wait")
  /\ \/ Children(p) = {} /\ Continue(p)
     \/ \E q \in Children(p) :
          /\ procs[q].st = "zombie"
          /\ procs' = [Then(p, Rest(p), procs[p].fd) EXCEPT ![q] = Free]
  /\ UNCHANGED <<Input, Kernel>>

(* exit(): init takes the children and reaps those that have ended.        *)
exit(p) ==
  LET gone(q) == IF procs[q].pp # p THEN procs[q]
                 ELSE IF procs[q].st = "zombie" THEN Free
                 ELSE [procs[q] EXCEPT !.pp = 0]
  IN  /\ procs[p].st = "live" /\ procs[p].run = <<>>
      /\ procs' = [[q \in Pids |-> gone(q)] EXCEPT
                     ![p] = IF procs[p].pp = 0 THEN Free
                            ELSE [Free EXCEPT !.pp = procs[p].pp, !.st = "zombie"]]
      /\ UNCHANGED <<Input, Kernel>>

-----------------------------------------------------------------------------
(* The programs.  echo writes its arguments a character at a time; cat     *)
(* copies descriptor 0, or its arguments one after the other.              *)
Message == <<"!">>
EchoOf(argv) ==
  FlattenSeq([i \in 1..(Len(argv) - 1) |->
                Append(argv[i + 1], IF i + 1 < Len(argv) THEN " " ELSE "\n")])

Program(argv) ==
  CASE argv[1] = ECHO -> [i \in 1..Len(EchoOf(argv)) |-> <<"write", <<EchoOf(argv)[i]>> >>]
    [] argv[1] = CAT  -> IF Len(argv) = 1 THEN << <<"cat", 0>> >>
                         ELSE [i \in 1..(Len(argv) - 1) |-> <<"catfile", argv[i + 1]>>]
    [] OTHER -> <<>>

exec(p) ==
  /\ Calls(p, "exec")
  /\ procs' = Then(p, Program(Arg(p)), procs[p].fd)
  /\ UNCHANGED <<Input, Kernel>>

Overwrite(old, off, data) ==
  [i \in 1..Max({Len(old), off + Len(data)}) |->
     IF i \in (off + 1)..(off + Len(data)) THEN data[i - off] ELSE old[i]]

(* write(1, data, n): the kernel puts the bytes into a pipe one at a time  *)
(* and waits while it is full.  An error is ignored.                       *)
write(p) ==
  LET end  == procs[p].fd[1]
      data == Arg(p)
      f    == ofile[end[2]]
  IN  /\ Calls(p, "write")
      /\ CASE end[1] = "con" ->
                /\ Continue(p) /\ out' = out \o data /\ UNCHANGED <<chan, ofile, files>>
           [] end[1] = "file" ->
                /\ Continue(p)
                /\ files' = [files EXCEPT ![f.name] = Overwrite(@, f.off, data)]
                /\ ofile' = [ofile EXCEPT ![end[2]].off = @ + Len(data)]
                /\ UNCHANGED <<chan, out>>
           [] end[1] = "w" /\ IsOpen(<<"r", end[2]>>) ->
                /\ Len(chan[end[2]]) < PIPEROOM
                /\ chan' = [chan EXCEPT ![end[2]] = Append(@, Head(data))]
                /\ procs' = Then(p, IF Len(data) = 1 THEN Rest(p)
                                    ELSE << <<"write", Tail(data)>> >> \o Rest(p), procs[p].fd)
                /\ UNCHANGED <<ofile, files, out>>
           [] OTHER -> Continue(p) /\ UNCHANGED <<chan, ofile, files, out>>
      /\ UNCHANGED <<Input, fails>>

(* One turn of the loop of cat(): read(fd, ...) and, with what it got,     *)
(* write(1, ...).  The console has nothing to read.                        *)
Copy(p, data) ==
  procs' = Then(p, IF data = <<>> THEN Rest(p)
                   ELSE << <<"write", data>> >> \o procs[p].run, procs[p].fd)

cat(p) ==
  LET end == procs[p].fd[Arg(p)]
      f   == ofile[end[2]]
  IN  /\ Calls(p, "cat")
      /\ CASE end[1] = "file" ->
                /\ Copy(p, SubSeq(files[f.name], f.off + 1, Len(files[f.name])))
                /\ ofile' = [ofile EXCEPT ![end[2]].off = Max({@, Len(files[f.name])})]
                /\ UNCHANGED chan
           [] end[1] = "r" ->
                /\ chan[end[2]] # <<>> \/ ~IsOpen(<<"w", end[2]>>)
                /\ Copy(p, chan[end[2]])
                /\ chan' = [chan EXCEPT ![end[2]] = <<>>] /\ UNCHANGED ofile
           [] end[1] = "con" -> Continue(p) /\ UNCHANGED <<chan, ofile>>
           [] OTHER -> procs' = Then(p, << <<"write", Message>> >>, procs[p].fd) /\ UNCHANGED <<chan, ofile>>
      /\ UNCHANGED <<Input, files, out, fails>>

catfile(p) ==
  LET fd == Lowest(procs[p].fd)
  IN  /\ Calls(p, "catfile")
      /\ IF Arg(p) \in DOMAIN files
         THEN Opened(p, Arg(p), << <<"cat", fd>>, <<"close", fd>> >> \o Rest(p))
         ELSE procs' = Then(p, << <<"write", Message>> >>, procs[p].fd) /\ UNCHANGED ofile
      /\ UNCHANGED <<Input, chan, files, out, fails>>

-----------------------------------------------------------------------------
(* The text of a tree: what a user types for it.  Parentheses go where the *)
(* grammar needs them; loose text has blanks between all tokens.           *)
Level(t) ==
  CASE t[1] = "LIST" -> 0 [] t[1] = "BACK" -> 1 [] t[1] = "PIPE" -> 2 [] OTHER -> 3

RECURSIVE Tokens(_, _)
Tokens(t, level) ==
  IF Level(t) < level THEN << <<"(">> >> \o Tokens(t, 0) \o << <<")">> >>
  ELSE CASE t[1] = "EXEC"  -> t[2]
         [] t[1] = "REDIR" -> Tokens(t[2], 3) \o << <<t[4]>>, t[3] >>
         [] t[1] = "PIPE"  -> Tokens(t[2], 3) \o << <<"|">> >> \o Tokens(t[3], 2)
         [] t[1] = "BACK"  -> Tokens(t[2], 1) \o << <<"&">> >>
         [] t[1] = "LIST"  -> Tokens(t[2], 1) \o << <<";">> >> \o Tokens(t[3], 0)
         [] t[1] = "CD"    -> << <<"c", "d">>, t[2] >>

IsWord(tok) == tok[1] \notin {"<", "|", ">", "&", ";", "(", ")"}

Text(t, loose) ==
  LET toks == Tokens(t, 0)
      gap(i) == i > 1 /\ (loose \/ (IsWord(toks[i - 1]) /\ IsWord(toks[i])))
  IN  FlattenSeq([i \in DOMAIN toks |-> (IF gap(i) THEN <<" ">> ELSE <<>>) \o toks[i]])

(* main() after getcmd(): cd is done by the shell itself, any other        *)
(* command by a child that the shell waits for.                            *)
sh_main ==
  LET t == Head(lines)[1]
  IN  /\ Calls(THE_SHELL, "main") /\ lines # <<>>
      /\ lines' = Tail(lines) /\ typed' = Append(typed, t) /\ buf' = Text(t, Head(lines)[2])
      /\ IF t[1] = "CD" THEN UNCHANGED procs
         ELSE procs' = Then(THE_SHELL, << <<"fork", << <<"parse", 0>> >> >>, <<"wait", 0>>, <<"main", 0>> >>,
                            procs[THE_SHELL].fd)
      /\ UNCHANGED <<sh, Kernel>>

InitialFiles == (<<"x">> :> <<"1", "2", "3">>)

(* The shell at its prompt, after it has opened the console three times.   *)
(* With a tree of Typed there is a line and the parser, but no process.    *)
Ready == [Free EXCEPT !.st = "live", !.run = << <<"main", 0>> >>,
                      !.fd = [f \in Fds |-> IF f < 3 THEN Console ELSE Closed]]

ShellInit ==
  /\ \/ /\ \E s \in Sessions : sh = s[1] /\ lines = s[2]
        /\ buf = <<>> /\ typed = <<>>
        /\ procs = [p \in Pids |-> IF p = THE_SHELL THEN Ready ELSE Free]
     \/ /\ \E t \in Typed : \E loose \in BOOLEAN : sh = t[1] /\ typed = <<t[2]>> /\ buf = Text(t[2], loose)
        /\ lines = <<>> /\ procs = [p \in Pids |-> Free]
  /\ chan = [n \in Pids |-> <<>>]
  /\ ofile = [i \in 1..6 |-> [name |-> <<>>, off |-> 0]]
  /\ files = InitialFiles /\ out = <<>> /\ fails = 0

ShellStep(p) ==
  \/ runcmd(p) \/ parse(p) \/ close(p) \/ dup(p) \/ dup2(p) \/ open(p) \/ pipe(p)
  \/ fork(p) \/ wait(p) \/ exit(p) \/ exec(p) \/ write(p) \/ cat(p) \/ catfile(p)

ShellNext == sh_main \/ \E p \in Pids : ShellStep(p)

-----------------------------------------------------------------------------
RECURSIVE TooLong(_), Foreground(_), Meaning(_, _)
TooLong(t) ==
  CASE t[1] = "EXEC" -> Len(t[2]) >= MAXARGS
    [] t[1] \in {"PIPE", "LIST"} -> TooLong(t[2]) \/ TooLong(t[3])
    [] OTHER -> TooLong(t[2])

(* parsecmd() inverts the grammar: the text of any command tree, tight or  *)
(* loose, is read back as that tree with its words cut where nulterminate()*)
(* or mkcopy() ends them, and fails exactly if some command has as many    *)
(* words as argv has places.                                               *)
ParseInverts ==
  typed # <<>> /\ Last(typed)[1] # "CD" =>
    /\ parsecmd.ok = ~TooLong(Last(typed))
    /\ parsecmd.ok => parsecmd.cmd = Last(typed)

(* The calls in which a process may have to wait.                          *)
Waits(p) ==
  LET end(f) == procs[p].fd[f]
  IN  \/ Calls(p, "wait") /\ Children(p) # {} /\ \A q \in Children(p) : procs[q].st # "zombie"
      \/ /\ Calls(p, "write") /\ end(1)[1] = "w"
         /\ IsOpen(<<"r", end(1)[2]>>) /\ Len(chan[end(1)[2]]) = PIPEROOM
      \/ /\ Calls(p, "cat") /\ end(Arg(p))[1] = "r"
         /\ chan[end(Arg(p))[2]] = <<>> /\ IsOpen(<<"w", end(Arg(p))[2]>>)

(* No pipeline hangs the shell: whatever calls of fork() and pipe() fail,  *)
(* when every process waits the shell is back at its prompt, or has ended  *)
(* itself.  runcmd() closes every pipe end that would keep a reader        *)
(* waiting for an end of file.                                             *)
PromptReturns ==
  \/ \E p \in Pids : procs[p].st = "live" /\ ~Waits(p)
  \/ procs[THE_SHELL].st = "free"

(* What a command does, taken as one step: e holds the input not yet read, *)
(* the files, and the output so far.                                       *)
Foreground(t) ==
  CASE t[1] = "BACK" -> FALSE
    [] t[1] \in {"PIPE", "LIST"} -> Foreground(t[2]) /\ Foreground(t[3])
    [] t[1] = "REDIR" -> Foreground(t[2])
    [] OTHER -> TRUE

Printed(e, data) == [e EXCEPT !.out = @ \o data]
CatOf(names, e) ==
  FoldLeft(LAMBDA a, n : IF ~a.ok THEN a
                         ELSE IF n \in DOMAIN e.files THEN Printed(a, e.files[n])
                         ELSE [Printed(a, Message) EXCEPT !.ok = FALSE],
           e, names)

Meaning(t, e) ==
  CASE t[1] = "CD" -> e
    [] t[1] = "EXEC" ->
         IF t[2] = <<>> THEN e
         ELSE IF t[2][1] = ECHO THEN Printed(e, EchoOf(t[2]))
         ELSE IF t[2][1] # CAT THEN e
         ELSE IF Len(t[2]) > 1 THEN [CatOf(Tail(t[2]), e) EXCEPT !.ok = TRUE]
         ELSE [Printed(e, e.in) EXCEPT !.in = <<>>]
    [] t[1] = "LIST" -> Meaning(t[3], Meaning(t[2], e))
    [] t[1] = "PIPE" ->
         LET l == Meaning(t[2], [e EXCEPT !.out = <<>>])
             r == Meaning(t[3], [e EXCEPT !.in = l.out, !.files = l.files])
         IN  [r EXCEPT !.in = l.in]
    [] t[1] = "REDIR" /\ t[4] = "<" ->
         IF t[3] \in DOMAIN e.files
         THEN [Meaning(t[2], [e EXCEPT !.in = e.files[t[3]]]) EXCEPT !.in = e.in]
         ELSE IF sh = "xv6" THEN e
         ELSE [Meaning(t[2], [e EXCEPT !.in = Message]) EXCEPT !.in = e.in]
    [] t[1] = "REDIR" /\ t[4] = ">" ->
         LET old == IF sh = "xv6" /\ t[3] \in DOMAIN e.files THEN e.files[t[3]] ELSE <<>>
             r   == Meaning(t[2], [e EXCEPT !.out = <<>>, !.files = (t[3] :> old) @@ @])
         IN  [r EXCEPT !.out = e.out, !.files = (t[3] :> Overwrite(old, 0, r.out)) @@ @]

(* When the shell of xv6 is back at its prompt the commands have had       *)
(* exactly the effect of their parts run one after the other, each stage   *)
(* of a pipe on the whole output of the one before: runcmd() waits for     *)
(* everything it started and gives every stage the right descriptors.  The *)
(* other shell does not wait for the left of a pipe, so there all          *)
(* processes must have ended.                                              *)
OutputIs ==
  (/\ Calls(THE_SHELL, "main") /\ lines = <<>> /\ fails = 0
   /\ \A i \in DOMAIN typed : Foreground(typed[i])
   /\ sh = "xv6" \/ \A p \in Pids \ {THE_SHELL} : procs[p].st = "free")
  => LET e == FoldLeft(LAMBDA before, t : Meaning(t, before),
                       [in |-> <<>>, out |-> <<>>, files |-> InitialFiles, ok |-> TRUE], typed)
     IN  e.out = out /\ e.files = files

=============================================================================
