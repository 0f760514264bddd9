------------------------------- MODULE MCUser ------------------------------
(***************************************************************************)
(* The sequential parts for TLC, one at a time: the part is chosen at the  *)
(* start, and the others keep a fixed state.  The parts share nothing.     *)
(***************************************************************************)
EXTENDS Uthread, Shell, Inode, Malloc, Format, Lookup, Terminal

VARIABLE part

all == <<vars, shvars, inodevars, heapvars, termvars, task, query, part>>

(* Commands.                                                               *)
Run(words) == <<"EXEC", words>>
EchoA == Run(<<ECHO, <<"a">>>>)
EchoB == Run(<<ECHO, <<"b">>>>)
CatIn == Run(<<CAT>>)
CatX  == Run(<<CAT, <<"x">>>>)
CatF  == Run(<<CAT, <<"f">>>>)
NoSuch == Run(<<<<"z">>>>)
Redir(t, mode, name) == <<"REDIR", t, <<name>>, mode>>
Piped(l, r) == <<"PIPE", l, r>>
Then_(l, r) == <<"LIST", l, r>>
Behind(t) == <<"BACK", t>>
Cd == <<"CD", <<"d">>>>

Leaf == {Run(<<>>), EchoA, CatX, Run(<<ECHO, <<"a">>, <<"b">>, <<"w", "v">>>>)}
Deeper(Trees) ==
  Trees \cup {Redir(t, mode, "f") : t \in Trees, mode \in {"<", ">"}} \cup {Behind(t) : t \in Trees}
        \cup {<<k, l, r>> : k \in {"PIPE", "LIST"}, l \in Trees, r \in Trees}
Trees2 == Deeper(Deeper(Leaf))

(* What the grammar of COL331/HW1/sh.c has: pipes of redirected commands.  *)
Simple(t) ==
  \/ t[1] = "EXEC"
  \/ t[1] = "REDIR" /\ (t[2][1] = "EXEC" \/ (t[2][1] = "REDIR" /\ t[2][2][1] = "EXEC"))
Pipeline(t) ==
  \/ Simple(t)
  \/ /\ t[1] = "PIPE" /\ Simple(t[2])
     /\ Simple(t[3]) \/ (t[3][1] = "PIPE" /\ Simple(t[3][2]) /\ Simple(t[3][3]))

MCTyped == {<<"xv6", t>> : t \in Trees2} \cup {<<"hw1", t>> : t \in {u \in Trees2 : Pipeline(u)}}

Once(shell, t) == <<shell, << <<t, FALSE>> >> >>
MCSessions ==
  {Once("xv6", t) : t \in {
     Piped(EchoA, CatIn), Piped(CatX, Piped(CatIn, EchoA)), Piped(CatX, Piped(CatIn, CatIn)),
     Redir(Then_(EchoA, Redir(CatIn, "<", "x")), ">", "f"), Redir(Redir(EchoA, ">", "x"), ">", "g"),
     Then_(Piped(EchoA, Redir(CatIn, ">", "f")), CatF), Piped(Then_(EchoA, Behind(EchoB)), CatIn),
     Then_(Redir(CatIn, "<", "y"), NoSuch), Piped(Then_(EchoA, EchoB), Then_(CatIn, EchoB))}}
  \cup
  {Once("hw1", t) : t \in {
     Piped(EchoA, CatIn), Piped(CatX, Piped(CatIn, Redir(CatIn, ">", "g"))),
     Redir(CatIn, "<", "y"), Piped(Redir(EchoA, ">", "x"), NoSuch)}}
  \cup
  {<<"xv6", << <<first, TRUE>>, <<Cd, TRUE>>, <<Piped(then, CatIn), TRUE>> >> >> :
     <<first, then>> \in {<<Behind(EchoA), EchoA>>, <<Redir(EchoA, ">", "x"), CatX>>}}

(* Files on the image, their first to last bytes, and what is written.     *)
MCImageFiles == {<< <<7>>, <<>>, <<7, 8, 9, 7, 8>> >>, << <<1, 2, 3, 4, 5, 6, 7>> >>}
MCWrites == {<<2, 3, 4, 3, 2, 3>>}

(* Calls of the routines that format and copy.                             *)
Strings(chars, n) == UNION {[1..k -> chars] : k \in 0..n}
MCTasks ==
  [op : {"number"}, n : -8..7, width : {0, 1, 3, 6}, zero : BOOLEAN, long : 0..2,
   conv : {"d", "u", "o", "x", "p"}]
  \cup [op : {"text"}, n : 0..4, text : Strings({"b", "c"}, 4)]
  \cup [op : {"move"}, dst : 0..7, src : 0..7, n : 0..8]

(* Symbol tables: an entry before the first file, two files with functions *)
(* of some parameters and lines, and the entry that ends the last file.    *)
Stab(type, value, desc, name) == [type |-> type, value |-> value, desc |-> desc, name |-> name]
FunStabs(at, name, params, steps) ==
  <<Stab("FUN", at, 0, name)>> \o [i \in 1..params |-> Stab("PSYM", 0, 0, "p")]
    \o [i \in 1..Len(steps) |-> Stab("SLINE", steps[i], 10 * at + i, "")]
FileStabs(at, name, funs) == <<Stab("SO", at, 0, name)>> \o FlattenSeq(funs)
Table(entries) == [k \in 0..Len(entries) |-> IF k = 0 THEN Stab("HDR", 0, 0, "") ELSE entries[k]]
Funs(at) ==
  {<<FunStabs(at, "f", n, <<0, 2>>)>> : n \in 0..2}
  \cup {<<FunStabs(at, "f", n, <<0>>), FunStabs(at + 3, "g", m, <<0, 2, 5>>)>> : n \in 0..1, m \in 0..2}
Tables ==
  {Table(FileStabs(4, "m", one) \o FileStabs(14, "n", two) \o <<Stab("SO", 24, 0, "")>>) :
     one \in Funs(4), two \in Funs(14) \cup Funs(16) \cup {<<>>}}

(* Files to search: lines that the buffer cuts, and one too long for it.   *)
MCQueries ==
  [op : {"grep"}, re : Strings({"b", ".", "*", "^", "$"}, 3),
   file : {<<"b", "nl", "c", "b", "nl", "nl">>, <<"nl", "b", "b", "nl", "c", "nl">>,
           <<"b", "*", "nl", "$", "nl", "^", "b", "nl">>, <<"b", "c", "b", "b", "nl", "b", "nl">>}]
  \cup [op : {"wc"}, file : Strings({"b", " ", "nl"}, 5)]
  \cup [op : {"stab"}, stabs : Tables, addr : 3..23]

(* What is typed: three strokes, or a letter, a combination of keys and a  *)
(* stroke.                                                                 *)
Tap(key) == << <<"down", key>>, <<"up", key>> >>
With(key, strokes) == << <<"down", key>> >> \o strokes \o << <<"up", key>> >>
Strokes ==
  {Tap("a"), Tap("space"), Tap("back"), Tap("enter"), << <<"rx", "DEL">> >>,
   With("rctl", Tap("u")), With("lshift", Tap("delete"))}
Combinations ==
  {With("ctl", With("ralt", Tap("delete"))), With("ctl", With("lshift", Tap("delete"))),
   With("lshift", With("rshift", Tap("a")) \o Tap("a")), With("lshift", Tap("caps") \o Tap("a")),
   With("ctl", Tap("p")), With("ctl", Tap("d")), With("rctl", Tap("enter")),
   With("rctl", Tap("space") \o Tap("back"))}
MCScripts ==
  {FlattenSeq(s) : s \in [1..3 -> Strokes]}
  \cup {Tap("a") \o c \o s : c \in Combinations, s \in Strokes}

-----------------------------------------------------------------------------
ShellOff ==
  /\ sh = "xv6" /\ buf = <<>> /\ typed = <<>> /\ lines = <<>> /\ procs = [p \in Pids |-> Free]
  /\ chan = <<>> /\ ofile = <<>> /\ files = InitialFiles /\ out = <<>> /\ fails = 0
InodeOff == d = [ok |-> FALSE, log |-> {}] /\ ofs = <<>> /\ rest = <<>> /\ ref = <<>>
TerminalOff ==
  /\ os = "none" /\ script = <<>> /\ got = 0 /\ port = <<>> /\ shift = {} /\ ring = <<>> /\ taken = 0
  /\ line = <<>> /\ ahead = 0 /\ crt = Blank(0) /\ start = 0 /\ wrote = FALSE

UserInit ==
  /\ part \in {"threads", "shell", "inode", "heap", "format", "lookup", "terminal"}
  /\ Init /\ HeapInit
  /\ IF part = "shell" THEN ShellInit ELSE ShellOff
  /\ IF part = "inode" THEN InodeInit ELSE InodeOff
  /\ IF part = "terminal" THEN TerminalInit ELSE TerminalOff
  /\ IF part = "format" THEN FormatInit ELSE task = [op |-> "none"]
  /\ IF part = "lookup" THEN LookupInit ELSE query = [op |-> "none"]

UserNext ==
  /\ UNCHANGED <<part, task, query>>
  /\ \/ part = "threads" /\ Next      /\ UNCHANGED <<shvars, inodevars, heapvars, termvars>>
     \/ part = "shell"   /\ ShellNext /\ UNCHANGED <<vars, inodevars, heapvars, termvars>>
     \/ part = "inode"   /\ InodeNext /\ UNCHANGED <<vars, shvars, heapvars, termvars>>
     \/ part = "heap"    /\ HeapNext  /\ UNCHANGED <<vars, shvars, inodevars, termvars>>
     \/ part = "terminal" /\ TerminalNext /\ UNCHANGED <<vars, shvars, inodevars, heapvars>>

(* The fairness of Uthread.                                                *)
UserSpec == UserInit /\ [][UserNext]_all /\ WF_vars(main) /\ WF_vars(thread_yield)

=============================================================================
