-------------------------------- MODULE MCFs -------------------------------
(* One process makes and removes the directory /a and a name in it; the    *)
(* other enters /a and creates, links, opens, writes and unlinks there.    *)
EXTENDS Fs

MCCalls ==
  <<{[op |-> "mkdir",  path |-> <<"/", "a">>],
     [op |-> "unlink", path |-> <<"/", "a">>],
     [op |-> "unlink", path |-> <<"/", "a", "b">>],
     [op |-> "mknod",  path |-> <<"/", "a", "b">>],
     [op |-> "unlink", path |-> <<"/", "a", ".">>]},
    {[op |-> "chdir",  path |-> <<"/", "a">>],
     [op |-> "create", path |-> <<"b">>],
     [op |-> "open",   path |-> <<"b">>],
     [op |-> "unlink", path |-> <<"b">>],
     [op |-> "chdir",  path |-> <<"..">>],
     [op |-> "link",   path |-> <<".">>, new |-> <<"b">>],
     [op |-> "link",   path |-> <<"b">>, new |-> <<"/", "a", "b">>]}>>
=============================================================================
