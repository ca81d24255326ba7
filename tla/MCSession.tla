------------------------------ MODULE MCSession ------------------------------
(* Instances of Session for TLC. *)
EXTENDS Session

Line(c, a) == [cmd |-> c, args |-> a, text |-> 1, data |-> 0]
Block(c, a, n) == [cmd |-> c, args |-> a, text |-> 1, data |-> n]

get1 == Line("get", <<"key">>)
get2 == Line("get", <<"key", "key">>)
set2 == Block("set", <<"key", "num", "num", "num">>, 2)
set_quiet == Block("set", <<"key", "num", "num", "num", "noreplay">>, 1)
set_noreply == Block("set", <<"key", "num", "num", "num", "noreply">>, 1)
cas1 == Block("cas", <<"key", "num", "num", "num", "num">>, 1)
delete == Line("delete", <<"key">>)
delete_nothing == Line("delete", <<>>)
long == [Line("version", <<>>) EXCEPT !.text = 4]
unknown == Line("unknown", <<"key">>)

(* A key longer than max_key_size behind another, and a command that no handler *)
(* knows, each on a line that just fits the input buffer.                       *)
get_long == [Line("get", <<"key", "long_key", "key">>) EXCEPT !.text = 4]
unknown_long == [Line("unknown", <<>>) EXCEPT !.text = 4]

(* Requests whose handlers set the next state themselves. *)
Replying == {get1, set2, set_quiet, delete_nothing, unknown, long}

(* Every command, once. *)
Everything ==
    {get2, Line("gets", <<"key", "key", "key">>), set2, cas1, delete, set_noreply,
     Line("incr", <<"key", "num">>), Line("decr", <<"key", "num", "noreplay">>),
     Line("touch", <<"key", "num">>), Line("flush_all", <<"num">>), Line("flush_all", <<>>),
     Line("version", <<>>), Line("stats", <<>>), Line("quit", <<>>),
     unknown, get_long, unknown_long}

(* A value that may be sent in chunks. *)
Reading == {get1}

(* One value that get() can stage and one that it has to send in chunks. *)
Small == {<<1>>, <<2, 2>>}
=============================================================================
