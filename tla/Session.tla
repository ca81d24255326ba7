------------------------------- MODULE Session -------------------------------
(***************************************************************************)
(* One connection of the text protocol (src/src/session.cc, class          *)
(* text_session).  loop() runs on one pool thread: it goes from state to   *)
(* state until an operation blocks, and a completed read or write calls it *)
(* again.  An action of the loop is one iteration; arrivals, completed     *)
(* writes and errors are the callbacks.                                    *)
(*                                                                         *)
(* The input is a sequence of units: the text of a command line, its end   *)
(* of line, the bytes of a data block, the CRLF after it.  A read returns  *)
(* any number of those that were sent, as TCP may.  The output is a        *)
(* sequence of items, each a line, a chunk of a value or a CRLF, tagged    *)
(* with the request it belongs to.  A line is one unit of the output       *)
(* buffer, but for the two whose length the client chooses: the error that *)
(* echoes an unknown command and the VALUE line of a long key.  The cache  *)
(* may answer anything: other sessions change it at any time.              *)
(***************************************************************************)
EXTENDS Naturals, SequencesExt

CONSTANTS
    Requests,     \* what a client may send: cmd, args, text and data units
    MaxRequests,  \* bound: requests a client sends
    IbufSize,     \* buffer_size of the input buffer, in units
    ObufSize,     \* buffer_size of the output buffer, in units
    ReserveSize,  \* margin in get(): room for the next VALUE line
    LongLine,     \* size of the VALUE line of a key over max_key_size
    Ropes,        \* values in the cache, as sequences of chunk sizes
    Prompt        \* whether prompt_ is set (standalone mode)

Words == {"key", "long_key", "num", "noreply", "noreplay"}
Stores == {"set", "add", "replace", "append", "prepend", "cas"}
Commands == Stores \cup {"get", "gets", "incr", "decr", "delete", "touch",
                         "flush_all", "version", "stats", "quit"}

ASSUME RequestsAssumption ==
    Requests \subseteq [cmd : Commands \cup {"unknown"}, args : Seq(Words),
                        text : Nat \ {0}, data : Nat]
ASSUME SizesAssumption ==
    /\ MaxRequests \in Nat /\ IbufSize \in Nat \ {0}
    /\ ObufSize \in Nat \ {0, 1}     \* two lines fit
    /\ ReserveSize \in 1..ObufSize - 1
    /\ LongLine \in Nat \ {0}
    /\ Ropes \subseteq Seq(Nat \ {0}) \ {<<>>}
    /\ Prompt \in BOOLEAN

VARIABLES
    state_,    \* state of the session
    noreply_,  \* the current command wants no reply
    cmd_,      \* name of the current command
    args_,     \* its arguments not yet consumed
    cur,       \* the request it came from, 0 when from none
    ibuf,      \* input buffer
    obuf,      \* output buffer
    idata_,    \* the data block of the current command
    got,       \* units of it that the pending read has transferred
    left,      \* units of it that the pending read still waits for
    odata_,    \* chunks of the value being sent
    fate,      \* memory of that value: "live", "removed" or "freed"
    io,        \* the pending operation
    out,       \* what a pending write was given
    reqs,      \* requests sent by the client
    net,       \* units on their way to the session
    closed,    \* the client has closed the connection
    sent,      \* items written
    stored,    \* data blocks passed to the cache, with their requests
    crashed    \* an exception has left loop(): the process dies

cmdVars == <<cmd_, args_, cur>>
dataVars == <<idata_, got, left, stored>>
ropeVars == <<odata_, fate>>
clientVars == <<reqs, closed>>
vars == <<state_, noreply_, cmdVars, ibuf, obuf, dataVars, ropeVars, io, out,
          clientVars, net, sent, crashed>>

States == {"write_prompt", "read_command", "execute_command", "execute_write",
           "write_data", "write_result", "stopping", "stopped"}

(* A byte of mem_alloc() that nothing was read into. *)
Uninitialized == [req |-> 0, part |-> "none", n |-> 0]

-----------------------------------------------------------------------------
(* The client and the network.                                             *)

Units(i, p, n) == [k \in 1..n |-> [req |-> i, part |-> p, n |-> k]]

Data(i) == Units(i, "data", reqs[i].data)

(* A request on the wire: a line, and for a store the block and its CRLF. *)
Wire(i, r) ==
    Units(i, "text", r.text) \o Units(i, "eol", 1)
    \o (IF r.cmd \in Stores
        THEN Units(i, "data", r.data) \o Units(i, "crlf", 1)
        ELSE <<>>)

client_send ==
    /\ ~closed /\ Len(reqs) < MaxRequests
    /\ \E r \in Requests :
           /\ reqs' = Append(reqs, r)
           /\ net' = net \o Wire(Len(reqs) + 1, r)
    /\ UNCHANGED <<state_, noreply_, cmdVars, ibuf, obuf, dataVars, ropeVars, io, out,
                   closed, sent, crashed>>

client_close ==
    /\ ~closed
    /\ closed' = TRUE
    /\ UNCHANGED <<state_, noreply_, cmdVars, ibuf, obuf, dataVars, ropeVars, io, out,
                   reqs, net, sent, crashed>>

-----------------------------------------------------------------------------
(* Output.                                                                 *)

Item(k, n) == [req |-> cur, kind |-> k, size |-> n, rope |-> <<>>]

(* The VALUE line of key w with value r. *)
LineSize(w) == IF w = "long_key" THEN LongLine ELSE 1
ValueItem(w, r) == [Item("value", LineSize(w)) EXCEPT !.rope = r]

DataItem(n) == Item("data", n)
RopeItems(r) == [i \in DOMAIN r |-> DataItem(r[i])] \o <<Item("crlf", 1)>>

(* The sum of a sequence of numbers. *)
Total(g) ==
    LET sum[i \in 0..Len(g)] == IF i = 0 THEN 0 ELSE sum[i - 1] + g[i] IN sum[Len(g)]

RopeSize(r) == Total(r)
Used(b) == Total([i \in DOMAIN b |-> b[i].size])

(* Mutant of send: the reply is staged although none is wanted. *)
send_always(b, items) == b \o items

(***************************************************************************)
(* send, sendln, sendf: b with the items staged, unless replies are        *)
(* suppressed.                                                             *)
(***************************************************************************)
send(b, items) == IF noreply_ THEN b ELSE b \o items

flush(b) ==
    /\ out' = b
    /\ io' = IF b = <<>> THEN "none" ELSE "write"

(* The loop goes on without a new operation. *)
Continue == UNCHANGED <<io, out>>

(***************************************************************************)
(* obuf.write() and notify_write() throw when what is staged does not fit. *)
(* loop() does not catch that: the process ends, and what else the step    *)
(* sets no longer matters.                                                 *)
(***************************************************************************)
buffer_error == crashed' = (Used(obuf') > ObufSize)

(* The error for an unknown command: its name, which is a line of that     *)
(* request or a line of a block nobody took, and the words around it.      *)
EchoSize == (IF reqs[cur].cmd = "unknown" THEN reqs[cur].text ELSE reqs[cur].data) + 2
ErrorSize == IF cmd_ = "unknown" THEN EchoSize ELSE 1

(* client_error: its own exception takes the loop to write_result. *)
client_error ==
    /\ obuf' = send(obuf, <<Item("error", ErrorSize)>>)
    /\ buffer_error
    /\ state_' = "write_result"
    /\ Continue

(* A reply line that ends the command. *)
Reply(kind) ==
    /\ obuf' = send(obuf, <<Item(kind, 1)>>)
    /\ buffer_error
    /\ state_' = "write_result"
    /\ Continue

-----------------------------------------------------------------------------
(* Commands: dispatch() and the handlers it calls.                         *)

Running == ~crashed /\ io = "none"
Executing(cs) == Running /\ state_ = "execute_command" /\ cmd_ \in cs

(* The words that parse_key, parse_update, consume_int and consume_u64 take. *)
Pattern ==
    CASE cmd_ \in Stores \ {"cas"} -> <<"key", "num", "num", "num">>
      [] cmd_ = "cas"              -> <<"key", "num", "num", "num", "num">>
      [] cmd_ \in {"incr", "decr", "touch"} -> <<"key", "num">>
      [] cmd_ = "delete"           -> <<"key">>
      [] cmd_ = "flush_all"        -> IF args_ # <<>> /\ Head(args_) = "num"
                                      THEN <<"num">> ELSE <<>>
      [] OTHER                     -> <<>>

Parsed ==
    /\ Len(args_) >= Len(Pattern)
    /\ \A i \in DOMAIN Pattern : Pattern[i] = "num" => args_[i] = "num"

(* What parse_noreply finds, and leaves. *)
Rest == SubSeq(args_, Len(Pattern) + 1, Len(args_))
Malformed == ~Parsed \/ (Rest # <<>> /\ Head(Rest) # "noreplay")

Parsing == Stores \cup {"incr", "decr", "delete", "touch", "flush_all"}

(* parse_noreply on a well-formed line; the arguments are consumed. *)
parse_noreply ==
    /\ ~Malformed
    /\ noreply_' = (noreply_ \/ Rest # <<>>)
    /\ args_' = IF Rest = <<>> THEN <<>> ELSE Tail(Rest)
    /\ UNCHANGED <<cmd_, cur>>

(* A line that does not parse, or a command that is none.  What is left of *)
(* the arguments is of no use: the next line replaces them.                *)
bad_command ==
    /\ Executing(Parsing \cup {"unknown"})
    /\ cmd_ \in Parsing => Malformed
    /\ client_error
    /\ UNCHANGED <<noreply_, cmdVars, ibuf, dataVars, ropeVars, clientVars, net, sent>>

empty_command ==
    /\ Executing({"empty"})
    /\ state_' = "write_prompt"
    /\ Continue
    /\ UNCHANGED <<noreply_, cmdVars, ibuf, obuf, dataVars, ropeVars, clientVars, net, sent, crashed>>

quit ==
    /\ Executing({"quit"})
    /\ state_' = "stopping"
    /\ Continue
    /\ UNCHANGED <<noreply_, cmdVars, ibuf, obuf, dataVars, ropeVars, clientVars, net, sent, crashed>>

(* version, stats: their lines are one item. *)
version ==
    /\ Executing({"version", "stats"})
    /\ Reply(cmd_)
    /\ UNCHANGED <<noreply_, cmdVars, ibuf, dataVars, ropeVars, clientVars, net, sent>>

(* send() as it is after parse_noreply has set noreply_. *)
SendParsed(b, items) == IF noreply_' THEN b ELSE b \o items

del ==
    /\ Executing({"delete"})
    /\ parse_noreply
    /\ obuf' = SendParsed(obuf, <<Item("status", 1)>>)
    /\ buffer_error
    /\ state_' = "write_result"
    /\ Continue
    /\ UNCHANGED <<ibuf, dataVars, ropeVars, clientVars, net, sent>>

(***************************************************************************)
(* incr, decr: a number leaves the state as it is.  The entry throws when  *)
(* its value is no number, and loop() does not catch that.                 *)
(***************************************************************************)
incr_decr ==
    /\ Executing({"incr", "decr"})
    /\ parse_noreply
    /\ \/ /\ obuf' = SendParsed(obuf, <<Item("number", 1)>>)
          /\ buffer_error
          /\ UNCHANGED state_
       \/ /\ obuf' = SendParsed(obuf, <<Item("status", 1)>>)
          /\ buffer_error
          /\ state_' = "write_result"
       \/ /\ crashed' = TRUE
          /\ UNCHANGED <<state_, obuf>>
    /\ Continue
    /\ UNCHANGED <<ibuf, dataVars, ropeVars, clientVars, net, sent>>

(* touch: the state stays as it is. *)
touch ==
    /\ Executing({"touch"})
    /\ parse_noreply
    /\ obuf' = SendParsed(obuf, <<Item("status", 1)>>)
    /\ buffer_error
    /\ Continue
    /\ UNCHANGED <<state_, ibuf, dataVars, ropeVars, clientVars, net, sent>>

(* flush_all: no reply, and the state stays as it is. *)
flush_all ==
    /\ Executing({"flush_all"})
    /\ parse_noreply
    /\ Continue
    /\ UNCHANGED <<state_, ibuf, obuf, dataVars, ropeVars, clientVars, net, sent, crashed>>

(* Mutant of FitsObuf: no room is kept for the next VALUE line. *)
FitsObufExactly(b, r) == ObufSize - Used(b) >= RopeSize(r)

(* obuf.available() > size + margin *)
FitsObuf(b, r) == ObufSize - Used(b) > RopeSize(r) + ReserveSize

(***************************************************************************)
(* get, gets: one key per iteration.  A value that fits is staged, for a   *)
(* larger one the staged output is flushed and write_data follows.         *)
(***************************************************************************)
get ==
    /\ Executing({"get", "gets"})
    /\ \/ /\ args_ = <<>>
          /\ Reply("end")
          /\ UNCHANGED <<args_, ropeVars>>
       \/ /\ args_ # <<>>
          /\ args_' = Tail(args_)
          /\ \/ /\ Reply("status")
                /\ UNCHANGED ropeVars
             \/ \E r \in Ropes :
                    LET b == send(obuf, <<ValueItem(Head(args_), r)>>)
                    IN \/ /\ FitsObuf(b, r)
                          /\ obuf' = send(b, RopeItems(r))
                          /\ buffer_error
                          /\ Continue
                          /\ UNCHANGED <<state_, ropeVars>>
                       \/ /\ ~FitsObuf(b, r)
                          /\ odata_' = r
                          /\ fate' = "live"
                          /\ state_' = "write_data"
                          /\ obuf' = b
                          /\ buffer_error
                          /\ flush(b)
    /\ UNCHANGED <<noreply_, cmd_, cur, ibuf, dataVars, clientVars, net, sent>>

-----------------------------------------------------------------------------
(* The data block of a store.                                              *)

LeastOf(a, b) == IF a < b THEN a ELSE b

(* Mutant of recv_data: a block that is partly there is waited for in full. *)
recv_data_all ==
    /\ Executing(Stores)
    /\ parse_noreply
    /\ LET bytes == reqs[cur].data
           ready == LeastOf(bytes, Len(ibuf))
       IN /\ idata_' = [k \in 1..bytes |-> IF k <= ready THEN ibuf[k] ELSE Uninitialized]
          /\ ibuf' = SubSeq(ibuf, ready + 1, Len(ibuf))
          /\ left' = IF ready = bytes THEN 0 ELSE bytes
          /\ io' = IF ready = bytes THEN "none" ELSE "read_data"
    /\ got' = 0
    /\ state_' = "execute_write"
    /\ UNCHANGED <<obuf, stored, ropeVars, out, clientVars, net, sent, crashed>>

(***************************************************************************)
(* recv_data: what ibuf has of the block is copied to its start; the rest  *)
(* is read, again to its start.                                            *)
(***************************************************************************)
recv_data ==
    /\ Executing(Stores)
    /\ parse_noreply
    /\ LET bytes == reqs[cur].data
           ready == LeastOf(bytes, Len(ibuf))
       IN /\ idata_' = [k \in 1..bytes |-> IF k <= ready THEN ibuf[k] ELSE Uninitialized]
          /\ ibuf' = SubSeq(ibuf, ready + 1, Len(ibuf))
          /\ left' = bytes - ready
          /\ io' = IF ready = bytes THEN "none" ELSE "read_data"
    /\ got' = 0
    /\ state_' = "execute_write"
    /\ UNCHANGED <<obuf, stored, ropeVars, out, clientVars, net, sent, crashed>>

(* Mutant of data_arrives: the read takes all that has been sent. *)
data_arrives_greedy ==
    /\ io = "read_data" /\ ~crashed
    /\ \E n \in 1..Len(net) :
           /\ idata_' = [k \in DOMAIN idata_ |->
                           IF k \in got+1..got+n THEN net[k - got] ELSE idata_[k]]
           /\ net' = SubSeq(net, n + 1, Len(net))
           /\ got' = got + n
           /\ left' = left - n
           /\ io' = IF left <= n THEN "none" ELSE io
    /\ UNCHANGED <<state_, noreply_, cmdVars, ibuf, obuf, stored, ropeVars, out, clientVars,
                   sent, crashed>>

(* A read of the block's rest transfers n units. *)
data_arrives ==
    /\ io = "read_data" /\ ~crashed
    /\ \E n \in 1..LeastOf(left, Len(net)) :
           /\ idata_' = [k \in DOMAIN idata_ |->
                           IF k \in got+1..got+n THEN net[k - got] ELSE idata_[k]]
           /\ net' = SubSeq(net, n + 1, Len(net))
           /\ got' = got + n
           /\ left' = left - n
           /\ io' = IF left = n THEN "none" ELSE io
    /\ UNCHANGED <<state_, noreply_, cmdVars, ibuf, obuf, stored, ropeVars, out, clientVars,
                   sent, crashed>>

(* dispatch_write: the cache gets the block, the client its answer. *)
dispatch_write ==
    /\ Running /\ state_ = "execute_write"
    /\ stored' = Append(stored, [req |-> cur, data |-> idata_])
    /\ Reply("status")
    /\ UNCHANGED <<noreply_, cmdVars, ibuf, idata_, got, left, ropeVars, clientVars, net,
                   sent>>

-----------------------------------------------------------------------------
(* Reading a command.                                                      *)

EndsLine(u) == u.part \in {"eol", "crlf"}

(* Index of the first end of line in b, 0 if there is none. *)
find_end_of_command(b) == SelectInSeq(b, EndsLine)

(* The name on a line: of a request, of stray data, or of an empty line. *)
Name(u) ==
    CASE u.part = "text" -> reqs[u.req].cmd
      [] u.part = "data" -> "unknown"
      [] OTHER           -> "empty"

(***************************************************************************)
(* cmd_ready on the buffer contents b: a whole line is taken out and split *)
(* into its command and arguments, a full buffer without a line stops the  *)
(* session, anything else needs a read.                                    *)
(***************************************************************************)
cmd_ready(b) ==
    LET e == find_end_of_command(b)
    IN \/ /\ e # 0
          /\ cmd_' = Name(Head(b))
          /\ args_' = IF Head(b).part = "text" THEN reqs[Head(b).req].args ELSE <<>>
          /\ cur' = Head(b).req
          /\ ibuf' = SubSeq(b, e + 1, Len(b))
          /\ state_' = "execute_command"
          /\ io' = "none"
       \/ /\ e = 0 /\ Len(b) = IbufSize
          /\ ibuf' = b
          /\ state_' = "stopping"
          /\ io' = "none"
          /\ UNCHANGED cmdVars
       \/ /\ e = 0 /\ Len(b) < IbufSize
          /\ ibuf' = b
          /\ state_' = "execute_command"
          /\ io' = "read_command"
          /\ UNCHANGED cmdVars

(* Mutant of recv_command: noreply_ is left as the last command had it. *)
recv_command_keep_noreply ==
    /\ Running /\ state_ = "read_command"
    /\ obuf' = <<>>
    /\ cmd_ready(ibuf)
    /\ UNCHANGED <<noreply_, dataVars, ropeVars, out, clientVars, net, sent, crashed>>

recv_command ==
    /\ Running /\ state_ = "read_command"
    /\ obuf' = <<>>
    /\ noreply_' = FALSE
    /\ cmd_ready(ibuf)
    /\ UNCHANGED <<dataVars, ropeVars, out, clientVars, net, sent, crashed>>

(* A read into ibuf, which is cmd_callback with the units so far. *)
cmd_arrives ==
    /\ io = "read_command" /\ ~crashed
    /\ \E n \in 1..LeastOf(IbufSize - Len(ibuf), Len(net)) :
           /\ cmd_ready(ibuf \o SubSeq(net, 1, n))
           /\ net' = SubSeq(net, n + 1, Len(net))
    /\ UNCHANGED <<noreply_, obuf, dataVars, ropeVars, out, clientVars, sent, crashed>>

-----------------------------------------------------------------------------
(* Writing.                                                                *)

(* send_prompt: noreply_ is still that of the last command. *)
send_prompt ==
    /\ Running /\ state_ = "write_prompt"
    /\ state_' = "read_command"
    /\ obuf' = IF Prompt THEN send(<<>>, <<Item("prompt", 1)>>) ELSE <<>>
    /\ flush(obuf')
    /\ UNCHANGED <<noreply_, cmdVars, ibuf, dataVars, ropeVars, clientVars, net, sent, crashed>>

(* Mutant of send_data: no CRLF is staged after the last chunk. *)
send_data_no_crlf ==
    /\ Running /\ state_ = "write_data"
    /\ \/ /\ odata_ = <<>>
          /\ obuf' = <<>>
          /\ state_' = "execute_command"
          /\ Continue
          /\ UNCHANGED odata_
       \/ /\ odata_ # <<>>
          /\ obuf' = <<>>
          /\ odata_' = Tail(odata_)
          /\ out' = <<DataItem(Head(odata_))>>
          /\ io' = "write"
          /\ UNCHANGED state_
    /\ UNCHANGED <<noreply_, cmdVars, ibuf, dataVars, fate, clientVars, net, sent, crashed>>

(* send_data: one chunk of the value, from the memory of the entry. *)
send_data ==
    /\ Running /\ state_ = "write_data"
    /\ \/ /\ odata_ = <<>>
          /\ obuf' = send(<<>>, <<Item("crlf", 1)>>)
          /\ state_' = "execute_command"
          /\ Continue
          /\ UNCHANGED odata_
       \/ /\ odata_ # <<>>
          /\ obuf' = <<>>
          /\ odata_' = Tail(odata_)
          /\ out' = <<DataItem(Head(odata_))>>
          /\ io' = "write"
          /\ UNCHANGED state_
    /\ UNCHANGED <<noreply_, cmdVars, ibuf, dataVars, fate, clientVars, net, sent, crashed>>

write_result ==
    /\ Running /\ state_ = "write_result"
    /\ state_' = "write_prompt"
    /\ flush(obuf)
    /\ UNCHANGED <<noreply_, cmdVars, ibuf, obuf, dataVars, ropeVars, clientVars, net, sent,
                   crashed>>

(* io_service.dispatch(done_), which deletes the session. *)
stopping ==
    /\ Running /\ state_ = "stopping"
    /\ state_' = "stopped"
    /\ Continue
    /\ UNCHANGED <<noreply_, cmdVars, ibuf, obuf, dataVars, ropeVars, clientVars, net, sent,
                   crashed>>

(* callback of a write that succeeded. *)
write_done ==
    /\ io = "write" /\ ~crashed
    /\ sent' = sent \o out
    /\ io' = "none"
    /\ out' = <<>>
    /\ UNCHANGED <<state_, noreply_, cmdVars, ibuf, obuf, dataVars, ropeVars, clientVars, net,
                   crashed>>

(* callback with an error: part of a write may have gone out. *)
io_error ==
    /\ io # "none" /\ ~crashed
    /\ \E n \in 0..Len(out) : sent' = sent \o SubSeq(out, 1, n)
    /\ state_' = "stopping"
    /\ io' = "none"
    /\ out' = <<>>
    /\ UNCHANGED <<noreply_, cmdVars, ibuf, obuf, dataVars, ropeVars, clientVars, net, crashed>>

(* callback with end of file: the client has closed and all has arrived. *)
end_of_file ==
    /\ io \in {"read_command", "read_data"} /\ ~crashed
    /\ closed /\ net = <<>>
    /\ state_' = "stopping"
    /\ io' = "none"
    /\ UNCHANGED <<noreply_, cmdVars, ibuf, obuf, dataVars, ropeVars, out, clientVars, net,
                   sent, crashed>>

-----------------------------------------------------------------------------
(* The memory of a value being sent.                                       *)

(* Another session displaces the value: its entry is released. *)
displace ==
    /\ state_ = "write_data" /\ fate = "live" /\ ~crashed
    /\ fate' = "removed"
    /\ UNCHANGED <<state_, noreply_, cmdVars, ibuf, obuf, dataVars, odata_, io, out,
                   clientVars, net, sent, crashed>>

(***************************************************************************)
(* The timer of the pool thread checkpoints between two handlers.  The     *)
(* other threads have done so too, and the entry is deleted.               *)
(***************************************************************************)
thread_timer ==
    /\ io # "none" /\ fate = "removed" /\ ~crashed
    /\ fate' = "freed"
    /\ UNCHANGED <<state_, noreply_, cmdVars, ibuf, obuf, dataVars, odata_, io, out,
                   clientVars, net, sent, crashed>>

-----------------------------------------------------------------------------
Init ==
    /\ state_ = "write_prompt"
    /\ noreply_ \in BOOLEAN        \* the constructor leaves it uninitialized
    /\ cmd_ = "empty" /\ args_ = <<>> /\ cur = 0
    /\ ibuf = <<>> /\ obuf = <<>>
    /\ idata_ = <<>> /\ got = 0 /\ left = 0 /\ stored = <<>>
    /\ odata_ = <<>> /\ fate = "live"
    /\ io = "none" /\ out = <<>>
    /\ reqs = <<>> /\ net = <<>> /\ closed = FALSE
    /\ sent = <<>> /\ crashed = FALSE

Dispatch ==
    \/ bad_command \/ empty_command \/ quit \/ version \/ del \/ incr_decr
    \/ touch \/ flush_all \/ get \/ recv_data

Loop ==
    \/ send_prompt \/ recv_command \/ Dispatch \/ dispatch_write
    \/ send_data \/ write_result \/ stopping

Arrival == cmd_arrives \/ data_arrives \/ write_done \/ end_of_file

Client == client_send \/ client_close

Next == Loop \/ Arrival \/ io_error \/ Client \/ displace \/ thread_timer

Spec == Init /\ [][Next]_vars

(* loop() goes on; what was sent arrives; the client reads what it gets. *)
FairSpec == Spec /\ WF_vars(Loop) /\ WF_vars(Arrival)

-----------------------------------------------------------------------------
(* Properties.                                                             *)

UnitType == [req : Nat, part : {"none", "text", "eol", "data", "crlf"}, n : Nat]
ItemType ==
    [req : 0..MaxRequests, size : Nat \ {0}, rope : Ropes \cup {<<>>},
     kind : {"value", "data", "crlf", "end", "status", "number", "error", "prompt",
             "version", "stats"}]

(***************************************************************************)
(* Every variable of the session has its type, the input buffer never      *)
(* holds more than its size, and an operation is pending only in a state   *)
(* that waits for it.                                                      *)
(***************************************************************************)
TypeOK ==
    /\ state_ \in States /\ noreply_ \in BOOLEAN
    /\ cmd_ \in Commands \cup {"empty", "unknown"} /\ args_ \in Seq(Words)
    /\ cur \in 0..MaxRequests
    /\ ibuf \in Seq(UnitType) /\ Len(ibuf) <= IbufSize
    /\ obuf \in Seq(ItemType) /\ out \in Seq(ItemType) /\ sent \in Seq(ItemType)
    /\ idata_ \in Seq(UnitType) /\ got \in Nat /\ left \in Nat
    /\ got + left <= Len(idata_)
    /\ odata_ \in Seq(Nat \ {0}) /\ fate \in {"live", "removed", "freed"}
    /\ io \in {"none", "read_command", "read_data", "write"}
    /\ io = "read_command" => state_ = "execute_command"
    /\ io = "read_data" => state_ = "execute_write"
    /\ io = "write" => state_ \in {"write_prompt", "read_command", "write_data"}
    /\ (io = "write") = (out # <<>>)
    /\ reqs \in Seq(Requests) /\ Len(reqs) <= MaxRequests
    /\ net \in Seq(UnitType) /\ closed \in BOOLEAN
    /\ stored \in Seq([req : 1..MaxRequests, data : Seq(UnitType)])
    /\ crashed \in BOOLEAN

(* A line that is longer than the code provides for: a VALUE line that the *)
(* margin of get() has no room for, or an echo that no buffer has room for. *)
Oversize(item) ==
    \/ item.kind = "value" /\ item.size > ReserveSize
    \/ item.kind = "error" /\ item.size > ObufSize

(***************************************************************************)
(* "int margin = max_key_size + 64; // enough to send the next VALUE line" *)
(* (session.cc 292): whatever mixture of staged and flushed values a get   *)
(* meets, and whichever command is dispatched twice, what is staged fits   *)
(* the output buffer, and obuf.write() does not end the process, unless it *)
(* is the VALUE line of a key longer than max_key_size (which nothing      *)
(* rejects) or the error that repeats an unknown command (534) as long as  *)
(* the input buffer.                                                       *)
(***************************************************************************)
ObufFits == Used(obuf) > ObufSize => Oversize(Last(obuf))

(***************************************************************************)
(* However reads split the input and whichever fails, recv_data takes      *)
(* exactly the data block: no byte of a block is executed as a command, no *)
(* unit of a line is stored (a byte that nothing was read into may be, as  *)
(* the rest of a split block is read to its start), and no byte of a block *)
(* is left in the stream when the block is stored.                         *)
(***************************************************************************)
Framed ==
    /\ state_ = "execute_command" /\ cmd_ = "unknown" => reqs[cur].cmd = "unknown"
    /\ \A i \in DOMAIN stored :
           /\ \A k \in DOMAIN stored[i].data : stored[i].data[k].part \in {"data", "none"}
           /\ \A u \in ToSet(ibuf \o net) : u.req = stored[i].req => u.part # "data"

(* Positions of the items that end the reply to request i. *)
Ends(i) ==
    {p \in DOMAIN sent : sent[p].req = i
                         /\ sent[p].kind \notin {"value", "data", "crlf", "prompt"}}

Wanted(i) == reqs[i].cmd # "quit" /\ ~Contains(reqs[i].args, "noreplay")

(***************************************************************************)
(* Pipelined requests are answered in order, each once, and those that     *)
(* want no reply not at all: a client can match answers to requests.       *)
(***************************************************************************)
OneReply ==
    /\ \A p, q \in DOMAIN sent : p < q => sent[p].req <= sent[q].req
    /\ \A i \in DOMAIN reqs :
           /\ \A p, q \in Ends(i) : p = q
           /\ Ends(i) # {} => Wanted(i)
           /\ Ends(i) # {} => \A h \in 1..i-1 : Wanted(h) => Ends(h) # {}

(***************************************************************************)
(* A VALUE line is followed by all chunks of that value and one CRLF, and  *)
(* chunks appear nowhere else, whether get() staged the value or sent it   *)
(* from the entry, and whatever the other keys of the command did.         *)
(***************************************************************************)
ValuesWhole ==
    LET After(p) == SubSeq(sent, p + 1, LeastOf(Len(sent), p + Len(sent[p].rope) + 1))
        Body(p) == [k \in 1..Len(sent[p].rope) + 1 |->
                      IF k <= Len(sent[p].rope)
                      THEN <<"data", sent[p].rope[k]>> ELSE <<"crlf", 1>>]
        Values == {p \in DOMAIN sent : sent[p].kind = "value"}
    IN /\ \A p \in Values : \A k \in DOMAIN After(p) :
              <<After(p)[k].kind, After(p)[k].size>> = Body(p)[k]
       /\ \A q \in DOMAIN sent :
              sent[q].kind \in {"data", "crlf"} =>
                  \E p \in Values : q \in p+1 .. p+1+Len(sent[p].rope)

(***************************************************************************)
(* The value whose chunks the session still has to send is not freed.      *)
(***************************************************************************)
HeldIsLive == state_ = "write_data" /\ odata_ # <<>> => fate # "freed"

(* Request i has been answered, or executed when it wants no answer. *)
Answered(i) ==
    IF Wanted(i) THEN Ends(i) # {}
    ELSE \E k \in DOMAIN stored : stored[k].req = i

(***************************************************************************)
(* Every request is answered, or the session stops.                        *)
(***************************************************************************)
EveryRequestAnswered ==
    \A i \in 1..MaxRequests :
        i \in DOMAIN reqs ~> (i \in DOMAIN reqs /\ Answered(i)) \/ state_ = "stopped" \/ crashed
=============================================================================
