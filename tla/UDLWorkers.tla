----------------------------- MODULE UDLWorkers -----------------------------
(***************************************************************************)
(* The small programs that try out UDLs, each a client and a handler:      *)
(*   cache_test          cache an object in the server, ask if it is there *)
(*   shortcut_test       store an object, have a UDL get and print it      *)
(*   udl_get_debug       log the times of a get for every request          *)
(*   udl_microbenchmark  log the times of Total gets in one handler        *)
(*   p2p_send_debug      print the latencies of a request to cerr          *)
(* One of them runs, on one server (external): a put is applied to the     *)
(* store, its trigger goes to the queue of one of the workers ("one" in    *)
(* dfgs.json), and the client gets its reply without waiting for the       *)
(* handler.  A handler may therefore run beside another one.               *)
(***************************************************************************)
EXTENDS Integers, Sequences, FiniteSets, Functions

CONSTANTS Programs,     \* the programs considered
          NumWorkers,   \* program |-> num_..._workers_for_multicast_ocdp
          MaxCommands,  \* program |-> bound on the commands of its client
          Keys,         \* objects that are cached or stored
          Total         \* gets of a run of udl_microbenchmark

Logging == {"udl_get_debug", "udl_microbenchmark", "p2p_send_debug"}

ASSUME UDLAssumption ==
  /\ Programs \subseteq Logging \cup {"cache_test", "shortcut_test"}
  /\ NumWorkers \in [Programs -> Nat \ {0}]
  /\ MaxCommands \in [Programs -> Nat]
  /\ Total \in Nat

VARIABLES
  program,    \* the program that runs
  commands,   \* what its client put, in order
  flight,     \* puts that are not applied yet
  queue,      \* worker |-> triggers it has not taken yet (external)
  running,    \* worker |-> the trigger it handles, the steps done, what it got
  cached,     \* keys in the cache of the server
  stored,     \* key |-> the command that stored what is there, 0 if none
  answers,    \* command |-> what its handler printed
  log,        \* the log, or what was written to cerr
  overlapped  \* commands whose handler ran beside another one

server == <<queue, cached, stored, log>>
vars   == <<program, commands, flight, running, server, answers, overlapped>>

Workers  == 1..NumWorkers[program]
Issued   == DOMAIN commands
Idle     == [on |-> 0, done |-> 0, seen |-> 0]
Busy(w)  == running[w].on > 0
Queued   == {n \in Issued : \E w \in Workers : n \in Range(queue[w])}
Handled  == {running[w].on : w \in Workers} \ {0}
Finished == Issued \ (flight \cup Queued \cup Handled)

Request == [op |-> "request", key |-> "-"]

(* The tags of a get, and the lines of p2p_send_debug: the head of each is *)
(* one <<, its end another, and those of the id and the numbers between    *)
(* them are taken as one more.                                             *)
Tags  == <<"8001", "8002", "8003">>
Lines == <<"GLOBAL", "numbers", "eol", "P2P_SEND", "numbers", "eol", "WAIT", "numbers", "eol">>

(* "by" is not in the log, which has the times of the request instead; the *)
(* id is the number of the request, in udl_microbenchmark of the get.      *)
Tagged(tags, id, n) == [t \in DOMAIN tags |-> [tag |-> tags[t], id |-> id, by |-> n]]

RunEntry(e, n) == Tagged(Tags, (e - 1) \div 3, n)[((e - 1) % 3) + 1]

RunEntriesSlip(n) == [e \in 1..(3 * Total + 3) |-> RunEntry(e, n)]

RunEntries(n) == [e \in 1..(3 * Total) |-> RunEntry(e, n)]

(* What the handler of a request logs.                                     *)
Entries(n) == CASE program = "udl_microbenchmark" -> RunEntries(n)
                [] program = "udl_get_debug"      -> Tagged(Tags, n - 1, n)
                [] program = "p2p_send_debug"     -> Tagged(Lines, n - 1, n)

TypeOK ==
  /\ program \in Programs
  /\ commands \in Seq([op : {"cache", "store", "check"}, key : Keys] \cup {Request})
  /\ flight \subseteq Issued
  /\ queue \in [Workers -> Seq(Issued)]
  /\ running \in [Workers -> [on : {0} \cup Issued, done : 0..(3 * Total + 9), seen : {0} \cup Issued]]
  /\ cached \subseteq Keys
  /\ stored \in [Keys -> {0} \cup Issued]
  /\ DOMAIN answers \subseteq Issued /\ \A n \in DOMAIN answers : answers[n] \in {0, 1} \cup Issued
  /\ log \in Seq([tag : Range(Tags) \cup Range(Lines),
                  id  : 0..(IF program = "udl_microbenchmark" THEN Total - 1 ELSE Len(commands) - 1),
                  by  : Issued])
  /\ overlapped \subseteq Issued

Init ==
  /\ program \in Programs
  /\ commands = <<>> /\ log = <<>> /\ answers = <<>>
  /\ flight = {} /\ cached = {} /\ overlapped = {}
  /\ queue = [w \in Workers |-> <<>>]
  /\ running = [w \in Workers |-> Idle]
  /\ stored = [k \in Keys |-> 0]

(***************************************************************************)
(* The clients                                                             *)
(***************************************************************************)
WaitsForReplySlip == TRUE

(* put_object waits for the replies of the put.                            *)
WaitsForReply == flight = {}

Put(c) ==
  /\ Len(commands) < MaxCommands[program]
  /\ WaitsForReply
  /\ commands' = Append(commands, c)
  /\ flight' = flight \cup {Len(commands')}
  /\ UNCHANGED <<program, running, server, answers, overlapped>>

(* The commands of a user.                                                 *)
CacheCommand ==
  /\ program = "cache_test"
  /\ \E o \in {"cache", "check"}, k \in Keys : Put([op |-> o, key |-> k])

StoreCommand ==
  /\ program = "shortcut_test"
  /\ \E o \in {"store", "check"}, k \in Keys : Put([op |-> o, key |-> k])

NextRequest ==
  /\ program \in {"udl_get_debug", "p2p_send_debug"}
  /\ Put(Request)

(* A run of the client is one request for Total gets.                      *)
StartRun ==
  /\ program = "udl_microbenchmark"
  /\ Put(Request)

Command == CacheCommand \/ StoreCommand \/ NextRequest \/ StartRun

(***************************************************************************)
(* The server                                                              *)
(***************************************************************************)
TriggersSlip(c) == c.op \notin {"store", "cache"}

(* The graph in dfgs.json has no vertex for what shortcut_test stores.     *)
Triggers(c) == c.op # "store"

Apply(n) ==
  /\ n \in flight
  /\ flight' = flight \ {n}
  /\ IF Triggers(commands[n])
     THEN /\ \E w \in Workers : queue' = [queue EXCEPT ![w] = Append(@, n)]
          /\ UNCHANGED stored
     ELSE /\ stored' = [stored EXCEPT ![commands[n].key] = n]
          /\ UNCHANGED queue
  /\ UNCHANGED <<program, commands, running, cached, log, answers, overlapped>>

Take(w) ==
  /\ ~Busy(w)
  /\ queue[w] # <<>>
  /\ queue' = [queue EXCEPT ![w] = Tail(@)]
  /\ running' = [running EXCEPT ![w] = [Idle EXCEPT !.on = Head(queue[w])]]
  /\ overlapped' = IF Handled = {} THEN overlapped ELSE overlapped \cup Handled \cup {Head(queue[w])}
  /\ UNCHANGED <<program, commands, flight, cached, stored, log, answers>>

(***************************************************************************)
(* The handlers                                                            *)
(***************************************************************************)
Handles(w, op)   == Busy(w) /\ commands[running[w].on].op = op
Return(w)        == running' = [running EXCEPT ![w] = Idle]
Answer(w, value) ==
  answers' = [n \in DOMAIN answers \cup {running[w].on} |->
                IF n = running[w].on THEN value ELSE answers[n]]

CachePut(w) ==
  /\ Handles(w, "cache")
  /\ cached' = cached \cup {commands[running[w].on].key}
  /\ Return(w)
  /\ UNCHANGED <<program, commands, flight, queue, stored, log, answers, overlapped>>

IsCached(w) ==
  /\ program = "cache_test"
  /\ Handles(w, "check")
  /\ Answer(w, IF commands[running[w].on].key \in cached THEN 1 ELSE 0)
  /\ Return(w)
  /\ UNCHANGED <<program, commands, flight, server, overlapped>>

(* The get of a UDL is answered by the server it runs on.                  *)
LocalGet(w) ==
  /\ program = "shortcut_test"
  /\ Handles(w, "check") /\ running[w].done = 0
  /\ running' = [running EXCEPT ![w].done = 1, ![w].seen = stored[commands[running[w].on].key]]
  /\ UNCHANGED <<program, commands, flight, server, answers, overlapped>>

(* An object that is not there (0) is not printed.                         *)
PrintObject(w) ==
  /\ program = "shortcut_test"
  /\ Handles(w, "check") /\ running[w].done = 1
  /\ Answer(w, running[w].seen)
  /\ Return(w)
  /\ UNCHANGED <<program, commands, flight, server, overlapped>>

(* The logger appends an entry as a whole; cerr has no buffer, and what    *)
(* another handler writes may come between any two <<.                     *)
Log(w) ==
  /\ Handles(w, "request") /\ running[w].done < Len(Entries(running[w].on))
  /\ log' = Append(log, Entries(running[w].on)[running[w].done + 1])
  /\ running' = [running EXCEPT ![w].done = @ + 1]
  /\ UNCHANGED <<program, commands, flight, queue, cached, stored, answers, overlapped>>

EndRequest(w) ==
  /\ Handles(w, "request") /\ running[w].done = Len(Entries(running[w].on))
  /\ Return(w)
  /\ UNCHANGED <<program, commands, flight, server, answers, overlapped>>

Handler(w) ==
  CachePut(w) \/ IsCached(w) \/ LocalGet(w) \/ PrintObject(w) \/ Log(w) \/ EndRequest(w)

Next == \/ Command
        \/ \E n \in flight : Apply(n)
        \/ \E w \in Workers : Take(w) \/ Handler(w)

Spec == Init /\ [][Next]_vars

(***************************************************************************)
(* cache_test and shortcut_test                                            *)
(***************************************************************************)
(* A check finds an object uncached, although the command to cache it came *)
(* before, only while the handler that is to cache it has not finished: it *)
(* is never forgotten, and a user who waits gets the right answer.         *)
MissesOnlyWhileCaching ==
  [][program = "cache_test" =>
       \A n \in DOMAIN answers' \ DOMAIN answers, m \in Issued :
         /\ m < n
         /\ commands[m] = [op |-> "cache", key |-> commands[n].key]
         /\ answers'[n] = 0
         => m \in Queued \cup Handled]_vars

StoresOf(k) == {m \in Issued : commands[m] = [op |-> "store", key |-> k]}

(* A check prints what the last store before it put there, or a later      *)
(* store, never an older one and never nothing.                            *)
LocalGetCorrect ==
  program = "shortcut_test" =>
    \A n \in DOMAIN answers :
      /\ answers[n] \in StoresOf(commands[n].key) \cup {0}
      /\ \A m \in StoresOf(commands[n].key) : m < n => m <= answers[n]

(***************************************************************************)
(* The scripts that read the logs                                          *)
(***************************************************************************)
(* The entries in timestamps[tag] of udl_get_debug/get_latencies.py, and   *)
(* where it has the one at p.                                              *)
Timestamps(tag) == {p \in DOMAIN log : log[p].tag = tag}

Row(tag, p) == Cardinality({q \in Timestamps(tag) : q <= p})

Count(tag) == Cardinality(Timestamps(tag))

SubtractableSlip(s, t) == TRUE

(* numpy subtracts arrays of the same length, and one that has a single    *)
(* element from, or by, each element of the other.                         *)
Subtractable(s, t) == Count(s) = Count(t) \/ 1 \in {Count(s), Count(t)}

(* The script subtracts twice, and then needs the last wait end.           *)
Subtracts ==
  /\ Subtractable("8002", "8001")
  /\ Subtractable("8003", "8002")
  /\ Count("8003") > 0

RequestsOf(tag) == {log[p].by : p \in Timestamps(tag)}

(* A mean difference is that of the requests it is printed for, whichever  *)
(* entries are paired, when both arrays have those of the same requests.   *)
RightMean(s, t) == RequestsOf(s) = RequestsOf(t)

(* The script pairs the entries of different requests, those of handlers   *)
(* that ran at the same time, but the two means it prints are right,       *)
(* whenever the log is dumped, with one exception: when a single request   *)
(* has logged its last entry and a handler is still running, one of the    *)
(* two may be wrong, never both.                                           *)
MeansAreTrue ==
  program = "udl_get_debug" /\ Subtracts =>
    \/ RightMean("8002", "8001") /\ RightMean("8003", "8002")
    \/ /\ Count("8003") = 1 /\ Handled # {}
       /\ RightMean("8002", "8001") \/ RightMean("8003", "8002")

Logged(tag, id) == {p \in DOMAIN log : log[p].tag = tag /\ log[p].id = id}

KeptSlip(tag, id) == log[CHOOSE p \in Logged(tag, id) : \A q \in Logged(tag, id) : p <= q]

(* udl_microbenchmark/get_latencies.py keeps the last entry of an id.      *)
Kept(tag, id) == log[CHOOSE p \in Logged(tag, id) : \A q \in Logged(tag, id) : q <= p]

PairedByPosition(n) ==
  \A t \in Range(Tags), p \in Timestamps("8003") : log[p].by = n =>
    \E q \in Timestamps(t) : Row(t, q) = Row("8003", p) /\ log[q].by = n

(* When no run goes on, for the one that was handled last.                 *)
KeptTogether(n) ==
  Handled = {} /\ log[Len(log)].by = n =>
    \A id \in 0..(Total - 1), t \in Range(Tags) : Kept(t, id).by = n

(* The lines of a request are there as they were printed.                  *)
OnLinesOfItsOwn(n) ==
  \E p \in 0..(Len(log) - Len(Lines)) :
    /\ SubSeq(log, p + 1, p + Len(Lines)) = Entries(n)
    /\ p > 0 => log[p].tag = "eol"

(* A request that was handled alone is measured right, whatever the others *)
(* before and after it do: by the position of its entries in the log, by   *)
(* their id when the run was the last one, by the lines it printed.         *)
AloneIsMeasuredRight ==
  \A n \in Finished \ overlapped :
    /\ program = "udl_get_debug" => PairedByPosition(n)
    /\ program = "udl_microbenchmark" => KeptTogether(n)
    /\ program = "p2p_send_debug" => OnLinesOfItsOwn(n)
=============================================================================
