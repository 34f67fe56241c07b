-------------------------- MODULE UDLWorkersProofs --------------------------
(***************************************************************************)
(* Proofs about UDLWorkers, for all numbers of workers, commands, keys and *)
(* gets: what a check may answer, and what the scripts may conclude from   *)
(* the log, however the handlers interleave.                               *)
(***************************************************************************)
EXTENDS UDLWorkers, FiniteSetTheorems, SequenceTheorems, TLAPS

USE UDLAssumption

(***************************************************************************)
(* Types                                                                   *)
(***************************************************************************)
Commands == [op : {"cache", "store", "check"}, key : Keys] \cup {Request}

(* A command of the program that runs.                                     *)
Suits(c) ==
  /\ c.op = "cache" => program = "cache_test"
  /\ c.op = "store" => program = "shortcut_test"
  /\ c.op = "check" => program \in {"cache_test", "shortcut_test"}
  /\ c.op = "request" => program \in Logging

OpsInv == \A n \in Issued : Suits(commands[n])

(* What is known of every command that was put.                            *)
LEMMA CommandType ==
  ASSUME TypeOK, NEW n \in Issued
  PROVE  /\ commands[n] \in Commands
         /\ commands[n].op \in {"cache", "store", "check", "request"}
         /\ commands[n].op # "request" => commands[n].key \in Keys
         /\ n \in Nat /\ n > 0 /\ n <= Len(commands)
<1>1. commands \in Seq(Commands)
  BY DEF TypeOK, Commands
<1>2. n \in 1..Len(commands) /\ commands[n] \in Commands
  BY <1>1 DEF Issued
<1> QED
  BY <1>2 DEF Commands, Request

(* The domains that the proofs count in.                                   *)
LEMMA Counts ==
  ASSUME TypeOK
  PROVE  /\ Len(commands) \in Nat /\ Issued = 1..Len(commands)
         /\ Len(log) \in Nat /\ DOMAIN log = 1..Len(log)
         /\ Total \in Nat /\ NumWorkers[program] \in Nat \ {0}
BY DEF TypeOK, Issued

(* The tags of a get and the lines of a request, one by one.               *)
LEMMA TagsType ==
  /\ Len(Tags) = 3 /\ DOMAIN Tags = 1..3 /\ Tags[1] = "8001" /\ Tags[2] = "8002" /\ Tags[3] = "8003"
  /\ Range(Tags) = {"8001", "8002", "8003"}
  /\ Len(Lines) = 9 /\ DOMAIN Lines = 1..9 /\ Lines[9] = "eol"
  /\ \A i \in 1..9 : Lines[i] \in Range(Lines)
<1>1. /\ Len(Tags) = 3 /\ DOMAIN Tags = 1..3 /\ Tags[1] = "8001" /\ Tags[2] = "8002" /\ Tags[3] = "8003"
      /\ Len(Lines) = 9 /\ DOMAIN Lines = 1..9 /\ Lines[9] = "eol"
  BY DEF Tags, Lines
<1>2. Range(Tags) = {"8001", "8002", "8003"}
  BY <1>1 DEF Range
<1>3. \A i \in 1..9 : Lines[i] \in Range(Lines)
  BY <1>1 DEF Range
<1> QED
  BY <1>1, <1>2, <1>3

(* The number of the get of an entry of a run, and its place among the     *)
(* entries of that get.                                                    *)
LEMMA Thirds ==
  ASSUME NEW e \in Nat, e > 0
  PROVE  /\ (e - 1) \div 3 \in Nat /\ (e - 1) % 3 \in 0..2
         /\ e = 3 * ((e - 1) \div 3) + ((e - 1) % 3) + 1
OBVIOUS

(* The entries of a run, one by one: three for each get.                   *)
LEMMA RunEntriesType ==
  ASSUME NEW n
  PROVE  /\ RunEntries(n) \in [1..(3 * Total) -> [tag : Range(Tags), id : 0..(Total - 1), by : {n}]]
         /\ Len(RunEntries(n)) = 3 * Total
         /\ \A e \in 1..(3 * Total) :
              RunEntries(n)[e] = [tag |-> Tags[((e - 1) % 3) + 1], id |-> (e - 1) \div 3, by |-> n]
<1>1. Total \in Nat
  OBVIOUS
<1>2. \A e \in 1..(3 * Total) :
        RunEntries(n)[e] = [tag |-> Tags[((e - 1) % 3) + 1], id |-> (e - 1) \div 3, by |-> n]
  <2> SUFFICES ASSUME NEW e \in 1..(3 * Total)
               PROVE  RunEntry(e, n) = [tag |-> Tags[((e - 1) % 3) + 1], id |-> (e - 1) \div 3, by |-> n]
    BY DEF RunEntries
  <2>1. ((e - 1) % 3) + 1 \in 1..3
    BY Thirds
  <2> QED
    BY <2>1, TagsType DEF RunEntry, Tagged
<1>3. \A e \in 1..(3 * Total) : RunEntries(n)[e] \in [tag : Range(Tags), id : 0..(Total - 1), by : {n}]
  <2> SUFFICES ASSUME NEW e \in 1..(3 * Total)
               PROVE  RunEntries(n)[e] \in [tag : Range(Tags), id : 0..(Total - 1), by : {n}]
    OBVIOUS
  <2>1. e \in Nat /\ e > 0 /\ e <= 3 * Total
    BY <1>1
  <2> DEFINE d == (e - 1) \div 3
             m == (e - 1) % 3
  <2>2. d \in Nat /\ m \in 0..2 /\ e = 3 * d + m + 1
    BY <2>1, Thirds
  <2>3. Tags[m + 1] \in Range(Tags)
    BY <2>2, TagsType DEF Range
  <2>4. d \in 0..(Total - 1)
    <3> HIDE DEF d, m
    <3> QED
      BY <2>1, <2>2, <1>1
  <2>5. RunEntries(n)[e] = [tag |-> Tags[m + 1], id |-> d, by |-> n]
    BY <1>2
  <2> HIDE DEF d, m
  <2> QED
    BY <2>3, <2>4, <2>5
<1>4. /\ RunEntries(n) \in [1..(3 * Total) -> [tag : Range(Tags), id : 0..(Total - 1), by : {n}]]
      /\ Len(RunEntries(n)) = 3 * Total
  <2>1. 3 * Total \in Nat
    BY <1>1
  <2> QED
    BY <1>3, <2>1 DEF RunEntries
<1> QED
  BY <1>2, <1>4

(* What is true of the entries of every program that logs.                 *)
LEMMA EntriesType ==
  ASSUME TypeOK, program \in Logging, NEW n \in Issued
  PROVE  /\ Entries(n) \in Seq([tag : Range(Tags) \cup Range(Lines),
                                id  : 0..(IF program = "udl_microbenchmark" THEN Total - 1 ELSE Len(commands) - 1),
                                by  : {n}])
         /\ Len(Entries(n)) \in 0..(3 * Total + 9)
<1>1. n \in 1..Len(commands) /\ Len(commands) \in Nat /\ Total \in Nat
  BY Counts
<1>2. CASE program = "udl_microbenchmark"
  <2>1. Entries(n) = RunEntries(n)
    BY <1>2 DEF Entries
  <2> DEFINE S == [tag : Range(Tags) \cup Range(Lines), id : 0..(Total - 1), by : {n}]
  <2>2. /\ Entries(n) \in [1..(3 * Total) -> [tag : Range(Tags), id : 0..(Total - 1), by : {n}]]
        /\ Len(Entries(n)) = 3 * Total
    BY <2>1, RunEntriesType
  <2>3. [tag : Range(Tags), id : 0..(Total - 1), by : {n}] \subseteq S
    OBVIOUS
  <2>4. 3 * Total \in Nat
    BY <1>1
  <2>5. Entries(n) \in [1..(3 * Total) -> S]
    BY <2>2, <2>3
  <2>6. Entries(n) \in Seq(S)
    <3> HIDE DEF S
    <3> QED
      BY <2>4, <2>5, SeqDef
  <2> QED
    BY <1>1, <1>2, <2>2, <2>4, <2>6
<1>3. CASE program = "udl_get_debug"
  <2>1. Entries(n) = Tagged(Tags, n - 1, n)
    BY <1>3 DEF Entries
  <2>2. Entries(n) = [t \in 1..3 |-> [tag |-> Tags[t], id |-> n - 1, by |-> n]]
    BY <2>1, TagsType DEF Tagged
  <2>3. \A t \in 1..3 : Tags[t] \in Range(Tags)
    BY TagsType DEF Range
  <2>4. n - 1 \in 0..(Len(commands) - 1)
    BY <1>1
  <2> QED
    BY <1>1, <1>3, <2>2, <2>3, <2>4
<1>4. CASE program = "p2p_send_debug"
  <2>1. Entries(n) = Tagged(Lines, n - 1, n)
    BY <1>4 DEF Entries
  <2>2. Entries(n) = [t \in 1..9 |-> [tag |-> Lines[t], id |-> n - 1, by |-> n]]
    BY <2>1, TagsType DEF Tagged
  <2>3. n - 1 \in 0..(Len(commands) - 1)
    BY <1>1
  <2> QED
    BY <1>1, <1>4, <2>2, <2>3, TagsType
<1> QED
  BY <1>2, <1>3, <1>4 DEF Logging

(***************************************************************************)
(* The steps                                                               *)
(***************************************************************************)
LEMMA CommandPuts ==
  ASSUME Command
  PROVE  \E c \in Commands : Put(c) /\ Suits(c)
<1>1. CASE CacheCommand
  <2>1. PICK o \in {"cache", "check"}, k \in Keys : Put([op |-> o, key |-> k]) /\ program = "cache_test"
    BY <1>1 DEF CacheCommand
  <2>2. [op |-> o, key |-> k] \in Commands /\ Suits([op |-> o, key |-> k])
    BY <2>1 DEF Commands, Suits
  <2> QED
    BY <2>1, <2>2
<1>2. CASE StoreCommand
  <2>1. PICK o \in {"store", "check"}, k \in Keys : Put([op |-> o, key |-> k]) /\ program = "shortcut_test"
    BY <1>2 DEF StoreCommand
  <2>2. [op |-> o, key |-> k] \in Commands /\ Suits([op |-> o, key |-> k])
    BY <2>1 DEF Commands, Suits
  <2> QED
    BY <2>1, <2>2
<1>3. CASE NextRequest \/ StartRun
  <2>1. Put(Request) /\ program \in Logging
    BY <1>3 DEF NextRequest, StartRun, Logging
  <2>2. Request \in Commands /\ Suits(Request)
    BY <2>1 DEF Commands, Suits, Request
  <2> QED
    BY <2>1, <2>2
<1> QED
  BY <1>1, <1>2, <1>3 DEF Command

(* A handler finishes in one of these ways.                                *)
Ends(w) == CachePut(w) \/ IsCached(w) \/ PrintObject(w) \/ EndRequest(w)

(* The steps, by what they do to the commands.                             *)
LEMMA Steps ==
  ASSUME [Next]_vars
  PROVE  \/ UNCHANGED vars
         \/ \E c \in Commands : Put(c) /\ Suits(c)
         \/ \E n \in flight : Apply(n)
         \/ \E w \in Workers : Take(w)
         \/ \E w \in Workers : LocalGet(w) \/ Log(w)
         \/ \E w \in Workers : Ends(w)
BY CommandPuts DEF Next, Handler, Ends

(* The program that runs, and its workers, stay the same.                  *)
LEMMA ProgramStays ==
  ASSUME [Next]_vars
  PROVE  program' = program /\ Workers' = Workers
<1>1. program' = program
  BY Steps DEF vars, server, Put, Apply, Take, LocalGet, Log, Ends, CachePut, IsCached, PrintObject, EndRequest
<1> QED
  BY <1>1 DEF Workers

(* What a handler has to be handling.                                      *)
LEMMA BusyType ==
  ASSUME TypeOK, NEW w \in Workers
  PROVE  /\ running[w] \in [on : {0} \cup Issued, done : 0..(3 * Total + 9), seen : {0} \cup Issued]
         /\ running[w].done \in Nat
         /\ Busy(w) => running[w].on \in Issued
         /\ ~Busy(w) => running[w].on = 0
<1>1. running[w] \in [on : {0} \cup Issued, done : 0..(3 * Total + 9), seen : {0} \cup Issued]
  BY DEF TypeOK
<1>2. Total \in Nat /\ Issued = 1..Len(commands) /\ Len(commands) \in Nat
  BY Counts
<1> QED
  BY <1>1, <1>2 DEF Busy

(* Every step keeps the types, and the commands fit the program.           *)
LEMMA TypeStep ==
  ASSUME TypeOK, OpsInv, [Next]_vars
  PROVE  TypeOK' /\ OpsInv'
<1> USE DEF server
<1> DEFINE R(m) == [tag : Range(Tags) \cup Range(Lines),
                    id  : 0..(IF program = "udl_microbenchmark" THEN Total - 1 ELSE m - 1),
                    by  : 1..m]
<1>1. Len(commands) \in Nat /\ Issued = 1..Len(commands) /\ log \in Seq(R(Len(commands)))
  BY Counts DEF TypeOK
<1>2. program' = program /\ Workers' = Workers
  BY ProgramStays
<1>3. CASE UNCHANGED vars
  BY <1>3, <1>2 DEF vars, TypeOK, OpsInv, Suits, Issued
<1>4. ASSUME NEW c \in Commands, Put(c), Suits(c) PROVE TypeOK' /\ OpsInv'
  <2>1. /\ commands' = Append(commands, c) /\ flight' = flight \cup {Len(commands')}
        /\ UNCHANGED <<running, server, answers, overlapped>>
    BY <1>4 DEF Put
  <2>2. /\ commands' \in Seq(Commands) /\ Len(commands') = Len(commands) + 1
        /\ commands'[Len(commands) + 1] = c /\ \A n \in Issued : commands'[n] = commands[n]
    BY <2>1, <1>1 DEF TypeOK, Commands
  <2>3. Issued' = Issued \cup {Len(commands')} /\ Issued \subseteq Issued' /\ Issued' = 1..Len(commands')
    BY <1>1, <2>2 DEF Issued
  <2>4. queue' \in [Workers' -> Seq(Issued')]
    <3>1. Seq(Issued) \subseteq Seq(Issued')
      BY <2>3, SeqMonotonic
    <3> QED
      BY <1>2, <2>1, <3>1 DEF TypeOK
  <2>5. log' \in Seq(R(Len(commands')))
    <3>1. R(Len(commands)) \subseteq R(Len(commands'))
      BY <1>1, <2>2
    <3> HIDE DEF R
    <3> QED
      BY <1>1, <2>1, <3>1, SeqMonotonic
  <2>6. commands' \in Seq([op : {"cache", "store", "check"}, key : Keys] \cup {Request})
    BY <2>2 DEF Commands
  <2>7. running' \in [Workers' -> [on : {0} \cup Issued', done : 0..(3 * Total + 9), seen : {0} \cup Issued']]
    <3>1. \A w \in Workers : running[w] \in [on : {0} \cup Issued', done : 0..(3 * Total + 9), seen : {0} \cup Issued']
      BY <2>3 DEF TypeOK
    <3> QED
      BY <1>2, <2>1, <3>1 DEF TypeOK
  <2>8. /\ program' \in Programs /\ flight' \subseteq Issued' /\ cached' \subseteq Keys
        /\ stored' \in [Keys -> {0} \cup Issued'] /\ overlapped' \subseteq Issued'
    BY <1>2, <2>1, <2>3 DEF TypeOK
  <2>9. DOMAIN answers' \subseteq Issued' /\ \A n \in DOMAIN answers' : answers'[n] \in {0, 1} \cup Issued'
    BY <2>1, <2>3 DEF TypeOK
  <2>10. TypeOK'
    BY <1>2, <2>3, <2>4, <2>5, <2>6, <2>7, <2>8, <2>9 DEF TypeOK
  <2>11. OpsInv'
    BY <1>1, <1>2, <1>4, <2>2, <2>3 DEF OpsInv, Suits
  <2> QED
    BY <2>10, <2>11
<1>5. ASSUME commands' = commands PROVE OpsInv' /\ Issued' = Issued
  BY <1>2, <1>5 DEF OpsInv, Suits, Issued
<1>6. ASSUME NEW n \in flight, Apply(n) PROVE TypeOK'
  <2>1. UNCHANGED <<commands, running, cached, log, answers, overlapped>> /\ flight' = flight \ {n}
    BY <1>6 DEF Apply
  <2>2. n \in Issued /\ (~Triggers(commands[n]) => commands[n].key \in Keys)
    <3>1. n \in Issued
      BY DEF TypeOK
    <3> QED
      BY <3>1, CommandType DEF Triggers
  <2>3. queue' \in [Workers -> Seq(Issued)] /\ stored' \in [Keys -> {0} \cup Issued]
    <3>1. CASE Triggers(commands[n])
      <4>1. PICK w \in Workers : queue' = [queue EXCEPT ![w] = Append(@, n)] /\ stored' = stored
        BY <1>6, <3>1 DEF Apply
      <4>2. Append(queue[w], n) \in Seq(Issued)
        BY <2>2 DEF TypeOK
      <4> QED
        BY <4>1, <4>2 DEF TypeOK
    <3>2. CASE ~Triggers(commands[n])
      <4>1. stored' = [stored EXCEPT ![commands[n].key] = n] /\ queue' = queue
        BY <1>6, <3>2 DEF Apply
      <4> QED
        BY <2>2, <3>2, <4>1 DEF TypeOK
    <3> QED
      BY <3>1, <3>2
  <2> QED
    BY <1>2, <1>5, <2>1, <2>3 DEF TypeOK
<1>7. ASSUME NEW w \in Workers, Take(w) PROVE TypeOK'
  <2>1. /\ UNCHANGED <<commands, flight, cached, stored, log, answers>>
        /\ queue[w] # <<>> /\ queue' = [queue EXCEPT ![w] = Tail(@)]
        /\ running' = [running EXCEPT ![w] = [Idle EXCEPT !.on = Head(queue[w])]]
        /\ overlapped' \subseteq overlapped \cup Handled \cup {Head(queue[w])}
    BY <1>7 DEF Take
  <2>2. queue[w] \in Seq(Issued)
    BY DEF TypeOK
  <2>3. Head(queue[w]) \in Issued /\ Tail(queue[w]) \in Seq(Issued)
    BY <2>1, <2>2
  <2>4. Handled \subseteq Issued
    BY BusyType DEF Handled, Busy
  <2>5. queue' \in [Workers -> Seq(Issued)]
    BY <2>1, <2>3 DEF TypeOK
  <2>6. running' \in [Workers -> [on : {0} \cup Issued, done : 0..(3 * Total + 9), seen : {0} \cup Issued]]
    <3>1. 0 \in 0..(3 * Total + 9)
      OBVIOUS
    <3>2. [Idle EXCEPT !.on = Head(queue[w])] = [on |-> Head(queue[w]), done |-> 0, seen |-> 0]
      BY DEF Idle
    <3>3. Head(queue[w]) \in Issued
      BY <2>3
    <3>4. [Idle EXCEPT !.on = Head(queue[w])] \in [on : {0} \cup Issued, done : 0..(3 * Total + 9), seen : {0} \cup Issued]
      <4> DEFINE D == 0..(3 * Total + 9)
      <4> HIDE DEF D
      <4>1. 0 \in D
        BY <3>1 DEF D
      <4>2. [Idle EXCEPT !.on = Head(queue[w])] \in [on : {0} \cup Issued, done : D, seen : {0} \cup Issued]
        BY <3>2, <3>3, <4>1
      <4> QED
        BY <4>2 DEF D
    <3> QED
      BY <2>1, <3>4 DEF TypeOK
  <2> QED
    BY <1>2, <1>5, <2>1, <2>3, <2>4, <2>5, <2>6 DEF TypeOK
<1>8. ASSUME NEW w \in Workers, LocalGet(w) PROVE TypeOK'
  <2>1. /\ UNCHANGED <<commands, flight, server, answers, overlapped>>
        /\ Busy(w) /\ commands[running[w].on].op = "check"
        /\ running' = [running EXCEPT ![w].done = 1, ![w].seen = stored[commands[running[w].on].key]]
    BY <1>8 DEF LocalGet, Handles
  <2>2. running[w].on \in Issued
    BY <2>1, BusyType
  <2>3. stored[commands[running[w].on].key] \in {0} \cup Issued
    BY <2>1, <2>2, CommandType DEF TypeOK
  <2>4. 1 \in 0..(3 * Total + 9)
    OBVIOUS
  <2>5. running' \in [Workers -> [on : {0} \cup Issued, done : 0..(3 * Total + 9), seen : {0} \cup Issued]]
    BY <2>1, <2>3, <2>4, ZenonT(60) DEF TypeOK
  <2> QED
    BY <1>2, <1>5, <2>1, <2>5 DEF TypeOK
<1>9. ASSUME NEW w \in Workers, Log(w) PROVE TypeOK'
  <2> DEFINE n == running[w].on
             i == running[w].done + 1
  <2>1. /\ UNCHANGED <<commands, flight, queue, cached, stored, answers, overlapped>>
        /\ Busy(w) /\ commands[n].op = "request" /\ running[w].done < Len(Entries(n))
        /\ log' = Append(log, Entries(n)[i])
        /\ running' = [running EXCEPT ![w].done = @ + 1]
    BY <1>9 DEF Log, Handles
  <2>2. n \in Issued /\ running[w].done \in Nat
    BY <2>1, BusyType
  <2>3. program \in Logging
    BY <2>1, <2>2 DEF OpsInv, Suits
  <2> HIDE DEF n
  <2>4. /\ Entries(n) \in Seq([tag : Range(Tags) \cup Range(Lines),
                                id  : 0..(IF program = "udl_microbenchmark" THEN Total - 1 ELSE Len(commands) - 1),
                                by  : {n}])
        /\ Len(Entries(n)) \in 0..(3 * Total + 9)
    BY <2>2, <2>3, EntriesType
  <2>5. i \in 1..Len(Entries(n)) /\ running[w].done + 1 \in 0..(3 * Total + 9)
    <3> DEFINE k == Len(Entries(n))
               j == running[w].done
    <3>1. k \in 0..(3 * Total + 9) /\ j \in Nat /\ j < k /\ Total \in Nat
      BY <2>1, <2>2, <2>4
    <3>2. j + 1 \in 1..k /\ j + 1 \in 0..(3 * Total + 9)
      <4> HIDE DEF k, j
      <4> QED
        BY <3>1
    <3> QED
      BY <3>2
  <2>6. Entries(n)[i] \in [tag : Range(Tags) \cup Range(Lines),
                                id  : 0..(IF program = "udl_microbenchmark" THEN Total - 1 ELSE Len(commands) - 1),
                                by  : {n}]
    BY <2>4, <2>5, ElementOfSeq
  <2>7. Entries(n)[i] \in R(Len(commands))
    BY <1>1, <2>2, <2>6
  <2>8. log' \in Seq(R(Len(commands)))
    <3> HIDE DEF R
    <3> QED
      BY <1>1, <2>1, <2>7
  <2>9. running' \in [Workers -> [on : {0} \cup Issued, done : 0..(3 * Total + 9), seen : {0} \cup Issued]]
    BY <2>1, <2>5, ZenonT(60) DEF TypeOK
  <2> QED
    BY <1>1, <1>2, <1>5, <2>1, <2>8, <2>9 DEF TypeOK
<1>10. ASSUME NEW w \in Workers, Ends(w) PROVE TypeOK'
  <2>1. /\ UNCHANGED <<commands, flight, queue, stored, log, overlapped>>
        /\ Busy(w) /\ running' = [running EXCEPT ![w] = Idle]
    BY <1>10 DEF Ends, CachePut, IsCached, PrintObject, EndRequest, Handles, Return
  <2>2. running' \in [Workers -> [on : {0} \cup Issued, done : 0..(3 * Total + 9), seen : {0} \cup Issued]]
    <3>1. Idle \in [on : {0} \cup Issued, done : 0..(3 * Total + 9), seen : {0} \cup Issued]
      BY DEF Idle
    <3> QED
      BY <2>1, <3>1 DEF TypeOK
  <2>3. running[w].on \in Issued /\ running[w].seen \in {0} \cup Issued
    BY <2>1, BusyType
  <2>4. cached' \subseteq Keys
    BY <1>10, <2>3, CommandType DEF Ends, CachePut, IsCached, PrintObject, EndRequest, Handles, TypeOK
  <2>5. \/ answers' = answers
        \/ \E v \in {0, 1} \cup Issued : Answer(w, v)
    BY <1>10, <2>3 DEF Ends, CachePut, IsCached, PrintObject, EndRequest
  <2>6. DOMAIN answers' \subseteq Issued /\ \A n \in DOMAIN answers' : answers'[n] \in {0, 1} \cup Issued
    BY <2>3, <2>5 DEF TypeOK, Answer
  <2> QED
    BY <1>2, <1>5, <2>1, <2>2, <2>4, <2>6 DEF TypeOK
<1> QED
  BY Steps, <1>3, <1>4, <1>5, <1>6, <1>7, <1>8, <1>9, <1>10
     DEF Apply, Take, LocalGet, Log, Ends, CachePut, IsCached, PrintObject, EndRequest

(* Every variable keeps its type: an entry of the log has a tag, an id and *)
(* a request of the program that runs.                                     *)
THEOREM TypeCorrect == Spec => []TypeOK
<1>1. Init => TypeOK /\ OpsInv
  BY Counts DEF Init, TypeOK, OpsInv, Issued, Idle
<1>2. TypeOK /\ OpsInv /\ [Next]_vars => (TypeOK /\ OpsInv)'
  BY TypeStep
<1> QED
  BY <1>1, <1>2, PTL DEF Spec

(***************************************************************************)
(* Where a command is                                                      *)
(***************************************************************************)
(* A command is in one place: on its way, in one queue, with one worker,   *)
(* or done.  Only the last one is on its way.                              *)
FlowInv ==
  /\ flight \subseteq {Len(commands)}
  /\ \A n \in flight : n \notin Queued /\ n \notin Handled
  /\ \A n \in Queued : n \notin Handled
  /\ \A v, w \in Workers : \A i \in 1..Len(queue[v]), j \in 1..Len(queue[w]) :
       queue[v][i] = queue[w][j] => v = w /\ i = j
  /\ \A v, w \in Workers : Busy(v) /\ running[v].on = running[w].on => v = w

(* How the queues and the commands that wait in them correspond.           *)
QueueFacts ==
  /\ \A w \in Workers : Len(queue[w]) \in Nat /\ DOMAIN queue[w] = 1..Len(queue[w])
  /\ \A w \in Workers : \A i \in 1..Len(queue[w]) : queue[w][i] \in Queued
  /\ \A n \in Queued : n \in Issued /\ \E w \in Workers : \E i \in 1..Len(queue[w]) : queue[w][i] = n

(* A queue holds commands that wait, and one that waits is in a queue.     *)
LEMMA QueueFactsHold == TypeOK => QueueFacts
<1> SUFFICES ASSUME TypeOK PROVE QueueFacts
  OBVIOUS
<1>1. \A w \in Workers : queue[w] \in Seq(Issued)
  BY DEF TypeOK
<1>2. \A w \in Workers : Len(queue[w]) \in Nat /\ DOMAIN queue[w] = 1..Len(queue[w])
  BY <1>1
<1>3. \A w \in Workers : \A i \in 1..Len(queue[w]) : queue[w][i] \in Issued
  BY <1>1, ElementOfSeq
<1> QED
  BY <1>2, <1>3 DEF QueueFacts, Queued, Range

(* The same, to cite where the queues are as they are.                     *)
LEMMA QueuedWhere ==
  ASSUME TypeOK
  PROVE  /\ \A w \in Workers : Len(queue[w]) \in Nat /\ DOMAIN queue[w] = 1..Len(queue[w])
         /\ \A w \in Workers : \A i \in 1..Len(queue[w]) : queue[w][i] \in Queued
         /\ \A n \in Queued : n \in Issued /\ \E w \in Workers : \E i \in 1..Len(queue[w]) : queue[w][i] = n
BY QueueFactsHold DEF QueueFacts

(* The same, after a step.                                                 *)
LEMMA QueueFactsNext == TypeOK' => QueueFacts'
BY QueueFactsHold, PTL

(* A command that is handled is with a busy worker.                        *)
LEMMA HandledWhere ==
  ASSUME TypeOK
  PROVE  /\ \A w \in Workers : Busy(w) <=> running[w].on # 0
         /\ \A w \in Workers : Busy(w) => running[w].on \in Handled
         /\ \A n \in Handled : n \in Issued /\ \E w \in Workers : Busy(w) /\ running[w].on = n
<1>1. \A w \in Workers : running[w].on \in {0} \cup Issued
  BY BusyType
<1>2. Issued = 1..Len(commands) /\ Len(commands) \in Nat
  BY Counts
<1> QED
  BY <1>1, <1>2 DEF Busy, Handled

(* A put waits for the one before it.                                      *)
LEMMA PutFlow ==
  ASSUME TypeOK, TypeOK', FlowInv, NEW c \in Commands, Put(c)
  PROVE  /\ Issued' = Issued \cup {Len(commands')} /\ Len(commands') = Len(commands) + 1
         /\ Len(commands') \notin Issued
         /\ commands'[Len(commands')] = c /\ \A n \in Issued : commands'[n] = commands[n]
         /\ flight = {} /\ flight' = {Len(commands')}
         /\ Queued' = Queued /\ Handled' = Handled /\ Finished' = Finished
         /\ FlowInv'
<1>1. /\ commands' = Append(commands, c) /\ flight = {} /\ flight' = {Len(commands')}
      /\ UNCHANGED <<program, running, queue, cached, stored, log, answers, overlapped>>
  BY DEF Put, WaitsForReply, server
<1>2. Workers' = Workers
  BY <1>1 DEF Workers
<1>3. commands \in Seq(Commands)
  BY DEF TypeOK, Commands
<1>4. /\ Issued = 1..Len(commands) /\ Issued' = 1..Len(commands')
      /\ Len(commands) \in Nat /\ Len(commands') = Len(commands) + 1
      /\ commands'[Len(commands')] = c /\ \A n \in Issued : commands'[n] = commands[n]
  BY <1>1, <1>3 DEF Issued
<1>5. Issued' = Issued \cup {Len(commands')} /\ Len(commands') \notin Issued
  BY <1>4
<1>6. \A w \in Workers : \A i \in DOMAIN queue[w] : queue[w][i] \in Issued
  BY QueuedWhere
<1>7. Queued' = Queued
  BY <1>1, <1>2, <1>5, <1>6 DEF Queued, Range
<1>8. Handled' = Handled
  BY <1>1, <1>2 DEF Handled
<1>9. Finished' = Finished
  BY <1>1, <1>5, <1>7, <1>8 DEF Finished
<1>10. Queued \subseteq Issued /\ Handled \subseteq Issued
  BY HandledWhere DEF Queued
<1>11. FlowInv'
  BY <1>1, <1>2, <1>5, <1>7, <1>8, <1>10 DEF FlowInv, Busy
<1> QED
  BY <1>1, <1>4, <1>5, <1>7, <1>8, <1>9, <1>11

(* The command on its way goes to a queue, or is done when it has no       *)
(* trigger.                                                                *)
LEMMA ApplyFlow ==
  ASSUME TypeOK, TypeOK', FlowInv, NEW n \in flight, Apply(n)
  PROVE  /\ UNCHANGED <<program, commands, running, cached, log, answers, overlapped>>
         /\ Issued' = Issued /\ n \in Issued /\ n = Len(commands) /\ flight' = {}
         /\ n \notin Queued /\ n \notin Handled
         /\ Handled' = Handled
         /\ Triggers(commands[n]) => Queued' = Queued \cup {n} /\ Finished' = Finished /\ stored' = stored
         /\ ~Triggers(commands[n]) => /\ Queued' = Queued /\ Finished' = Finished \cup {n}
                                      /\ stored' = [stored EXCEPT ![commands[n].key] = n]
         /\ FlowInv'
<1>1. /\ flight' = flight \ {n} /\ UNCHANGED <<program, commands, running, cached, log, answers, overlapped>>
  BY DEF Apply
<1>2. Workers' = Workers /\ Issued' = Issued /\ Handled' = Handled
  BY <1>1 DEF Workers, Issued, Handled
<1>3. n \in Issued /\ n = Len(commands) /\ flight' = {} /\ n \notin Queued /\ n \notin Handled
  BY <1>1 DEF FlowInv, TypeOK
<1>4. CASE Triggers(commands[n])
  <2>1. PICK w \in Workers : queue' = [queue EXCEPT ![w] = Append(@, n)]
    BY <1>4 DEF Apply
  <2>2. stored' = stored
    BY <1>4 DEF Apply
  <2>3. queue[w] \in Seq(Issued) /\ Len(queue[w]) \in Nat
    BY DEF TypeOK
  <2>4. /\ \A v \in Workers \ {w} : queue'[v] = queue[v]
        /\ Len(queue'[w]) = Len(queue[w]) + 1
        /\ \A i \in 1..Len(queue[w]) : queue'[w][i] = queue[w][i]
        /\ queue'[w][Len(queue[w]) + 1] = n
    BY <2>1, <2>3, <1>3 DEF TypeOK
  <2>5. \A v \in Workers : \A i \in 1..Len(queue'[v]) :
          \/ i \in 1..Len(queue[v]) /\ queue'[v][i] = queue[v][i]
          \/ v = w /\ i = Len(queue[w]) + 1 /\ queue'[v][i] = n
    BY <2>3, <2>4
  <2>6. Queued' = Queued \cup {n}
    <3>1. \A m \in Queued' : m \in Queued \cup {n}
      <4> SUFFICES ASSUME NEW m \in Queued' PROVE m \in Queued \cup {n}
        OBVIOUS
      <4>1. PICK v \in Workers : \E i \in 1..Len(queue'[v]) : queue'[v][i] = m
        BY <1>2, QueueFactsNext DEF QueueFacts
      <4>2. PICK i \in 1..Len(queue'[v]) : queue'[v][i] = m
        BY <4>1
      <4> QED
        BY <4>2, <2>5, QueuedWhere
    <3>2. \A v \in Workers : \A i \in 1..Len(queue'[v]) : queue'[v][i] \in Queued'
      BY <1>2, QueueFactsNext DEF QueueFacts
    <3>3. \A m \in Queued : m \in Queued'
      <4> SUFFICES ASSUME NEW m \in Queued PROVE m \in Queued'
        OBVIOUS
      <4>1. PICK v \in Workers : \E i \in 1..Len(queue[v]) : queue[v][i] = m
        BY QueuedWhere
      <4>2. PICK i \in 1..Len(queue[v]) : queue[v][i] = m
        BY <4>1
      <4>3. i \in 1..Len(queue'[v]) /\ queue'[v][i] = m
        <5>1. CASE v = w
          BY <4>2, <5>1, <2>3, <2>4
        <5>2. CASE v # w
          BY <4>2, <5>2, <2>4
        <5> QED
          BY <5>1, <5>2
      <4> QED
        BY <4>3, <3>2
    <3>4. n \in Queued'
      BY <2>3, <2>4, <3>2
    <3> QED
      BY <3>1, <3>3, <3>4
  <2>7. Finished' = Finished
    BY <1>1, <1>2, <1>3, <2>6 DEF Finished
  <2>8. \A v, u \in Workers : \A i \in 1..Len(queue'[v]), j \in 1..Len(queue'[u]) :
          queue'[v][i] = queue'[u][j] => v = u /\ i = j
    <3>1. \A v \in Workers : \A i \in 1..Len(queue[v]) : queue[v][i] # n
      BY <1>3, QueuedWhere
    <3> SUFFICES ASSUME NEW v \in Workers, NEW u \in Workers,
                        NEW i \in 1..Len(queue'[v]), NEW j \in 1..Len(queue'[u]),
                        queue'[v][i] = queue'[u][j]
                 PROVE  v = u /\ i = j
      OBVIOUS
    <3>2. \/ i \in 1..Len(queue[v]) /\ queue'[v][i] = queue[v][i]
          \/ v = w /\ i = Len(queue[w]) + 1 /\ queue'[v][i] = n
      BY <2>5
    <3>3. \/ j \in 1..Len(queue[u]) /\ queue'[u][j] = queue[u][j]
          \/ u = w /\ j = Len(queue[w]) + 1 /\ queue'[u][j] = n
      BY <2>5
    <3> QED
      BY <3>1, <3>2, <3>3 DEF FlowInv
  <2>9. FlowInv'
    BY <1>1, <1>2, <1>3, <2>6, <2>8 DEF FlowInv, Busy
  <2> QED
    BY <1>1, <1>2, <1>3, <1>4, <2>2, <2>6, <2>7, <2>9
<1>5. CASE ~Triggers(commands[n])
  <2>1. queue' = queue /\ stored' = [stored EXCEPT ![commands[n].key] = n]
    BY <1>5 DEF Apply
  <2>2. Queued' = Queued
    BY <1>2, <2>1 DEF Queued
  <2>3. Finished' = Finished \cup {n}
    BY <1>2, <1>3, <2>2 DEF Finished, FlowInv
  <2>4. FlowInv'
    BY <1>1, <1>2, <1>3, <2>1, <2>2 DEF FlowInv, Busy
  <2> QED
    BY <1>1, <1>2, <1>3, <1>5, <2>1, <2>2, <2>3, <2>4
<1> QED
  BY <1>4, <1>5

(* A worker takes a command out of its queue.                              *)
LEMMA TakeFlow ==
  ASSUME TypeOK, TypeOK', FlowInv, NEW w \in Workers, Take(w)
  PROVE  \E n \in Queued :
           /\ UNCHANGED <<program, commands, flight, cached, stored, log, answers>>
           /\ Issued' = Issued /\ Queued' = Queued \ {n} /\ Handled' = Handled \cup {n} /\ Finished' = Finished
           /\ ~Busy(w) /\ running'[w].on = n /\ running'[w].done = 0
           /\ \A v \in Workers : v # w => running'[v] = running[v]
           /\ overlapped' = IF Handled = {} THEN overlapped ELSE overlapped \cup Handled \cup {n}
           /\ n \notin Handled /\ n \notin Finished
           /\ FlowInv'
<1> DEFINE n == Head(queue[w])
<1>1. /\ UNCHANGED <<program, commands, flight, cached, stored, log, answers>>
      /\ ~Busy(w) /\ queue[w] # <<>> /\ queue' = [queue EXCEPT ![w] = Tail(@)]
      /\ running' = [running EXCEPT ![w] = [Idle EXCEPT !.on = n]]
      /\ overlapped' = IF Handled = {} THEN overlapped ELSE overlapped \cup Handled \cup {n}
  BY DEF Take
<1>2. Workers' = Workers /\ Issued' = Issued
  BY <1>1 DEF Workers, Issued
<1>3. queue[w] \in Seq(Issued) /\ Len(queue[w]) \in Nat
  BY DEF TypeOK
<1>4. /\ \A v \in Workers \ {w} : queue'[v] = queue[v]
      /\ Len(queue[w]) >= 1 /\ Len(queue'[w]) = Len(queue[w]) - 1
      /\ \A i \in 1..Len(queue'[w]) : queue'[w][i] = queue[w][i + 1]
      /\ n = queue[w][1]
  <2>1. queue'[w] = Tail(queue[w])
    BY <1>1 DEF TypeOK
  <2> QED
    BY <1>1, <1>3, <2>1, EmptySeq, HeadTailProperties DEF TypeOK
<1>5. /\ running'[w].on = n /\ running'[w].done = 0
      /\ \A v \in Workers : v # w => running'[v] = running[v]
  BY <1>1 DEF TypeOK, Idle
<1> HIDE DEF n
<1>6. n \in Queued /\ n \in Issued /\ n \notin Handled /\ n \notin Finished /\ n # 0
  <2>1. n \in Queued
    BY <1>3, <1>4, QueuedWhere
  <2> QED
    BY <2>1, QueuedWhere, CommandType DEF FlowInv, Finished
<1>7. Queued' = Queued \ {n}
  <2>1. \A v \in Workers : \A i \in 1..Len(queue'[v]) : queue'[v][i] \in Queued'
    BY <1>2, QueueFactsNext DEF QueueFacts
  <2>2. \A m \in Queued' : m \in Queued \ {n}
    <3> SUFFICES ASSUME NEW m \in Queued' PROVE m \in Queued \ {n}
      OBVIOUS
    <3>1. PICK v \in Workers : \E i \in 1..Len(queue'[v]) : queue'[v][i] = m
      BY <1>2, QueueFactsNext DEF QueueFacts
    <3>2. PICK i \in 1..Len(queue'[v]) : queue'[v][i] = m
      BY <3>1
    <3>3. CASE v = w
      <4>1. i + 1 \in 1..Len(queue[w]) /\ i + 1 # 1 /\ queue[w][i + 1] = m
        BY <1>3, <1>4, <3>2, <3>3
      <4>2. 1 \in 1..Len(queue[w])
        BY <1>3, <1>4
      <4>3. m # n
        BY <4>1, <4>2, <1>4 DEF FlowInv
      <4> QED
        BY <4>1, <4>3, QueuedWhere
    <3>4. CASE v # w
      <4>1. i \in 1..Len(queue[v]) /\ queue[v][i] = m
        BY <1>4, <3>2, <3>4
      <4>2. 1 \in 1..Len(queue[w])
        BY <1>3, <1>4
      <4>3. m # n
        BY <4>1, <4>2, <1>4, <3>4 DEF FlowInv
      <4> QED
        BY <4>1, <4>3, QueuedWhere
    <3> QED
      BY <3>3, <3>4
  <2>3. \A m \in Queued \ {n} : m \in Queued'
    <3> SUFFICES ASSUME NEW m \in Queued \ {n} PROVE m \in Queued'
      OBVIOUS
    <3>1. PICK v \in Workers : \E i \in 1..Len(queue[v]) : queue[v][i] = m
      BY QueuedWhere
    <3>2. PICK i \in 1..Len(queue[v]) : queue[v][i] = m
      BY <3>1
    <3>3. CASE v = w
      <4>1. i # 1
        BY <1>4, <3>2, <3>3
      <4>2. i - 1 \in 1..Len(queue'[w]) /\ (i - 1) + 1 = i
        BY <1>3, <1>4, <3>2, <3>3, <4>1
      <4>3. queue'[w][i - 1] = m
        BY <1>4, <3>2, <3>3, <4>2
      <4> QED
        BY <2>1, <4>2, <4>3
    <3>4. CASE v # w
      BY <1>4, <2>1, <3>2, <3>4
    <3> QED
      BY <3>3, <3>4
  <2> QED
    BY <2>2, <2>3
<1>8. Handled' = Handled \cup {n}
  <2>1. running[w].on = 0
    BY <1>1, HandledWhere
  <2>2. \A m \in Handled' : m \in Handled \cup {n}
    BY <1>2, <1>5 DEF Handled
  <2>3. \A m \in Handled : m \in Handled'
    <3> SUFFICES ASSUME NEW m \in Handled PROVE m \in Handled'
      OBVIOUS
    <3>1. PICK v \in Workers : running[v].on = m /\ m # 0
      BY DEF Handled
    <3>2. running'[v].on = m
      BY <1>5, <2>1, <3>1
    <3> QED
      BY <1>2, <3>1, <3>2 DEF Handled
  <2>4. n \in Handled'
    BY <1>2, <1>5, <1>6 DEF Handled
  <2> QED
    BY <2>2, <2>3, <2>4
<1>9. Finished' = Finished
  BY <1>1, <1>2, <1>6, <1>7, <1>8 DEF Finished
<1>10. \A v, u \in Workers : \A i \in 1..Len(queue'[v]), j \in 1..Len(queue'[u]) :
         queue'[v][i] = queue'[u][j] => v = u /\ i = j
  <2>1. \A v \in Workers : \A i \in 1..Len(queue'[v]) :
          LET k == IF v = w THEN i + 1 ELSE i IN k \in 1..Len(queue[v]) /\ queue'[v][i] = queue[v][k]
    BY <1>3, <1>4
  <2> SUFFICES ASSUME NEW v \in Workers, NEW u \in Workers, NEW i \in 1..Len(queue'[v]), NEW j \in 1..Len(queue'[u]),
                      queue'[v][i] = queue'[u][j]
               PROVE  v = u /\ i = j
    OBVIOUS
  <2> DEFINE k == IF v = w THEN i + 1 ELSE i
             l == IF u = w THEN j + 1 ELSE j
  <2>2. k \in 1..Len(queue[v]) /\ l \in 1..Len(queue[u]) /\ queue[v][k] = queue[u][l]
    BY <2>1
  <2>3. v = u /\ k = l
    <3> HIDE DEF k, l
    <3> QED
      BY <2>2 DEF FlowInv
  <2> QED
    BY <2>3
<1>11. \A v, u \in Workers : Busy(v)' /\ running'[v].on = running'[u].on => v = u
  <2>1. \A v \in Workers : v # w => running[v].on # n
    BY <1>6, HandledWhere
  <2> QED
    BY <1>5, <1>6, <2>1 DEF FlowInv, Busy
<1>12. FlowInv'
  BY <1>1, <1>2, <1>6, <1>7, <1>8, <1>10, <1>11, SMTT(20) DEF FlowInv
<1> QED
  BY <1>1, <1>2, <1>5, <1>6, <1>7, <1>8, <1>9, <1>12

(* While a handler goes on, every command stays where it is.               *)
LEMMA StayFlow ==
  ASSUME TypeOK, FlowInv, NEW w \in Workers, LocalGet(w) \/ Log(w)
  PROVE  /\ UNCHANGED <<program, commands, flight, queue, cached, stored, answers, overlapped>>
         /\ Issued' = Issued /\ Queued' = Queued /\ Handled' = Handled /\ Finished' = Finished
         /\ Busy(w) /\ \A v \in Workers : running'[v].on = running[v].on
         /\ \A v \in Workers : v # w => running'[v] = running[v]
         /\ FlowInv'
<1>1. /\ UNCHANGED <<program, commands, flight, queue, cached, stored, answers, overlapped>> /\ Busy(w)
  BY DEF LocalGet, Log, Handles, server
<1>2. /\ \A v \in Workers : running'[v].on = running[v].on
      /\ \A v \in Workers : v # w => running'[v] = running[v]
  <2>1. running' = [running EXCEPT ![w].done = running[w].done + 1]
        \/ \E v : running' = [running EXCEPT ![w].done = 1, ![w].seen = v]
    BY DEF LocalGet, Log
  <2>2. running[w] \in [on : {0} \cup Issued, done : 0..(3 * Total + 9), seen : {0} \cup Issued]
    BY BusyType
  <2>3. \A v \in Workers : v # w => running'[v] = running[v]
    BY <2>1 DEF TypeOK
  <2>4. running'[w].on = running[w].on
    BY <2>1, <2>2 DEF TypeOK
  <2> QED
    BY <2>3, <2>4
<1>3. Workers' = Workers /\ Issued' = Issued
  BY <1>1 DEF Workers, Issued
<1>4. Queued' = Queued /\ Handled' = Handled
  BY <1>1, <1>2, <1>3 DEF Queued, Handled
<1>5. Finished' = Finished
  BY <1>1, <1>3, <1>4 DEF Finished
<1>6. FlowInv'
  BY <1>1, <1>2, <1>3, <1>4 DEF FlowInv, Busy
<1> QED
  BY <1>1, <1>2, <1>3, <1>4, <1>5, <1>6

(* When a handler ends, its command is done.                               *)
LEMMA EndFlow ==
  ASSUME TypeOK, FlowInv, NEW w \in Workers, Ends(w)
  PROVE  LET n == running[w].on IN
         /\ UNCHANGED <<program, commands, flight, queue, stored, log, overlapped>>
         /\ Issued' = Issued /\ Queued' = Queued
         /\ n \in Handled /\ Handled' = Handled \ {n} /\ Finished' = Finished \cup {n}
         /\ Busy(w) /\ running'[w] = Idle /\ \A v \in Workers : v # w => running'[v] = running[v]
         /\ FlowInv'
<1> DEFINE n == running[w].on
<1>1. /\ UNCHANGED <<program, commands, flight, queue, stored, log, overlapped>> /\ Busy(w)
      /\ running' = [running EXCEPT ![w] = Idle]
  BY DEF Ends, CachePut, IsCached, PrintObject, EndRequest, Handles, Return, server
<1>2. running'[w] = Idle /\ \A v \in Workers : v # w => running'[v] = running[v]
  BY <1>1 DEF TypeOK
<1>3. Workers' = Workers /\ Issued' = Issued
  BY <1>1 DEF Workers, Issued
<1>4. Queued' = Queued
  BY <1>1, <1>3 DEF Queued
<1>5. n \in Handled /\ n \in Issued /\ n # 0
  BY <1>1, HandledWhere
<1>6. Handled' = Handled \ {n}
  <2>1. \A v \in Workers : v # w => running[v].on # n
    BY <1>1 DEF FlowInv
  <2>2. Handled' = {running'[v].on : v \in Workers} \ {0}
    BY <1>3 DEF Handled
  <2>3. running'[w].on = 0
    BY <1>2 DEF Idle
  <2> HIDE DEF n
  <2>4. \A m \in Handled' : m \in Handled /\ m # n
    BY <1>2, <2>1, <2>2, <2>3 DEF Handled
  <2>5. \A m \in Handled \ {n} : m \in Handled'
    <3> SUFFICES ASSUME NEW m \in Handled \ {n} PROVE m \in Handled'
      OBVIOUS
    <3>1. PICK v \in Workers : running[v].on = m /\ m # 0
      BY DEF Handled
    <3>2. running'[v].on = m
      BY <1>2, <3>1 DEF n
    <3> QED
      BY <2>2, <3>1, <3>2
  <2> QED
    BY <2>4, <2>5
<1>7. Finished' = Finished \cup {n}
  <2>1. n \notin flight /\ n \notin Queued
    BY <1>5 DEF FlowInv
  <2> QED
    BY <1>1, <1>3, <1>4, <1>5, <1>6, <2>1 DEF Finished
<1>8. \A v, u \in Workers : Busy(v)' /\ running'[v].on = running'[u].on => v = u
  BY <1>2, SMTT(20) DEF FlowInv, Busy, Idle
<1>9. FlowInv'
  BY <1>1, <1>3, <1>4, <1>6, <1>8 DEF FlowInv
<1> QED
  BY <1>1, <1>2, <1>3, <1>4, <1>5, <1>6, <1>7, <1>9

(* What StayFlow, TakeFlow and the others say of the places.               *)
LEMMA FlowStep ==
  ASSUME TypeOK, TypeOK', FlowInv, [Next]_vars
  PROVE  FlowInv'
<1>1. CASE UNCHANGED vars
  BY <1>1 DEF vars, server, FlowInv, Queued, Handled, Issued, Workers, Busy
<1> QED
  BY <1>1, Steps, PutFlow, ApplyFlow, TakeFlow, StayFlow, EndFlow

(* When nothing has been put, no command is anywhere.                      *)
LEMMA InitFlow ==
  ASSUME Init
  PROVE  FlowInv /\ Issued = {} /\ Handled = {} /\ Finished = {}
<1>1. Issued = {} /\ Queued = {}
  BY DEF Init, Issued, Queued
<1>2. Handled = {}
  BY DEF Init, Handled, Idle
<1>3. Finished = {}
  BY <1>1 DEF Finished
<1>4. \A w \in Workers : queue[w] = <<>> /\ Len(queue[w]) = 0 /\ ~Busy(w)
  BY DEF Init, Busy, Idle
<1>5. FlowInv
  BY <1>1, <1>2, <1>4 DEF FlowInv, Init
<1> QED
  BY <1>1, <1>2, <1>3, <1>5

(***************************************************************************)
(* cache_test and shortcut_test                                            *)
(***************************************************************************)
(* What the handlers have cached stays there.                              *)
CacheInv == \A m \in Finished : commands[m].op = "cache" => commands[m].key \in cached

(* What a check n may print: nothing older than the last store before it.  *)
Prints(n, v) ==
  /\ v \in StoresOf(commands[n].key) \cup {0}
  /\ \A m \in StoresOf(commands[n].key) : m < n => m <= v

(* The last store that was applied is the last one put, or the last but    *)
(* one while that one is on its way.                                       *)
StoreInv ==
  \A k \in Keys :
    /\ stored[k] \in StoresOf(k) \cup {0}
    /\ \A m \in StoresOf(k) : m \notin flight => m <= stored[k]

SeenInv ==
  program = "shortcut_test" =>
    \A w \in Workers :
      Busy(w) /\ commands[running[w].on].op = "check" /\ running[w].done # 0 =>
        Prints(running[w].on, running[w].seen)

AnswersInv ==
  program = "shortcut_test" =>
    \A n \in DOMAIN answers : Prints(n, answers[n])

CheckInv == CacheInv /\ StoreInv /\ SeenInv /\ AnswersInv

(* A store that is put later does not change what a check may print.       *)
LEMMA PrintsStay ==
  ASSUME TypeOK, TypeOK', FlowInv, NEW c \in Commands, Put(c),
         NEW n \in Issued, NEW v, Prints(n, v)
  PROVE  Prints(n, v)'
<1>1. /\ Issued' = Issued \cup {Len(commands')} /\ Len(commands') = Len(commands) + 1
      /\ Len(commands') \notin Issued /\ \A m \in Issued : commands'[m] = commands[m]
  BY PutFlow
<1>2. n \in Nat /\ n <= Len(commands) /\ Len(commands) \in Nat
  BY CommandType, Counts
<1>3. \A k : StoresOf(k) \subseteq StoresOf(k)' /\ StoresOf(k)' \subseteq StoresOf(k) \cup {Len(commands')}
  BY <1>1 DEF StoresOf
<1>4. ~(Len(commands') < n)
  BY <1>1, <1>2
<1>5. PICK k : k = commands[n].key /\ k = commands'[n].key
  BY <1>1
<1>6. Prints(n, v)' <=> /\ v \in StoresOf(k)' \cup {0}
                        /\ \A m \in StoresOf(k)' : m < n => m <= v
  BY <1>5 DEF Prints
<1>7. v \in StoresOf(k) \cup {0} /\ \A m \in StoresOf(k) : m < n => m <= v
  BY <1>5 DEF Prints
<1>8. StoresOf(k) \subseteq StoresOf(k)' /\ StoresOf(k)' \subseteq StoresOf(k) \cup {Len(commands')}
  BY <1>3
<1>9. v \in StoresOf(k)' \cup {0}
  BY <1>7, <1>8
<1>10. \A m \in StoresOf(k)' : m < n => m <= v
  BY <1>4, <1>7, <1>8
<1> QED
  BY <1>6, <1>9, <1>10

(* The checks and what they read, step by step.                            *)
LEMMA CheckStep ==
  ASSUME TypeOK, TypeOK', OpsInv, FlowInv, CheckInv, [Next]_vars
  PROVE  CheckInv'
<1>1. program' = program /\ Workers' = Workers
  BY ProgramStays
<1>2. Len(commands) \in Nat /\ Issued = 1..Len(commands) /\ DOMAIN answers \subseteq Issued /\ Finished \subseteq Issued
  BY Counts DEF TypeOK, Finished
<1>3. ASSUME UNCHANGED <<commands>>
      PROVE  /\ \A k : StoresOf(k)' = StoresOf(k)
             /\ \A n, v : Prints(n, v)' <=> Prints(n, v)
  <2>1. \A k : StoresOf(k)' = StoresOf(k)
    BY <1>3 DEF StoresOf, Issued
  <2> QED
    BY <1>3, <2>1 DEF Prints
<1>4. CASE UNCHANGED vars
  <2>1. Finished' = Finished
    BY <1>4 DEF vars, server, Finished, Issued, Queued, Handled, Workers
  <2> QED
    BY <1>1, <1>3, <1>4, <2>1 DEF vars, server, CheckInv, CacheInv, StoreInv, SeenInv, AnswersInv, Busy
<1>5. ASSUME NEW c \in Commands, Put(c), Suits(c) PROVE CheckInv'
  <2>1. /\ Issued' = Issued \cup {Len(commands')} /\ Len(commands') = Len(commands) + 1
        /\ Len(commands') \notin Issued /\ \A m \in Issued : commands'[m] = commands[m]
        /\ flight = {} /\ flight' = {Len(commands')} /\ Finished' = Finished
    BY <1>5, PutFlow
  <2>2. UNCHANGED <<running, cached, stored, answers>>
    BY <1>5 DEF Put, server
  <2>3. CacheInv'
    BY <1>2, <2>1, <2>2 DEF CheckInv, CacheInv
  <2>4. StoreInv'
    <3>1. \A k : StoresOf(k) \subseteq StoresOf(k)' /\ StoresOf(k)' \subseteq StoresOf(k) \cup {Len(commands')}
      BY <2>1 DEF StoresOf
    <3> QED
      BY <2>1, <2>2, <3>1 DEF CheckInv, StoreInv
  <2>5. \A n \in Issued : \A v : Prints(n, v) => Prints(n, v)'
    BY <1>5, PrintsStay
  <2>6. SeenInv'
    <3>1. \A w \in Workers : Busy(w) => running[w].on \in Issued
      BY BusyType
    <3> QED
      BY <1>1, <2>1, <2>2, <2>5, <3>1 DEF CheckInv, SeenInv, Busy
  <2>7. AnswersInv'
    BY <1>1, <1>2, <2>2, <2>5 DEF CheckInv, AnswersInv
  <2> QED
    BY <2>3, <2>4, <2>6, <2>7 DEF CheckInv
<1>6. ASSUME NEW n \in flight, Apply(n) PROVE CheckInv'
  <2>1. /\ UNCHANGED <<program, commands, running, cached, log, answers, overlapped>>
        /\ n \in Issued /\ n = Len(commands) /\ flight' = {}
        /\ Triggers(commands[n]) => Finished' = Finished /\ stored' = stored
        /\ ~Triggers(commands[n]) => /\ Finished' = Finished \cup {n}
                                     /\ stored' = [stored EXCEPT ![commands[n].key] = n]
    BY <1>6, ApplyFlow
  <2>2. CacheInv'
    BY <2>1 DEF CheckInv, CacheInv, Triggers
  <2>3. StoreInv'
    <3> SUFFICES ASSUME NEW k \in Keys
                 PROVE  /\ stored'[k] \in StoresOf(k) \cup {0}
                        /\ \A m \in StoresOf(k) : m <= stored'[k]
      BY <1>3, <2>1 DEF StoreInv
    <3>1. /\ stored[k] \in StoresOf(k) \cup {0}
          /\ \A m \in StoresOf(k) : m # n => m <= stored[k]
      BY <2>1, <1>6 DEF CheckInv, StoreInv, FlowInv
    <3>2. \A m \in StoresOf(k) : m \in Nat /\ m <= n
      BY <1>2, <2>1 DEF StoresOf
    <3>3. CASE n \in StoresOf(k)
      <4>1. commands[n].op = "store" /\ commands[n].key = k
        BY <3>3 DEF StoresOf
      <4>2. stored'[k] = n
        BY <2>1, <4>1 DEF Triggers, TypeOK
      <4> QED
        BY <3>2, <3>3, <4>2
    <3>4. CASE n \notin StoresOf(k)
      <4>1. stored'[k] = stored[k]
        <5>1. CASE Triggers(commands[n])
          BY <2>1, <5>1
        <5>2. CASE ~Triggers(commands[n])
          <6>1. commands[n] \in Commands /\ commands[n].op = "store"
            BY <2>1, <5>2, CommandType DEF Triggers
          <6>2. commands[n] = [op |-> "store", key |-> commands[n].key]
            BY <6>1 DEF Commands, Request
          <6>3. commands[n].key # k
            BY <2>1, <3>4, <6>2 DEF StoresOf
          <6> QED
            BY <2>1, <5>2, <6>3 DEF TypeOK
        <5> QED
          BY <5>1, <5>2
      <4> QED
        BY <3>1, <3>4, <4>1
    <3> QED
      BY <3>3, <3>4
  <2>4. SeenInv' /\ AnswersInv'
    BY <1>1, <1>3, <2>1 DEF CheckInv, SeenInv, AnswersInv, Busy
  <2> QED
    BY <2>2, <2>3, <2>4 DEF CheckInv
<1>7. ASSUME NEW w \in Workers, Take(w) PROVE CheckInv'
  <2>1. /\ UNCHANGED <<program, commands, flight, cached, stored, answers>>
        /\ Finished' = Finished /\ running'[w].done = 0
        /\ \A v \in Workers : v # w => running'[v] = running[v]
    BY <1>7, TakeFlow
  <2>2. SeenInv'
    BY <1>1, <1>3, <2>1 DEF CheckInv, SeenInv, Busy
  <2> QED
    BY <1>1, <1>3, <2>1, <2>2 DEF CheckInv, CacheInv, StoreInv, AnswersInv
<1>8. ASSUME NEW w \in Workers, LocalGet(w) PROVE CheckInv'
  <2>1. /\ UNCHANGED <<program, commands, flight, cached, stored, answers>>
        /\ Finished' = Finished /\ Busy(w) /\ running'[w].on = running[w].on
        /\ \A v \in Workers : v # w => running'[v] = running[v]
    BY <1>8, StayFlow
  <2> DEFINE n == running[w].on
             k == commands[n].key
  <2>2. n \in Issued /\ n \in Handled /\ n \in Nat /\ n <= Len(commands)
    BY <2>1, BusyType, HandledWhere, CommandType
  <2>3. commands[n].op = "check" /\ k \in Keys
    BY <1>8, <2>2, CommandType DEF LocalGet, Handles
  <2>4. running'[w].seen = stored[k]
    BY <1>8 DEF LocalGet, TypeOK
  <2>5. Prints(n, stored[k])
    <3>1. \A m \in StoresOf(k) : m < n => m \notin flight
      BY <1>2, <2>2 DEF FlowInv
    <3> QED
      BY <2>3, <3>1 DEF Prints, CheckInv, StoreInv
  <2>6. SeenInv'
    BY <1>1, <1>3, <2>1, <2>4, <2>5 DEF CheckInv, SeenInv, Busy
  <2> QED
    BY <1>1, <1>3, <2>1, <2>6 DEF CheckInv, CacheInv, StoreInv, AnswersInv
<1>9. ASSUME NEW w \in Workers, Log(w) PROVE CheckInv'
  <2>1. /\ UNCHANGED <<program, commands, flight, cached, stored, answers>>
        /\ Finished' = Finished /\ Busy(w) /\ running'[w].on = running[w].on
        /\ \A v \in Workers : v # w => running'[v] = running[v]
    BY <1>9, StayFlow
  <2>2. commands[running[w].on].op = "request"
    BY <1>9 DEF Log, Handles
  <2>3. SeenInv'
    BY <1>1, <1>3, <2>1, <2>2 DEF CheckInv, SeenInv, Busy
  <2> QED
    BY <1>1, <1>3, <2>1, <2>3 DEF CheckInv, CacheInv, StoreInv, AnswersInv
<1>10. ASSUME NEW w \in Workers, Ends(w) PROVE CheckInv'
  <2> DEFINE n == running[w].on
  <2>1. /\ UNCHANGED <<program, commands, flight, stored>>
        /\ n \in Handled /\ Finished' = Finished \cup {n} /\ Busy(w) /\ running'[w] = Idle
        /\ \A v \in Workers : v # w => running'[v] = running[v]
    BY <1>10, EndFlow
  <2>2. n \in Issued
    BY <2>1, BusyType
  <2>3. CacheInv'
    <3>1. CASE CachePut(w)
      BY <2>1, <3>1 DEF CachePut, CheckInv, CacheInv
    <3>2. CASE ~CachePut(w)
      <4>1. cached' = cached /\ commands[n].op # "cache"
        BY <1>10, <3>2 DEF Ends, IsCached, PrintObject, EndRequest, Handles, server
      <4> QED
        BY <2>1, <4>1 DEF CheckInv, CacheInv
    <3> QED
      BY <3>1, <3>2
  <2>4. StoreInv'
    BY <1>3, <2>1 DEF CheckInv, StoreInv
  <2>5. SeenInv'
    BY <1>1, <1>3, <2>1 DEF CheckInv, SeenInv, Busy, Idle
  <2>6. AnswersInv'
    <3> SUFFICES ASSUME program = "shortcut_test"
                 PROVE  \A m \in DOMAIN answers' : Prints(m, answers'[m])
      BY <1>1, <1>3, <2>1 DEF AnswersInv
    <3>1. CASE PrintObject(w)
      <4>1. Prints(n, running[w].seen) /\ Answer(w, running[w].seen)
        BY <3>1 DEF PrintObject, Handles, CheckInv, SeenInv
      <4> QED
        BY <4>1 DEF Answer, CheckInv, AnswersInv
    <3>2. CASE ~PrintObject(w)
      <4>1. answers' = answers
        BY <1>10, <3>2 DEF Ends, CachePut, IsCached, EndRequest
      <4> QED
        BY <4>1 DEF CheckInv, AnswersInv
    <3> QED
      BY <3>1, <3>2
  <2> QED
    BY <2>3, <2>4, <2>5, <2>6 DEF CheckInv
<1> QED
  BY Steps, <1>4, <1>5, <1>6, <1>7, <1>8, <1>9, <1>10

(* Before any command is put, nothing is cached, stored or answered.       *)
LEMMA InitCheck == Init => CheckInv
<1> SUFFICES ASSUME Init PROVE CheckInv
  OBVIOUS
<1>1. Issued = {} /\ Finished = {}
  BY InitFlow
<1>2. \A k : StoresOf(k) = {}
  BY <1>1 DEF StoresOf
<1>3. \A w \in Workers : ~Busy(w)
  BY DEF Init, Busy, Idle
<1>4. DOMAIN answers = {}
  BY DEF Init
<1> QED
  BY <1>1, <1>2, <1>3, <1>4 DEF Init, CheckInv, CacheInv, StoreInv, SeenInv, AnswersInv

(* The invariants that hold together.                                      *)
IInv == TypeOK /\ OpsInv /\ FlowInv

(* Types, and every command in one place, whatever the workers do.         *)
LEMMA IInvHolds == Spec => []IInv
<1>1. Init => IInv
  BY InitFlow, Counts DEF Init, IInv, TypeOK, OpsInv, Issued, Idle
<1>2. IInv /\ [Next]_vars => IInv'
  BY TypeStep, FlowStep DEF IInv
<1> QED
  BY <1>1, <1>2, PTL DEF Spec

(* What was cached and stored, and what was answered, whatever the workers *)
(* do.                                                                     *)
LEMMA CheckInvHolds == Spec => []CheckInv
<1>1. IInv /\ IInv' /\ CheckInv /\ [Next]_vars => CheckInv'
  BY CheckStep DEF IInv
<1> QED
  BY IInvHolds, InitCheck, <1>1, PTL DEF Spec

(* The get of the handler of shortcut_test finds what the last store       *)
(* before the check left, or a later store: the client waited for it.      *)
THEOREM LocalGetIsCorrect == Spec => []LocalGetCorrect
<1>1. CheckInv => LocalGetCorrect
  BY DEF CheckInv, AnswersInv, Prints, LocalGetCorrect
<1> QED
  BY CheckInvHolds, <1>1, PTL

(* A check of cache_test misses an object only while the handler that is   *)
(* to cache it has not finished.                                           *)
THEOREM CacheIsNotForgotten == Spec => MissesOnlyWhileCaching
<1> DEFINE Misses == program = "cache_test" =>
       \A n \in DOMAIN answers' \ DOMAIN answers, m \in Issued :
         /\ m < n
         /\ commands[m] = [op |-> "cache", key |-> commands[n].key]
         /\ answers'[n] = 0
         => m \in Queued \cup Handled
<1>1. IInv /\ CheckInv /\ [Next]_vars => [Misses]_vars
  <2> SUFFICES ASSUME IInv, CheckInv, [Next]_vars, program = "cache_test",
                      NEW n \in DOMAIN answers' \ DOMAIN answers, NEW m \in Issued,
                      m < n, commands[m] = [op |-> "cache", key |-> commands[n].key], answers'[n] = 0
               PROVE  m \in Queued \cup Handled
    OBVIOUS
  <2>1. TypeOK /\ FlowInv
    BY DEF IInv
  <2>2. PICK w \in Workers : IsCached(w)
    BY Steps DEF vars, server, Put, Apply, Take, LocalGet, Log, Ends, CachePut, PrintObject, EndRequest
  <2>3. n = running[w].on /\ answers'[n] = IF commands[n].key \in cached THEN 1 ELSE 0
    BY <2>2 DEF IsCached, Answer
  <2>4. n \in Issued
    BY <2>1, <2>2, <2>3, BusyType DEF IsCached, Handles
  <2>5. commands[n].key \notin cached
    BY <2>3
  <2>6. m \notin Finished
    BY <2>5 DEF CheckInv, CacheInv
  <2>7. m # Len(commands)
    BY <2>1, <2>4, Counts
  <2>8. m \notin flight
    BY <2>1, <2>7 DEF FlowInv
  <2> QED
    BY <2>6, <2>8 DEF Finished
<1>2. MissesOnlyWhileCaching <=> [][Misses]_vars
  BY DEF MissesOnlyWhileCaching
<1> HIDE DEF Misses
<1> QED
  BY IInvHolds, CheckInvHolds, <1>1, <1>2, PTL DEF Spec

(***************************************************************************)
(* The log                                                                 *)
(***************************************************************************)
(* The first k entries of n are in the log, in their order, where f says,  *)
(* and no other entry of n is.                                             *)
PlacedAt(n, k, f) ==
  /\ f \in [1..k -> 1..Len(log)]
  /\ \A i, j \in 1..k : i < j => f[i] < f[j]
  /\ \A i \in 1..k : log[f[i]] = Entries(n)[i]
  /\ \A p \in 1..Len(log) : log[p].by = n => \E i \in 1..k : f[i] = p

Placed(n, k) == k \in 0..Len(Entries(n)) /\ \E f : PlacedAt(n, k, f)

EntriesInv ==
  program \in Logging =>
    /\ \A n \in flight \cup Queued : Placed(n, 0)
    /\ \A w \in Workers : Busy(w) => Placed(running[w].on, running[w].done)
    /\ \A n \in Finished : Placed(n, Len(Entries(n)))

(* The first k entries of n are in the log one after the other, after b    *)
(* others, those of requests whose handlers had finished.                  *)
Solo(n, k, b) ==
  /\ b \in Nat /\ k \in 0..Len(Entries(n)) /\ b + k <= Len(log)
  /\ \A i \in 1..k : log[b + i] = Entries(n)[i]
  /\ \A p \in 1..Len(log) : log[p].by = n => b < p /\ p <= b + k
  /\ \A p \in 1..b : log[p].by \in Finished
  /\ \A p \in 1..b, q \in 1..Len(log) : log[p].by = log[q].by => q <= b
  /\ b > 0 => log[b] = Entries(log[b].by)[Len(Entries(log[b].by))]

AloneInv ==
  program \in Logging =>
    /\ \A w \in Workers : Busy(w) /\ running[w].on \notin overlapped =>
         /\ Handled = {running[w].on}
         /\ \E b \in Nat : Solo(running[w].on, running[w].done, b) /\ Len(log) = b + running[w].done
    /\ \A n \in Finished \ overlapped : \E b \in Nat : Solo(n, Len(Entries(n)), b)

(* What a program that logs has in its log, and what its handlers handle.  *)
LEMMA LogFacts ==
  ASSUME TypeOK, OpsInv, program \in Logging
  PROVE  /\ Len(log) \in Nat
         /\ \A p \in 1..Len(log) : log[p].by \in Issued
         /\ \A n \in Issued : /\ Len(Entries(n)) \in Nat
                              /\ \A i \in 1..Len(Entries(n)) : Entries(n)[i].by = n
         /\ \A n \in Issued : commands[n].op = "request"
<1> DEFINE R == [tag : Range(Tags) \cup Range(Lines),
                 id  : 0..(IF program = "udl_microbenchmark" THEN Total - 1 ELSE Len(commands) - 1),
                 by  : Issued]
<1>1. log \in Seq(R) /\ Len(log) \in Nat
  BY DEF TypeOK
<1>2. \A p \in 1..Len(log) : log[p].by \in Issued
  <2>1. \A p \in 1..Len(log) : log[p] \in R
    <3> HIDE DEF R
    <3> QED
      BY <1>1, ElementOfSeq
  <2> QED
    BY <2>1
<1>3. ASSUME NEW n \in Issued
      PROVE  Len(Entries(n)) \in Nat /\ \A i \in 1..Len(Entries(n)) : Entries(n)[i].by = n
  <2> DEFINE S == [tag : Range(Tags) \cup Range(Lines),
                   id  : 0..(IF program = "udl_microbenchmark" THEN Total - 1 ELSE Len(commands) - 1),
                   by  : {n}]
  <2>1. Entries(n) \in Seq(S)
    BY EntriesType
  <2>2. Len(Entries(n)) \in Nat /\ \A i \in 1..Len(Entries(n)) : Entries(n)[i] \in S
    <3> HIDE DEF S
    <3> QED
      BY <2>1, ElementOfSeq, LenProperties
  <2> QED
    BY <2>2
<1>4. \A n \in Issued : commands[n].op = "request"
  BY CommandType DEF OpsInv, Suits, Logging
<1> QED
  BY <1>1, <1>2, <1>3, <1>4

(* A request has finitely many entries.                                    *)
EntryLengths == program \in Logging => \A n \in Issued : Len(Entries(n)) \in Nat

(* The same, after a step.                                                 *)
LEMMA EntryLengthsNext == TypeOK' /\ OpsInv' => EntryLengths'
<1>1. TypeOK /\ OpsInv => EntryLengths
  BY LogFacts DEF EntryLengths
<1> QED
  BY <1>1, PTL

(* Entries do not depend on the state of the handlers.                     *)
LEMMA EntriesStay ==
  ASSUME program' = program
  PROVE  \A n : Entries(n)' = Entries(n)
BY DEF Entries, RunEntries, RunEntry, Tagged

(* While nothing is logged, entries stay where they are.                   *)
LEMMA PlacedStays ==
  ASSUME log' = log, program' = program, NEW n, NEW k, Placed(n, k)
  PROVE  Placed(n, k)'
<1>1. Entries(n)' = Entries(n)
  BY EntriesStay
<1>2. \A f : PlacedAt(n, k, f) => PlacedAt(n, k, f)'
  BY <1>1 DEF PlacedAt
<1> QED
  BY <1>1, <1>2 DEF Placed

(* A request that has no entry.                                            *)
LEMMA NothingPlaced ==
  ASSUME Len(log) \in Nat, NEW n, Len(Entries(n)) \in Nat, \A p \in 1..Len(log) : log[p].by # n
  PROVE  Placed(n, 0)
<1>1. [i \in 1..0 |-> 1] \in [1..0 -> 1..Len(log)]
  OBVIOUS
<1> QED
  <2>1. PlacedAt(n, 0, [i \in 1..0 |-> 1])
    BY <1>1 DEF PlacedAt
  <2> QED
    BY <2>1 DEF Placed

(* A request that has logged nothing has no entry.                         *)
LEMMA NoneOf ==
  ASSUME NEW n, Placed(n, 0)
  PROVE  \A p \in 1..Len(log) : log[p].by # n
BY DEF Placed, PlacedAt

(* What one step of a handler does to the log.                             *)
LEMMA LogStep ==
  ASSUME TypeOK, OpsInv, program \in Logging, NEW w \in Workers, Log(w)
  PROVE  /\ running[w].on \in Issued /\ Busy(w) /\ program' = program
         /\ running[w].done \in Nat /\ running[w].done + 1 \in 0..Len(Entries(running[w].on))
         /\ running'[w].done = running[w].done + 1
         /\ Len(log') = Len(log) + 1
         /\ \A p \in 1..Len(log) : log'[p] = log[p]
         /\ log'[Len(log) + 1] = Entries(running[w].on)[running[w].done + 1]
         /\ log'[Len(log) + 1].by = running[w].on
<1> DEFINE n == running[w].on
           i == running[w].done + 1
<1>1. /\ program' = program
      /\ Busy(w) /\ running[w].done < Len(Entries(n))
      /\ log' = Append(log, Entries(n)[i])
      /\ running' = [running EXCEPT ![w].done = i]
  BY DEF Log, Handles
<1>2. n \in Issued /\ running[w].done \in Nat
  BY <1>1, BusyType
<1>3. Len(log) \in Nat /\ Len(Entries(n)) \in Nat /\ \A j \in 1..Len(Entries(n)) : Entries(n)[j].by = n
  BY <1>2, LogFacts
<1>4. i \in 1..Len(Entries(n)) /\ i \in 0..Len(Entries(n))
  BY <1>1, <1>2, <1>3
<1>5. log \in Seq([tag : Range(Tags) \cup Range(Lines),
                   id  : 0..(IF program = "udl_microbenchmark" THEN Total - 1 ELSE Len(commands) - 1),
                   by  : Issued])
  BY DEF TypeOK
<1>6. /\ Len(log') = Len(log) + 1
      /\ \A p \in 1..Len(log) : log'[p] = log[p]
      /\ log'[Len(log) + 1] = Entries(n)[i]
  BY <1>1, <1>5
<1>7. running'[w].done = i
  BY <1>1 DEF TypeOK
<1> QED
  BY <1>1, <1>2, <1>3, <1>4, <1>6, <1>7

(* An entry of another request moves none of those of n.                   *)
LEMMA PlacedOthers ==
  ASSUME TypeOK, OpsInv, program \in Logging, NEW w \in Workers, Log(w),
         NEW n, n # running[w].on, NEW k, Placed(n, k)
  PROVE  Placed(n, k)'
<1>1. /\ Len(log') = Len(log) + 1 /\ program' = program
      /\ \A p \in 1..Len(log) : log'[p] = log[p]
      /\ log'[Len(log) + 1].by = running[w].on
  BY LogStep
<1>2. Len(log) \in Nat /\ Entries(n)' = Entries(n)
  BY <1>1, LogFacts, EntriesStay
<1>3. PICK f :
       /\ f \in [1..k -> 1..Len(log)]
       /\ \A i, j \in 1..k : i < j => f[i] < f[j]
       /\ \A i \in 1..k : log[f[i]] = Entries(n)[i]
       /\ \A p \in 1..Len(log) : log[p].by = n => \E i \in 1..k : f[i] = p
  BY DEF Placed, PlacedAt
<1>4. f \in [1..k -> 1..Len(log')]
  BY <1>1, <1>2, <1>3
<1>5. \A i \in 1..k : log'[f[i]] = Entries(n)[i]
  BY <1>1, <1>3
<1>6. \A p \in 1..Len(log') : log'[p].by = n => \E i \in 1..k : f[i] = p
  <2> SUFFICES ASSUME NEW p \in 1..Len(log'), log'[p].by = n PROVE \E i \in 1..k : f[i] = p
    OBVIOUS
  <2>1. p # Len(log) + 1
    BY <1>1
  <2>2. p \in 1..Len(log)
    BY <1>1, <1>2, <2>1
  <2> QED
    BY <1>1, <1>3, <2>2
<1>7. k \in 0..Len(Entries(n))
  BY DEF Placed
<1>8. PlacedAt(n, k, f)'
  BY <1>2, <1>3, <1>4, <1>5, <1>6 DEF PlacedAt
<1> QED
  BY <1>2, <1>7, <1>8 DEF Placed

(* The next entry of a request comes after those it has.                   *)
LEMMA PlacedGrows ==
  ASSUME TypeOK, OpsInv, program \in Logging, NEW w \in Workers, Log(w),
         NEW n, n = running[w].on, NEW k, k = running[w].done, Placed(n, k)
  PROVE  Placed(n, k + 1)'
<1>1. /\ Len(log') = Len(log) + 1 /\ program' = program
      /\ k \in Nat /\ k + 1 \in 0..Len(Entries(n))
      /\ \A p \in 1..Len(log) : log'[p] = log[p]
      /\ log'[Len(log) + 1] = Entries(n)[k + 1]
  BY LogStep
<1>2. Len(log) \in Nat /\ Entries(n)' = Entries(n)
  BY <1>1, LogFacts, EntriesStay
<1>3. PICK f :
       /\ f \in [1..k -> 1..Len(log)]
       /\ \A i, j \in 1..k : i < j => f[i] < f[j]
       /\ \A i \in 1..k : log[f[i]] = Entries(n)[i]
       /\ \A p \in 1..Len(log) : log[p].by = n => \E i \in 1..k : f[i] = p
  BY DEF Placed, PlacedAt
<1>4. \A i \in 1..(k + 1) : i <= k => i \in 1..k /\ f[i] \in 1..Len(log)
  BY <1>1, <1>3
<1> PICK g : g = [i \in 1..(k + 1) |-> IF i <= k THEN f[i] ELSE Len(log) + 1]
  OBVIOUS
<1>5. g \in [1..(k + 1) -> 1..Len(log')]
  BY <1>1, <1>2, <1>4
<1>6. \A i, j \in 1..(k + 1) : i < j => g[i] < g[j]
  <2> SUFFICES ASSUME NEW i \in 1..(k + 1), NEW j \in 1..(k + 1), i < j PROVE g[i] < g[j]
    OBVIOUS
  <2>1. i <= k /\ i \in 1..k /\ f[i] \in 1..Len(log) /\ g[i] = f[i]
    <3>1. i \in Int /\ j \in Int /\ k \in Nat /\ 1 <= i /\ j <= k + 1
      BY <1>1
    <3>2. i <= k
      BY <3>1
    <3> QED
      BY <1>4, <3>2
  <2>2. CASE j <= k
    BY <1>3, <1>4, <2>1, <2>2
  <2>3. CASE ~(j <= k)
    BY <1>2, <2>1, <2>3
  <2> QED
    BY <2>2, <2>3
<1>7. \A i \in 1..(k + 1) : log'[g[i]] = Entries(n)[i]
  <2> SUFFICES ASSUME NEW i \in 1..(k + 1) PROVE log'[g[i]] = Entries(n)[i]
    OBVIOUS
  <2>1. CASE i <= k
    BY <1>1, <1>3, <1>4, <2>1
  <2>2. CASE ~(i <= k)
    <3>1. i = k + 1
      BY <1>1, <2>2
    <3> QED
      BY <1>1, <2>2, <3>1
  <2> QED
    BY <2>1, <2>2
<1>8. \A p \in 1..Len(log') : log'[p].by = n => \E i \in 1..(k + 1) : g[i] = p
  <2> SUFFICES ASSUME NEW p \in 1..Len(log'), log'[p].by = n PROVE \E i \in 1..(k + 1) : g[i] = p
    OBVIOUS
  <2>1. CASE p = Len(log) + 1
    <3>1. k + 1 \in 1..(k + 1) /\ ~(k + 1 <= k)
      BY <1>1
    <3> QED
      BY <2>1, <3>1
  <2>2. CASE p # Len(log) + 1
    <3>1. p \in 1..Len(log)
      BY <1>1, <1>2, <2>2
    <3>2. PICK i \in 1..k : f[i] = p
      BY <1>1, <1>3, <3>1
    <3>3. i \in 1..(k + 1) /\ g[i] = p
      BY <1>1, <3>2
    <3> QED
      BY <3>3
  <2> QED
    BY <2>1, <2>2
<1>9. PlacedAt(n, k + 1, g)'
  BY <1>2, <1>5, <1>6, <1>7, <1>8, ZenonT(60) DEF PlacedAt
<1> QED
  BY <1>1, <1>2, <1>9 DEF Placed

(* Where the entries of every request are, step by step.                   *)
LEMMA EntriesStep ==
  ASSUME TypeOK, TypeOK', OpsInv, OpsInv', FlowInv, EntriesInv, [Next]_vars
  PROVE  EntriesInv'
<1>1. program' = program /\ Workers' = Workers
  BY ProgramStays
<1> SUFFICES ASSUME program \in Logging PROVE EntriesInv'
  BY <1>1 DEF EntriesInv
<1>2. \A n : Entries(n)' = Entries(n)
  BY <1>1, EntriesStay
<1>3. /\ Len(log) \in Nat /\ \A p \in 1..Len(log) : log[p].by \in Issued
      /\ \A n \in Issued : Len(Entries(n)) \in Nat /\ commands[n].op = "request"
  BY LogFacts
<1>4. ASSUME log' = log PROVE \A n, k : Placed(n, k) => Placed(n, k)'
  BY <1>1, <1>4, PlacedStays
<1>5. /\ \A n \in flight \cup Queued : Placed(n, 0)
      /\ \A w \in Workers : Busy(w) => Placed(running[w].on, running[w].done)
      /\ \A n \in Finished : Placed(n, Len(Entries(n)))
  BY DEF EntriesInv
<1>6. CASE UNCHANGED vars
  <2>1. Finished' = Finished /\ Queued' = Queued /\ flight' = flight /\ running' = running /\ log' = log
    BY <1>6 DEF vars, server, Finished, Issued, Queued, Handled, Workers
  <2> QED
    BY <1>1, <1>2, <1>4, <1>5, <2>1 DEF EntriesInv, Busy
<1>7. ASSUME NEW c \in Commands, Put(c) PROVE EntriesInv'
  <2>1. /\ flight' = {Len(commands')} /\ Queued' = Queued /\ Finished' = Finished
        /\ Len(commands') \notin Issued /\ Issued' = Issued \cup {Len(commands')}
    BY <1>7, PutFlow
  <2>2. running' = running /\ log' = log
    BY <1>7 DEF Put, server
  <2>3. Placed(Len(commands), 0)'
    <3>1. PICK n : n = Len(commands') /\ n = Len(commands)'
      OBVIOUS
    <3>2. Len(Entries(n)) \in Nat
      <4>1. \A m \in Issued' : Len(Entries(m))' \in Nat
        BY <1>1, EntryLengthsNext DEF EntryLengths
      <4> QED
        BY <1>2, <2>1, <3>1, <4>1
    <3>3. Placed(n, 0)
      BY <1>3, <2>1, <3>1, <3>2, NothingPlaced
    <3> QED
      BY <1>4, <2>2, <3>1, <3>3
  <2> QED
    BY <1>1, <1>2, <1>4, <1>5, <2>1, <2>2, <2>3 DEF EntriesInv, Busy
<1>8. ASSUME NEW n \in flight, Apply(n) PROVE EntriesInv'
  <2>1. /\ running' = running /\ log' = log /\ n \in Issued /\ flight' = {}
        /\ Triggers(commands[n]) => Queued' = Queued \cup {n} /\ Finished' = Finished
    BY <1>8, ApplyFlow
  <2>2. Triggers(commands[n])
    BY <1>3, <2>1 DEF Triggers
  <2> QED
    BY <1>1, <1>2, <1>4, <1>5, <2>1, <2>2 DEF EntriesInv, Busy
<1>9. ASSUME NEW w \in Workers, Take(w) PROVE EntriesInv'
  <2>1. PICK n \in Queued :
           /\ flight' = flight /\ log' = log /\ Queued' = Queued \ {n} /\ Finished' = Finished
           /\ running'[w].on = n /\ running'[w].done = 0
           /\ \A v \in Workers : v # w => running'[v] = running[v]
    BY <1>9, TakeFlow
  <2>2. \A v \in Workers : Busy(v)' => Placed(running'[v].on, running'[v].done)
    BY <1>5, <2>1 DEF Busy
  <2> QED
    BY <1>1, <1>2, <1>4, <1>5, <2>1, <2>2 DEF EntriesInv, Busy
<1>10. ASSUME NEW w \in Workers, LocalGet(w) PROVE FALSE
  BY <1>10 DEF LocalGet, Logging
<1>11. ASSUME NEW w \in Workers, Log(w) PROVE EntriesInv'
  <2> DEFINE n == running[w].on
  <2>1. /\ flight' = flight /\ Queued' = Queued /\ Finished' = Finished
        /\ Busy(w) /\ running'[w].on = n
        /\ \A v \in Workers : v # w => running'[v] = running[v]
    BY <1>11, StayFlow
  <2>2. running'[w].done = running[w].done + 1
    BY <1>11, LogStep
  <2>3. n \in Handled
    BY <2>1, HandledWhere
  <2>4. \A m, k : m # n /\ Placed(m, k) => Placed(m, k)'
    BY <1>11, PlacedOthers
  <2>5. PICK d : d = running[w].done
    OBVIOUS
  <2>6. PICK o : o = n
    OBVIOUS
  <2>7. Placed(o, d + 1)'
    BY <1>5, <1>11, <2>1, <2>5, <2>6, PlacedGrows
  <2>8. \A m \in flight \cup Queued \cup Finished : m # n
    BY <2>3 DEF FlowInv, Finished
  <2>9. \A v \in Workers : v # w /\ Busy(v) => running[v].on # n
    BY <2>1 DEF FlowInv
  <2>10. \A v \in Workers : Busy(v)' => Placed(running[v].on, running[v].done)'
    <3> SUFFICES ASSUME NEW v \in Workers, Busy(v)'
                 PROVE  Placed(running[v].on, running[v].done)'
      OBVIOUS
    <3>1. CASE v = w
      BY <2>1, <2>2, <2>5, <2>6, <2>7, <3>1
    <3>2. CASE v # w
      <4>1. running'[v] = running[v] /\ Busy(v)
        BY <2>1, <3>2 DEF Busy
      <4> QED
        BY <1>5, <2>4, <2>9, <3>2, <4>1
    <3> QED
      BY <3>1, <3>2
  <2>11. \A m \in flight \cup Queued : Placed(m, 0)'
    BY <1>5, <2>4, <2>8
  <2>12. \A m \in Finished : Placed(m, Len(Entries(m)))'
    BY <1>2, <1>5, <2>4, <2>8
  <2> QED
    BY <1>1, <2>1, <2>10, <2>11, <2>12 DEF EntriesInv
<1>12. ASSUME NEW w \in Workers, Ends(w) PROVE EntriesInv'
  <2> DEFINE n == running[w].on
  <2>1. /\ flight' = flight /\ log' = log /\ Queued' = Queued
        /\ n \in Handled /\ Finished' = Finished \cup {n} /\ Busy(w) /\ running'[w] = Idle
        /\ \A v \in Workers : v # w => running'[v] = running[v]
    BY <1>12, EndFlow
  <2>2. n \in Issued
    BY <2>1, BusyType
  <2>3. EndRequest(w)
    BY <1>3, <1>12, <2>2 DEF Ends, CachePut, IsCached, PrintObject, Handles
  <2>4. running[w].done = Len(Entries(n))
    BY <2>3 DEF EndRequest
  <2>5. Placed(n, Len(Entries(n)))
    BY <1>5, <2>1, <2>4
  <2>6. \A v \in Workers : Busy(v)' => running'[v] = running[v] /\ Busy(v)
    BY <2>1 DEF Busy, Idle
  <2>7. \A m \in Finished' : Placed(m, Len(Entries(m)))
    BY <1>5, <2>1, <2>5
  <2>8. \A m \in Finished' : Placed(m, Len(Entries(m)))'
    BY <1>2, <1>4, <2>1, <2>7
  <2>9. \A v \in Workers : Busy(v)' => Placed(running[v].on, running[v].done)'
    BY <1>4, <1>5, <2>1, <2>6
  <2>10. \A m \in flight \cup Queued : Placed(m, 0)'
    BY <1>4, <1>5, <2>1
  <2> QED
    BY <1>1, <2>1, <2>8, <2>9, <2>10 DEF EntriesInv
<1> QED
  BY Steps, <1>6, <1>7, <1>8, <1>9, <1>10, <1>11, <1>12

(* Entries that are there stay where they are.                             *)
LEMMA SoloStays ==
  ASSUME log' = log, program' = program, Finished \subseteq Finished',
         NEW n, NEW k, NEW b, Solo(n, k, b)
  PROVE  Solo(n, k, b)'
<1>1. \A m : Entries(m)' = Entries(m)
  BY EntriesStay
<1> QED
  BY <1>1 DEF Solo

(* What another handler logs comes after the entries of a request that was *)
(* handled alone.                                                          *)
LEMMA SoloOthers ==
  ASSUME TypeOK, OpsInv, FlowInv, program \in Logging, NEW w \in Workers, Log(w),
         NEW n, n # running[w].on, NEW k, NEW b, Solo(n, k, b)
  PROVE  Solo(n, k, b)'
<1>1. /\ Len(log') = Len(log) + 1 /\ program' = program /\ Busy(w)
      /\ \A p \in 1..Len(log) : log'[p] = log[p]
      /\ log'[Len(log) + 1].by = running[w].on
  BY LogStep
<1>2. Len(log) \in Nat /\ \A m : Entries(m)' = Entries(m)
  BY <1>1, LogFacts, EntriesStay
<1>3. Finished' = Finished /\ running[w].on \notin Finished
  BY <1>1, StayFlow, HandledWhere DEF Finished
<1>4. b \in Nat /\ k \in 0..Len(Entries(n)) /\ k \in Nat /\ b + k <= Len(log)
  BY DEF Solo
<1>5. \A p \in 1..Len(log') : p \in 1..Len(log) \/ p = Len(log) + 1
  BY <1>1, <1>2
<1>6. \A i \in 1..k : b + i \in 1..Len(log)
  BY <1>2, <1>4
<1>7. \A p \in 1..b : p \in 1..Len(log) /\ log'[p] = log[p] /\ log[p].by \in Finished
  BY <1>1, <1>2, <1>4 DEF Solo
<1>8. \A i \in 1..k : log'[b + i] = Entries(n)[i]
  BY <1>1, <1>6 DEF Solo
<1>9. \A p \in 1..Len(log') : log'[p].by = n => b < p /\ p <= b + k
  BY <1>1, <1>5 DEF Solo
<1>10. \A p \in 1..b, q \in 1..Len(log') : log'[p].by = log'[q].by => q <= b
  <2> SUFFICES ASSUME NEW p \in 1..b, NEW q \in 1..Len(log'), log'[p].by = log'[q].by
               PROVE  q <= b
    OBVIOUS
  <2>1. q \in 1..Len(log)
    BY <1>1, <1>3, <1>5, <1>7
  <2> QED
    BY <1>1, <1>7, <2>1 DEF Solo
<1>11. b > 0 => log'[b] = Entries(log'[b].by)[Len(Entries(log'[b].by))]
  <2>1. b > 0 => b \in 1..b
    BY <1>4
  <2> QED
    BY <1>7, <2>1 DEF Solo
<1>12. b + k <= Len(log')
  BY <1>1, <1>2, <1>4
<1>13. \A p \in 1..b : log'[p].by \in Finished'
  BY <1>3, <1>7
<1> QED
  BY <1>2, <1>4, <1>8, <1>9, <1>10, <1>11, <1>12, <1>13 DEF Solo

(* A handler that runs alone goes on where it was.                         *)
LEMMA SoloGrows ==
  ASSUME TypeOK, OpsInv, FlowInv, program \in Logging, NEW w \in Workers, Log(w),
         NEW n, n = running[w].on, NEW k, k = running[w].done, NEW b, Solo(n, k, b), Len(log) = b + k
  PROVE  Solo(n, k + 1, b)' /\ Len(log') = b + (k + 1)
<1>1. /\ Len(log') = Len(log) + 1 /\ program' = program /\ Busy(w)
      /\ k \in Nat /\ k + 1 \in 0..Len(Entries(n))
      /\ \A p \in 1..Len(log) : log'[p] = log[p]
      /\ log'[Len(log) + 1] = Entries(n)[k + 1]
      /\ log'[Len(log) + 1].by = n
  BY LogStep
<1>2. Len(log) \in Nat /\ \A m : Entries(m)' = Entries(m)
  BY <1>1, LogFacts, EntriesStay
<1>3. Finished' = Finished /\ n \notin Finished
  BY <1>1, StayFlow, HandledWhere DEF Finished
<1>4. b \in Nat /\ b + k <= Len(log)
  BY DEF Solo
<1>5. \A p \in 1..Len(log') : p \in 1..Len(log) \/ p = Len(log) + 1
  BY <1>1, <1>2
<1>6. \A p \in 1..b : p \in 1..Len(log)
  BY <1>1, <1>2, <1>4
<1>7. \A p \in 1..b : p \in 1..Len(log) /\ log'[p] = log[p] /\ log[p].by \in Finished
  BY <1>1, <1>6 DEF Solo
<1>8. \A i \in 1..(k + 1) : log'[b + i] = Entries(n)[i]
  <2> SUFFICES ASSUME NEW i \in 1..(k + 1) PROVE log'[b + i] = Entries(n)[i]
    OBVIOUS
  <2>1. CASE i = k + 1
    <3>1. b + i = Len(log) + 1
      BY <1>1, <1>4, <2>1
    <3> QED
      BY <1>1, <2>1, <3>1
  <2>2. CASE i # k + 1
    <3>1. k \in Nat /\ b \in Nat /\ Len(log) = b + k
      BY <1>1, <1>4
    <3>2. i \in 1..k
      BY <2>2, <3>1
    <3>3. b + i \in 1..Len(log)
      BY <3>1, <3>2
    <3>4. log[b + i] = Entries(n)[i]
      BY <3>2 DEF Solo
    <3> QED
      BY <1>1, <3>3, <3>4
  <2> QED
    BY <2>1, <2>2
<1>9. \A p \in 1..Len(log') : log'[p].by = n => b < p /\ p <= b + (k + 1)
  <2> SUFFICES ASSUME NEW p \in 1..Len(log'), log'[p].by = n PROVE b < p /\ p <= b + (k + 1)
    OBVIOUS
  <2>1. CASE p = Len(log) + 1
    BY <1>1, <1>2, <1>4, <2>1, SMTT(20)
  <2>2. CASE p \in 1..Len(log)
    <3>1. b < p /\ p <= b + k
      BY <1>1, <2>2 DEF Solo
    <3> QED
      BY <1>1, <1>4, <2>2, <3>1, SMTT(20)
  <2> QED
    BY <1>5, <2>1, <2>2
<1>10. \A p \in 1..b, q \in 1..Len(log') : log'[p].by = log'[q].by => q <= b
  <2> SUFFICES ASSUME NEW p \in 1..b, NEW q \in 1..Len(log'), log'[p].by = log'[q].by
               PROVE  q <= b
    OBVIOUS
  <2>1. q \in 1..Len(log)
    BY <1>1, <1>3, <1>5, <1>7
  <2> QED
    BY <1>1, <1>7, <2>1 DEF Solo
<1>11. b > 0 => log'[b] = Entries(log'[b].by)[Len(Entries(log'[b].by))]
  <2>1. b > 0 => b \in 1..b
    BY <1>4
  <2> QED
    BY <1>7, <2>1 DEF Solo
<1>12. Len(log') = b + (k + 1)
  BY <1>1, <1>4
<1>13. \A p \in 1..b : log'[p].by \in Finished'
  BY <1>3, <1>7
<1>14. PICK e : e = k + 1
  OBVIOUS
<1>15. /\ e \in 0..Len(Entries(n)) /\ Len(log') = b + e /\ b + e <= Len(log')
  <2>1. b + e \in Nat
    BY <1>1, <1>4, <1>14, SMTT(20)
  <2> QED
    BY <1>1, <1>12, <1>14, <2>1, SMTT(20)
<1>16. /\ \A i \in 1..e : log'[b + i] = Entries(n)[i]
       /\ \A p \in 1..Len(log') : log'[p].by = n => b < p /\ p <= b + e
  BY <1>8, <1>9, <1>14
<1>17. Solo(n, e, b)'
  BY <1>2, <1>4, <1>10, <1>11, <1>13, <1>15, <1>16 DEF Solo
<1> QED
  BY <1>12, <1>14, <1>17

(* When no handler runs, what is in the log is complete.                   *)
LEMMA SoloBegins ==
  ASSUME TypeOK, OpsInv, FlowInv, EntriesInv, program \in Logging, Handled = {}, NEW n \in Queued
  PROVE  Solo(n, 0, Len(log))
<1>1. /\ Len(log) \in Nat /\ \A p \in 1..Len(log) : log[p].by \in Issued
      /\ \A m \in Issued : Len(Entries(m)) \in Nat
  BY LogFacts
<1>2. \A m \in flight \cup Queued : \A p \in 1..Len(log) : log[p].by # m
  BY NoneOf DEF EntriesInv
<1>3. \A p \in 1..Len(log) : log[p].by \in Finished
  BY <1>1, <1>2 DEF Finished
<1>4. n \in Issued
  BY QueuedWhere
<1>5. ASSUME Len(log) > 0
      PROVE  log[Len(log)] = Entries(log[Len(log)].by)[Len(Entries(log[Len(log)].by))]
  <2> DEFINE b == Len(log)
             m == log[b].by
             k == Len(Entries(m))
  <2>1. b \in 1..Len(log) /\ m \in Finished /\ k \in Nat
    BY <1>1, <1>3, <1>5 DEF Finished
  <2>2. PICK f : PlacedAt(m, k, f)
    BY <2>1 DEF EntriesInv, Placed
  <2>3. PICK i \in 1..k : f[i] = b
    BY <2>1, <2>2 DEF PlacedAt
  <2> HIDE DEF k, b, m
  <2>4. k \in 1..k
    BY <2>1, <2>3
  <2>5. f[k] \in 1..b
    BY <2>2, <2>4 DEF PlacedAt, b
  <2>6. i < k => b < f[k]
    BY <2>2, <2>3, <2>4 DEF PlacedAt
  <2>7. b \in Nat
    BY <1>1 DEF b
  <2>8. i = k
    BY <2>1, <2>3, <2>5, <2>6, <2>7
  <2>9. log[b] = Entries(m)[k]
    BY <2>2, <2>3, <2>8 DEF PlacedAt
  <2> QED
    BY <2>9 DEF b, m, k
<1>6. \A p \in 1..Len(log) : log[p].by # n
  BY <1>2
<1>7. \A p \in 1..Len(log), q \in 1..Len(log) : log[p].by = log[q].by => q <= Len(log)
  BY <1>1
<1>8. 0 \in 0..Len(Entries(n)) /\ Len(log) + 0 <= Len(log)
  BY <1>1, <1>4
<1> QED
  BY <1>1, <1>3, <1>5, <1>6, <1>7, <1>8 DEF Solo

(* The requests that are handled alone, step by step.                      *)
LEMMA AloneStep ==
  ASSUME TypeOK, TypeOK', OpsInv, FlowInv, EntriesInv, AloneInv, [Next]_vars
  PROVE  AloneInv'
<1>1. program' = program /\ Workers' = Workers
  BY ProgramStays
<1> SUFFICES ASSUME program \in Logging PROVE AloneInv'
  BY <1>1 DEF AloneInv
<1>2. \A n : Entries(n)' = Entries(n)
  BY <1>1, EntriesStay
<1>3. /\ Len(log) \in Nat
      /\ \A n \in Issued : Len(Entries(n)) \in Nat /\ commands[n].op = "request"
  BY LogFacts
<1>4. ASSUME log' = log, Finished \subseteq Finished'
      PROVE  \A n, k, b : Solo(n, k, b) => Solo(n, k, b)'
  BY <1>1, <1>4, SoloStays
<1>5. /\ \A w \in Workers : Busy(w) /\ running[w].on \notin overlapped =>
           /\ Handled = {running[w].on}
           /\ \E b \in Nat : Solo(running[w].on, running[w].done, b) /\ Len(log) = b + running[w].done
      /\ \A n \in Finished \ overlapped : \E b \in Nat : Solo(n, Len(Entries(n)), b)
  BY DEF AloneInv
<1>6. ASSUME log' = log, running' = running, Finished' = Finished, Handled' = Handled, overlapped' = overlapped
      PROVE  AloneInv'
  <2>1. \A n, k, b : Solo(n, k, b) => Solo(n, k, b)'
    BY <1>4, <1>6
  <2>2. \A n \in Finished' \ overlapped' : \E b \in Nat : Solo(n, Len(Entries(n)), b)'
    BY <1>2, <1>5, <1>6, <2>1
  <2>3. \A w \in Workers : Busy(w)' /\ running'[w].on \notin overlapped' =>
           /\ Handled' = {running'[w].on}
           /\ \E b \in Nat : Solo(running[w].on, running[w].done, b)' /\ Len(log') = b + running'[w].done
    BY <1>5, <1>6, <2>1 DEF Busy
  <2> QED
    BY <1>1, <2>2, <2>3 DEF AloneInv
<1>7. CASE UNCHANGED vars
  <2>1. Finished' = Finished /\ Handled' = Handled
    BY <1>7 DEF vars, server, Finished, Issued, Queued, Handled, Workers
  <2> QED
    BY <1>6, <1>7, <2>1 DEF vars, server
<1>8. ASSUME NEW c \in Commands, Put(c) PROVE AloneInv'
  <2>1. Finished' = Finished /\ Handled' = Handled
    BY <1>8, PutFlow
  <2> QED
    BY <1>6, <1>8, <2>1 DEF Put, server
<1>9. ASSUME NEW n \in flight, Apply(n) PROVE AloneInv'
  <2>1. /\ UNCHANGED <<running, log, overlapped>> /\ Handled' = Handled /\ n \in Issued
        /\ Triggers(commands[n]) => Finished' = Finished
    BY <1>9, ApplyFlow
  <2>2. Triggers(commands[n])
    BY <1>3, <2>1 DEF Triggers
  <2> QED
    BY <1>6, <2>1, <2>2
<1>10. ASSUME NEW w \in Workers, Take(w) PROVE AloneInv'
  <2>1. PICK n \in Queued :
           /\ log' = log /\ Handled' = Handled \cup {n} /\ Finished' = Finished
           /\ ~Busy(w) /\ running'[w].on = n /\ running'[w].done = 0
           /\ \A v \in Workers : v # w => running'[v] = running[v]
           /\ overlapped' = IF Handled = {} THEN overlapped ELSE overlapped \cup Handled \cup {n}
    BY <1>10, TakeFlow
  <2>2. \A m \in Finished' \ overlapped' : \E b \in Nat : Solo(m, Len(Entries(m)), b)'
    BY <1>2, <1>4, <1>5, <2>1
  <2>3. CASE Handled = {}
    <3>1. \A v \in Workers : Busy(v)' => v = w
      <4>1. \A v \in Workers : ~Busy(v)
        BY <2>3, HandledWhere
      <4> QED
        BY <2>1, <4>1 DEF Busy
    <3>2. PICK b : b = Len(log)
      OBVIOUS
    <3>3. Solo(n, 0, b)
      BY <2>3, <3>2, SoloBegins
    <3>4. Solo(n, 0, b)' /\ b \in Nat /\ Len(log') = b + 0
      BY <1>3, <1>4, <2>1, <3>2, <3>3
    <3>5. Handled' = {n}
      BY <2>1, <2>3
    <3>6. \A v \in Workers : Busy(v)' =>
             /\ Handled' = {running'[v].on}
             /\ Solo(running[v].on, running[v].done, b)' /\ Len(log') = b + running'[v].done
      BY <2>1, <3>1, <3>4, <3>5
    <3> QED
      BY <1>1, <2>2, <3>4, <3>6 DEF AloneInv
  <2>4. CASE Handled # {}
    <3>1. \A v \in Workers : Busy(v)' => running'[v].on \in overlapped'
      <4> SUFFICES ASSUME NEW v \in Workers, Busy(v)' PROVE running'[v].on \in overlapped'
        OBVIOUS
      <4>1. CASE v = w
        BY <2>1, <2>4, <4>1
      <4>2. CASE v # w
        <5>1. Busy(v) /\ running'[v].on = running[v].on
          BY <2>1, <4>2 DEF Busy
        <5> QED
          BY <2>1, <2>4, <5>1, HandledWhere
      <4> QED
        BY <4>1, <4>2
    <3> QED
      BY <1>1, <2>2, <3>1 DEF AloneInv
  <2> QED
    BY <2>3, <2>4
<1>11. ASSUME NEW w \in Workers, LocalGet(w) PROVE FALSE
  BY <1>11 DEF LocalGet, Logging
<1>12. ASSUME NEW w \in Workers, Log(w) PROVE AloneInv'
  <2>1. PICK n, k : n = running[w].on /\ k = running[w].done
    OBVIOUS
  <2>2. /\ Handled' = Handled /\ Finished' = Finished /\ overlapped' = overlapped
        /\ Busy(w) /\ running'[w].on = n
        /\ \A v \in Workers : running'[v].on = running[v].on
    BY <1>12, <2>1, StayFlow
  <2>3. running'[w].done = k + 1
    BY <1>12, <2>1, LogStep
  <2>4. n \in Handled /\ n \notin Finished
    BY <2>1, <2>2, HandledWhere DEF Finished
  <2>5. \A m, i, b : m # n /\ Solo(m, i, b) => Solo(m, i, b)'
    BY <1>12, <2>1, SoloOthers
  <2>6. \A m \in Finished' \ overlapped' : \E b \in Nat : Solo(m, Len(Entries(m)), b)'
    BY <1>2, <1>5, <2>2, <2>4, <2>5
  <2>7. \A v \in Workers : Busy(v)' /\ running'[v].on \notin overlapped' => v = w
    <3> SUFFICES ASSUME NEW v \in Workers, Busy(v)', running'[v].on \notin overlapped' PROVE v = w
      OBVIOUS
    <3>1. Busy(v) /\ running[v].on \notin overlapped
      BY <2>2 DEF Busy
    <3>2. Handled = {running[v].on}
      BY <1>5, <3>1
    <3> QED
      BY <2>1, <2>4, <3>1, <3>2 DEF FlowInv
  <2>8. ASSUME n \notin overlapped
        PROVE  Handled = {n} /\ \E b \in Nat : Solo(n, k + 1, b)' /\ Len(log') = b + (k + 1)
    <3>1. PICK b \in Nat : Solo(n, k, b) /\ Len(log) = b + k
      BY <1>5, <2>1, <2>2, <2>8
    <3>2. Solo(n, k + 1, b)' /\ Len(log') = b + (k + 1)
      BY <1>12, <2>1, <3>1, SoloGrows
    <3>3. Handled = {n}
      BY <1>5, <2>1, <2>2, <2>8
    <3> QED
      BY <3>2, <3>3
  <2>9. \A v \in Workers : Busy(v)' /\ running'[v].on \notin overlapped' =>
           /\ Handled' = {running'[v].on}
           /\ \E b \in Nat : Solo(running[v].on, running[v].done, b)' /\ Len(log') = b + running'[v].done
    BY <2>2, <2>3, <2>7, <2>8
  <2> QED
    BY <1>1, <2>6, <2>9 DEF AloneInv
<1>13. ASSUME NEW w \in Workers, Ends(w) PROVE AloneInv'
  <2>1. PICK n : n = running[w].on
    OBVIOUS
  <2>2. /\ log' = log /\ overlapped' = overlapped
        /\ n \in Handled /\ Finished' = Finished \cup {n} /\ Busy(w) /\ running'[w] = Idle
        /\ \A v \in Workers : v # w => running'[v] = running[v]
    BY <1>13, <2>1, EndFlow
  <2>3. n \in Issued
    BY <2>1, <2>2, BusyType
  <2>4. EndRequest(w)
    BY <1>3, <1>13, <2>1, <2>3 DEF Ends, CachePut, IsCached, PrintObject, Handles
  <2>5. running[w].done = Len(Entries(n))
    BY <2>1, <2>4 DEF EndRequest
  <2>6. n \notin overlapped => \E b \in Nat : Solo(n, Len(Entries(n)), b)
    BY <1>5, <2>1, <2>2, <2>5
  <2>7. \A m \in Finished' \ overlapped' : \E b \in Nat : Solo(m, Len(Entries(m)), b)'
    BY <1>2, <1>4, <1>5, <2>2, <2>6
  <2>8. \A v \in Workers : Busy(v)' => running'[v].on \in overlapped'
    <3> SUFFICES ASSUME NEW v \in Workers, Busy(v)', running'[v].on \notin overlapped' PROVE FALSE
      OBVIOUS
    <3>1. v # w
      BY <2>2 DEF Busy, Idle
    <3>2. Busy(v) /\ running[v].on \notin overlapped
      BY <2>2, <3>1 DEF Busy
    <3>3. Handled = {running[v].on}
      BY <1>5, <3>2
    <3> QED
      BY <2>1, <2>2, <3>1, <3>2, <3>3 DEF FlowInv
  <2> QED
    BY <1>1, <2>7, <2>8 DEF AloneInv
<1> QED
  BY Steps, <1>7, <1>8, <1>9, <1>10, <1>11, <1>12, <1>13

(* What is known of the entries holds, whatever the workers do.            *)
LEMMA LogInvHolds == Spec => [](EntriesInv /\ AloneInv)
<1>1. Init => EntriesInv /\ AloneInv
  <2> SUFFICES ASSUME Init PROVE EntriesInv /\ AloneInv
    OBVIOUS
  <2>1. Issued = {} /\ Finished = {} /\ flight = {} /\ Queued = {}
    BY InitFlow DEF Init, Queued
  <2>2. \A w \in Workers : ~Busy(w)
    BY DEF Init, Busy, Idle
  <2> QED
    BY <2>1, <2>2 DEF EntriesInv, AloneInv
<1>2. IInv /\ IInv' /\ EntriesInv /\ [Next]_vars => EntriesInv'
  BY EntriesStep DEF IInv
<1>3. IInv /\ IInv' /\ EntriesInv /\ AloneInv /\ [Next]_vars => AloneInv'
  BY AloneStep DEF IInv
<1> QED
  BY IInvHolds, <1>1, <1>2, <1>3, PTL DEF Spec

(***************************************************************************)
(* What the scripts find in the log                                        *)
(***************************************************************************)
(* Every request is somewhere, and its entries are in the log so far: none *)
(* or all of them, unless its handler runs.                                *)
LEMMA EveryPlaced ==
  ASSUME TypeOK, OpsInv, FlowInv, EntriesInv, program \in Logging, NEW n \in Issued
  PROVE  \E k : Placed(n, k) /\ (k \in {0, Len(Entries(n))} \/ n \in Handled)
<1>1. CASE n \in flight \cup Queued \cup Finished
  BY <1>1 DEF EntriesInv
<1>2. CASE n \in Handled
  <2>1. PICK w \in Workers : Busy(w) /\ running[w].on = n
    BY <1>2, HandledWhere
  <2> QED
    BY <1>2, <2>1 DEF EntriesInv
<1> QED
  BY <1>1, <1>2 DEF Finished

(* The three entries of a request of udl_get_debug.                        *)
LEMMA DebugEntries ==
  ASSUME program = "udl_get_debug", NEW n
  PROVE  /\ Len(Entries(n)) = 3
         /\ \A i \in 1..3 : Entries(n)[i].tag = Tags[i] /\ Entries(n)[i].by = n
<1>1. Entries(n) = Tagged(Tags, n - 1, n)
  BY DEF Entries
<1>2. Entries(n) = [t \in 1..3 |-> [tag |-> Tags[t], id |-> n - 1, by |-> n]]
  BY <1>1, TagsType DEF Tagged
<1> QED
  BY <1>2

(* The entry of a request that has a tag is where that tag comes.          *)
LEMMA WhereTagged ==
  ASSUME TypeOK, program = "udl_get_debug", NEW n, NEW k, k \in 0..Len(Entries(n)), NEW f, PlacedAt(n, k, f),
         NEW i \in 1..3, NEW p \in Timestamps(Tags[i]), log[p].by = n
  PROVE  i \in 1..k /\ f[i] = p
<1>1. p \in 1..Len(log) /\ log[p].tag = Tags[i]
  BY Counts DEF Timestamps
<1>2. PICK j \in 1..k : f[j] = p
  BY <1>1 DEF PlacedAt
<1>3. j \in 1..3 /\ k \in 0..3
  <2>1. k \in 0..3
    BY DebugEntries
  <2> QED
    BY <1>2, <2>1
<1>4. Tags[j] = Tags[i]
  BY <1>1, <1>2, <1>3, DebugEntries DEF PlacedAt
<1>5. j = i
  BY <1>3, <1>4, TagsType
<1> QED
  BY <1>2, <1>5

(* A request has one entry of a tag, and one of each before it; when no    *)
(* handler runs it has one of each.                                        *)
LEMMA OneEntryEach ==
  ASSUME TypeOK, OpsInv, FlowInv, EntriesInv, program = "udl_get_debug", NEW i \in 1..3, NEW j \in 1..3
  PROVE  /\ \A p, q \in Timestamps(Tags[i]) : log[p].by = log[q].by => p = q
         /\ i <= j \/ Handled = {} => RequestsOf(Tags[j]) \subseteq RequestsOf(Tags[i])
<1>1. \A p \in DOMAIN log : log[p].by \in Issued
  BY LogFacts, Counts DEF Logging
<1>2. \A t : \A p \in Timestamps(t) : p \in DOMAIN log /\ log[p].tag = t
  BY DEF Timestamps
<1>3. ASSUME NEW p \in Timestamps(Tags[i]), NEW q \in Timestamps(Tags[i]), log[p].by = log[q].by PROVE p = q
  <2>1. PICK n \in Issued : n = log[p].by
    BY <1>1, <1>2
  <2>2. PICK k : Placed(n, k)
    BY EveryPlaced DEF Logging
  <2>3. k \in 0..Len(Entries(n))
    BY <2>2 DEF Placed
  <2>4. PICK f : PlacedAt(n, k, f)
    BY <2>2 DEF Placed
  <2>5. f[i] = p
    BY <2>1, <2>3, <2>4, WhereTagged
  <2>6. f[i] = q
    BY <1>3, <2>1, <2>3, <2>4, WhereTagged
  <2> QED
    BY <2>5, <2>6
<1>4. ASSUME i <= j \/ Handled = {}, NEW p \in Timestamps(Tags[j])
      PROVE  \E q \in Timestamps(Tags[i]) : log[q].by = log[p].by
  <2>1. PICK n \in Issued : n = log[p].by
    BY <1>1, <1>2
  <2>2. PICK k : Placed(n, k) /\ (k \in {0, Len(Entries(n))} \/ n \in Handled)
    BY EveryPlaced DEF Logging
  <2>3. k \in 0..Len(Entries(n)) /\ k \in 0..3
    BY <2>2, DebugEntries DEF Placed
  <2>4. PICK f : PlacedAt(n, k, f)
    BY <2>2 DEF Placed
  <2>5. j \in 1..k
    BY <2>1, <2>3, <2>4, WhereTagged
  <2>6. Handled = {} => k = 3
    <3>1. Handled = {} => k \in {0, Len(Entries(n))}
      BY <2>2
    <3>2. k # 0
      BY <2>5
    <3> QED
      BY <3>1, <3>2, DebugEntries
  <2>7. i \in 1..k
    BY <1>4, <2>3, <2>5, <2>6
  <2>8. f[i] \in 1..Len(log) /\ log[f[i]] = Entries(n)[i]
    BY <2>4, <2>7 DEF PlacedAt
  <2>9. f[i] \in Timestamps(Tags[i]) /\ log[f[i]].by = n
    BY <2>8, DebugEntries, Counts DEF Timestamps
  <2> QED
    BY <2>1, <2>9
<1>5. i <= j \/ Handled = {} => RequestsOf(Tags[j]) \subseteq RequestsOf(Tags[i])
  BY <1>4 DEF RequestsOf
<1> QED
  BY <1>3, <1>5

(* As many requests as entries of a tag.                                   *)
LEMMA AsManyRequests ==
  ASSUME TypeOK, NEW t, \A p, q \in Timestamps(t) : log[p].by = log[q].by => p = q
  PROVE  /\ IsFiniteSet(Timestamps(t)) /\ IsFiniteSet(RequestsOf(t))
         /\ Cardinality(RequestsOf(t)) = Cardinality(Timestamps(t))
<1>1. IsFiniteSet(DOMAIN log)
  BY Counts, FS_Interval
<1>2. IsFiniteSet(Timestamps(t))
  BY <1>1, FS_Subset DEF Timestamps
<1> DEFINE g == [p \in Timestamps(t) |-> log[p].by]
<1>3. g \in Bijection(Timestamps(t), RequestsOf(t))
  BY DEF Bijection, Injection, Surjection, IsInjective, RequestsOf
<1>4. ExistsBijection(Timestamps(t), RequestsOf(t))
  BY <1>3 DEF ExistsBijection
<1> QED
  BY <1>2, <1>4, FS_Bijection

(* Of two tags, the first is logged for the requests that have the second  *)
(* and perhaps for more; for no more when there are as many entries, or    *)
(* when no handler runs.                                                   *)
LEMMA TwoTags ==
  ASSUME TypeOK, OpsInv, FlowInv, EntriesInv, program = "udl_get_debug",
         NEW i \in 1..3, NEW j \in 1..3, i <= j
  PROVE  /\ Count(Tags[i]) \in Nat /\ Count(Tags[j]) \in Nat /\ Count(Tags[j]) <= Count(Tags[i])
         /\ Count(Tags[i]) = Count(Tags[j]) \/ Handled = {} => RightMean(Tags[j], Tags[i])
<1>1. RequestsOf(Tags[j]) \subseteq RequestsOf(Tags[i])
  BY OneEntryEach
<1>2. Handled = {} => RequestsOf(Tags[i]) \subseteq RequestsOf(Tags[j])
  BY OneEntryEach
<1>3. ASSUME NEW l \in 1..3
      PROVE  /\ IsFiniteSet(RequestsOf(Tags[l])) /\ Count(Tags[l]) \in Nat
             /\ Cardinality(RequestsOf(Tags[l])) = Count(Tags[l])
  <2>1. \A p, q \in Timestamps(Tags[l]) : log[p].by = log[q].by => p = q
    BY OneEntryEach
  <2> QED
    BY <2>1, AsManyRequests, FS_CardinalityType DEF Count
<1>4. /\ Cardinality(RequestsOf(Tags[j])) <= Cardinality(RequestsOf(Tags[i]))
      /\ Cardinality(RequestsOf(Tags[j])) = Cardinality(RequestsOf(Tags[i]))
         => RequestsOf(Tags[j]) = RequestsOf(Tags[i])
  BY <1>1, <1>3, FS_Subset
<1>5. Count(Tags[i]) \in Nat /\ Count(Tags[j]) \in Nat /\ Count(Tags[j]) <= Count(Tags[i])
  BY <1>3, <1>4
<1>6. Count(Tags[i]) = Count(Tags[j]) => RightMean(Tags[j], Tags[i])
  BY <1>3, <1>4 DEF RightMean
<1>7. Handled = {} => RightMean(Tags[j], Tags[i])
  BY <1>1, <1>2 DEF RightMean
<1> QED
  BY <1>5, <1>6, <1>7

(* A tag has as many entries as a later one or more: two arrays that numpy *)
(* subtracts are as long as each other, and hold the entries of the same   *)
(* requests, unless the later has one entry and so has the last.           *)
LEMMA MeansAreTrueNow ==
  ASSUME TypeOK, OpsInv, FlowInv, EntriesInv
  PROVE  MeansAreTrue
<1> SUFFICES ASSUME program = "udl_get_debug", Subtracts
             PROVE  \/ RightMean("8002", "8001") /\ RightMean("8003", "8002")
                    \/ /\ Count("8003") = 1 /\ Handled # {}
                       /\ RightMean("8002", "8001") \/ RightMean("8003", "8002")
  BY DEF MeansAreTrue
<1>1. /\ Count("8001") \in Nat /\ Count("8002") \in Nat /\ Count("8002") <= Count("8001")
      /\ Count("8001") = Count("8002") \/ Handled = {} => RightMean("8002", "8001")
  <2>1. 1 \in 1..3 /\ 2 \in 1..3 /\ 1 <= 2 /\ Tags[1] = "8001" /\ Tags[2] = "8002"
    BY TagsType
  <2> QED
    BY <2>1, TwoTags
<1>2. /\ Count("8003") \in Nat /\ Count("8003") <= Count("8002")
      /\ Count("8002") = Count("8003") \/ Handled = {} => RightMean("8003", "8002")
  <2>1. 2 \in 1..3 /\ 3 \in 1..3 /\ 2 <= 3 /\ Tags[2] = "8002" /\ Tags[3] = "8003"
    BY TagsType
  <2> QED
    BY <2>1, TwoTags
<1>3. /\ Count("8002") = Count("8001") \/ 1 \in {Count("8002"), Count("8001")}
      /\ Count("8003") = Count("8002") \/ 1 \in {Count("8003"), Count("8002")}
      /\ Count("8003") > 0
  BY DEF Subtracts, Subtractable
<1>4. Count("8002") # Count("8001") => Count("8002") = 1 /\ Count("8003") = 1
  BY <1>1, <1>2, <1>3
<1>5. Count("8003") # Count("8002") => Count("8003") = 1
  BY <1>1, <1>2, <1>3
<1>6. CASE Handled = {}
  BY <1>1, <1>2, <1>6
<1>7. CASE Handled # {} /\ Count("8002") # Count("8001")
  BY <1>2, <1>4, <1>7
<1>8. CASE Handled # {} /\ Count("8002") = Count("8001") /\ Count("8003") # Count("8002")
  BY <1>1, <1>5, <1>8
<1>9. CASE Count("8002") = Count("8001") /\ Count("8003") = Count("8002")
  BY <1>1, <1>2, <1>9
<1> QED
  BY <1>6, <1>7, <1>8, <1>9

(* Whenever the log is dumped, the means of udl_get_debug/get_latencies.py *)
(* are those of the requests it counts, whichever entries it pairs; but    *)
(* one of the two may be wrong while a handler runs and a single request   *)
(* has logged its last entry.                                              *)
THEOREM MeansOfTheSameRequests == Spec => []MeansAreTrue
<1>1. IInv /\ EntriesInv => MeansAreTrue
  BY MeansAreTrueNow DEF IInv
<1> QED
  BY IInvHolds, LogInvHolds, <1>1, PTL

(* The last lines that n printed alone are those of n, after a whole line. *)
LEMMA LinesOfItsOwn ==
  ASSUME TypeOK, OpsInv, program = "p2p_send_debug", NEW n \in Issued, NEW b \in Nat,
         Solo(n, Len(Entries(n)), b)
  PROVE  OnLinesOfItsOwn(n)
<1>1. \A m : Entries(m) = [i \in 1..9 |-> [tag |-> Lines[i], id |-> m - 1, by |-> m]]
  BY TagsType DEF Entries, Tagged
<1>2. \A m : Len(Entries(m)) = 9 /\ Entries(m)[9].tag = "eol"
  BY <1>1, TagsType
<1>3. Len(log) \in Nat /\ b + 9 <= Len(log)
  BY <1>2, Counts DEF Solo
<1>4. \A i \in 1..9 : log[b + i] = Entries(n)[i]
  BY <1>2 DEF Solo
<1>5. SubSeq(log, b + 1, b + 9) = [i \in 1..9 |-> log[b + i]]
  <2> DEFINE S == {log[i] : i \in (b + 1)..(b + 9)}
             s == SubSeq(log, b + 1, b + 9)
  <2>1. /\ b + 1 \in Int /\ b + 9 \in Int /\ b + 1 <= b + 9 /\ (b + 9) - (b + 1) + 1 = 9
        /\ \A i \in 1..9 : (b + 1) + i - 1 = b + i
    OBVIOUS
  <2>2. \A i \in (b + 1)..(b + 9) : log[i] \in S
    OBVIOUS
  <2> HIDE DEF S
  <2>3. /\ s \in Seq(S) /\ Len(s) = (b + 9) - (b + 1) + 1
        /\ \A i \in 1..((b + 9) - (b + 1) + 1) : s[i] = log[(b + 1) + i - 1]
    BY <2>1, <2>2, SubSeqProperties
  <2> HIDE DEF s
  <2>4. s \in Seq(S) /\ Len(s) = 9 /\ \A i \in 1..9 : s[i] = log[b + i]
    BY <2>1, <2>3
  <2>5. s = [i \in 1..9 |-> log[b + i]]
    BY <2>4
  <2> QED
    BY <2>5 DEF s
<1>6. [i \in 1..9 |-> log[b + i]] = Entries(n)
  BY <1>1, <1>4
<1>7. b > 0 => log[b].tag = "eol"
  <2>1. b > 0 => log[b] = Entries(log[b].by)[Len(Entries(log[b].by))]
    BY DEF Solo
  <2> QED
    BY <1>2, <2>1
<1>8. b \in 0..(Len(log) - 9)
  BY <1>3
<1> QED
  BY <1>5, <1>6, <1>7, <1>8, TagsType DEF OnLinesOfItsOwn

(* When the run n was the last one, its entries are the last of their ids. *)
LEMMA LastRunIsKept ==
  ASSUME TypeOK, OpsInv, program = "udl_microbenchmark", NEW n \in Issued, NEW b \in Nat,
         Solo(n, Len(Entries(n)), b)
  PROVE  KeptTogether(n)
<1> SUFFICES ASSUME log[Len(log)].by = n, NEW id \in 0..(Total - 1), NEW t \in Range(Tags)
             PROVE  Kept(t, id).by = n
  BY DEF KeptTogether
<1> DEFINE last == 3 * Total
<1>1. /\ Total \in Nat /\ id \in Nat /\ id < Total /\ Len(log) \in Nat /\ DOMAIN log = 1..Len(log)
      /\ last \in Nat
  BY Counts
<1>2. Entries(n) = RunEntries(n)
  BY DEF Entries
<1>3. /\ Len(Entries(n)) = last
      /\ \A e \in 1..last : Entries(n)[e] = [tag |-> Tags[((e - 1) % 3) + 1], id |-> (e - 1) \div 3, by |-> n]
  BY <1>2, RunEntriesType
<1> HIDE DEF last
<1>4. /\ b + last <= Len(log)
      /\ \A i \in 1..last : log[b + i] = Entries(n)[i]
      /\ \A p \in 1..Len(log) : log[p].by = n => b < p /\ p <= b + last
  BY <1>3 DEF Solo
<1>5. PICK i \in 1..3 : t = Tags[i]
  BY TagsType
<1> DEFINE e == 3 * id + i
<1>6. e \in 1..last /\ (e - 1) \div 3 = id /\ ((e - 1) % 3) + 1 = i
  BY <1>1, <1>5 DEF last
<1> HIDE DEF e
<1>7. Len(log) = b + last
  <2>1. b \in Nat /\ last \in Nat /\ last > 0 /\ Len(log) \in Nat /\ b + last <= Len(log)
    BY <1>1, <1>4, <1>6
  <2>2. Len(log) \in 1..Len(log)
    BY <2>1
  <2>3. Len(log) <= b + last
    BY <1>4, <2>2
  <2> QED
    BY <2>1, <2>3
<1>8. b + e \in 1..Len(log) /\ log[b + e] = [tag |-> t, id |-> id, by |-> n]
  <2>1. b + e \in 1..Len(log)
    BY <1>1, <1>6, <1>7
  <2>2. log[b + e] = Entries(n)[e]
    BY <1>4, <1>6
  <2>3. Entries(n)[e] = [tag |-> Tags[((e - 1) % 3) + 1], id |-> (e - 1) \div 3, by |-> n]
    BY <1>3, <1>6
  <2> QED
    BY <1>5, <1>6, <2>1, <2>2, <2>3
<1>9. b + e \in Logged(t, id)
  BY <1>1, <1>8 DEF Logged
<1>10. ASSUME NEW p \in Logged(t, id) PROVE p <= b + e
  <2>1. p \in 1..Len(log) /\ log[p].tag = t /\ log[p].id = id
    BY <1>1 DEF Logged
  <2>2. CASE p <= b
    BY <1>6, <2>1, <2>2
  <2>3. CASE p > b
    <3> DEFINE d == p - b
    <3>1. d \in 1..last /\ p = b + d
      BY <1>1, <1>7, <2>1, <2>3
    <3> HIDE DEF d
    <3>2. Tags[((d - 1) % 3) + 1] = Tags[i] /\ (d - 1) \div 3 = id
      BY <1>3, <1>4, <1>5, <2>1, <3>1
    <3>3. d \in Nat /\ d > 0 /\ e \in Nat /\ e > 0
      BY <1>1, <1>6, <3>1
    <3>4. PICK u, v : u = (d - 1) \div 3 /\ v = (d - 1) % 3
      OBVIOUS
    <3>5. v \in 0..2 /\ d = 3 * u + v + 1
      BY <3>3, <3>4, Thirds
    <3>6. Tags[v + 1] = Tags[i] /\ v + 1 \in 1..3 /\ u = id
      BY <3>2, <3>4, <3>5
    <3>7. v + 1 = i
      BY <1>5, <3>6, TagsType
    <3>8. d = e
      BY <1>1, <1>5, <3>5, <3>6, <3>7 DEF e
    <3> QED
      BY <1>1, <3>1, <3>3, <3>8
  <2> QED
    BY <1>1, <2>1, <2>2, <2>3
<1> DEFINE LastOf(p) == p \in Logged(t, id) /\ \A q \in Logged(t, id) : q <= p
<1>11. \A p : LastOf(p) => p = b + e
  <2> SUFFICES ASSUME NEW p, LastOf(p) PROVE p = b + e
    OBVIOUS
  <2>1. p \in Int /\ b + e \in Int
    BY <1>1, <1>6 DEF Logged
  <2>2. p <= b + e /\ b + e <= p
    BY <1>9, <1>10
  <2> QED
    BY <2>1, <2>2
<1>12. (CHOOSE p \in Logged(t, id) : \A q \in Logged(t, id) : q <= p) = b + e
  BY <1>9, <1>10, <1>11
<1>13. log[b + e].by = n
  BY <1>8
<1> QED
  BY <1>12, <1>13 DEF Kept

(* The requests of the first b entries.                                    *)
Before(b) == {log[p].by : p \in 1..b}

(* As many entries of each tag before a request that was handled alone.    *)
LEMMA AsManyBefore ==
  ASSUME TypeOK, OpsInv, FlowInv, EntriesInv, program = "udl_get_debug", NEW n, NEW k, NEW b, Solo(n, k, b),
         NEW i \in 1..3
  PROVE  /\ IsFiniteSet({p \in Timestamps(Tags[i]) : p <= b})
         /\ Cardinality({p \in Timestamps(Tags[i]) : p <= b}) = Cardinality(Before(b))
<1> DEFINE T == {p \in Timestamps(Tags[i]) : p <= b}
           B == Before(b)
           g == [p \in T |-> log[p].by]
<1>1. b \in Nat /\ b <= Len(log) /\ Len(log) \in Nat
  <2>1. k \in 0..Len(Entries(n)) /\ b \in Nat /\ b + k <= Len(log) /\ Len(log) \in Nat
    BY Counts DEF Solo
  <2>2. k \in Nat
    BY <2>1
  <2> QED
    BY <2>1, <2>2
<1>2. T \subseteq 1..b
  BY <1>1, Counts DEF Timestamps
<1>3. IsFiniteSet(T)
  <2>1. IsFiniteSet(1..b)
    BY <1>1, FS_Interval
  <2> QED
    BY <1>2, <2>1, FS_Subset
<1>4. \A p, q \in T : g[p] = g[q] => p = q
  BY OneEntryEach
<1>5. \A p \in T : g[p] \in B
  BY <1>2 DEF Before
<1>6. ASSUME NEW m \in B PROVE \E p \in T : g[p] = m
  <2>1. PICK r \in 1..b : log[r].by = m
    BY DEF Before
  <2>2. m \in Finished
    BY <2>1 DEF Solo
  <2> HIDE DEF B, T
  <2>7. Placed(m, Len(Entries(m))) /\ Len(Entries(m)) = 3
    BY <2>2, DebugEntries DEF EntriesInv, Logging
  <2>3. PICK f : PlacedAt(m, 3, f)
    BY <2>7 DEF Placed
  <2> USE DEF B, T
  <2>4. f[i] \in 1..Len(log) /\ log[f[i]] = Entries(m)[i]
    BY <2>3 DEF PlacedAt
  <2>5. f[i] \in Timestamps(Tags[i]) /\ log[f[i]].by = m
    BY <2>4, DebugEntries, Counts DEF Timestamps
  <2>6. f[i] <= b
    BY <2>1, <2>4, <2>5 DEF Solo
  <2> QED
    BY <2>5, <2>6
<1>7. g \in Bijection(T, B)
  <2> HIDE DEF B, T
  <2> QED
    BY <1>4, <1>5, <1>6 DEF Bijection, Injection, Surjection, IsInjective
<1>8. ExistsBijection(T, B)
  BY <1>7 DEF ExistsBijection
<1> QED
  BY <1>3, <1>8, FS_Bijection

(* The entries of a request that was handled alone are in the same row of  *)
(* the three arrays.                                                       *)
LEMMA RowOfItsOwn ==
  ASSUME TypeOK, OpsInv, FlowInv, EntriesInv, program = "udl_get_debug", NEW n \in Issued, NEW b \in Nat,
         Solo(n, Len(Entries(n)), b), NEW i \in 1..3
  PROVE  /\ b + i \in Timestamps(Tags[i]) /\ log[b + i].by = n
         /\ \A p \in Timestamps(Tags[i]) : log[p].by = n => p = b + i
         /\ Row(Tags[i], b + i) = Cardinality(Before(b)) + 1
<1> DEFINE T == {p \in Timestamps(Tags[i]) : p <= b}
<1>1. /\ Len(Entries(n)) = 3 /\ Len(log) \in Nat /\ DOMAIN log = 1..Len(log)
      /\ \A j \in 1..3 : Entries(n)[j].tag = Tags[j] /\ Entries(n)[j].by = n
  BY DebugEntries, Counts
<1>2. /\ b + 3 <= Len(log)
      /\ \A j \in 1..3 : log[b + j] = Entries(n)[j]
      /\ \A p \in 1..Len(log) : log[p].by = n => b < p /\ p <= b + 3
  BY <1>1 DEF Solo
<1>3. \A j \in 1..3 : log[b + j].tag = Tags[j] /\ log[b + j].by = n /\ b + j \in 1..Len(log)
  BY <1>1, <1>2
<1>4. b + i \in Timestamps(Tags[i]) /\ log[b + i].by = n
  BY <1>1, <1>3 DEF Timestamps
<1>5. ASSUME NEW p \in Timestamps(Tags[i]), b < p, p <= b + 3 PROVE p = b + i
  <2>1. p \in 1..Len(log) /\ log[p].tag = Tags[i]
    BY <1>1 DEF Timestamps
  <2>2. PICK j \in 1..3 : p = b + j
    <3>1. p - b \in 1..3 /\ p = b + (p - b)
      BY <1>5, <2>1
    <3> QED
      BY <3>1
  <2>3. Tags[j] = Tags[i]
    BY <1>3, <2>1, <2>2
  <2>4. j = i
    BY <2>3, TagsType
  <2> QED
    BY <2>2, <2>4
<1>6. \A p \in Timestamps(Tags[i]) : log[p].by = n => p = b + i
  BY <1>1, <1>2, <1>5 DEF Timestamps
<1>7. {q \in Timestamps(Tags[i]) : q <= b + i} = T \cup {b + i}
  <2>1. \A q \in Timestamps(Tags[i]) : q \in Nat
    BY <1>1 DEF Timestamps
  <2>2. ASSUME NEW q \in Timestamps(Tags[i]), q <= b + i, ~(q <= b) PROVE q = b + i
    <3>1. b < q /\ q <= b + 3
      BY <2>1, <2>2
    <3> QED
      BY <1>5, <3>1
  <2>3. \A q \in Timestamps(Tags[i]) : q <= b => q <= b + i
    BY <2>1
  <2>4. b + i <= b + i
    OBVIOUS
  <2> QED
    BY <1>4, <2>2, <2>3, <2>4
<1>8. b + i \notin T
  OBVIOUS
<1>9. IsFiniteSet(T) /\ Cardinality(T) = Cardinality(Before(b))
  BY AsManyBefore
<1>10. Cardinality(T \cup {b + i}) = Cardinality(T) + 1
  BY <1>8, <1>9, FS_AddElement
<1> QED
  BY <1>4, <1>6, <1>7, <1>9, <1>10 DEF Row

(* The script pairs the entries of a request that was handled alone with   *)
(* each other.                                                             *)
LEMMA RowsPaired ==
  ASSUME TypeOK, OpsInv, FlowInv, EntriesInv, program = "udl_get_debug", NEW n \in Issued, NEW b \in Nat,
         Solo(n, Len(Entries(n)), b)
  PROVE  PairedByPosition(n)
<1> SUFFICES ASSUME NEW t \in Range(Tags), NEW p \in Timestamps("8003"), log[p].by = n
             PROVE  \E q \in Timestamps(t) : Row(t, q) = Row("8003", p) /\ log[q].by = n
  BY DEF PairedByPosition
<1>1. PICK i \in 1..3 : t = Tags[i]
  BY TagsType
<1>2. Tags[3] = "8003" /\ 3 \in 1..3
  BY TagsType
<1>3. p = b + 3 /\ Row("8003", b + 3) = Cardinality(Before(b)) + 1
  BY <1>2, RowOfItsOwn
<1>4. /\ b + i \in Timestamps(t) /\ log[b + i].by = n
      /\ Row(t, b + i) = Cardinality(Before(b)) + 1
  <2>1. /\ b + i \in Timestamps(Tags[i]) /\ log[b + i].by = n
        /\ Row(Tags[i], b + i) = Cardinality(Before(b)) + 1
    BY RowOfItsOwn
  <2> QED
    BY <1>1, <2>1
<1> QED
  BY <1>3, <1>4

(* A request whose handler ran beside no other one is measured right by    *)
(* each of the three scripts, whatever came before and comes after it: its *)
(* entries follow each other, after those of requests that were complete.  *)
THEOREM AloneIsMeasured == Spec => []AloneIsMeasuredRight
<1>1. IInv /\ EntriesInv /\ AloneInv => AloneIsMeasuredRight
  <2> SUFFICES ASSUME IInv, EntriesInv, AloneInv, NEW n \in Finished \ overlapped, program \in Logging
               PROVE  /\ program = "udl_get_debug" => PairedByPosition(n)
                      /\ program = "udl_microbenchmark" => KeptTogether(n)
                      /\ program = "p2p_send_debug" => OnLinesOfItsOwn(n)
    BY DEF AloneIsMeasuredRight, Logging
  <2>1. n \in Issued
    BY DEF Finished
  <2>2. PICK b \in Nat : Solo(n, Len(Entries(n)), b)
    BY DEF AloneInv
  <2> QED
    BY <2>1, <2>2, RowsPaired, LastRunIsKept, LinesOfItsOwn DEF IInv
<1> QED
  BY IInvHolds, LogInvHolds, <1>1, PTL
=============================================================================
