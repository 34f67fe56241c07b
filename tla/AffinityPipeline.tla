-------------------------- MODULE AffinityPipeline --------------------------
(***************************************************************************)
(* The affinity sets benchmark: client runs that put objects, the UDLs     *)
(* that take an object through the pools /entry, /category/new and         *)
(* /category/output, and the notification that the last one sends back to  *)
(* the client over UDP.                                                    *)
(*                                                                         *)
(* setup() is that of PipelineSetup, whose variables the UDLs read; its    *)
(* step RunBenchmark is the last one here (Join).  The handlers of         *)
(* different objects run concurrently in the servers' workers.  A message  *)
(* may be lost and may take any time, longer than the client runs.         *)
(***************************************************************************)
EXTENDS PipelineSetup, AffinityLogic

CONSTANTS NumObjects, \* BENCHMARK_TIME
          NodeId      \* client run |-> node id of the client (get_my_id)

ASSUME PipelineAssumption ==
  /\ NumObjects \in Nat \ {0}
  /\ DOMAIN NodeId = Clients

(* An object is named here by the run that put it; its key by the run's    *)
(* node id.                                                                *)
Ids     == 0..(NumObjects - 1)
Objects == Clients \X Ids
KeyName(o) == ObjectName(<<NodeId[o[1]], o[2]>>)

VARIABLES
  run,      \* per client: what main() does after setup()
  sent,     \* per client: object_id, the number of send timestamps taken
  listener, \* per client: what listen_notifications does
  stop,     \* per client: stop_listen
  received, \* per client and id: what the listener wrote last
  stage,    \* per object: the handler it is at
  category, \* per object: the category the entry UDL computed
  asked,    \* per object: gets sent by its handler and not answered
  missed,   \* objects one of whose gets found no part
  net       \* UDP messages

clientVars == <<run, sent, listener, stop, received>>
udlVars    == <<stage, category, asked, missed>>
pipeVars   == <<vars, clientVars, udlVars, net>>

Nothing == [from |-> "nobody"]

PipelineInit ==
  /\ Init
  /\ run = [c \in Clients |-> "setup"]
  /\ sent = [c \in Clients |-> 0]
  /\ listener = [c \in Clients |-> "off"]
  /\ stop = [c \in Clients |-> FALSE]
  /\ received = [c \in Clients |-> [i \in Ids |-> Nothing]]
  /\ stage = [o \in Objects |-> "unsent"]
  /\ category = [o \in Objects |-> -1]
  /\ asked = [o \in Objects |-> {}]
  /\ missed = {}
  /\ net = {}

-----------------------------------------------------------------------------
(* main()                                                                  *)

(* The listener's thread is started and the benchmark begins.              *)
StartBenchmark(c) ==
  /\ pc[c] = "ready" /\ run[c] = "setup"
  /\ run' = [run EXCEPT ![c] = "put"]
  /\ listener' = [listener EXCEPT ![c] = "bind"]
  /\ UNCHANGED <<vars, sent, stop, received, udlVars, net>>

PutObject(c) ==
  /\ run[c] = "put"
  /\ run' = [run EXCEPT ![c] = "stamp"]
  /\ stage' = [stage EXCEPT ![<<c, sent[c]>>] = "entry"]
  /\ UNCHANGED <<vars, sent, listener, stop, received, category, asked, missed, net>>

StampObjectSlip(c) ==
  /\ run[c] = "stamp"
  /\ sent' = [sent EXCEPT ![c] = @ + 1]
  /\ run' = [run EXCEPT ![c] = IF sent[c] + 1 <= NumObjects THEN "put" ELSE "sleep"]
  /\ UNCHANGED <<vars, listener, stop, received, udlVars, net>>

(* put_object() takes the time once the put is on its way.                 *)
StampObject(c) ==
  /\ run[c] = "stamp"
  /\ sent' = [sent EXCEPT ![c] = @ + 1]
  /\ run' = [run EXCEPT ![c] = IF sent[c] + 1 < NumObjects THEN "put" ELSE "sleep"]
  /\ UNCHANGED <<vars, listener, stop, received, udlVars, net>>

(* After CLIENT_SHORT_WAIT or CLIENT_LONG_WAIT.                            *)
StopListening(c) ==
  /\ run[c] = "sleep"
  /\ stop' = [stop EXCEPT ![c] = TRUE]
  /\ run' = [run EXCEPT ![c] = "join"]
  /\ UNCHANGED <<vars, sent, listener, received, udlVars, net>>

Join(c) ==
  /\ run[c] = "join" /\ listener[c] = "closed"
  /\ run' = [run EXCEPT ![c] = "done"]
  /\ RunBenchmark(c)
  /\ UNCHANGED <<sent, listener, stop, received, udlVars, net>>

-----------------------------------------------------------------------------
(* listen_notifications()                                                  *)

Bind(c) ==
  /\ listener[c] = "bind"
  /\ listener' = [listener EXCEPT ![c] = "check"]
  /\ UNCHANGED <<vars, run, sent, stop, received, udlVars, net>>

CheckStop(c) ==
  /\ listener[c] = "check"
  /\ listener' = [listener EXCEPT ![c] = IF stop[c] THEN "closed" ELSE "receive"]
  /\ UNCHANGED <<vars, run, sent, stop, received, udlVars, net>>

ReceiveSlip(c, m) ==
  /\ listener[c] = "receive"
  /\ m \in net
  /\ received' = [received EXCEPT ![c][m.id] =
       [from |-> m.from, category |-> m.category, node |-> m.node, positive |-> m.id < sent[c]]]
  /\ net' = net \ {m}
  /\ listener' = [listener EXCEPT ![c] = "check"]
  /\ UNCHANGED <<vars, run, sent, stop, udlVars>>

(* The listener knows the object by its number only.  The latency is     *)
(* positive when the object's send timestamp is taken already.             *)
Receive(c, m) ==
  /\ listener[c] = "receive"
  /\ m \in net /\ m.to = NodeId[c]
  /\ received' = [received EXCEPT ![c][m.id] =
       [from |-> m.from, category |-> m.category, node |-> m.node, positive |-> m.id < sent[c]]]
  /\ net' = net \ {m}
  /\ listener' = [listener EXCEPT ![c] = "check"]
  /\ UNCHANGED <<vars, run, sent, stop, udlVars>>

ReceiveTimeoutSlip(c) == FALSE

(* recvfrom() gives up after CLIENT_RETURN_TIMEOUT.                        *)
ReceiveTimeout(c) ==
  /\ listener[c] = "receive"
  /\ listener' = [listener EXCEPT ![c] = "check"]
  /\ UNCHANGED <<vars, run, sent, stop, received, udlVars, net>>

-----------------------------------------------------------------------------
(* The UDLs                                                                *)

GetsStage(k) == IF k = "entry" THEN "entry gets" ELSE "data gets"

(* A handler reads how many parts there are and sends a get for each.  The *)
(* server dies when there is no such configuration object; what follows is *)
(* not modelled (see NoHandlerCrashes).                                    *)
AskForParts(o, k, c) ==
  LET num == config[<<k, "num">>] IN
  /\ stage' = [stage EXCEPT ![o] = IF num = Absent THEN "crashed" ELSE GetsStage(k)]
  /\ asked' = [asked EXCEPT ![o] = IF num = Absent THEN {} ELSE {<<k, c, i>> : i \in 0..(num - 1)}]

EntryHandler(o) ==
  /\ stage[o] = "entry"
  /\ AskForParts(o, "entry", 0)
  /\ UNCHANGED <<vars, clientVars, category, missed, net>>

CategoryHandler(o) ==
  /\ stage[o] = "category"
  /\ AskForParts(o, "data", category[o])
  /\ UNCHANGED <<vars, clientVars, category, missed, net>>

GetPartSlip(o, p) ==
  /\ p \in asked[o] /\ parts[p] # Absent
  /\ asked' = [asked EXCEPT ![o] = @ \ {p}]
  /\ UNCHANGED <<vars, clientVars, stage, category, missed, net>>

GetPart(o, p) ==
  /\ p \in asked[o]
  /\ asked' = [asked EXCEPT ![o] = @ \ {p}]
  /\ missed' = IF parts[p] = Absent THEN missed \cup {o} ELSE missed
  /\ UNCHANGED <<vars, clientVars, stage, category, net>>

(* The hash of the object and of the parts may be any category.            *)
PutInCategory(o) ==
  /\ stage[o] = "entry gets" /\ asked[o] = {}
  /\ \E c \in Categories : category' = [category EXCEPT ![o] = c]
  /\ stage' = [stage EXCEPT ![o] = "category"]
  /\ UNCHANGED <<vars, clientVars, asked, missed, net>>

PutOutput(o) ==
  /\ stage[o] = "data gets" /\ asked[o] = {}
  /\ stage' = [stage EXCEPT ![o] = "output"]
  /\ UNCHANGED <<vars, clientVars, category, asked, missed, net>>

NewKey(o)    == CategoryKey("new", category[o], KeyName(o))
OutputKey(o) == CategoryKey("output", category[o], KeyName(o))

(* The client's address is known: it was registered before the object was  *)
(* put.                                                                    *)
ReturnHandler(o) ==
  /\ stage[o] = "output"
  /\ net' = net \cup {[to |-> NodeId[o[1]], id |-> o[2], category |-> category[o],
                       node |-> HomeOf(OutputKey(o)), from |-> o]}
  /\ stage' = [stage EXCEPT ![o] = "returned"]
  /\ UNCHANGED <<vars, clientVars, category, asked, missed>>

Lose(m) ==
  /\ net' = net \ {m}
  /\ UNCHANGED <<vars, clientVars, udlVars>>

-----------------------------------------------------------------------------
Setup(c) ==
  /\ SetupStep(c)
  /\ UNCHANGED <<clientVars, udlVars, net>>

KillClient(c) ==
  /\ c \notin dead /\ Kill(c)
  /\ UNCHANGED <<clientVars, udlVars, net>>

Main(c) ==
  /\ c \notin dead
  /\ \/ Setup(c) \/ StartBenchmark(c) \/ PutObject(c) \/ StampObject(c)
     \/ StopListening(c) \/ Join(c)

Listen(c) ==
  \/ Bind(c) \/ CheckStop(c) \/ ReceiveTimeout(c)
  \/ \E m \in net : Receive(c, m)

Handle(o) ==
  \/ EntryHandler(o) \/ PutInCategory(o) \/ CategoryHandler(o) \/ PutOutput(o)
  \/ ReturnHandler(o) \/ \E p \in asked[o] : GetPart(o, p)

PipelineNext ==
  \/ \E c \in Clients : Main(c) \/ Listen(c) \/ KillClient(c)
  \/ \E o \in Objects : Handle(o)
  \/ \E m \in net : Lose(m)

PipelineSpec == PipelineInit /\ [][PipelineNext]_pipeVars

(* The client's threads, the workers of the servers and the answers to     *)
(* gets are not held up for ever; nothing makes a message arrive, and no   *)
(* client is killed by necessity.                                          *)
FairPipelineSpec ==
  /\ PipelineSpec
  /\ \A c \in Clients : WF_pipeVars(Main(c)) /\ WF_pipeVars(Listen(c))
  /\ \A o \in Objects : WF_pipeVars(Handle(o))

-----------------------------------------------------------------------------
(* What the benchmark relies on.                                           *)

PipelineTypeOK ==
  /\ run \in [Clients -> {"setup", "put", "stamp", "sleep", "join", "done"}]
  /\ sent \in [Clients -> 0..NumObjects]
  /\ listener \in [Clients -> {"off", "bind", "check", "receive", "closed"}]
  /\ stop \in [Clients -> BOOLEAN]
  /\ stage \in [Objects -> {"unsent", "entry", "entry gets", "category", "data gets",
                            "output", "returned", "crashed"}]
  /\ category \in [Objects -> Categories \cup {-1}]
  /\ \A o \in Objects : asked[o] \subseteq Parts
  /\ missed \subseteq Objects
  /\ \A m \in net : m.from \in Objects /\ stage[m.from] = "returned"
  /\ \A c \in Clients, i \in Ids :
       received[c][i] = Nothing \/ received[c][i].from \in Objects

(* No UDL reads a configuration object that does not exist, which would    *)
(* bring its server down (common.hpp:208), when clients overlap only with  *)
(* a complete configuration and none is killed.                            *)
NoHandlerCrashes == \A o \in Objects : stage[o] # "crashed"

(* The object's result that client run c prints for id i and that counts: *)
(* scripts/common.py drops latencies that are not positive (line 57).      *)
Counted(c, i) ==
  run[c] = "done" /\ received[c][i] # Nothing /\ received[c][i].positive

(* A result that counts is about the object this run put, and the category *)
(* it names is the one the entry UDL computed for it.                      *)
ReportsItsOwnObjects ==
  \A c \in Clients, i \in Ids : Counted(c, i) =>
    /\ received[c][i].from = <<c, i>>
    /\ received[c][i].category = category[<<c, i>>]

KeyOf(p) == IF p[1] = "entry" THEN EntryKey(DataName(p[3]))
            ELSE CategoryKey("data", p[2], DataName(p[3]))

(* With objects grouped by category, the node that a result names is the   *)
(* one that has the data of the category it names.                         *)
ReportsNodeWithData ==
  Logic # 0 =>
    \A c \in Clients, i \in Ids : received[c][i] # Nothing =>
      received[c][i].node = HomeOf(KeyOf(<<"data", received[c][i].category, 0>>))

(* The parts a handler gets are on the server it runs on: those of a       *)
(* category when objects are grouped by category (logics 1 and 2), those   *)
(* of the entry UDL when the entry objects are grouped (logic 1).          *)
ReadsAreLocal ==
  \A o \in Objects : \A p \in asked[o] :
    /\ p[1] = "data" /\ Logic # 0  => HomeOf(KeyOf(p)) = HomeOf(NewKey(o))
    /\ p[1] = "entry" /\ Logic = 1 => HomeOf(KeyOf(p)) = HomeOf(EntryKey(KeyName(o)))

(* Unless a client is in setup(), a UDL finds every part it asks for: also *)
(* the parts it asked for during a setup() that has ended since.           *)
MissesOnlyDuringSetup ==
  [][missed' # missed => \E c \in Clients : InSetup(c)]_pipeVars

(* Whatever is lost, every client run ends unless it is killed.            *)
EveryRunEnds == \A c \in Clients : <>(run[c] = "done" \/ c \in dead)

(* Every object that is put goes all the way through the pipeline, also    *)
(* when its client run has ended, when another client has been killed and  *)
(* when parts are missing.  Only after a client was killed can it meet an  *)
(* incomplete configuration instead: a client that wants another size does *)
(* not look at the number (line 116), and so does not notice.              *)
EveryObjectReturns ==
  \A o \in Objects :
    stage[o] = "entry" ~> stage[o] = "returned" \/ (stage[o] = "crashed" /\ dead # {})
=============================================================================
