----------------------- MODULE AffinityPipelineProofs -----------------------
(***************************************************************************)
(* Proofs about AffinityPipeline, for all numbers of clients, objects,     *)
(* categories and parts, and for every hash of the affinity keys.          *)
(***************************************************************************)
EXTENDS AffinityPipeline, PipelineSetupProofs

USE SetupAssumption, PipelineAssumption, LogicAssumption DEF Kinds, Fields

(* What affinity_logic() is for: with objects grouped by category, every   *)
(* object of a category is on one shard, whatever the pool, the name and   *)
(* the hash.                                                               *)
THEOREM CategoryOnOneShard ==
  ASSUME Logic # 0, NEW c, NEW m, NEW n, NEW pool1 \in CategoryPools, NEW pool2 \in CategoryPools
  PROVE  HomeOf(CategoryKey(pool1, c, m)) = HomeOf(CategoryKey(pool2, c, n))
BY DEF HomeOf, affinity_logic, CategoryKey, CategoryPools

(* All entry objects are on one shard when they are grouped.               *)
LEMMA EntryOnOneShard ==
  ASSUME Logic = 1, NEW m, NEW n
  PROVE  HomeOf(EntryKey(m)) = HomeOf(EntryKey(n))
BY DEF HomeOf, affinity_logic, EntryKey

-----------------------------------------------------------------------------
(* The pipeline does to setup()'s variables what PipelineSetup does.       *)
LEMMA PipelineStep ==
  ASSUME [PipelineNext]_pipeVars
  PROVE  [Next]_vars
<1>1. CASE UNCHANGED pipeVars
  BY <1>1 DEF pipeVars
<1>2. ASSUME NEW c \in Clients, Main(c) PROVE [Next]_vars
  <2>1. CASE Setup(c)
    BY <1>2, <2>1 DEF Setup, Main, Next
  <2>2. CASE StartBenchmark(c) \/ PutObject(c) \/ StampObject(c) \/ StopListening(c)
    BY <2>2 DEF StartBenchmark, PutObject, StampObject, StopListening
  <2>3. CASE Join(c)
    BY <1>2, <2>3 DEF Join, Main, Next
  <2> QED
    BY <1>2, <2>1, <2>2, <2>3 DEF Main
<1>3. ASSUME NEW c \in Clients, Listen(c) PROVE [Next]_vars
  BY <1>3 DEF Listen, Bind, CheckStop, ReceiveTimeout, Receive
<1>4. ASSUME NEW c \in Clients, KillClient(c) PROVE [Next]_vars
  BY <1>4 DEF KillClient, Next
<1>5. ASSUME NEW o \in Objects, Handle(o) PROVE [Next]_vars
  BY <1>5 DEF Handle, EntryHandler, PutInCategory, CategoryHandler, PutOutput, ReturnHandler, GetPart
<1>6. ASSUME NEW m \in net, Lose(m) PROVE [Next]_vars
  BY <1>6 DEF Lose
<1> QED
  BY <1>1, <1>2, <1>3, <1>4, <1>5, <1>6 DEF PipelineNext

(* Every execution of the pipeline is one of setup().                      *)
THEOREM PipelineImplementsSetup == PipelineSpec => Spec
<1>1. PipelineInit => Init
  BY DEF PipelineInit
<1>2. [PipelineNext]_pipeVars => [Next]_vars
  BY PipelineStep
<1> QED
  BY <1>1, <1>2, PTL DEF PipelineSpec, Spec

-----------------------------------------------------------------------------
(* Types                                                                   *)

(* What is known of an object by the handler it is at: it has a category   *)
(* when it has passed the entry UDL, and its handler asks for parts of the *)
(* right kind and category.                                                *)
ObjectOK(o) ==
  /\ stage[o] \in {"category", "data gets", "output", "returned"} => category[o] \in Categories
  /\ asked[o] # {} => stage[o] \in {"entry gets", "data gets"}
  /\ \A p \in asked[o] :
       /\ stage[o] = "entry gets" => p[1] = "entry"
       /\ stage[o] = "data gets" => p[1] = "data" /\ p[2] = category[o]

StageTypes ==
  /\ stage \in [Objects -> {"unsent", "entry", "entry gets", "category", "data gets",
                            "output", "returned", "crashed"}]
  /\ category \in [Objects -> Categories \cup {-1}]
  /\ asked \in [Objects -> SUBSET Parts]

BoundInv == \A k \in Kinds : config[<<k, "num">>] # Absent => config[<<k, "num">>] <= MaxParts

ObjectInv == StageTypes /\ \A o \in Objects : ObjectOK(o)

(* A configuration never announces more parts than somebody wants.         *)
LEMMA NextBound ==
  ASSUME TypeOK, ShapeInv, BoundInv, [Next]_vars
  PROVE  BoundInv'
<1> USE DEF store, locals
<1>1. CASE config' = config
  BY <1>1 DEF BoundInv
<1>2. CASE config' # config
  <2>1. PICK c \in Clients : PublishField(c) \/ PutSize(c) \/ PutNumber(c)
    BY <1>2 DEF vars, Next, SetupStep, Begin, ListConfig, CompareSize, CompareNumber, Register,
       PutPart, NextCategory, Fail, RunBenchmark, Kill
  <2>2. PICK f \in Fields : config' = [config EXCEPT ![f] = want[c][f]]
    <3>1. CASE PublishField(c)
      BY <3>1, FieldOrderType DEF PublishField, ShapeInv, ClientOK
    <3>2. CASE PutSize(c) \/ PutNumber(c)
      BY <3>2 DEF PutSize, PutNumber, TypeOK
    <3> QED
      BY <2>1, <3>1, <3>2
  <2>3. \A k \in Kinds : want[c][<<k, "num">>] <= MaxParts
    BY ClientBounds
  <2> QED
    BY <2>2, <2>3 DEF BoundInv, TypeOK
<1> QED
  BY <1>1, <1>2

(* The parts a handler asks for exist as names.                            *)
LEMMA AskedAreParts ==
  ASSUME TypeOK, BoundInv, NEW k \in Kinds, NEW c \in CategoriesOf(k), config[<<k, "num">>] # Absent
  PROVE  \A i \in 0..(config[<<k, "num">>] - 1) : <<k, c, i>> \in Parts /\ Announced(<<k, c, i>>)
<1>1. config[<<k, "num">>] \in Nat /\ config[<<k, "num">>] <= MaxParts
  BY DEF TypeOK, BoundInv
<1>2. c \in Categories
  BY DEF CategoriesOf, Categories
<1> QED
  BY <1>1, <1>2 DEF Parts, Announced

-----------------------------------------------------------------------------
(* The client: the benchmark follows setup(), and puts objects in order.   *)

MainOK(c) ==
  /\ run[c] \in {"put", "stamp"} => sent[c] < NumObjects
  /\ run[c] = "setup" => sent[c] = 0
  /\ run[c] # "setup" => pc[c] \in {"ready", "done"}
  /\ \A i \in Ids :
       stage[<<c, i>>] # "unsent" => run[c] # "setup" /\ (i < sent[c] \/ (i = sent[c] /\ run[c] = "stamp"))

MainInv ==
  /\ run \in [Clients -> {"setup", "put", "stamp", "sleep", "join", "done"}]
  /\ sent \in [Clients -> 0..NumObjects]
  /\ DOMAIN stage = Objects
  /\ \A c \in Clients : MainOK(c)

(* What is known of a client's main thread survives the steps of others.   *)
LEMMA MainStays ==
  ASSUME NEW c \in Clients, MainOK(c), run'[c] = run[c], sent'[c] = sent[c],
         pc'[c] = pc[c] \/ pc[c] \notin {"ready", "done"},
         \A i \in Ids : stage'[<<c, i>>] = stage[<<c, i>>] \/ stage[<<c, i>>] # "unsent"
  PROVE  MainOK(c)'
BY DEF MainOK

(* Objects are put in order, after setup, by every step of the pipeline.   *)
LEMMA NextMain ==
  ASSUME TypeOK, MainInv, [PipelineNext]_pipeVars
  PROVE  MainInv'
<1> USE DEF clientVars, udlVars
<1>1. CASE UNCHANGED pipeVars
  BY <1>1, MainStays DEF pipeVars, MainInv, vars
<1>2. ASSUME NEW c \in Clients, Setup(c) PROVE MainInv'
  <2>1. pc[c] \notin {"ready", "done"} /\ \A d \in Clients : d # c => pc'[d] = pc[d]
    BY <1>2 DEF Setup, SetupStep, TypeOK, Begin, ListConfig, PublishField, CompareSize, PutSize,
       CompareNumber, PutNumber, Register, PutPart, NextCategory, NextKind, Fail
  <2>2. UNCHANGED <<run, sent, stage>>
    BY <1>2 DEF Setup
  <2> QED
    BY <2>1, <2>2, MainStays DEF MainInv
<1>3. ASSUME NEW c \in Clients, StartBenchmark(c) PROVE MainInv'
  <2>1. /\ run' = [run EXCEPT ![c] = "put"] /\ UNCHANGED <<pc, sent, stage>>
        /\ pc[c] = "ready" /\ run[c] = "setup"
    BY <1>3 DEF StartBenchmark, vars
  <2>2. sent[c] = 0
    BY <2>1 DEF MainInv, MainOK
  <2>3. MainOK(c)'
    BY <2>1, <2>2 DEF MainInv, MainOK
  <2>4. \A d \in Clients : d # c => MainOK(d)'
    BY <2>1, MainStays DEF MainInv
  <2> QED
    BY <2>1, <2>3, <2>4 DEF MainInv
<1>4. ASSUME NEW c \in Clients, PutObject(c) PROVE MainInv'
  <2>1. sent[c] \in Ids
    BY <1>4 DEF PutObject, MainInv, MainOK, Ids
  <2>2. \A d \in Clients, i \in Ids :
          stage'[<<d, i>>] = IF d = c /\ i = sent[c] THEN "entry" ELSE stage[<<d, i>>]
    BY <1>4, <2>1 DEF PutObject, MainInv, Objects
  <2>3. UNCHANGED <<pc, sent>> /\ run' = [run EXCEPT ![c] = "stamp"] /\ run[c] = "put"
    BY <1>4 DEF PutObject, vars
  <2> QED
    BY <1>4, <2>2, <2>3 DEF MainInv, MainOK, PutObject
<1>5. ASSUME NEW c \in Clients, StampObject(c) PROVE MainInv'
  <2>1. /\ sent' = [sent EXCEPT ![c] = sent[c] + 1] /\ UNCHANGED <<pc, stage>> /\ run[c] = "stamp"
        /\ run' = [run EXCEPT ![c] = IF sent[c] + 1 < NumObjects THEN "put" ELSE "sleep"]
    BY <1>5 DEF StampObject, vars
  <2>2. MainOK(c)'
    BY <2>1 DEF MainInv, MainOK, Ids
  <2>3. \A d \in Clients : d # c => MainOK(d)'
    BY <2>1, MainStays DEF MainInv
  <2>4. sent' \in [Clients -> 0..NumObjects]
    <3>1. sent[c] + 1 \in 0..NumObjects
      BY <2>1 DEF MainInv, MainOK
    <3> QED
      BY <2>1, <3>1 DEF MainInv
  <2> QED
    BY <2>1, <2>2, <2>3, <2>4 DEF MainInv
<1>6. ASSUME NEW c \in Clients, StopListening(c) PROVE MainInv'
  BY <1>6 DEF StopListening, MainInv, MainOK, vars
<1>7. ASSUME NEW c \in Clients, Join(c) PROVE MainInv'
  BY <1>7 DEF Join, RunBenchmark, TypeOK, MainInv, MainOK
<1>8. ASSUME NEW c \in Clients, Listen(c) \/ KillClient(c) PROVE MainInv'
  <2>1. UNCHANGED <<run, sent, stage, pc>>
    BY <1>8 DEF Listen, Bind, CheckStop, ReceiveTimeout, Receive, KillClient, Kill, Fail, vars
  <2> QED
    BY <2>1, MainStays DEF MainInv
<1>9. ASSUME NEW o \in Objects, Handle(o) PROVE MainInv'
  <2>1. UNCHANGED <<run, sent, pc>> /\ (stage[o] # "unsent" \/ UNCHANGED stage)
    BY <1>9 DEF Handle, EntryHandler, PutInCategory, CategoryHandler, PutOutput, ReturnHandler, GetPart, vars
  <2>2. UNCHANGED <<run, sent, pc>> /\ DOMAIN stage' = DOMAIN stage /\ \A q \in Objects : q # o => stage'[q] = stage[q]
    BY <1>9 DEF Handle, EntryHandler, PutInCategory, CategoryHandler, PutOutput, ReturnHandler, GetPart,
       vars, AskForParts, MainInv
  <2> QED
    BY <2>1, <2>2, MainStays DEF MainInv, Objects
<1>10. ASSUME NEW m \in net, Lose(m) PROVE MainInv'
  BY <1>10, MainStays DEF Lose, MainInv, vars
<1> QED
  BY <1>1, <1>2, <1>3, <1>4, <1>5, <1>6, <1>7, <1>8, <1>9, <1>10 DEF PipelineNext, Main

-----------------------------------------------------------------------------
(* The objects.                                                            *)

(* What is known of an object that does not move stays known.              *)
LEMMA ObjectStays ==
  ASSUME NEW o \in Objects, ObjectOK(o),
         stage'[o] = stage[o], category'[o] = category[o], asked'[o] = asked[o]
  PROVE  ObjectOK(o)'
BY DEF ObjectOK

(* An object with no get under way moves on to another handler.            *)
LEMMA ObjectMoves ==
  ASSUME ObjectInv, NEW o \in Objects, asked[o] = {}, UNCHANGED asked,
         NEW s \in {"entry", "category", "output", "returned", "crashed"},
         stage' = [stage EXCEPT ![o] = s],
         NEW c \in Categories \cup {-1}, category' = [category EXCEPT ![o] = c],
         s \in {"category", "output", "returned"} => c \in Categories
  PROVE  ObjectInv'
<1>1. StageTypes'
  BY DEF ObjectInv, StageTypes
<1>2. stage'[o] = s /\ category'[o] = c /\ asked'[o] = {}
  BY DEF ObjectInv, StageTypes
<1>3. ObjectOK(o)'
  BY <1>2 DEF ObjectOK
<1>4. \A q \in Objects : q # o => ObjectOK(q)'
  BY ObjectStays DEF ObjectInv, StageTypes
<1> QED
  BY <1>1, <1>3, <1>4 DEF ObjectInv

(* A step that leaves the category of an object alone may be read as one   *)
(* that sets it to what it is.                                             *)
LEMMA SameCategory ==
  ASSUME ObjectInv, NEW o \in Objects
  PROVE  category[o] \in Categories \cup {-1} /\ category = [category EXCEPT ![o] = category[o]]
BY DEF ObjectInv, StageTypes

(* Every step keeps what is known of the handlers' objects.                *)
LEMMA NextObject ==
  ASSUME TypeOK, BoundInv, MainInv, ObjectInv, [PipelineNext]_pipeVars
  PROVE  ObjectInv'
<1> USE DEF udlVars
<1>1. CASE UNCHANGED udlVars
  BY <1>1, ObjectStays DEF ObjectInv, StageTypes
<1>2. ASSUME NEW c \in Clients, PutObject(c) PROVE ObjectInv'
  <2>1. sent[c] \in Ids /\ run[c] = "put"
    BY <1>2 DEF PutObject, MainInv, MainOK, Ids
  <2>2. <<c, sent[c]>> \in Objects /\ stage[<<c, sent[c]>>] = "unsent"
    BY <2>1 DEF Objects, MainInv, MainOK
  <2>3. stage' = [stage EXCEPT ![<<c, sent[c]>>] = "entry"] /\ UNCHANGED <<category, asked>>
    BY <1>2 DEF PutObject
  <2>4. asked[<<c, sent[c]>>] = {}
    BY <2>2 DEF ObjectInv, ObjectOK
  <2> QED
    BY <2>2, <2>3, <2>4, ObjectMoves, SameCategory
<1>3. ASSUME NEW o \in Objects, NEW k \in Kinds, NEW c \in CategoriesOf(k), AskForParts(o, k, c),
             asked[o] = {}, k = "data" => c = category[o] /\ c \in Categories, UNCHANGED category
      PROVE  ObjectInv'
  <2>1. CASE config[<<k, "num">>] = Absent
    BY ZenonT(60), <1>3, <2>1 DEF AskForParts, ObjectInv, StageTypes, ObjectOK
  <2>2. CASE config[<<k, "num">>] # Absent
    <3> DEFINE ask == {<<k, c, i>> : i \in 0..(config[<<k, "num">>] - 1)}
    <3>1. /\ stage' = [stage EXCEPT ![o] = GetsStage(k)]
          /\ asked' = [asked EXCEPT ![o] = ask]
      BY <1>3, <2>2 DEF AskForParts
    <3>2. \A p \in ask : p \in Parts /\ p[1] = k /\ p[2] = c
      BY <2>2, AskedAreParts
    <3> HIDE DEF ask
    <3>3. ObjectOK(o)'
      BY ZenonT(60), <1>3, <3>1, <3>2 DEF GetsStage, ObjectInv, StageTypes, ObjectOK
    <3>4. \A q \in Objects : q # o => ObjectOK(q)'
      BY <1>3, <3>1, ObjectStays DEF ObjectInv, StageTypes
    <3>5. ask \in SUBSET Parts
      BY <3>2
    <3> QED
      BY <1>3, <3>1, <3>3, <3>4, <3>5 DEF GetsStage, ObjectInv, StageTypes
  <2> QED
    BY <2>1, <2>2
<1>4. ASSUME NEW o \in Objects, EntryHandler(o) PROVE ObjectInv'
  <2>1. asked[o] = {}
    BY <1>4 DEF EntryHandler, ObjectInv, ObjectOK
  <2> QED
    BY <1>4, <2>1, <1>3 DEF EntryHandler, CategoriesOf
<1>5. ASSUME NEW o \in Objects, CategoryHandler(o) PROVE ObjectInv'
  <2>1. asked[o] = {} /\ category[o] \in Categories
    BY <1>5 DEF CategoryHandler, ObjectInv, ObjectOK
  <2> QED
    BY <1>5, <2>1, <1>3 DEF CategoryHandler, CategoriesOf
<1>6. ASSUME NEW o \in Objects, NEW p \in asked[o], GetPart(o, p) PROVE ObjectInv'
  BY ZenonT(60), <1>6 DEF GetPart, ObjectInv, StageTypes, ObjectOK
<1>7. ASSUME NEW o \in Objects, PutInCategory(o) PROVE ObjectInv'
  BY <1>7, ObjectMoves DEF PutInCategory
<1>8. ASSUME NEW o \in Objects, PutOutput(o) \/ ReturnHandler(o) PROVE ObjectInv'
  <2>1. asked[o] = {} /\ category[o] \in Categories
    BY <1>8 DEF PutOutput, ReturnHandler, ObjectInv, ObjectOK
  <2>2. stage' = [stage EXCEPT ![o] = "output"] \/ stage' = [stage EXCEPT ![o] = "returned"]
    BY <1>8 DEF PutOutput, ReturnHandler
  <2>3. UNCHANGED <<asked, category>>
    BY <1>8 DEF PutOutput, ReturnHandler
  <2> QED
    BY <2>1, <2>2, <2>3, ObjectMoves, SameCategory
<1>9. CASE \E c \in Clients : Setup(c) \/ StartBenchmark(c) \/ StampObject(c) \/ StopListening(c)
                             \/ Join(c) \/ Listen(c) \/ KillClient(c)
  BY <1>1, <1>9 DEF Setup, StartBenchmark, StampObject, StopListening, Join, Listen, Bind, CheckStop,
     ReceiveTimeout, Receive, KillClient
<1>10. ASSUME NEW m \in net, Lose(m) PROVE ObjectInv'
  BY <1>1, <1>10 DEF Lose
<1> QED
  BY <1>1, <1>2, <1>4, <1>5, <1>6, <1>7, <1>8, <1>9, <1>10 DEF PipelineNext, pipeVars, Main, Handle

-----------------------------------------------------------------------------
(* What all of the above make invariant together.                          *)

PipeInv == TypeOK /\ ShapeInv /\ AccountInv /\ BoundInv /\ MainInv /\ ObjectInv

(* The invariants hold before anything runs.                               *)
LEMMA InitPipe == PipelineInit => PipeInv
<1> SUFFICES ASSUME PipelineInit PROVE PipeInv
  OBVIOUS
<1>1. Init
  BY DEF PipelineInit
<1>2. TypeOK /\ ShapeInv
  BY <1>1, InitShape
<1>3. AccountInv
  BY <1>1, WantType DEF Init, AccountInv, AnnouncedInv, SkippedInv, Announced, Decided, Parts
<1>4. BoundInv
  BY <1>1 DEF Init, BoundInv
<1>5. MainInv
  BY DEF PipelineInit, MainInv, MainOK, Objects
<1>6. ObjectInv
  BY DEF PipelineInit, ObjectInv, StageTypes, ObjectOK
<1> QED
  BY <1>2, <1>3, <1>4, <1>5, <1>6 DEF PipeInv

(* Every step of the pipeline keeps the invariants.                        *)
LEMMA NextPipe ==
  ASSUME PipeInv, [PipelineNext]_pipeVars
  PROVE  PipeInv'
<1>1. [Next]_vars
  BY PipelineStep
<1>2. TypeOK' /\ ShapeInv'
  BY <1>1, NextShape DEF PipeInv
<1>3. AccountInv'
  BY <1>1, AnnouncedStep, SkippedStep DEF PipeInv, AccountInv, AnnouncedInv, SkippedInv
<1>4. BoundInv'
  BY <1>1, NextBound DEF PipeInv
<1>5. MainInv'
  BY NextMain DEF PipeInv
<1>6. ObjectInv'
  BY NextObject DEF PipeInv
<1> QED
  BY <1>2, <1>3, <1>4, <1>5, <1>6 DEF PipeInv

(* The pipeline keeps its types, its objects in order, and the invariants  *)
(* of setup.                                                               *)
LEMMA PipeCorrect == PipelineSpec => []PipeInv
<1>1. PipeInv /\ [PipelineNext]_pipeVars => PipeInv'
  BY NextPipe
<1> QED
  BY InitPipe, <1>1, PTL DEF PipelineSpec

(* The parts a handler gets are on the server that runs it, when objects   *)
(* are grouped.                                                            *)
THEOREM HandlersReadLocally == PipelineSpec => []ReadsAreLocal
<1>1. PipeInv => ReadsAreLocal
  <2> SUFFICES ASSUME PipeInv, NEW o \in Objects, NEW p \in asked[o]
               PROVE  /\ p[1] = "data" /\ Logic # 0 => HomeOf(KeyOf(p)) = HomeOf(NewKey(o))
                      /\ p[1] = "entry" /\ Logic = 1 => HomeOf(KeyOf(p)) = HomeOf(EntryKey(KeyName(o)))
    BY DEF ReadsAreLocal
  <2>1. /\ stage[o] \in {"entry gets", "data gets"}
        /\ stage[o] = "entry gets" => p[1] = "entry"
        /\ stage[o] = "data gets" => p[1] = "data" /\ p[2] = category[o]
    BY DEF PipeInv, ObjectInv, ObjectOK
  <2>2. CASE p[1] = "entry"
    BY <2>2, EntryOnOneShard DEF KeyOf
  <2>3. CASE p[1] = "data" /\ p[2] = category[o]
    BY <2>3, CategoryOnOneShard DEF KeyOf, NewKey, CategoryPools
  <2> QED
    BY <2>1, <2>2, <2>3
<1> QED
  BY <1>1, PipeCorrect, PTL

-----------------------------------------------------------------------------
(* Missing parts and missing configuration.                                *)

(* The parts a handler still waits for are in the store or on their way,   *)
(* whatever the configuration says by now.                                 *)
AskedInv == \A o \in Objects : \A p \in asked[o] : AccountedFor(p)

(* The parts a handler waits for stay accounted for.                       *)
LEMMA NextAsked ==
  ASSUME PipeInv, AskedInv, [PipelineNext]_pipeVars
  PROVE  AskedInv'
<1>1. \A p \in Parts : AccountedFor(p) => AccountedFor(p)'
  BY PipelineStep, StaysAccounted DEF PipeInv
<1>2. \A o \in Objects : asked[o] \subseteq Parts
  BY DEF PipeInv, ObjectInv, StageTypes
<1>3. ASSUME NEW o \in Objects, NEW k \in Kinds, NEW c \in CategoriesOf(k), AskForParts(o, k, c)
      PROVE  AskedInv'
  <2>1. \A q \in Objects : q # o => asked'[q] = asked[q]
    BY <1>3 DEF AskForParts, PipeInv, ObjectInv, StageTypes
  <2>2. \A p \in asked'[o] : p \in Parts /\ AccountedFor(p)
    <3>1. CASE config[<<k, "num">>] = Absent
      BY <1>3, <3>1 DEF AskForParts, PipeInv, ObjectInv, StageTypes
    <3>2. CASE config[<<k, "num">>] # Absent
      <4>1. asked'[o] = {<<k, c, i>> : i \in 0..(config[<<k, "num">>] - 1)}
        BY <1>3, <3>2 DEF AskForParts, PipeInv, ObjectInv, StageTypes
      <4> QED
        BY <4>1, <3>2, AskedAreParts DEF PipeInv, AccountInv, AnnouncedInv
    <3> QED
      BY <3>1, <3>2
  <2> QED
    BY <1>1, <1>2, <2>1, <2>2 DEF AskedInv
<1>4. ASSUME NEW o \in Objects, EntryHandler(o) \/ CategoryHandler(o) PROVE AskedInv'
  <2>1. CASE EntryHandler(o)
    BY <1>3, <2>1 DEF EntryHandler, CategoriesOf
  <2>2. CASE CategoryHandler(o)
    <3>1. category[o] \in CategoriesOf("data")
      BY <2>2 DEF CategoryHandler, PipeInv, ObjectInv, ObjectOK, CategoriesOf
    <3> QED
      BY <1>3, <2>2, <3>1 DEF CategoryHandler
  <2> QED
    BY <1>4, <2>1, <2>2
<1>5. CASE \A o \in Objects : asked'[o] \subseteq asked[o]
  BY <1>1, <1>2, <1>5 DEF AskedInv
<1>6. ASSUME NEW o \in Objects, NEW p \in asked[o], GetPart(o, p)
      PROVE  \A q \in Objects : asked'[q] \subseteq asked[q]
  BY <1>6 DEF GetPart, PipeInv, ObjectInv, StageTypes
<1>7. CASE UNCHANGED asked
  BY <1>5, <1>7
<1> QED
  BY <1>4, <1>5, <1>6, <1>7 DEF PipelineNext, pipeVars, udlVars, clientVars, Main, Setup, StartBenchmark,
     PutObject, StampObject, StopListening, Join, Listen, Bind, CheckStop, ReceiveTimeout, Receive,
     KillClient, Handle, PutInCategory, PutOutput, ReturnHandler, Lose

(* With overlapping clients only after publication, and no deaths, every   *)
(* step keeps the configuration complete or with its publisher.            *)
LEMMA NextConfig ==
  ASSUME Overlap # "always", MaxCrashes = 0, PipeInv, ConfigInv, [PipelineNext]_pipeVars
  PROVE  ConfigInv'
BY PipelineStep, ConfiguredStep, PublishStep DEF PipeInv, ConfigInv

(* When clients overlap only once the configuration is complete and are    *)
(* not killed, a get that finds no part was answered during a setup(),     *)
(* even if the number of parts it is one of was read earlier.              *)
THEOREM MissesOnlyInSetup ==
  ASSUME Overlap # "always", MaxCrashes = 0
  PROVE  PipelineSpec => MissesOnlyDuringSetup
<1>1. PipelineInit => ConfigInv /\ AskedInv
  BY FieldOrderType DEF PipelineInit, Init, ConfigInv, PublishInv, AskedInv
<1>2. PipeInv /\ ConfigInv /\ AskedInv /\ [PipelineNext]_pipeVars => ConfigInv' /\ AskedInv'
  BY NextConfig, NextAsked
<1>3. ASSUME PipeInv, ConfigInv, AskedInv, PipelineNext, missed' # missed
      PROVE  \E c \in Clients : InSetup(c)
  <2>1. PICK o \in Objects : \E p \in asked[o] : GetPart(o, p)
    BY <1>3 DEF PipelineNext, udlVars, clientVars, Main, Setup, StartBenchmark, PutObject, StampObject,
       StopListening, Join, Listen, Bind, CheckStop, ReceiveTimeout, Receive, KillClient, Handle,
       EntryHandler, CategoryHandler, PutInCategory, PutOutput, ReturnHandler, Lose
  <2>2. PICK p \in asked[o] : parts[p] = Absent
    BY <1>3, <2>1 DEF GetPart
  <2>3. PICK c \in Clients : Upcoming(c, p)
    BY <1>3, <2>2 DEF AskedInv, AccountedFor
  <2>4. InSetup(c)
    BY <1>3, <2>3 DEF ConfigInv, Upcoming, Decided, InSetup
  <2> QED
    BY <2>4
<1>4. PipeInv /\ ConfigInv /\ AskedInv /\ [PipelineNext]_pipeVars =>
        [missed' # missed => \E c \in Clients : InSetup(c)]_pipeVars
  BY <1>3
<1> QED
  BY PipeCorrect, <1>1, <1>2, <1>4, PTL DEF PipelineSpec, MissesOnlyDuringSetup

(* Under the same conditions no UDL looks up a missing configuration       *)
(* object: an object is put by a client that has left setup(), and by then *)
(* the configuration is complete.                                          *)
THEOREM HandlersNeverCrash ==
  ASSUME Overlap # "always", MaxCrashes = 0
  PROVE  PipelineSpec => []NoHandlerCrashes
<1>1. PipelineInit => ConfigInv /\ NoHandlerCrashes
  BY FieldOrderType DEF PipelineInit, Init, ConfigInv, PublishInv, NoHandlerCrashes
<1>2. PipeInv /\ ConfigInv /\ [PipelineNext]_pipeVars => ConfigInv'
  BY NextConfig
<1>3. ASSUME PipeInv, ConfigInv, NEW o \in Objects, stage[o] # "unsent" PROVE Configured
  <2>1. PICK c \in Clients, i \in Ids : o = <<c, i>>
    BY DEF Objects
  <2>2. pc[c] \in {"ready", "done"}
    BY <1>3, <2>1 DEF PipeInv, MainInv, MainOK
  <2> QED
    BY <1>3, <2>2 DEF ConfigInv, PublishInv
<1>4. ASSUME PipeInv, ConfigInv, NoHandlerCrashes, [PipelineNext]_pipeVars PROVE NoHandlerCrashes'
  <2>1. CASE UNCHANGED stage
    BY <1>4, <2>1 DEF NoHandlerCrashes
  <2>2. \/ UNCHANGED stage
        \/ \E o \in Objects, s \in {"entry", "entry gets", "data gets", "category", "output", "returned"} :
             stage' = [stage EXCEPT ![o] = s]
    <3>1. ASSUME NEW o \in Objects, EntryHandler(o) \/ CategoryHandler(o)
          PROVE  stage' = [stage EXCEPT ![o] = "entry gets"] \/ stage' = [stage EXCEPT ![o] = "data gets"]
      <4>1. Configured
        BY <1>3, <1>4, <3>1 DEF EntryHandler, CategoryHandler
      <4> QED
        BY <3>1, <4>1 DEF EntryHandler, CategoryHandler, AskForParts, Configured, GetsStage
    <3>2. ASSUME NEW o \in Objects, Handle(o), ~EntryHandler(o), ~CategoryHandler(o)
          PROVE  \/ stage' = [stage EXCEPT ![o] = "category"] \/ stage' = [stage EXCEPT ![o] = "output"]
                 \/ stage' = [stage EXCEPT ![o] = "returned"] \/ UNCHANGED stage
      BY <3>2 DEF Handle, PutInCategory, PutOutput, ReturnHandler, GetPart
    <3>3. ASSUME NEW c \in Clients, PutObject(c)
          PROVE  <<c, sent[c]>> \in Objects /\ stage' = [stage EXCEPT ![<<c, sent[c]>>] = "entry"]
      BY <1>4, <3>3 DEF PutObject, PipeInv, MainInv, MainOK, Objects, Ids
    <3> QED
      BY <2>1, <1>4, <3>1, <3>2, <3>3 DEF PipelineNext, pipeVars, udlVars, clientVars, Main, Setup, StartBenchmark,
         StampObject, StopListening, Join, Listen, Bind, CheckStop, ReceiveTimeout, Receive,
         KillClient, Lose
  <2> QED
    BY <1>4, <2>1, <2>2 DEF NoHandlerCrashes, PipeInv, ObjectInv, StageTypes
<1> QED
  BY PipeCorrect, <1>1, <1>2, <1>4, PTL DEF PipelineSpec

-----------------------------------------------------------------------------
(* What a notification says.                                               *)

(* It is about an object that is at the end of the pipeline, and names its *)
(* category and the node of its output.                                    *)
AboutItsObject(m) ==
  /\ m.from \in Objects /\ stage[m.from] = "returned"
  /\ m.category = category[m.from] /\ m.category \in Categories
  /\ m.node = HomeOf(OutputKey(m.from))

NetInv ==
  \A m \in net : AboutItsObject(m) /\ m.to = NodeId[m.from[1]] /\ m.id = m.from[2]

(* A client records results of objects of its own number, put from its own *)
(* node.                                                                   *)
ResultOK(c, i) ==
  received[c][i] # Nothing =>
    /\ AboutItsObject(received[c][i])
    /\ received[c][i].from[2] = i /\ NodeId[received[c][i].from[1]] = NodeId[c]

ResultInv ==
  /\ received = [c \in Clients |-> received[c]]
  /\ \A c \in Clients : received[c] = [i \in Ids |-> received[c][i]]
  /\ \A c \in Clients, i \in Ids : ResultOK(c, i)

ReportInv == NetInv /\ ResultInv

(* An object at the end of the pipeline stays there.                       *)
LEMMA ReturnedStays ==
  ASSUME PipeInv, [PipelineNext]_pipeVars, NEW o \in Objects, stage[o] = "returned"
  PROVE  stage'[o] = "returned" /\ category'[o] = category[o]
<1>1. ASSUME NEW q \in Objects, q # o, Handle(q) PROVE stage'[o] = stage[o] /\ category'[o] = category[o]
  BY <1>1 DEF Handle, EntryHandler, CategoryHandler, AskForParts, PutInCategory, PutOutput, ReturnHandler,
     GetPart, PipeInv, ObjectInv, StageTypes
<1>2. ASSUME Handle(o) PROVE FALSE
  <2>1. asked[o] = {}
    BY DEF PipeInv, ObjectInv, ObjectOK
  <2> QED
    BY <1>2, <2>1 DEF Handle, EntryHandler, CategoryHandler, PutInCategory, PutOutput, ReturnHandler
<1>3. ASSUME NEW c \in Clients, PutObject(c) PROVE stage'[o] = stage[o] /\ category'[o] = category[o]
  <2>1. sent[c] \in Ids /\ run[c] = "put" /\ sent[c] \in Nat
    BY <1>3 DEF PutObject, PipeInv, MainInv, MainOK, Ids
  <2>2. stage[<<c, sent[c]>>] = "unsent"
    BY <2>1 DEF PipeInv, MainInv, MainOK
  <2> QED
    BY <1>3, <2>2 DEF PutObject, PipeInv, ObjectInv, StageTypes
<1> QED
  BY <1>1, <1>2, <1>3 DEF PipelineNext, pipeVars, udlVars, clientVars, Main, Setup, StartBenchmark,
     StampObject, StopListening, Join, Listen, Bind, CheckStop, ReceiveTimeout, Receive, KillClient, Lose

(* A message goes on agreeing with the object it is about: the object has  *)
(* returned.                                                               *)
LEMMA AboutStays ==
  ASSUME PipeInv, [PipelineNext]_pipeVars
  PROVE  \A m : AboutItsObject(m) =>
           /\ m.from \in Objects /\ stage'[m.from] = "returned"
           /\ m.category = category'[m.from] /\ m.category \in Categories
           /\ m.node = HomeOf(OutputKey(m.from)')
<1> SUFFICES ASSUME NEW m, AboutItsObject(m)
             PROVE  /\ stage'[m.from] = "returned" /\ category'[m.from] = category[m.from]
  BY DEF AboutItsObject, OutputKey, KeyName
<1> QED
  BY ReturnedStays DEF AboutItsObject

(* Every step keeps the messages on their way true to their objects.       *)
LEMMA NextNet ==
  ASSUME PipeInv, NetInv, [PipelineNext]_pipeVars
  PROVE  NetInv'
<1>1. CASE net' \subseteq net
  BY <1>1, AboutStays DEF NetInv, AboutItsObject
<1>2. ASSUME NEW o \in Objects, ReturnHandler(o) PROVE NetInv'
  <2>0. PICK answer : answer = [to |-> NodeId[o[1]], id |-> o[2], category |-> category[o],
                                node |-> HomeOf(OutputKey(o)), from |-> o]
    OBVIOUS
  <2>1. net' = net \cup {answer}
    BY <1>2, <2>0 DEF ReturnHandler
  <2>2. /\ stage'[o] = "returned" /\ category'[o] = category[o] /\ category[o] \in Categories
        /\ OutputKey(o)' = OutputKey(o)
    BY <1>2 DEF ReturnHandler, PipeInv, ObjectInv, ObjectOK, StageTypes, OutputKey, KeyName
  <2>3. AboutItsObject(answer)' /\ answer.to = NodeId[answer.from[1]] /\ answer.id = answer.from[2]
    BY <2>0, <2>2 DEF AboutItsObject
  <2>4. ASSUME NEW m \in net
        PROVE  AboutItsObject(m)' /\ m.to = NodeId[m.from[1]] /\ m.id = m.from[2]
    BY AboutStays DEF NetInv, AboutItsObject
  <2> QED
    BY <2>1, <2>3, <2>4 DEF NetInv
<1> QED
  BY <1>1, <1>2 DEF PipelineNext, pipeVars, udlVars, clientVars, Main, Setup, StartBenchmark, PutObject,
     StampObject, StopListening, Join, Listen, Bind, CheckStop, ReceiveTimeout, Receive, KillClient,
     Handle, EntryHandler, CategoryHandler, PutInCategory, PutOutput, GetPart, Lose

(* Every step keeps what a client has received true to the objects.        *)
LEMMA NextResult ==
  ASSUME PipeInv, ReportInv, [PipelineNext]_pipeVars
  PROVE  ResultInv'
<1>1. CASE UNCHANGED received
  BY <1>1, AboutStays DEF ReportInv, ResultInv, ResultOK, AboutItsObject
<1>2. ASSUME NEW c \in Clients, NEW m \in net, Receive(c, m) PROVE ResultInv'
  <2> DEFINE new == [from |-> m.from, category |-> m.category, node |-> m.node, positive |-> m.id < sent[c]]
  <2>1. /\ AboutItsObject(m) /\ m.to = NodeId[m.from[1]] /\ m.id = m.from[2] /\ m.to = NodeId[c]
    BY <1>2 DEF Receive, ReportInv, NetInv
  <2>2. received' = [received EXCEPT ![c] = [received[c] EXCEPT ![m.id] = new]]
    BY <1>2 DEF Receive
  <2>3. AboutItsObject(new) /\ new.from[2] = m.id /\ NodeId[new.from[1]] = NodeId[c]
    BY <2>1 DEF AboutItsObject
  <2> HIDE DEF new
  <2>4. m.id \in Ids
    BY <2>1 DEF AboutItsObject, Objects
  <2>5. \A d \in Clients, i \in Ids :
          received'[d][i] = IF d = c /\ i = m.id THEN new ELSE received[d][i]
    BY <2>2, <2>4 DEF ReportInv, ResultInv
  <2>6. ASSUME NEW d \in Clients, NEW i \in Ids PROVE ResultOK(d, i)'
    <3>1. CASE d = c /\ i = m.id
      <4>1. received'[d][i] = new
        BY <2>5, <3>1
      <4> QED
        BY <2>3, <3>1, <4>1, AboutStays DEF ResultOK, AboutItsObject
    <3>2. CASE ~(d = c /\ i = m.id)
      <4>1. received'[d][i] = received[d][i]
        BY <2>5, <3>2
      <4> QED
        BY <4>1, AboutStays DEF ReportInv, ResultInv, ResultOK, AboutItsObject
    <3> QED
      BY <3>1, <3>2
  <2>7. /\ received' = [d \in Clients |-> received'[d]]
        /\ \A d \in Clients : received'[d] = [i \in Ids |-> received'[d][i]]
    BY ZenonT(60), <2>2, <2>4 DEF ReportInv, ResultInv
  <2> QED
    BY <2>6, <2>7 DEF ResultInv
<1> QED
  BY <1>1, <1>2 DEF PipelineNext, pipeVars, udlVars, clientVars, Main, Setup, StartBenchmark, PutObject,
     StampObject, StopListening, Join, Listen, Bind, CheckStop, ReceiveTimeout, KillClient,
     Handle, EntryHandler, CategoryHandler, PutInCategory, PutOutput, ReturnHandler, GetPart, Lose

(* What is on its way, or received, agrees with the objects.               *)
LEMMA ReportCorrect == PipelineSpec => [](PipeInv /\ ReportInv)
<1>1. PipelineInit => ReportInv
  BY DEF PipelineInit, ReportInv, NetInv, ResultInv, ResultOK
<1>2. PipeInv /\ ReportInv /\ [PipelineNext]_pipeVars => ReportInv'
  BY NextNet, NextResult DEF ReportInv
<1> QED
  BY PipeCorrect, <1>1, <1>2, PTL DEF PipelineSpec

(* When every client run has a node id of its own, what it counts is about *)
(* its own objects, however late and in whatever order the notifications   *)
(* arrive.                                                                 *)
THEOREM ReportsOwnObjects ==
  ASSUME \A c, d \in Clients : NodeId[c] = NodeId[d] => c = d
  PROVE  PipelineSpec => []ReportsItsOwnObjects
<1>1. PipeInv /\ ReportInv => ReportsItsOwnObjects
  <2> SUFFICES ASSUME PipeInv, ReportInv, NEW c \in Clients, NEW i \in Ids, Counted(c, i)
               PROVE  received[c][i].from = <<c, i>> /\ received[c][i].category = category[<<c, i>>]
    BY DEF ReportsItsOwnObjects
  <2> DEFINE r == received[c][i]
  <2>1. /\ r.from \in Objects /\ r.category = category[r.from]
        /\ r.from[2] = i /\ NodeId[r.from[1]] = NodeId[c]
    BY DEF Counted, ReportInv, ResultInv, ResultOK, AboutItsObject
  <2>2. r.from = <<c, i>>
    BY <2>1 DEF Objects
  <2> QED
    BY <2>1, <2>2
<1> QED
  BY <1>1, ReportCorrect, PTL

(* Whatever the node ids: the node a result names has the data of the      *)
(* category it names, when objects are grouped by category.                *)
THEOREM ReportsDataNode == PipelineSpec => []ReportsNodeWithData
<1>1. PipeInv /\ ReportInv => ReportsNodeWithData
  <2> SUFFICES ASSUME PipeInv, ReportInv, Logic # 0, NEW c \in Clients, NEW i \in Ids,
                      received[c][i] # Nothing
               PROVE  received[c][i].node =
                        HomeOf(KeyOf(<<"data", received[c][i].category, 0>>))
    BY DEF ReportsNodeWithData
  <2> DEFINE r == received[c][i]
  <2>1. r.node = HomeOf(OutputKey(r.from)) /\ r.category = category[r.from]
    BY DEF ReportInv, ResultInv, ResultOK, AboutItsObject
  <2> HIDE DEF r
  <2>2. r.node = HomeOf(KeyOf(<<"data", r.category, 0>>))
    BY <2>1, CategoryOnOneShard DEF OutputKey, KeyOf, CategoryPools
  <2> QED
    BY <2>2 DEF r
<1> QED
  BY <1>1, ReportCorrect, PTL

-----------------------------------------------------------------------------
(* The rest of the types.                                                  *)

ListenInv ==
  /\ listener \in [Clients -> {"off", "bind", "check", "receive", "closed"}]
  /\ stop \in [Clients -> BOOLEAN]
  /\ missed \subseteq Objects

(* PipelineTypeOK is an invariant of the pipeline.                         *)
THEOREM PipelineTypeCorrect == PipelineSpec => []PipelineTypeOK
<1>1. PipelineInit => ListenInv
  BY DEF PipelineInit, ListenInv
<1>2. ListenInv /\ [PipelineNext]_pipeVars => ListenInv'
  BY ZenonT(60) DEF ListenInv, PipelineNext, pipeVars, udlVars, clientVars, Main, Setup, StartBenchmark, PutObject,
     StampObject, StopListening, Join, Listen, Bind, CheckStop, ReceiveTimeout, Receive, KillClient,
     Handle, EntryHandler, CategoryHandler, PutInCategory, PutOutput, ReturnHandler, GetPart, Lose
<1>3. PipeInv /\ ReportInv /\ ListenInv => PipelineTypeOK
  <2> SUFFICES ASSUME PipeInv, ReportInv, ListenInv PROVE PipelineTypeOK
    OBVIOUS
  <2>1. \A o \in Objects : asked[o] \subseteq Parts
    BY DEF PipeInv, ObjectInv, StageTypes
  <2>2. \A m \in net : m.from \in Objects /\ stage[m.from] = "returned"
    BY DEF ReportInv, NetInv, AboutItsObject
  <2>3. \A c \in Clients, i \in Ids : received[c][i] = Nothing \/ received[c][i].from \in Objects
    BY DEF ReportInv, ResultInv, ResultOK, AboutItsObject
  <2> QED
    BY <2>1, <2>2, <2>3 DEF PipeInv, MainInv, ObjectInv, StageTypes, ListenInv, PipelineTypeOK
<1> QED
  BY ReportCorrect, <1>1, <1>2, <1>3, PTL DEF PipelineSpec
=============================================================================
