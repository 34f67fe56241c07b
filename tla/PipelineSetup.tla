--------------------------- MODULE PipelineSetup ---------------------------
(***************************************************************************)
(* setup() of the affinity sets pipeline client: every client run compares *)
(* the parameters it was started with to the configuration objects it      *)
(* finds in the store, updates the configuration, and puts the data parts  *)
(* it believes are missing.  The UDLs on the servers read the numbers of   *)
(* parts from the configuration and then get that many parts.              *)
(*                                                                         *)
(* Nothing makes the check and the puts atomic: one step here is one get   *)
(* or one put, and a client may die between any two of them.  A get of a   *)
(* key that does not exist returns an object without bytes, which          *)
(* get_config_int dereferences: the process dies.                          *)
(*                                                                         *)
(* Object pools are left out: create_pool only ever adds one, and every    *)
(* client has made sure that all of them exist before it lists the         *)
(* configuration.                                                          *)
(***************************************************************************)
EXTENDS Integers, Sequences, FiniteSets

CONSTANTS Clients,       \* runs of pipeline_client on the same servers
          Wants,         \* the parameters a run may be started with
          NumCategories, \* NUM_CATEGORIES
          MaxParts,      \* bound on the numbers of parts in Wants
          MaxCrashes,    \* how many clients may be killed during setup
          Overlap,       \* whether clients may run at the same time, see MayBegin
          Absent         \* what a key without an object holds

Kinds  == {"entry", "data"}
Fields == Kinds \X {"size", "num"}

ASSUME SetupAssumption ==
  /\ Wants \subseteq [Fields -> Nat]
  /\ \A w \in Wants, k \in Kinds : w[<<k, "num">>] <= MaxParts
  /\ NumCategories \in Nat \ {0}
  /\ MaxParts \in Nat
  /\ MaxCrashes \in Nat
  /\ Overlap \in {"never", "configured", "always"}
  /\ Absent \notin Nat

Categories == 0..(NumCategories - 1)

(* A part is named by its kind, its category (0 for entry parts, which have *)
(* none) and its index.                                                    *)
CategoriesOf(k) == IF k = "entry" THEN {0} ELSE Categories
Parts == {p \in Kinds \X Categories \X (0..(MaxParts - 1)) : p[2] \in CategoriesOf(p[1])}

(* The order in which the configuration of fresh servers is put.           *)
FieldOrder == <<<<"entry", "size">>, <<"entry", "num">>, <<"data", "size">>, <<"data", "num">>>>

VARIABLES
  config,     \* the objects under /config: field |-> value
  registered, \* clients whose address is under /config/client_
  parts,      \* the data parts in the store: part |-> size
  want,       \* per client: its command line
  pc,         \* per client: what setup() does next
  kind,       \* per client: the kind it is at
  cat,        \* per client: c, the category it puts parts of
  index,      \* per client: i, or the number of the field it publishes
  toPut,      \* per client: entry_parts_to_put and parts_to_put
  dead        \* clients that were killed or dereferenced a missing object

store  == <<config, registered, parts>>
locals == <<kind, cat, index, toPut>>
vars   == <<store, want, pc, locals, dead>>

Init ==
  /\ config = [f \in Fields |-> Absent]
  /\ registered = {}
  /\ parts = [p \in Parts |-> Absent]
  /\ want \in [Clients -> Wants]
  /\ pc = [c \in Clients |-> "new"]
  /\ kind = [c \in Clients |-> "entry"]
  /\ cat = [c \in Clients |-> 0]
  /\ index = [c \in Clients |-> 0]
  /\ toPut = [c \in Clients |-> [k \in Kinds |-> want[c][<<k, "num">>]]]
  /\ dead = {}

Configured == \A f \in Fields : config[f] # Absent
Ended(c)   == pc[c] \in {"new", "done"} \/ c \in dead
InSetup(c) == pc[c] \notin {"new", "ready", "done"} /\ c \notin dead

(* When a client may be started: one after the other, at any time once the *)
(* configuration has been published completely, or at any time.            *)
MayBegin ==
  \/ \A c \in Clients : Ended(c)
  \/ Overlap = "configured" /\ Configured
  \/ Overlap = "always"

Begin(c) ==
  /\ pc[c] = "new" /\ MayBegin
  /\ pc' = [pc EXCEPT ![c] = "list"]
  /\ UNCHANGED <<store, want, locals, dead>>

-----------------------------------------------------------------------------
(* The configuration.                                                      *)

Fail(c) ==
  /\ dead' = dead \cup {c}
  /\ UNCHANGED <<store, want, pc, locals>>

(* After a kind's configuration has been dealt with: the other kind, or on. *)
NextKind(c) ==
  /\ kind' = [kind EXCEPT ![c] = "data"]
  /\ pc' = [pc EXCEPT ![c] = IF kind[c] = "entry" THEN "compare" ELSE "register"]

ListConfig(c) ==
  /\ pc[c] = "list"
  /\ \/ /\ \A f \in Fields : config[f] = Absent
        /\ registered = {}
        /\ pc' = [pc EXCEPT ![c] = "publish"]
        /\ index' = [index EXCEPT ![c] = 1]
     \/ /\ ~(registered = {} /\ \A f \in Fields : config[f] = Absent)
        /\ pc' = [pc EXCEPT ![c] = "compare"]
        /\ index' = index
  /\ UNCHANGED <<store, want, kind, cat, toPut, dead>>

PublishFieldSlip(c) ==
  /\ pc[c] = "publish"
  /\ config' = [config EXCEPT ![FieldOrder[index[c]]] = want[c][FieldOrder[index[c]]]]
  /\ index' = [index EXCEPT ![c] = @ + 1]
  /\ pc' = [pc EXCEPT ![c] = IF index[c] = Len(FieldOrder) - 1 THEN "register" ELSE "publish"]
  /\ UNCHANGED <<registered, parts, want, kind, cat, toPut, dead>>

PublishField(c) ==
  /\ pc[c] = "publish"
  /\ config' = [config EXCEPT ![FieldOrder[index[c]]] = want[c][FieldOrder[index[c]]]]
  /\ index' = [index EXCEPT ![c] = @ + 1]
  /\ pc' = [pc EXCEPT ![c] = IF index[c] = Len(FieldOrder) THEN "register" ELSE "publish"]
  /\ UNCHANGED <<registered, parts, want, kind, cat, toPut, dead>>

CompareSize(c) ==
  LET size == <<kind[c], "size">> IN
  /\ pc[c] = "compare"
  /\ \/ config[size] = Absent /\ Fail(c)
     \/ /\ config[size] # Absent
        /\ pc' = [pc EXCEPT ![c] = IF config[size] = want[c][size] THEN "number" ELSE "resize"]
        /\ UNCHANGED <<store, want, locals, dead>>

(* A different size: all parts are put again.  Their number stays what the *)
(* configuration says.                                                     *)
PutSize(c) ==
  LET size == <<kind[c], "size">> IN
  /\ pc[c] = "resize"
  /\ config' = [config EXCEPT ![size] = want[c][size]]
  /\ NextKind(c)
  /\ UNCHANGED <<registered, parts, want, cat, index, toPut, dead>>

CompareNumberSlip(c) ==
  LET num == <<kind[c], "num">> IN
  /\ pc[c] = "number" /\ config[num] # Absent
  /\ \/ /\ config[num] + 1 < want[c][num]
        /\ toPut' = [toPut EXCEPT ![c][kind[c]] = @ - config[num]]
        /\ pc' = [pc EXCEPT ![c] = "extend"]
        /\ UNCHANGED <<store, want, kind, cat, index, dead>>
     \/ /\ config[num] + 1 >= want[c][num]
        /\ toPut' = [toPut EXCEPT ![c][kind[c]] = 0]
        /\ NextKind(c)
        /\ UNCHANGED <<store, want, cat, index, dead>>

CompareNumberShrinkSlip(c) ==
  LET num == <<kind[c], "num">> IN
  /\ pc[c] = "number" /\ config[num] # Absent
  /\ \/ /\ config[num] # want[c][num]
        /\ toPut' = [toPut EXCEPT ![c][kind[c]] = @ - config[num]]
        /\ pc' = [pc EXCEPT ![c] = "extend"]
        /\ UNCHANGED <<store, want, kind, cat, index, dead>>
     \/ /\ config[num] = want[c][num]
        /\ toPut' = [toPut EXCEPT ![c][kind[c]] = 0]
        /\ NextKind(c)
        /\ UNCHANGED <<store, want, cat, index, dead>>

(* The same size: only the parts beyond the configuration's number are put. *)
CompareNumber(c) ==
  LET num == <<kind[c], "num">> IN
  /\ pc[c] = "number"
  /\ \/ config[num] = Absent /\ Fail(c)
     \/ /\ config[num] # Absent /\ config[num] < want[c][num]
        /\ toPut' = [toPut EXCEPT ![c][kind[c]] = @ - config[num]]
        /\ pc' = [pc EXCEPT ![c] = "extend"]
        /\ UNCHANGED <<store, want, kind, cat, index, dead>>
     \/ /\ config[num] # Absent /\ config[num] >= want[c][num]
        /\ toPut' = [toPut EXCEPT ![c][kind[c]] = 0]
        /\ NextKind(c)
        /\ UNCHANGED <<store, want, cat, index, dead>>

PutNumber(c) ==
  LET num == <<kind[c], "num">> IN
  /\ pc[c] = "extend"
  /\ config' = [config EXCEPT ![num] = want[c][num]]
  /\ NextKind(c)
  /\ UNCHANGED <<registered, parts, want, cat, index, toPut, dead>>

-----------------------------------------------------------------------------
(* The client's address and the data parts.                                *)

FirstSlip(c, k) == toPut[c][k]

(* Where the loop over the parts of a kind starts.                         *)
First(c, k) == want[c][<<k, "num">>] - toPut[c][k]

Register(c) ==
  /\ pc[c] = "register"
  /\ registered' = registered \cup {c}
  /\ pc' = [pc EXCEPT ![c] = "parts"]
  /\ kind' = [kind EXCEPT ![c] = "entry"]
  /\ index' = [index EXCEPT ![c] = First(c, "entry")]
  /\ UNCHANGED <<config, parts, want, cat, toPut, dead>>

PutPart(c) ==
  /\ pc[c] = "parts" /\ index[c] < want[c][<<kind[c], "num">>]
  /\ parts' = [parts EXCEPT ![<<kind[c], cat[c], index[c]>>] = want[c][<<kind[c], "size">>]]
  /\ index' = [index EXCEPT ![c] = @ + 1]
  /\ UNCHANGED <<config, registered, want, pc, kind, cat, toPut, dead>>

NextCategorySlip(c) ==
  /\ pc[c] = "parts" /\ index[c] = want[c][<<kind[c], "num">>]
  /\ \/ /\ kind[c] = "data" /\ cat[c] = NumCategories - 2
        /\ pc' = [pc EXCEPT ![c] = "ready"]
        /\ UNCHANGED <<kind, cat, index>>
     \/ /\ ~(kind[c] = "data" /\ cat[c] = NumCategories - 2)
        /\ kind' = [kind EXCEPT ![c] = "data"]
        /\ cat' = [cat EXCEPT ![c] = IF kind[c] = "entry" THEN 0 ELSE @ + 1]
        /\ index' = [index EXCEPT ![c] = First(c, "data")]
        /\ pc' = pc
  /\ UNCHANGED <<store, want, toPut, dead>>

(* From the entry parts to the first category, from a category to the next *)
(* one, and from the last one out of setup().                              *)
NextCategory(c) ==
  /\ pc[c] = "parts" /\ index[c] = want[c][<<kind[c], "num">>]
  /\ \/ /\ kind[c] = "data" /\ cat[c] = NumCategories - 1
        /\ pc' = [pc EXCEPT ![c] = "ready"]
        /\ UNCHANGED <<kind, cat, index>>
     \/ /\ ~(kind[c] = "data" /\ cat[c] = NumCategories - 1)
        /\ kind' = [kind EXCEPT ![c] = "data"]
        /\ cat' = [cat EXCEPT ![c] = IF kind[c] = "entry" THEN 0 ELSE @ + 1]
        /\ index' = [index EXCEPT ![c] = First(c, "data")]
        /\ pc' = pc
  /\ UNCHANGED <<store, want, toPut, dead>>

-----------------------------------------------------------------------------
(* The rest of main(), in one step: see AffinityPipeline.                  *)
RunBenchmark(c) ==
  /\ pc[c] = "ready"
  /\ pc' = [pc EXCEPT ![c] = "done"]
  /\ UNCHANGED <<store, want, locals, dead>>

Kill(c) ==
  /\ InSetup(c) /\ Cardinality(dead) < MaxCrashes
  /\ Fail(c)

SetupStep(c) ==
  \/ Begin(c) \/ ListConfig(c) \/ PublishField(c)
  \/ CompareSize(c) \/ PutSize(c) \/ CompareNumber(c) \/ PutNumber(c)
  \/ Register(c) \/ PutPart(c) \/ NextCategory(c)

Next ==
  \E c \in Clients \ dead : SetupStep(c) \/ RunBenchmark(c) \/ Kill(c)

Spec == Init /\ [][Next]_vars

-----------------------------------------------------------------------------
(* What setup() must ensure.                                               *)

TypeOK ==
  /\ config \in [Fields -> Nat \cup {Absent}]
  /\ registered \subseteq Clients
  /\ parts \in [Parts -> Nat \cup {Absent}]
  /\ want \in [Clients -> Wants]
  /\ pc \in [Clients -> {"new", "list", "publish", "compare", "resize", "number",
                        "extend", "register", "parts", "ready", "done"}]
  /\ kind \in [Clients -> Kinds]
  /\ cat \in [Clients -> Categories]
  /\ index \in [Clients -> 0..(MaxParts + Len(FieldOrder) + 1)]
  /\ toPut \in [Clients -> [Kinds -> 0..MaxParts]]
  /\ dead \subseteq Clients

(* The parts that the UDLs will get, whether they are there or not.        *)
Announced(p) ==
  LET num == config[<<p[1], "num">>] IN num # Absent /\ p[3] < num

(* The client knows which parts of kind k it will put.                     *)
Decided(c, k) ==
  \/ pc[c] \in {"publish", "register", "parts"}
  \/ pc[c] \in {"resize", "extend"} /\ (k = kind[c] \/ kind[c] = "data")
  \/ pc[c] \in {"compare", "number"} /\ kind[c] = "data" /\ k = "entry"

(* The loops over the parts are past p.                                    *)
Passed(c, p) ==
  /\ pc[c] = "parts"
  /\ \/ p[1] = kind[c] /\ p[2] = cat[c] /\ p[3] < index[c]
     \/ kind[c] = "data" /\ (p[1] = "entry" \/ p[2] < cat[c])

(* The client has yet to put p, and will unless it dies before.            *)
Upcoming(c, p) ==
  /\ Decided(c, p[1]) /\ ~Passed(c, p)
  /\ First(c, p[1]) <= p[3] /\ p[3] < want[c][<<p[1], "num">>]

(* The configuration is published before the parts are put (lines 95-145), *)
(* so parts may be missing; but however the clients overlap and wherever   *)
(* they die, an announced part that is missing is one that some client is  *)
(* about to put, or would have put had it not died.                        *)
MissingPartHasPutter ==
  \A p \in Parts : Announced(p) /\ parts[p] = Absent => \E c \in Clients : Upcoming(c, p)

(* When clients that overlap find a complete configuration and none is     *)
(* killed, no client dereferences a missing configuration object           *)
(* (common.hpp:208), and a UDL finds every part as soon as no client is in *)
(* setup().                                                                *)
PartsComplete ==
  /\ dead = {}
  /\ (\A c \in Clients : ~InSetup(c)) => \A p \in Parts : Announced(p) => parts[p] # Absent

(* When clients run one after the other and none is killed, a client       *)
(* leaves setup() with a complete configuration, of the sizes it wants,    *)
(* and with every part it announces.                                       *)
ReadyToServe ==
  \A c \in Clients : pc[c] = "ready" =>
    /\ Configured
    /\ \A k \in Kinds : config[<<k, "size">>] = want[c][<<k, "size">>]
    /\ \A p \in Parts : Announced(p) => parts[p] # Absent

SameSizes == \A c, d \in Clients, k \in Kinds : want[c][<<k, "size">>] = want[d][<<k, "size">>]

(* When moreover all clients want the same sizes, a client is served at    *)
(* least as many parts as it wants, all of the size it wants.              *)
OneSizeServed ==
  SameSizes =>
    \A c \in Clients : pc[c] = "ready" =>
      \A k \in Kinds :
        /\ config[<<k, "num">>] >= want[c][<<k, "num">>]
        /\ \A p \in Parts : p[1] = k /\ Announced(p) => parts[p] = want[c][<<k, "size">>]

(* Clients that run one after the other never make the UDLs read fewer     *)
(* parts than before.                                                      *)
NumbersGrow ==
  [][\A k \in Kinds : config[<<k, "num">>] # Absent =>
       config'[<<k, "num">>] >= config[<<k, "num">>]]_vars

(* The measurements are labelled with the parameters of the command line   *)
(* (pipeline_client.cpp:186); the UDLs work with those of the store.       *)
MeasuresWhatItReports ==
  \A c \in Clients : pc[c] = "ready" =>
    \A k \in Kinds : config[<<k, "num">>] = want[c][<<k, "num">>]
=============================================================================
