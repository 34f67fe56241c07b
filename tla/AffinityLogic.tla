--------------------------- MODULE AffinityLogic ---------------------------
(***************************************************************************)
(* affinity_logic() of the affinity sets benchmark: it maps the key of an  *)
(* object to the affinity key that Cascade hashes to find the shard the    *)
(* object lives on.  AFFINITY_LOGIC selects one of three mappings when the *)
(* programs are built.                                                     *)
(*                                                                         *)
(* A key is a path.  What affinity_logic() looks at is the object pool and, *)
(* in the pools under /category, the component before the next separator;  *)
(* what comes after is the name.                                           *)
(***************************************************************************)
EXTENDS Integers

CONSTANTS Logic,     \* AFFINITY_LOGIC
          Home(_)    \* Cascade's hash of an affinity key: a shard

ASSUME LogicAssumption == Logic \in 0..2

CategoryPools == {"new", "output", "data"}

EntryKey(name)             == [pool |-> "entry", category |-> -1, name |-> name]
CategoryKey(pool, c, name) == [pool |-> pool, category |-> c, name |-> name]

DataName(i)   == <<"data", i>>
ObjectName(o) == <<"object", o>>

affinity_logicSlip(key) ==
  CASE key.pool = "entry" /\ Logic = 1                     -> <<"entry">>
    [] key.pool \in CategoryPools \ {"data"} /\ Logic # 0  -> <<"category", key.category>>
    [] OTHER                                               -> <<"key", key>>

(* Every key for itself; all entry keys and every category in one set; or  *)
(* only every category in one set.                                         *)
affinity_logic(key) ==
  CASE key.pool = "entry" /\ Logic = 1         -> <<"entry">>
    [] key.pool \in CategoryPools /\ Logic # 0 -> <<"category", key.category>>
    [] OTHER                                   -> <<"key", key>>

(* The shard an object lives on.  Its one server runs the UDL that a put of *)
(* the object triggers.                                                    *)
HomeOf(key) == Home(affinity_logic(key))
=============================================================================
