---------------------------- MODULE MultiShardTx ----------------------------
(***************************************************************************)
(* The two tests of Cascade's atomic writes: multishard_tx (tx_test.cpp)   *)
(* sends five transactions over the shards of a pool and polls for their   *)
(* outcome, multiple_object (multiobj_test.cpp) writes several objects of  *)
(* one shard four times and waits for each write.                          *)
(*                                                                         *)
(* The store is external.  A transaction goes from shard to shard: each    *)
(* compares the versions the transaction names, holds conflicting ones     *)
(* back until it is decided, and passes it on; the last shard decides, and *)
(* the decision goes back the same way.  The client does not wait between  *)
(* the transactions it sends, and nothing in the repository says whether   *)
(* the store handles conflicting ones in the order sent: inOrder is chosen *)
(* in the initial state.                                                   *)
(***************************************************************************)
EXTENDS Integers, Sequences, FiniteSets

CONSTANTS NumShards,    \* shards of the pool: 3 in the layout
          Tests,        \* the tests considered
          Orders,       \* whether conflicting transactions keep their order
          FirstVersions \* the number of updates a shard's log starts with

ASSUME StoreAssumption ==
  /\ NumShards \in Nat /\ NumShards > 2
  /\ Tests \subseteq {"multishard_tx", "multiple_object"}
  /\ Orders \subseteq BOOLEAN
  /\ FirstVersions \subseteq Nat

Invalid == -1
Shards  == 0..(NumShards - 1)
Last    == NumShards - 1

(* <<s, 1>> is "/sg0/s" and <<s, 2>> is "/sg0/ss"; multiple_object writes  *)
(* the two of shard 0 (three objects in the code).                         *)
Keys       == Shards \X {1, 2}
ShardOf(k) == k[1]
KeyList    == [n \in 1..(2 * NumShards) |-> <<(n - 1) \div 2, ((n - 1) % 2) + 1>>]

(* TX1 to TX5 of the one test, the four writes of the other.               *)
TxOf(test) == IF test = "multishard_tx" THEN 1..5 ELSE 6..9
Txs        == 1..9

Writes(t) == CASE t \in 1..3 -> Shards \X {1}
               [] t \in 4..5 -> Shards \X {2}
               [] t \in 6..9 -> {0} \X {1, 2}
ReadOnly(t) == IF t = 4 THEN {<<1, 1>>} ELSE {}

FirstOf(test)  == IF test = "multishard_tx" THEN 1 ELSE 6
LastShardOf(t) == IF t \in 6..9 THEN 0 ELSE Last

VARIABLES
  test,      \* the program that runs
  inOrder,   \* whether the store keeps the order of conflicting transactions
  puts,      \* single puts done
  versions,  \* version_map: what the last put of each key returned
  sent,      \* the last transaction sent
  reported,  \* the outcomes printed, in order
  guard,     \* transaction |-> the version it names for each key
  log,       \* shard |-> the number of updates in its log (external)
  version,   \* key |-> its current version (external)
  status,    \* transaction and shard |-> what the shard knows of it (external)
  prepared   \* transaction and shard |-> its version there (external)

client == <<test, inOrder, puts, versions, sent, reported>>
store  == <<log, version, status, prepared>>
vars   == <<client, guard, store>>

Statuses == {"unseen", "PENDING", "COMMIT", "ABORT"}
Decided  == {"COMMIT", "ABORT"}

TypeOK ==
  /\ test \in Tests /\ inOrder \in Orders
  /\ puts \in 0..(2 * Len(KeyList))
  /\ sent \in 0..9
  /\ reported \in Seq(Decided)
  /\ versions \in [Keys -> Int]
  /\ guard \in [Txs -> [Keys -> Int]]
  /\ log \in [Shards -> Nat]
  /\ version \in [Keys -> Int]
  /\ status \in [Txs \X Shards -> Statuses]
  /\ prepared \in [Txs \X Shards -> Int]

Init ==
  /\ test \in Tests /\ inOrder \in Orders
  /\ puts = 0 /\ reported = <<>>
  /\ sent = FirstOf(test) - 1
  /\ versions = [k \in Keys |-> Invalid]
  /\ guard = [t \in Txs |-> [k \in Keys |-> Invalid]]
  /\ \E n \in FirstVersions : log = [s \in Shards |-> n]
  /\ version = [k \in Keys |-> log[ShardOf(k)] - 1]
  /\ status = [ts \in Txs \X Shards |-> "unseen"]
  /\ prepared = [ts \in Txs \X Shards |-> Invalid]

(***************************************************************************)
(* The clients                                                             *)
(***************************************************************************)
PutsPerKeySlip == 1

(* Twice, so that the version before the current one is not INVALID.       *)
PutsPerKey == 2

TotalPuts == IF test = "multishard_tx" THEN PutsPerKey * Len(KeyList) ELSE 0

(* put_object: waits for the reply, which brings the version.              *)
PutObject ==
  /\ puts < TotalPuts
  /\ LET k == KeyList[(puts \div PutsPerKey) + 1]
         s == ShardOf(k)
     IN  /\ version' = [version EXCEPT ![k] = log[s]]
         /\ versions' = [versions EXCEPT ![k] = log[s]]
         /\ log' = [log EXCEPT ![s] = @ + 1]
  /\ puts' = puts + 1
  /\ UNCHANGED <<test, inOrder, sent, reported, guard, status, prepared>>

(* What write_objects returned the last time that mattered.                *)
Written == prepared[<<7, 0>>]

NamedSlip(t, k) ==
  IF k \notin Writes(t) \cup ReadOnly(t) THEN Invalid
  ELSE CASE t \in 6..7 -> Invalid
         [] t = 8 -> Written - 1
         [] t = 9 -> Written
         [] OTHER -> versions[k]

(* previous_version_by_key of the objects a transaction writes, version of *)
(* those it only reads, previous_version of write_objects.                 *)
Named(t, k) ==
  IF k \notin Writes(t) \cup ReadOnly(t) THEN Invalid
  ELSE CASE t = 1 /\ k = <<2, 1>> -> versions[k] - 1
         [] t \in 6..7 -> Invalid
         [] t = 8 -> Written - 1
         [] t = 9 -> Written
         [] OTHER -> versions[k]

MayReportSlip(t) == status[<<t, 0>>] # "unseen"

MayReportCommitSlip(t) == status[<<t, 0>>] = "COMMIT"

(* Polling goes on while the status is PENDING.                            *)
MayReport(t) == status[<<t, 0>>] \in Decided

WaitsForEachSlip == FALSE

(* write_objects waits for the reply, put_objects of the test with         *)
(* transactions does not.                                                  *)
WaitsForEach == test = "multiple_object"

SendTx ==
  /\ puts = TotalPuts
  /\ sent + 1 \in TxOf(test)
  /\ WaitsForEach => sent < FirstOf(test) + Len(reported)
  /\ sent' = sent + 1
  /\ guard' = [guard EXCEPT ![sent + 1] = [k \in Keys |-> Named(sent + 1, k)]]
  /\ UNCHANGED <<test, inOrder, puts, versions, reported, store>>

(* poll_tx_completion ends for the next transaction in turn.               *)
Report ==
  /\ WaitsForEach \/ sent + 1 \notin TxOf(test)
  /\ LET t == FirstOf(test) + Len(reported)
     IN  /\ t <= sent
         /\ MayReport(t)
         /\ reported' = Append(reported, status[<<t, 0>>])
  /\ UNCHANGED <<test, inOrder, puts, versions, sent, guard, store>>

AllReported == Len(reported) = Cardinality(TxOf(test))

(***************************************************************************)
(* The store                                                               *)
(***************************************************************************)
Touches(t, s)     == {k \in Writes(t) \cup ReadOnly(t) : ShardOf(k) = s}
Conflict(t, u, s) == \/ Touches(t, s) \cap Writes(u) # {}
                     \/ Touches(u, s) \cap Writes(t) # {}

Dropped(t) == \E s \in Shards : status[<<t, s>>] = "ABORT"

HeldBackSlip(t, s) == FALSE

HeldBack(t, s) ==
  \E u \in Txs \ {t} :
    /\ Conflict(t, u, s)
    /\ \/ status[<<u, s>>] = "PENDING"
       \/ inOrder /\ FirstOf(test) <= u /\ u < t /\ status[<<u, s>>] = "unseen" /\ ~Dropped(u)

UpToDate(t, s) == \A k \in Touches(t, s) : guard[t][k] \in {Invalid, version[k]}

Reached(t, s) == s > 0 => status[<<t, s - 1>>] = "PENDING"

Install(t, s, v) ==
  version' = [k \in Keys |-> IF k \in Writes(t) /\ ShardOf(k) = s THEN v ELSE version[k]]

(* A shard gets to a transaction: it aborts it, passes it on, or, as the   *)
(* last one, commits it.                                                   *)
Prepare(t, s) ==
  /\ t \in FirstOf(test)..sent
  /\ s <= LastShardOf(t)
  /\ status[<<t, s>>] = "unseen"
  /\ Reached(t, s)
  /\ ~HeldBack(t, s)
  /\ log' = [log EXCEPT ![s] = @ + 1]
  /\ \/ /\ ~UpToDate(t, s)
        /\ status' = [status EXCEPT ![<<t, s>>] = "ABORT"]
        /\ UNCHANGED <<version, prepared>>
     \/ /\ UpToDate(t, s)
        /\ prepared' = [prepared EXCEPT ![<<t, s>>] = log[s]]
        /\ IF s = LastShardOf(t)
           THEN status' = [status EXCEPT ![<<t, s>>] = "COMMIT"] /\ Install(t, s, log[s])
           ELSE status' = [status EXCEPT ![<<t, s>>] = "PENDING"] /\ UNCHANGED version
  /\ UNCHANGED <<client, guard>>

(* The decision comes back from the next shard.                            *)
Learn(t, s) ==
  /\ s < LastShardOf(t)
  /\ status[<<t, s>>] = "PENDING"
  /\ status[<<t, s + 1>>] \in Decided
  /\ status' = [status EXCEPT ![<<t, s>>] = status[<<t, s + 1>>]]
  /\ IF status[<<t, s + 1>>] = "COMMIT" THEN Install(t, s, prepared[<<t, s>>]) ELSE UNCHANGED version
  /\ UNCHANGED <<client, guard, log, prepared>>

Client == PutObject \/ SendTx \/ Report
Shard(s) == \E t \in Txs : Prepare(t, s) \/ Learn(t, s)

Next == Client \/ \E s \in Shards : Shard(s)

Spec == Init /\ [][Next]_vars

(* The client is one thread, which only waits for the store; every shard   *)
(* gets to what it can decide.                                             *)
FairSpec ==
  /\ Spec
  /\ WF_vars(Client)
  /\ \A s \in Shards, t \in Txs : WF_vars(Prepare(t, s)) /\ WF_vars(Learn(t, s))

(***************************************************************************)
(* What the tests are to show                                              *)
(***************************************************************************)
(* The outcomes announced in the comment before the transactions: TX1      *)
(* names a wrong version on shard 2, TX2 makes the versions of TX3 stale   *)
(* and the one TX4 reads, and TX5 is TX4 without that read.  They are what *)
(* is printed whenever the store keeps the order of conflicting            *)
(* transactions, on a fresh log as on a used one.                          *)
AnnouncedOutcomes ==
  test = "multishard_tx" /\ inOrder /\ AllReported =>
    reported = <<"ABORT", "COMMIT", "ABORT", "ABORT", "COMMIT">>

(* In whatever order the store gets to the transactions, TX1 fails, one of *)
(* the two identical TX2 and TX3 succeeds, and one of TX4 and TX5, which   *)
(* write the same keys: the transactions between them decide which.        *)
OneOfEachPair ==
  test = "multishard_tx" /\ AllReported =>
    /\ reported[1] = "ABORT"
    /\ {reported[2], reported[3]} = Decided
    /\ {reported[4], reported[5]} = Decided

(* The update with the wrong previous version fails and leaves no trace:   *)
(* the correct one after it, which names the same version plus one,        *)
(* succeeds.                                                               *)
OnlyWrongUpdateFails ==
  test = "multiple_object" /\ AllReported =>
    reported = <<"COMMIT", "COMMIT", "ABORT", "COMMIT">>

(* Polling ends for every transaction: those that wait for each other on   *)
(* different shards do not wait in a circle.                               *)
EveryTestEnds == <>AllReported

(* The outcome of a transaction as a whole, and the version of a key when  *)
(* what is committed counts as written on all the shards at once.          *)
Outcome(t) ==
  IF Dropped(t) THEN "ABORT" ELSE IF status[<<t, LastShardOf(t)>>] = "COMMIT" THEN "COMMIT" ELSE "PENDING"

Installing(k) == {t \in Txs : /\ k \in Writes(t) /\ Outcome(t) = "COMMIT"
                              /\ status[<<t, ShardOf(k)>>] = "PENDING"}

SerialVersion(k) ==
  IF Installing(k) = {} THEN version[k]
  ELSE prepared[<<CHOOSE t \in Installing(k) : TRUE, ShardOf(k)>>]

Serial == INSTANCE SerialStore WITH
  version <- [k \in Keys |-> SerialVersion(k)],
  expects <- guard,
  outcome <- [t \in Txs |-> Outcome(t)]

(* The transactions are decided as if one at a time, each on all of its    *)
(* shards at once, and none fails without a reason.                        *)
ImplementsSerialStore == Serial!Spec
=============================================================================
