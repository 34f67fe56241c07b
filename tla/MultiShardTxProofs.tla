------------------------- MODULE MultiShardTxProofs -------------------------
(***************************************************************************)
(* Proofs about the two tests of atomic writes, for every number of        *)
(* shards, every length of the logs the shards start with, and whether or  *)
(* not the store keeps the order of conflicting transactions: the types,   *)
(* that the transactions are decided as if one at a time, and the outcomes *)
(* the tests print.                                                        *)
(***************************************************************************)
EXTENDS MultiShardTx, SequenceTheorems, FiniteSetTheorems, TLAPS

USE StoreAssumption

(***************************************************************************)
(* Keys, transactions and the functions of them                            *)
(***************************************************************************)
(* A key is a shard and 1 or 2.                                            *)
LEMMA KeyFacts ==
  ASSUME NEW k \in Keys
  PROVE  ShardOf(k) \in Shards /\ k[2] \in {1, 2} /\ k = <<ShardOf(k), k[2]>>
BY DEF Keys, ShardOf

(* Shard 0, 1 and 2 are there, and the last one is after shard 1.          *)
LEMMA ShardFacts ==
  /\ 0 \in Shards /\ 1 \in Shards /\ 2 \in Shards /\ Last \in Shards /\ 1 < Last
  /\ Shards \subseteq Int
BY DEF Shards, Last

(* A transaction has its keys on the shards up to its last one.            *)
LEMMA TxFacts ==
  ASSUME NEW t \in Txs
  PROVE  /\ LastShardOf(t) \in Shards
         /\ Writes(t) \subseteq Keys
         /\ ReadOnly(t) \subseteq Keys
         /\ \A k \in Writes(t) \cup ReadOnly(t) : ShardOf(k) <= LastShardOf(t)
<1>1. LastShardOf(t) \in Shards
  BY DEF LastShardOf, Shards, Last
<1>2. CASE t \in 1..3
  <2>1. Writes(t) = Shards \X {1} /\ ReadOnly(t) = {} /\ LastShardOf(t) = Last
    BY <1>2 DEF Writes, ReadOnly, LastShardOf
  <2> QED
    BY <2>1, <1>1 DEF Keys, ShardOf, Shards, Last
<1>3. CASE t \in 4..5
  <2>1. Writes(t) = Shards \X {2} /\ LastShardOf(t) = Last /\ ReadOnly(t) \subseteq {<<1, 1>>}
    BY <1>3 DEF Writes, LastShardOf, ReadOnly
  <2>2. \A k \in Writes(t) : k \in Keys /\ ShardOf(k) <= Last
    BY <2>1 DEF Keys, ShardOf, Shards, Last
  <2>3. <<1, 1>> \in Keys /\ ShardOf(<<1, 1>>) <= Last
    BY DEF Keys, ShardOf, Shards, Last
  <2> QED
    BY <2>1, <2>2, <2>3, <1>1
<1>4. CASE t \in 6..9
  <2>1. Writes(t) = {0} \X {1, 2} /\ ReadOnly(t) = {} /\ LastShardOf(t) = 0
    BY <1>4 DEF Writes, ReadOnly, LastShardOf
  <2> QED
    BY <2>1, <1>1 DEF Keys, ShardOf, Shards
<1> QED
  BY <1>2, <1>3, <1>4 DEF Txs

(* KeyList lists all the keys, each once.                                  *)
LEMMA KeyListFacts ==
  /\ Len(KeyList) = 2 * NumShards
  /\ \A n \in 1..(2 * NumShards) : KeyList[n] \in Keys
  /\ \A n, m \in 1..(2 * NumShards) : KeyList[n] = KeyList[m] => n = m
  /\ \A k \in Keys : \E n \in 1..(2 * NumShards) : KeyList[n] = k
<1>1. \A n \in 1..(2 * NumShards) :
        /\ KeyList[n] = <<(n - 1) \div 2, ((n - 1) % 2) + 1>>
        /\ (n - 1) \div 2 \in Shards /\ ((n - 1) % 2) + 1 \in {1, 2}
  BY DEF KeyList, Shards
<1>2. \A n \in 1..(2 * NumShards) : KeyList[n] \in Keys
  <2> TAKE n \in 1..(2 * NumShards)
  <2>1. PICK s \in Shards, i \in {1, 2} : KeyList[n] = <<s, i>>
    BY <1>1
  <2> QED
    BY <2>1 DEF Keys
<1>3. Len(KeyList) = 2 * NumShards
  <2>1. DOMAIN KeyList = 1..(2 * NumShards) /\ 2 * NumShards \in Nat
    BY DEF KeyList
  <2>2. KeyList \in Seq(Keys)
    <3>1. KeyList = [n \in 1..(2 * NumShards) |-> KeyList[n]]
      BY DEF KeyList
    <3>2. KeyList \in [1..(2 * NumShards) -> Keys]
      BY <3>1, <1>2
    <3> QED
      BY <3>2, <2>1, SeqDef
  <2> QED
    BY <2>1, <2>2, LenProperties
<1>4. \A n, m \in 1..(2 * NumShards) : KeyList[n] = KeyList[m] => n = m
  <2> TAKE n, m \in 1..(2 * NumShards)
  <2> HAVE KeyList[n] = KeyList[m]
  <2>1. (n - 1) \div 2 = (m - 1) \div 2 /\ (n - 1) % 2 = (m - 1) % 2
    BY <1>1
  <2> QED
    BY <2>1
<1>5. \A k \in Keys : \E n \in 1..(2 * NumShards) : KeyList[n] = k
  <2> TAKE k \in Keys
  <2> DEFINE n == 2 * k[1] + k[2]
  <2>1. k[1] \in Shards /\ k[2] \in {1, 2} /\ k = <<k[1], k[2]>>
    BY KeyFacts DEF ShardOf
  <2>2. \A s \in Shards, i \in {1, 2} :
          /\ 2 * s + i \in 1..(2 * NumShards)
          /\ ((2 * s + i) - 1) \div 2 = s
          /\ (((2 * s + i) - 1) % 2) + 1 = i
    BY DEF Shards
  <2>3. n \in 1..(2 * NumShards) /\ (n - 1) \div 2 = k[1] /\ ((n - 1) % 2) + 1 = k[2]
    BY <2>1, <2>2
  <2>4. KeyList[n] = k
    BY <2>1, <2>3, <1>1
  <2> QED
    BY <2>3, <2>4
<1> QED
  BY <1>2, <1>3, <1>4, <1>5

(* The transactions of a test, and their number.                           *)
LEMMA TxOfFacts ==
  /\ TxOf("multishard_tx") = 1..5 /\ Cardinality(TxOf("multishard_tx")) = 5
  /\ TxOf("multiple_object") = 6..9 /\ Cardinality(TxOf("multiple_object")) = 4
  /\ FirstOf("multishard_tx") = 1 /\ FirstOf("multiple_object") = 6
<1>1. TxOf("multishard_tx") = 1..5 /\ TxOf("multiple_object") = 6..9
  BY DEF TxOf
<1>2. Cardinality(1..5) = (IF 1 > 5 THEN 0 ELSE 5 - 1 + 1) /\ Cardinality(6..9) = (IF 6 > 9 THEN 0 ELSE 9 - 6 + 1)
  <2>1. 1 \in Int /\ 5 \in Int /\ 6 \in Int /\ 9 \in Int
    OBVIOUS
  <2> QED
    BY <2>1, FS_Interval, Zenon
<1>3. Cardinality(1..5) = 5 /\ Cardinality(6..9) = 4
  BY <1>2
<1> QED
  BY <1>1, <1>3 DEF FirstOf

(* Changing a function of transaction and shard at one place.              *)
LEMMA AtPlace ==
  ASSUME NEW S, NEW f \in [Txs \X Shards -> S], NEW t \in Txs, NEW s \in Shards, NEW e \in S
  PROVE  /\ [f EXCEPT ![<<t, s>>] = e] \in [Txs \X Shards -> S]
         /\ \A u \in Txs, r \in Shards :
              [f EXCEPT ![<<t, s>>] = e][<<u, r>>] = IF u = t /\ r = s THEN e ELSE f[<<u, r>>]
<1>1. \A u \in Txs, r \in Shards : <<u, r>> \in Txs \X Shards /\ (<<u, r>> = <<t, s>> <=> u = t /\ r = s)
  OBVIOUS
<1> QED
  BY <1>1

(* Touches(t, s) are keys on s that t names.                               *)
LEMMA TouchesFacts ==
  ASSUME NEW t \in Txs, NEW s \in Shards
  PROVE  /\ Touches(t, s) \subseteq Keys
         /\ \A k \in Writes(t) : ShardOf(k) = s => k \in Touches(t, s)
BY TxFacts DEF Touches

USE DEF Statuses, Decided

-----------------------------------------------------------------------------
(***************************************************************************)
(* Types                                                                   *)
(***************************************************************************)
(* Which transactions a program has sent.                                  *)
LEMMA SentFacts ==
  ASSUME TypeOK
  PROVE  /\ test \in {"multishard_tx", "multiple_object"}
         /\ test = "multishard_tx" => FirstOf(test) = 1 /\ TxOf(test) = 1..5 /\ TotalPuts = 4 * NumShards
         /\ test = "multiple_object" => FirstOf(test) = 6 /\ TxOf(test) = 6..9 /\ TotalPuts = 0
         /\ FirstOf(test) \in {1, 6}
         /\ FirstOf(test)..sent \subseteq Txs
         /\ puts \in Nat /\ TotalPuts \in Nat /\ sent \in Nat
<1>1. test \in {"multishard_tx", "multiple_object"} /\ sent \in 0..9 /\ puts \in 0..(2 * (2 * NumShards))
  BY KeyListFacts DEF TypeOK
<1>2. TotalPuts = IF test = "multishard_tx" THEN 4 * NumShards ELSE 0
  BY KeyListFacts DEF TotalPuts, PutsPerKey
<1>3. FirstOf(test) \in {1, 6}
  BY DEF FirstOf
<1>4. FirstOf(test)..sent \subseteq Txs
  BY <1>1, <1>3 DEF Txs
<1>5. TotalPuts \in Nat /\ puts \in Nat /\ sent \in Nat
  BY <1>1, <1>2
<1>6. /\ test = "multishard_tx" => FirstOf(test) = 1 /\ TxOf(test) = 1..5 /\ TotalPuts = 4 * NumShards
      /\ test = "multiple_object" => FirstOf(test) = 6 /\ TxOf(test) = 6..9 /\ TotalPuts = 0
  BY <1>2, TxOfFacts
<1> QED
  BY <1>1, <1>3, <1>4, <1>5, <1>6

(* The version a transaction names for a key, test by test.                *)
LEMMA NamedFacts ==
  ASSUME TypeOK, NEW t \in Txs, NEW k \in Keys
  PROVE  /\ Named(t, k) \in Int
         /\ k \notin Writes(t) \cup ReadOnly(t) => Named(t, k) = Invalid
         /\ k \in Writes(t) \cup ReadOnly(t) =>
              /\ t = 1 /\ k = <<2, 1>> => Named(t, k) = versions[k] - 1
              /\ t \in 1..5 /\ ~(t = 1 /\ k = <<2, 1>>) => Named(t, k) = versions[k]
              /\ t \in 6..7 => Named(t, k) = Invalid
              /\ t = 8 => Named(t, k) = Written - 1
              /\ t = 9 => Named(t, k) = Written
<1>1. versions[k] \in Int /\ Invalid \in Int
  BY DEF TypeOK, Invalid
<1>2. Written \in Int
  <2>1. <<7, 0>> \in Txs \X Shards
    BY ShardFacts DEF Txs
  <2> QED
    BY <2>1 DEF TypeOK, Written
<1>3. CASE k \notin Writes(t) \cup ReadOnly(t)
  BY <1>1, <1>3 DEF Named
<1>4. CASE k \in Writes(t) \cup ReadOnly(t)
  <2>1. Named(t, k) = CASE t = 1 /\ k = <<2, 1>> -> versions[k] - 1
                        [] t \in 6..7 -> Invalid
                        [] t = 8 -> Written - 1
                        [] t = 9 -> Written
                        [] OTHER -> versions[k]
    BY <1>4 DEF Named
  <2>2. CASE t \in 1..5
    BY <2>1, <2>2, <1>1, <1>4
  <2>3. CASE t \in 6..7
    BY <2>1, <2>3, <1>1, <1>4
  <2>4. CASE t = 8
    BY <2>1, <2>4, <1>2, <1>4
  <2>5. CASE t = 9
    BY <2>1, <2>5, <1>2, <1>4
  <2> QED
    BY <2>2, <2>3, <2>4, <2>5 DEF Txs
<1> QED
  BY <1>3, <1>4

(* Installing a number leaves numbers.                                     *)
LEMMA InstallType ==
  ASSUME TypeOK, NEW t, NEW s, NEW v \in Int, Install(t, s, v)
  PROVE  /\ version' \in [Keys -> Int]
         /\ \A k \in Keys : version'[k] = IF k \in Writes(t) /\ ShardOf(k) = s THEN v ELSE version[k]
BY DEF Install, TypeOK

(* Pointwise, what a put changes.                                          *)
LEMMA PutEffect ==
  ASSUME TypeOK, PutObject
  PROVE  /\ test = "multishard_tx" /\ puts < 4 * NumShards /\ puts' = puts + 1
         /\ (puts \div 2) + 1 \in 1..(2 * NumShards)
         /\ \E k \in Keys :
              /\ k = KeyList[(puts \div 2) + 1]
              /\ log' \in [Shards -> Nat] /\ version' \in [Keys -> Int] /\ versions' \in [Keys -> Int]
              /\ \A s \in Shards : log'[s] = IF s = ShardOf(k) THEN log[s] + 1 ELSE log[s]
              /\ \A l \in Keys :
                   /\ version'[l] = IF l = k THEN log[ShardOf(k)] ELSE version[l]
                   /\ versions'[l] = IF l = k THEN log[ShardOf(k)] ELSE versions[l]
<1>1. test = "multishard_tx" /\ puts < 4 * NumShards /\ puts \in Nat /\ puts' = puts + 1
  BY SentFacts DEF PutObject
<1>2. (puts \div 2) + 1 \in 1..(2 * NumShards)
  BY <1>1
<1> DEFINE k == KeyList[(puts \div 2) + 1]
<1>3. k \in Keys
  BY <1>2, KeyListFacts
<1>4. ShardOf(k) \in Shards
  BY <1>3, KeyFacts
<1>5. /\ version' = [version EXCEPT ![k] = log[ShardOf(k)]]
      /\ versions' = [versions EXCEPT ![k] = log[ShardOf(k)]]
      /\ log' = [log EXCEPT ![ShardOf(k)] = log[ShardOf(k)] + 1]
  BY DEF PutObject, PutsPerKey
<1> HIDE DEF k
<1>6. /\ log \in [Shards -> Nat] /\ version \in [Keys -> Int] /\ versions \in [Keys -> Int]
      /\ log[ShardOf(k)] \in Nat
  BY <1>4 DEF TypeOK
<1>7. /\ log' \in [Shards -> Nat] /\ version' \in [Keys -> Int] /\ versions' \in [Keys -> Int]
      /\ \A s \in Shards : log'[s] = IF s = ShardOf(k) THEN log[s] + 1 ELSE log[s]
      /\ \A l \in Keys :
           /\ version'[l] = IF l = k THEN log[ShardOf(k)] ELSE version[l]
           /\ versions'[l] = IF l = k THEN log[ShardOf(k)] ELSE versions[l]
  BY <1>3, <1>4, <1>5, <1>6
<1>8. k = KeyList[(puts \div 2) + 1]
  BY DEF k
<1> QED
  BY <1>1, <1>2, <1>3, <1>7, <1>8

(* Pointwise, what sending a transaction changes.                          *)
LEMMA SendEffect ==
  ASSUME TypeOK, SendTx
  PROVE  /\ sent + 1 \in TxOf(test) /\ sent + 1 \in Txs /\ sent' = sent + 1 /\ puts = TotalPuts
         /\ guard' \in [Txs -> [Keys -> Int]]
         /\ \A u \in Txs : guard'[u] = IF u = sent + 1 THEN [k \in Keys |-> Named(sent + 1, k)] ELSE guard[u]
<1>1. sent + 1 \in TxOf(test) /\ sent' = sent + 1 /\ puts = TotalPuts
  BY DEF SendTx
<1>2. sent + 1 \in Txs
  BY <1>1, SentFacts DEF Txs
<1>3. [k \in Keys |-> Named(sent + 1, k)] \in [Keys -> Int]
  BY <1>2, NamedFacts
<1>4. guard \in [Txs -> [Keys -> Int]] /\ guard' = [guard EXCEPT ![sent + 1] = [k \in Keys |-> Named(sent + 1, k)]]
  BY DEF TypeOK, SendTx
<1> QED
  BY <1>1, <1>2, <1>3, <1>4

(* The three things a shard may do with a transaction it gets to.          *)
Refuse(t, s) ==
  /\ ~UpToDate(t, s)
  /\ status' = [status EXCEPT ![<<t, s>>] = "ABORT"]
  /\ UNCHANGED <<version, prepared>>

PassOn(t, s) ==
  /\ UpToDate(t, s) /\ s < LastShardOf(t)
  /\ status' = [status EXCEPT ![<<t, s>>] = "PENDING"]
  /\ prepared' = [prepared EXCEPT ![<<t, s>>] = log[s]]
  /\ UNCHANGED version

Decide(t, s) ==
  /\ UpToDate(t, s) /\ s = LastShardOf(t)
  /\ status' = [status EXCEPT ![<<t, s>>] = "COMMIT"]
  /\ prepared' = [prepared EXCEPT ![<<t, s>>] = log[s]]
  /\ Install(t, s, log[s])

(* Pointwise, what getting to a transaction changes.                       *)
LEMMA PrepareEffect ==
  ASSUME TypeOK, NEW t \in Txs, NEW s \in Shards, Prepare(t, s)
  PROVE  /\ t \in FirstOf(test)..sent /\ s <= LastShardOf(t)
         /\ status[<<t, s>>] = "unseen" /\ Reached(t, s) /\ ~HeldBack(t, s)
         /\ UNCHANGED <<client, guard>>
         /\ log[s] \in Nat /\ log' \in [Shards -> Nat]
         /\ \A r \in Shards : log'[r] = IF r = s THEN log[r] + 1 ELSE log[r]
         /\ Refuse(t, s) \/ PassOn(t, s) \/ Decide(t, s)
<1>1. /\ t \in FirstOf(test)..sent /\ s <= LastShardOf(t)
      /\ status[<<t, s>>] = "unseen" /\ Reached(t, s) /\ ~HeldBack(t, s)
      /\ UNCHANGED <<client, guard>>
  BY DEF Prepare
<1>2. log \in [Shards -> Nat] /\ log' = [log EXCEPT ![s] = log[s] + 1]
  BY DEF Prepare, TypeOK
<1>3. /\ log[s] \in Nat /\ log' \in [Shards -> Nat]
      /\ \A r \in Shards : log'[r] = IF r = s THEN log[r] + 1 ELSE log[r]
  BY <1>2
<1>4. LastShardOf(t) \in Shards /\ Shards \subseteq Int
  BY TxFacts, ShardFacts
<1>5. Refuse(t, s) \/ PassOn(t, s) \/ Decide(t, s)
  <2>1. CASE ~UpToDate(t, s)
    BY <2>1 DEF Prepare, Refuse
  <2>2. CASE UpToDate(t, s) /\ s = LastShardOf(t)
    BY <2>2 DEF Prepare, Decide
  <2>3. CASE UpToDate(t, s) /\ s # LastShardOf(t)
    <3>1. s \in Int /\ LastShardOf(t) \in Int /\ s <= LastShardOf(t) /\ s # LastShardOf(t)
      BY <2>3, <1>1, <1>4, Zenon
    <3>2. s < LastShardOf(t)
      BY <3>1
    <3> QED
      BY <2>3, <3>2 DEF Prepare, PassOn
  <2> QED
    BY <2>1, <2>2, <2>3
<1> QED
  BY <1>1, <1>3, <1>5

(* What the decision at one shard makes of the types.                      *)
LEMMA StoreStepType ==
  ASSUME TypeOK, NEW t \in Txs, NEW s \in Shards, Prepare(t, s) \/ Learn(t, s)
  PROVE  /\ UNCHANGED <<client, guard>>
         /\ log' \in [Shards -> Nat] /\ version' \in [Keys -> Int]
         /\ status' \in [Txs \X Shards -> Statuses] /\ prepared' \in [Txs \X Shards -> Int]
<1>1. /\ status \in [Txs \X Shards -> Statuses] /\ prepared \in [Txs \X Shards -> Int]
      /\ log \in [Shards -> Nat] /\ version \in [Keys -> Int]
  BY DEF TypeOK
<1>2. CASE Prepare(t, s)
  <2>0. log[s] \in Int
    BY <1>1
  <2>1. /\ UNCHANGED <<client, guard>> /\ log[s] \in Int /\ log' \in [Shards -> Nat]
        /\ Refuse(t, s) \/ PassOn(t, s) \/ Decide(t, s)
    BY <1>2, <2>0, PrepareEffect, Zenon
  <2>2. CASE Refuse(t, s)
    BY <1>1, <2>1, <2>2, AtPlace DEF Refuse
  <2>3. CASE PassOn(t, s)
    BY <1>1, <2>1, <2>3, AtPlace DEF PassOn
  <2>4. CASE Decide(t, s)
    BY <1>1, <2>1, <2>4, AtPlace, InstallType DEF Decide
  <2> QED
    BY <2>1, <2>2, <2>3, <2>4
<1>3. CASE Learn(t, s)
  <2>1. UNCHANGED <<client, guard, log, prepared>>
    BY <1>3 DEF Learn
  <2>2. status' \in [Txs \X Shards -> Statuses]
    BY <1>3, <1>1, AtPlace DEF Learn
  <2>3. version' \in [Keys -> Int]
    <3>1. prepared[<<t, s>>] \in Int
      BY <1>1
    <3> QED
      BY <1>1, <1>3, <3>1, InstallType DEF Learn
  <2> QED
    BY <1>1, <2>1, <2>2, <2>3
<1> QED
  BY <1>2, <1>3

(* Whatever the programs and the shards do, the variables keep their       *)
(* types.                                                                  *)
THEOREM TypeCorrect == Spec => []TypeOK
<1>1. Init => TypeOK
  <2> SUFFICES ASSUME Init PROVE TypeOK
    OBVIOUS
  <2>1. test \in {"multishard_tx", "multiple_object"} /\ sent \in 0..9 /\ test \in Tests /\ inOrder \in Orders
    BY DEF Init, FirstOf
  <2>2. puts \in 0..(2 * Len(KeyList)) /\ reported \in Seq(Decided)
    BY KeyListFacts DEF Init
  <2>3. versions \in [Keys -> Int] /\ guard \in [Txs -> [Keys -> Int]]
    BY DEF Init, Invalid
  <2>4. log \in [Shards -> Nat] /\ status \in [Txs \X Shards -> Statuses] /\ prepared \in [Txs \X Shards -> Int]
    BY DEF Init, Invalid
  <2>5. version \in [Keys -> Int]
    <3>1. \A k \in Keys : log[ShardOf(k)] - 1 \in Int
      BY <2>4, KeyFacts
    <3> QED
      BY <3>1 DEF Init
  <2> QED
    BY <2>1, <2>2, <2>3, <2>4, <2>5 DEF TypeOK
<1>2. TypeOK /\ [Next]_vars => TypeOK'
  <2> SUFFICES ASSUME TypeOK, [Next]_vars PROVE TypeOK'
    OBVIOUS
  <2>1. CASE PutObject
    <3>0. puts < 4 * NumShards /\ puts' = puts + 1 /\ puts \in Nat
      BY <2>1, PutEffect, SentFacts
    <3>1. puts' \in 0..(2 * Len(KeyList))
      BY <3>0, KeyListFacts
    <3>2. log' \in [Shards -> Nat] /\ version' \in [Keys -> Int] /\ versions' \in [Keys -> Int]
      BY <2>1, PutEffect
    <3> QED
      BY <2>1, <3>1, <3>2 DEF TypeOK, PutObject
  <2>2. CASE SendTx
    <3>1. sent' \in 0..9 /\ guard' \in [Txs -> [Keys -> Int]]
      BY <2>2, SendEffect DEF Txs
    <3> QED
      BY <2>2, <3>1 DEF TypeOK, SendTx, store
  <2>3. CASE Report
    <3>1. reported' \in Seq(Decided)
      BY <2>3 DEF TypeOK, Report, MayReport
    <3> QED
      BY <2>3, <3>1 DEF TypeOK, Report, store
  <2>4. ASSUME NEW t \in Txs, NEW s \in Shards, Prepare(t, s) \/ Learn(t, s) PROVE TypeOK'
    BY <2>4, StoreStepType DEF TypeOK, client
  <2>5. CASE UNCHANGED vars
    BY <2>5 DEF TypeOK, vars, client, store
  <2> QED
    BY <2>1, <2>2, <2>3, <2>4, <2>5 DEF Next, Client, Shard
<1> QED
  BY <1>1, <1>2, PTL DEF Spec

-----------------------------------------------------------------------------
(***************************************************************************)
(* The inductive invariant                                                 *)
(***************************************************************************)
(* The client sends in turn, after its puts, and a transaction names       *)
(* versions of its own keys only.                                          *)
SentInv ==
  /\ FirstOf(test) - 1 <= sent
  /\ FirstOf(test) <= sent => puts = TotalPuts
  /\ \A t \in Txs, k \in Keys : k \notin Writes(t) \cup ReadOnly(t) => guard[t][k] = Invalid

(* A transaction goes over the shards in order and its decision comes back *)
(* in the reverse order: a shard that has not seen it is after those that  *)
(* have, and one that knows the decision is after those that do not.       *)
OnePassInv ==
  \A t \in Txs, s \in Shards :
    /\ status[<<t, s>>] # "unseen" => t \in FirstOf(test)..sent /\ s <= LastShardOf(t)
    /\ status[<<t, s>>] = "PENDING" => s < LastShardOf(t)
    /\ \A r \in Shards : s < r /\ r <= LastShardOf(t) =>
         /\ status[<<t, s>>] = "unseen" => status[<<t, r>>] = "unseen"
         /\ status[<<t, s>>] = "COMMIT" => status[<<t, r>>] = "COMMIT"
         /\ status[<<t, s>>] = "ABORT"  => status[<<t, r>>] \in {"ABORT", "unseen"}

(* Every version comes from the log.                                       *)
VersionInv == \A k \in Keys : version[k] < log[ShardOf(k)]

(* A transaction that is not decided keeps the conflicting ones out: what  *)
(* was compared stays true, and what it is to write is new.                *)
LockInv ==
  \A t \in Txs, s \in Shards : status[<<t, s>>] = "PENDING" =>
    /\ \A u \in Txs \ {t} : status[<<u, s>>] = "PENDING" => ~Conflict(t, u, s)
    /\ UpToDate(t, s)
    /\ prepared[<<t, s>>] < log[s]
    /\ \A k \in Writes(t) : ShardOf(k) = s => version[k] < prepared[<<t, s>>]

IInv == TypeOK /\ SentInv /\ OnePassInv /\ VersionInv /\ LockInv

(* Before the first transaction is sent, no shard has seen one.            *)
LEMMA NothingSeen ==
  ASSUME IInv, NEW t \in Txs, NEW s \in Shards, puts # TotalPuts
  PROVE  status[<<t, s>>] = "unseen"
<1>1. sent < FirstOf(test)
  BY SentFacts DEF IInv, SentInv
<1>2. t \notin FirstOf(test)..sent
  BY <1>1, SentFacts DEF IInv
<1> QED
  BY <1>2 DEF IInv, OnePassInv

(* Pointwise, what getting to a transaction does to what is known of it.   *)
LEMMA StatusAfterPrepare ==
  ASSUME TypeOK, NEW t \in Txs, NEW s \in Shards, Prepare(t, s)
  PROVE  \E d \in {"PENDING", "COMMIT", "ABORT"} :
           /\ d = "PENDING" <=> PassOn(t, s)
           /\ d = "COMMIT"  <=> Decide(t, s)
           /\ d = "ABORT"   <=> Refuse(t, s)
           /\ d = "PENDING" => s < LastShardOf(t)
           /\ d = "COMMIT"  => s = LastShardOf(t)
           /\ \A u \in Txs, r \in Shards :
                status'[<<u, r>>] = IF u = t /\ r = s THEN d ELSE status[<<u, r>>]
<1>1. status \in [Txs \X Shards -> Statuses]
  BY DEF TypeOK
<1>2. s \in Int /\ LastShardOf(t) \in Int
  BY TxFacts, ShardFacts
<1>3. ~(PassOn(t, s) /\ Decide(t, s)) /\ ~(Refuse(t, s) /\ (PassOn(t, s) \/ Decide(t, s)))
  BY <1>2 DEF PassOn, Decide, Refuse
<1>4. CASE Refuse(t, s)
  BY <1>1, <1>3, <1>4, AtPlace DEF Refuse
<1>5. CASE PassOn(t, s)
  <2>1. s < LastShardOf(t) /\ status' = [status EXCEPT ![<<t, s>>] = "PENDING"]
    BY <1>5 DEF PassOn
  <2> QED
    BY <1>1, <1>3, <1>5, <2>1, AtPlace
<1>6. CASE Decide(t, s)
  <2>1. s = LastShardOf(t) /\ status' = [status EXCEPT ![<<t, s>>] = "COMMIT"]
    BY <1>6 DEF Decide
  <2> QED
    BY <1>1, <1>3, <1>6, <2>1, AtPlace
<1> QED
  BY <1>4, <1>5, <1>6, PrepareEffect

(* Pointwise, what learning a decision changes.                            *)
LEMMA LearnEffect ==
  ASSUME TypeOK, NEW t \in Txs, NEW s \in Shards, Learn(t, s)
  PROVE  /\ s < LastShardOf(t) /\ s + 1 \in Shards /\ s + 1 <= LastShardOf(t)
         /\ status[<<t, s>>] = "PENDING"
         /\ status[<<t, s + 1>>] \in Decided
         /\ \A u \in Txs, r \in Shards :
              status'[<<u, r>>] = IF u = t /\ r = s THEN status[<<t, s + 1>>] ELSE status[<<u, r>>]
         /\ \A k \in Keys :
              version'[k] = IF status[<<t, s + 1>>] = "COMMIT" /\ k \in Writes(t) /\ ShardOf(k) = s
                            THEN prepared[<<t, s>>] ELSE version[k]
         /\ UNCHANGED <<client, guard, log, prepared>>
<1>1. /\ s < LastShardOf(t) /\ status[<<t, s>>] = "PENDING" /\ status[<<t, s + 1>>] \in Decided
      /\ status' = [status EXCEPT ![<<t, s>>] = status[<<t, s + 1>>]]
      /\ UNCHANGED <<client, guard, log, prepared>>
  BY DEF Learn
<1>2. s + 1 \in Shards /\ s + 1 <= LastShardOf(t)
  <2>1. LastShardOf(t) \in Shards
    BY TxFacts
  <2> QED
    BY <1>1, <2>1 DEF Shards
<1>3. status \in [Txs \X Shards -> Statuses] /\ status[<<t, s + 1>>] \in Statuses
  BY <1>1 DEF TypeOK
<1>4. \A u \in Txs, r \in Shards :
        status'[<<u, r>>] = IF u = t /\ r = s THEN status[<<t, s + 1>>] ELSE status[<<u, r>>]
  BY <1>1, <1>3, AtPlace
<1>5. prepared[<<t, s>>] \in Int
  BY DEF TypeOK
<1>6. \A k \in Keys :
        version'[k] = IF status[<<t, s + 1>>] = "COMMIT" /\ k \in Writes(t) /\ ShardOf(k) = s
                      THEN prepared[<<t, s>>] ELSE version[k]
  <2>1. CASE status[<<t, s + 1>>] = "COMMIT"
    <3>1. Install(t, s, prepared[<<t, s>>])
      BY <2>1 DEF Learn
    <3> QED
      BY <2>1, <3>1, <1>5, InstallType
  <2>2. CASE status[<<t, s + 1>>] # "COMMIT"
    BY <2>2 DEF Learn
  <2> QED
    BY <2>1, <2>2
<1> QED
  BY <1>1, <1>2, <1>4, <1>6

(* A shard gets to a transaction when those before it wait for the         *)
(* decision, and those after it have not seen it.                          *)
LEMMA AroundPrepare ==
  ASSUME IInv, NEW t \in Txs, NEW s \in Shards, Prepare(t, s)
  PROVE  /\ \A q \in Shards : q < s => status[<<t, q>>] = "PENDING"
         /\ \A r \in Shards : s <= r /\ r <= LastShardOf(t) => status[<<t, r>>] = "unseen"
<1>1. TypeOK /\ OnePassInv /\ Shards \subseteq Int /\ LastShardOf(t) \in Int
  BY ShardFacts, TxFacts DEF IInv
<1>2. s <= LastShardOf(t) /\ status[<<t, s>>] = "unseen" /\ Reached(t, s)
  BY <1>1, PrepareEffect
<1>3. ASSUME NEW q \in Shards, q < s PROVE status[<<t, q>>] = "PENDING"
  <2>1. s - 1 \in Shards /\ s > 0 /\ q <= s - 1 /\ s - 1 <= LastShardOf(t)
    BY <1>1, <1>2, <1>3 DEF Shards
  <2>2. status[<<t, s - 1>>] = "PENDING"
    BY <1>2, <2>1 DEF Reached
  <2>3. status[<<t, q>>] \in Statuses
    BY <1>1 DEF TypeOK
  <2>4. q = s - 1 \/ q < s - 1
    BY <2>1, <1>1
  <2> QED
    BY <2>1, <2>2, <2>3, <2>4, <1>1 DEF OnePassInv
<1>4. ASSUME NEW r \in Shards, s <= r, r <= LastShardOf(t) PROVE status[<<t, r>>] = "unseen"
  <2>1. r = s \/ s < r
    BY <1>1, <1>4
  <2> QED
    BY <1>1, <1>2, <1>4, <2>1 DEF OnePassInv
<1> QED
  BY <1>3, <1>4

(* The part of it that is about what is known.                             *)
LEMMA StatusAfterLearn ==
  ASSUME TypeOK, NEW t \in Txs, NEW s \in Shards, Learn(t, s)
  PROVE  \E d \in Decided : \A u \in Txs, r \in Shards :
           status'[<<u, r>>] = IF u = t /\ r = s THEN d ELSE status[<<u, r>>]
<1>1. status \in [Txs \X Shards -> Statuses]
  BY DEF TypeOK
<1>2. PICK d \in Decided : status' = [status EXCEPT ![<<t, s>>] = d]
  BY DEF Learn
<1>3. d \in Statuses
  BY <1>2
<1>4. \A u \in Txs, r \in Shards : status'[<<u, r>>] = IF u = t /\ r = s THEN d ELSE status[<<u, r>>]
  BY <1>1, <1>2, <1>3, AtPlace
<1> QED
  BY <1>4

(* The pass of a transaction over the shards, step by step.                *)
LEMMA OnePassStep ==
  ASSUME IInv, NEW t \in Txs, NEW s \in Shards, Prepare(t, s) \/ Learn(t, s)
  PROVE  OnePassInv'
<1>1. test' = test /\ sent' = sent /\ TypeOK /\ OnePassInv
  BY StoreStepType DEF IInv, client
<1>2. Shards \subseteq Int /\ LastShardOf(t) \in Int
  BY ShardFacts, TxFacts
<1>3. CASE Prepare(t, s)
  <2>1. PICK d \in {"PENDING", "COMMIT", "ABORT"} :
          /\ d = "PENDING" => s < LastShardOf(t)
          /\ d = "COMMIT"  => s = LastShardOf(t)
          /\ \A u \in Txs, r \in Shards :
               status'[<<u, r>>] = IF u = t /\ r = s THEN d ELSE status[<<u, r>>]
    BY <1>1, <1>3, StatusAfterPrepare
  <2>2. t \in FirstOf(test)..sent /\ s <= LastShardOf(t) /\ status[<<t, s>>] = "unseen" /\ Reached(t, s)
    BY <1>1, <1>3, PrepareEffect
  <2>3. \A q \in Shards : q < s => status[<<t, q>>] = "PENDING"
    BY <1>3, AroundPrepare
  <2>4. \A r \in Shards : s < r /\ r <= LastShardOf(t) => status[<<t, r>>] = "unseen"
    BY <1>1, <2>2 DEF OnePassInv
  <2> SUFFICES ASSUME NEW u \in Txs, NEW a \in Shards
               PROVE  /\ status'[<<u, a>>] # "unseen" => u \in FirstOf(test)..sent /\ a <= LastShardOf(u)
                      /\ status'[<<u, a>>] = "PENDING" => a < LastShardOf(u)
                      /\ \A b \in Shards : a < b /\ b <= LastShardOf(u) =>
                           /\ status'[<<u, a>>] = "unseen" => status'[<<u, b>>] = "unseen"
                           /\ status'[<<u, a>>] = "COMMIT" => status'[<<u, b>>] = "COMMIT"
                           /\ status'[<<u, a>>] = "ABORT"  => status'[<<u, b>>] \in {"ABORT", "unseen"}
    BY <1>1 DEF OnePassInv, FirstOf
  <2>5. CASE u # t
    BY <2>1, <2>5, <1>1 DEF OnePassInv
  <2>6. CASE u = t /\ a = s
    BY <2>1, <2>2, <2>4, <2>6, <1>2
  <2>7. CASE u = t /\ a # s
    <3>1. status'[<<u, a>>] = status[<<t, a>>]
      BY <2>1, <2>7
    <3>2. ASSUME NEW b \in Shards, a < b, b <= LastShardOf(t)
          PROVE  /\ status[<<t, a>>] = "unseen" => status'[<<t, b>>] = "unseen"
                 /\ status[<<t, a>>] = "COMMIT" => status'[<<t, b>>] = "COMMIT"
                 /\ status[<<t, a>>] = "ABORT"  => status'[<<t, b>>] \in {"ABORT", "unseen"}
      <4>1. CASE b = s
        BY <3>2, <4>1, <2>3
      <4>2. CASE b # s
        BY <3>2, <4>2, <2>1, <1>1 DEF OnePassInv
      <4> QED
        BY <4>1, <4>2
    <3> QED
      BY <3>1, <3>2, <2>7, <1>1 DEF OnePassInv
  <2> QED
    BY <2>5, <2>6, <2>7
<1>4. CASE Learn(t, s)
  <2> DEFINE d == status[<<t, s + 1>>]
  <2>1. /\ s < LastShardOf(t) /\ s + 1 \in Shards /\ s + 1 <= LastShardOf(t)
        /\ status[<<t, s>>] = "PENDING" /\ d \in Decided
        /\ \A u \in Txs, r \in Shards :
             status'[<<u, r>>] = IF u = t /\ r = s THEN d ELSE status[<<u, r>>]
    BY <1>1, <1>4, LearnEffect
  <2>2. \A b \in Shards : s < b /\ b <= LastShardOf(t) =>
          /\ d = "COMMIT" => status[<<t, b>>] = "COMMIT"
          /\ d = "ABORT" => status[<<t, b>>] \in {"ABORT", "unseen"}
    <3> TAKE b \in Shards
    <3> HAVE s < b /\ b <= LastShardOf(t)
    <3>1. CASE b = s + 1
      BY <3>1
    <3>2. CASE b # s + 1
      <4>1. s + 1 < b
        BY <3>2, <1>2
      <4> QED
        BY <4>1, <2>1, <1>1 DEF OnePassInv
    <3> QED
      BY <3>1, <3>2
  <2> HIDE DEF d
  <2>3. \A a \in Shards : a < s => status[<<t, a>>] = "PENDING"
    <3> TAKE a \in Shards
    <3> HAVE a < s
    <3>1. status[<<t, a>>] \in Statuses
      BY <1>1 DEF TypeOK
    <3>2. s <= LastShardOf(t)
      BY <2>1, <1>2
    <3> QED
      BY <2>1, <3>1, <3>2, <1>1 DEF OnePassInv
  <2> SUFFICES ASSUME NEW u \in Txs, NEW a \in Shards
               PROVE  /\ status'[<<u, a>>] # "unseen" => u \in FirstOf(test)..sent /\ a <= LastShardOf(u)
                      /\ status'[<<u, a>>] = "PENDING" => a < LastShardOf(u)
                      /\ \A b \in Shards : a < b /\ b <= LastShardOf(u) =>
                           /\ status'[<<u, a>>] = "unseen" => status'[<<u, b>>] = "unseen"
                           /\ status'[<<u, a>>] = "COMMIT" => status'[<<u, b>>] = "COMMIT"
                           /\ status'[<<u, a>>] = "ABORT"  => status'[<<u, b>>] \in {"ABORT", "unseen"}
    BY <1>1 DEF OnePassInv, FirstOf
  <2>5. CASE u # t
    BY <2>1, <2>5, <1>1 DEF OnePassInv
  <2>6. CASE u = t /\ a = s
    <3>1. status'[<<u, a>>] = d /\ t \in FirstOf(test)..sent /\ a <= LastShardOf(u)
      BY <2>1, <2>6, <1>1 DEF OnePassInv
    <3>2. \A b \in Shards : a < b => status'[<<u, b>>] = status[<<t, b>>]
      BY <2>1, <2>6, <1>2
    <3> QED
      BY <3>1, <3>2, <2>1, <2>2, <2>6
  <2>7. CASE u = t /\ a # s
    <3>1. status'[<<u, a>>] = status[<<t, a>>]
      BY <2>1, <2>7
    <3>2. ASSUME NEW b \in Shards, a < b, b <= LastShardOf(t)
          PROVE  /\ status[<<t, a>>] = "unseen" => status'[<<t, b>>] = "unseen"
                 /\ status[<<t, a>>] = "COMMIT" => status'[<<t, b>>] = "COMMIT"
                 /\ status[<<t, a>>] = "ABORT"  => status'[<<t, b>>] \in {"ABORT", "unseen"}
      <4>1. CASE b = s
        BY <3>2, <4>1, <2>3
      <4>2. CASE b # s
        BY <3>2, <4>2, <2>1, <1>1 DEF OnePassInv
      <4> QED
        BY <4>1, <4>2
    <3> QED
      BY <3>1, <3>2, <2>7, <1>1 DEF OnePassInv
  <2> QED
    BY <2>5, <2>6, <2>7
<1> QED
  BY <1>3, <1>4

(* Pointwise, what getting to a transaction does to the versions.          *)
LEMMA VersionAfterPrepare ==
  ASSUME TypeOK, NEW t \in Txs, NEW s \in Shards, Prepare(t, s)
  PROVE  /\ \A k \in Keys :
              version'[k] = IF Decide(t, s) /\ k \in Writes(t) /\ ShardOf(k) = s THEN log[s] ELSE version[k]
         /\ \A u \in Txs, r \in Shards :
              prepared'[<<u, r>>] = IF u = t /\ r = s /\ ~Refuse(t, s) THEN log[s] ELSE prepared[<<u, r>>]
<1>1. prepared \in [Txs \X Shards -> Int] /\ log[s] \in Int
  BY DEF TypeOK
<1>2. s \in Int /\ LastShardOf(t) \in Int
  BY TxFacts, ShardFacts
<1>3. CASE Refuse(t, s)
  BY <1>3 DEF Refuse, Decide
<1>4. CASE PassOn(t, s)
  <2>1. /\ UNCHANGED version /\ prepared' = [prepared EXCEPT ![<<t, s>>] = log[s]]
        /\ ~Decide(t, s) /\ ~Refuse(t, s)
    BY <1>2, <1>4 DEF PassOn, Decide, Refuse
  <2> QED
    BY <2>1, <1>1, AtPlace
<1>5. CASE Decide(t, s)
  <2>1. Install(t, s, log[s]) /\ prepared' = [prepared EXCEPT ![<<t, s>>] = log[s]] /\ ~Refuse(t, s)
    BY <1>5 DEF Decide, Refuse
  <2>2. \A u \in Txs, r \in Shards :
          prepared'[<<u, r>>] = IF u = t /\ r = s THEN log[s] ELSE prepared[<<u, r>>]
    BY <2>1, <1>1, AtPlace
  <2>3. \A k \in Keys : version'[k] = IF k \in Writes(t) /\ ShardOf(k) = s THEN log[s] ELSE version[k]
    BY <2>1, <1>1, InstallType
  <2> QED
    BY <2>1, <2>2, <2>3, <1>5
<1> QED
  BY <1>3, <1>4, <1>5, PrepareEffect

(* A transaction that is not held back finds nobody undecided on its keys. *)
LEMMA NotHeldBack ==
  ASSUME NEW t \in Txs, NEW s \in Shards, ~HeldBack(t, s), NEW u \in Txs \ {t}, status[<<u, s>>] = "PENDING"
  PROVE  ~Conflict(t, u, s) /\ ~Conflict(u, t, s)
BY DEF HeldBack, Conflict

(* A version that is written by t at s is not one that u, which does not   *)
(* conflict with it, touches there.                                        *)
LEMMA ConflictFree ==
  ASSUME NEW t \in Txs, NEW u \in Txs, NEW s \in Shards, ~Conflict(u, t, s)
  PROVE  \A k \in Touches(u, s) : k \notin Writes(t)
BY DEF Conflict

(* The versions stay below the length of the log.                          *)
LEMMA VersionStep ==
  ASSUME IInv, NEW t \in Txs, NEW s \in Shards, Prepare(t, s) \/ Learn(t, s)
  PROVE  VersionInv'
<1>1. TypeOK /\ VersionInv /\ LockInv
  BY DEF IInv
<1>2. /\ version \in [Keys -> Int] /\ log \in [Shards -> Nat] /\ prepared \in [Txs \X Shards -> Int]
      /\ \A k \in Keys : ShardOf(k) \in Shards
  BY KeyFacts DEF IInv, TypeOK
<1>3. CASE Prepare(t, s)
  <2>1. /\ \A r \in Shards : log'[r] = IF r = s THEN log[r] + 1 ELSE log[r]
        /\ \A k \in Keys :
             version'[k] = IF Decide(t, s) /\ k \in Writes(t) /\ ShardOf(k) = s THEN log[s] ELSE version[k]
    <3>1. \A r \in Shards : log'[r] = IF r = s THEN log[r] + 1 ELSE log[r]
      BY <1>1, <1>3, PrepareEffect
    <3>2. \A k \in Keys :
            version'[k] = IF Decide(t, s) /\ k \in Writes(t) /\ ShardOf(k) = s THEN log[s] ELSE version[k]
      BY <1>1, <1>3, VersionAfterPrepare
    <3> QED
      BY <3>1, <3>2
  <2> SUFFICES ASSUME NEW k \in Keys PROVE version'[k] < log'[ShardOf(k)]
    BY DEF VersionInv
  <2>2. version[k] < log[ShardOf(k)] /\ version[k] \in Int /\ log[ShardOf(k)] \in Nat /\ ShardOf(k) \in Shards
    BY <1>1, <1>2 DEF VersionInv
  <2>3. version'[k] \in {version[k], log[ShardOf(k)]} /\ (version'[k] # version[k] => ShardOf(k) = s)
    BY <2>1
  <2>4. log'[ShardOf(k)] = IF ShardOf(k) = s THEN log[ShardOf(k)] + 1 ELSE log[ShardOf(k)]
    BY <2>1, <2>2
  <2> QED
    BY <2>2, <2>3, <2>4
<1>4. CASE Learn(t, s)
  <2>1. log' = log /\ status[<<t, s>>] = "PENDING"
    BY <1>1, <1>4, LearnEffect
  <2>2. \A k \in Keys :
          version'[k] = IF status[<<t, s + 1>>] = "COMMIT" /\ k \in Writes(t) /\ ShardOf(k) = s
                        THEN prepared[<<t, s>>] ELSE version[k]
    BY <1>1, <1>4, LearnEffect
  <2>3. prepared[<<t, s>>] < log[s]
    BY <2>1, <1>1 DEF LockInv
  <2> SUFFICES ASSUME NEW k \in Keys PROVE version'[k] < log[ShardOf(k)]
    BY <2>1 DEF VersionInv
  <2>4. version[k] < log[ShardOf(k)]
    BY <1>1 DEF VersionInv
  <2> QED
    BY <2>2, <2>3, <2>4
<1> QED
  BY <1>3, <1>4

(* A shard's step keeps what the undecided transactions rely on.           *)
LEMMA LockStep ==
  ASSUME IInv, NEW t \in Txs, NEW s \in Shards, Prepare(t, s) \/ Learn(t, s)
  PROVE  LockInv'
<1>1. TypeOK /\ OnePassInv /\ VersionInv /\ LockInv
  BY DEF IInv
<1>2. /\ version \in [Keys -> Int] /\ log \in [Shards -> Nat] /\ prepared \in [Txs \X Shards -> Int]
      /\ \A k \in Keys : ShardOf(k) \in Shards
  BY KeyFacts DEF IInv, TypeOK
<1>3. guard' = guard
  BY <1>1, StoreStepType
<1>4. ASSUME NEW u \in Txs, NEW r \in Shards, NEW k \in Keys, u # t \/ r # s, status[<<u, r>>] = "PENDING",
             k \in Touches(u, r)
      PROVE  version'[k] = version[k]
  <2>1. ShardOf(k) = r
    BY <1>4 DEF Touches
  <2>2. CASE Prepare(t, s)
    <3>1. version'[k] = IF Decide(t, s) /\ k \in Writes(t) /\ ShardOf(k) = s THEN log[s] ELSE version[k]
      BY <2>2, <1>1, VersionAfterPrepare
    <3>2. CASE r = s
      <4>1. ~Conflict(u, t, s)
        BY <1>1, <1>4, <2>2, <3>2, PrepareEffect, NotHeldBack
      <4> QED
        BY <1>4, <3>1, <3>2, <4>1, ConflictFree
    <3> QED
      BY <2>1, <3>1, <3>2
  <2>3. CASE Learn(t, s)
    <3>1. version'[k] = IF status[<<t, s + 1>>] = "COMMIT" /\ k \in Writes(t) /\ ShardOf(k) = s
                        THEN prepared[<<t, s>>] ELSE version[k]
      BY <2>3, <1>1, LearnEffect
    <3>2. CASE r = s
      <4>1. status[<<t, s>>] = "PENDING"
        BY <2>3, <1>1, LearnEffect
      <4>2. ~Conflict(u, t, s)
        BY <1>1, <1>4, <3>2, <4>1 DEF LockInv
      <4> QED
        BY <1>4, <3>1, <3>2, <4>2, ConflictFree
    <3> QED
      BY <2>1, <3>1, <3>2
  <2> QED
    BY <2>2, <2>3
<1>5. ASSUME NEW u \in Txs, NEW r \in Shards, u # t \/ r # s, status[<<u, r>>] = "PENDING",
             status'[<<u, r>>] = "PENDING"
      PROVE  /\ UpToDate(u, r)' /\ prepared'[<<u, r>>] = prepared[<<u, r>>] /\ prepared[<<u, r>>] < log'[r]
             /\ \A k \in Writes(u) : ShardOf(k) = r => version'[k] < prepared[<<u, r>>]
  <2>1. \A k \in Touches(u, r) : version'[k] = version[k]
    BY <1>4, <1>5, TouchesFacts
  <2>2. UpToDate(u, r)'
    <3>1. UpToDate(u, r)
      BY <1>1, <1>5 DEF LockInv
    <3> QED
      BY <3>1, <2>1, <1>3 DEF UpToDate
  <2>3. \A k \in Writes(u) : ShardOf(k) = r => version'[k] < prepared[<<u, r>>]
    <3>1. \A k \in Writes(u) : ShardOf(k) = r => version[k] < prepared[<<u, r>>]
      BY <1>1, <1>5 DEF LockInv
    <3> QED
      BY <3>1, <2>1, TouchesFacts
  <2>4. prepared'[<<u, r>>] = prepared[<<u, r>>]
    <3>1. CASE Prepare(t, s)
      BY <3>1, <1>1, <1>5, VersionAfterPrepare
    <3>2. CASE Learn(t, s)
      BY <3>2, <1>1, LearnEffect
    <3> QED
      BY <3>1, <3>2
  <2>5. log[r] <= log'[r] /\ log'[r] \in Nat /\ log[r] \in Nat
    <3>0. log[r] \in Nat
      BY <1>2
    <3>1. CASE Prepare(t, s)
      <4>1. \A q \in Shards : log'[q] = IF q = s THEN log[q] + 1 ELSE log[q]
        BY <3>1, <1>1, PrepareEffect, ZenonT(60)
      <4>2. log'[r] = log[r] + 1 \/ log'[r] = log[r]
        BY <4>1
      <4> QED
        BY <3>0, <4>2
    <3>2. CASE Learn(t, s)
      <4>1. log' = log
        BY <3>2, <1>1, LearnEffect
      <4> QED
        BY <3>0, <4>1
    <3> QED
      BY <3>1, <3>2
  <2>6. prepared[<<u, r>>] < log[r] /\ prepared[<<u, r>>] \in Int
    BY <1>1, <1>2, <1>5 DEF LockInv
  <2>7. prepared[<<u, r>>] < log'[r]
    BY <2>5, <2>6
  <2> QED
    BY <2>2, <2>3, <2>4, <2>7
<1>6. CASE Prepare(t, s)
  <2>1. PICK d \in {"PENDING", "COMMIT", "ABORT"} :
          /\ d = "PENDING" <=> PassOn(t, s)
          /\ \A u \in Txs, r \in Shards :
               status'[<<u, r>>] = IF u = t /\ r = s THEN d ELSE status[<<u, r>>]
    BY <1>1, <1>6, StatusAfterPrepare
  <2>2. ~HeldBack(t, s) /\ log[s] \in Nat /\ log'[s] = log[s] + 1
    BY <1>1, <1>6, PrepareEffect
  <2>3. \A u \in Txs \ {t} : status[<<u, s>>] = "PENDING" => ~Conflict(t, u, s) /\ ~Conflict(u, t, s)
    BY <2>2, NotHeldBack
  <2>4. ASSUME NEW u \in Txs, NEW r \in Shards, status'[<<u, r>>] = "PENDING"
        PROVE  \A v \in Txs \ {u} : status'[<<v, r>>] = "PENDING" => ~Conflict(u, v, r)
    <3> SUFFICES ASSUME NEW v \in Txs \ {u}, status'[<<v, r>>] = "PENDING" PROVE ~Conflict(u, v, r)
      OBVIOUS
    <3>1. CASE r = s /\ u = t
      BY <2>1, <2>3, <3>1
    <3>2. CASE r = s /\ v = t
      BY <2>1, <2>3, <2>4, <3>2
    <3>3. CASE r # s \/ (u # t /\ v # t)
      BY <2>1, <2>4, <3>3, <1>1 DEF LockInv
    <3> QED
      BY <3>1, <3>2, <3>3
  <2>5. ASSUME status'[<<t, s>>] = "PENDING"
        PROVE  /\ UpToDate(t, s)' /\ prepared'[<<t, s>>] < log'[s]
               /\ \A k \in Writes(t) : ShardOf(k) = s => version'[k] < prepared'[<<t, s>>]
    <3>1. PassOn(t, s)
      BY <2>1, <2>5
    <3>2. UpToDate(t, s) /\ version' = version /\ ~Refuse(t, s)
      BY <3>1 DEF PassOn, Refuse
    <3>3. prepared'[<<t, s>>] = log[s]
      BY <3>2, <1>1, <1>6, VersionAfterPrepare
    <3>4. UpToDate(t, s)'
      BY <3>2, <1>3 DEF UpToDate
    <3>5. \A k \in Writes(t) : ShardOf(k) = s => version[k] < log[s]
      BY <1>1, TxFacts DEF VersionInv
    <3> QED
      BY <2>2, <3>2, <3>3, <3>4, <3>5
  <2>6. \A u \in Txs, r \in Shards : (u # t \/ r # s) => status'[<<u, r>>] = status[<<u, r>>]
    BY <2>1
  <2> QED
    BY <2>4, <2>5, <2>6, <1>5, ZenonT(60) DEF LockInv
<1>7. CASE Learn(t, s)
  <2>1. /\ status[<<t, s + 1>>] \in Decided
        /\ \A u \in Txs, r \in Shards :
             status'[<<u, r>>] = IF u = t /\ r = s THEN status[<<t, s + 1>>] ELSE status[<<u, r>>]
    BY <1>1, <1>7, LearnEffect
  <2>2. ASSUME NEW u \in Txs, NEW r \in Shards, status'[<<u, r>>] = "PENDING"
        PROVE  (u # t \/ r # s) /\ status[<<u, r>>] = "PENDING"
    BY <2>1, <2>2
  <2>3. ASSUME NEW u \in Txs, NEW r \in Shards, status'[<<u, r>>] = "PENDING"
        PROVE  \A v \in Txs \ {u} : status'[<<v, r>>] = "PENDING" => ~Conflict(u, v, r)
    BY <2>2, <2>3, <1>1 DEF LockInv
  <2> QED
    BY <2>2, <2>3, <1>5, ZenonT(60) DEF LockInv
<1> QED
  BY <1>6, <1>7

(* The invariant holds, whatever the programs and the shards do.           *)
THEOREM IInvHolds == Spec => []IInv
<1>1. Init => SentInv /\ OnePassInv /\ VersionInv /\ LockInv
  <2> SUFFICES ASSUME Init PROVE SentInv /\ OnePassInv /\ VersionInv /\ LockInv
    OBVIOUS
  <2>1. \A t \in Txs, s \in Shards : status[<<t, s>>] = "unseen"
    BY DEF Init
  <2>2. OnePassInv /\ LockInv
    BY <2>1 DEF OnePassInv, LockInv
  <2>3. SentInv
    <3>1. sent = FirstOf(test) - 1 /\ FirstOf(test) \in Int
      BY DEF Init, FirstOf
    <3>2. \A t \in Txs, k \in Keys : guard[t][k] = Invalid
      BY DEF Init
    <3> QED
      BY <3>1, <3>2 DEF SentInv
  <2>4. VersionInv
    <3>1. \A k \in Keys : ShardOf(k) \in Shards
      BY KeyFacts
    <3>2. \E n \in Nat : log = [s \in Shards |-> n]
      BY DEF Init
    <3>3. \A k \in Keys : log[ShardOf(k)] \in Int /\ version[k] = log[ShardOf(k)] - 1
      BY <3>1, <3>2 DEF Init
    <3> QED
      BY <3>3 DEF VersionInv
  <2> QED
    BY <2>2, <2>3, <2>4
<1>2. IInv /\ TypeOK' /\ [Next]_vars => IInv'
  <2> SUFFICES ASSUME IInv, TypeOK', [Next]_vars PROVE SentInv' /\ OnePassInv' /\ VersionInv' /\ LockInv'
    BY DEF IInv
  <2>0. TypeOK /\ SentInv /\ OnePassInv /\ VersionInv /\ LockInv
    BY DEF IInv
  <2>1. CASE PutObject
    <3>1. PICK k \in Keys :
            /\ log' \in [Shards -> Nat] /\ version' \in [Keys -> Int]
            /\ \A s \in Shards : log'[s] = IF s = ShardOf(k) THEN log[s] + 1 ELSE log[s]
            /\ \A l \in Keys : version'[l] = IF l = k THEN log[ShardOf(k)] ELSE version[l]
      BY <2>0, <2>1, PutEffect
    <3>2. test' = test /\ sent' = sent /\ guard' = guard /\ status' = status /\ puts < TotalPuts
      BY <2>1 DEF PutObject
    <3>3. puts # TotalPuts
      BY <2>0, <3>2, SentFacts
    <3>4. \A t \in Txs, s \in Shards : status[<<t, s>>] = "unseen"
      BY <3>3, NothingSeen
    <3>5. OnePassInv' /\ LockInv'
      BY <3>2, <3>4 DEF OnePassInv, LockInv
    <3>6. SentInv'
      BY <2>0, <3>2, <3>3 DEF SentInv, FirstOf
    <3>7. VersionInv'
      <4> SUFFICES ASSUME NEW l \in Keys PROVE version'[l] < log'[ShardOf(l)]
        BY DEF VersionInv
      <4>1. ShardOf(l) \in Shards /\ ShardOf(k) \in Shards
        BY KeyFacts
      <4>2. log[ShardOf(l)] \in Nat /\ log[ShardOf(k)] \in Nat /\ version[l] \in Int /\ version[l] < log[ShardOf(l)]
        BY <2>0, <4>1 DEF TypeOK, VersionInv
      <4>3. log'[ShardOf(l)] = IF ShardOf(l) = ShardOf(k) THEN log[ShardOf(l)] + 1 ELSE log[ShardOf(l)]
        BY <3>1, <4>1
      <4>4. version'[l] = IF l = k THEN log[ShardOf(k)] ELSE version[l]
        BY <3>1
      <4> QED
        BY <4>2, <4>3, <4>4
    <3> QED
      BY <3>5, <3>6, <3>7
  <2>2. CASE SendTx
    <3>1. /\ sent + 1 \in TxOf(test) /\ sent' = sent + 1 /\ puts = TotalPuts /\ sent + 1 \in Txs
          /\ \A u \in Txs : guard'[u] = IF u = sent + 1 THEN [k \in Keys |-> Named(sent + 1, k)] ELSE guard[u]
      BY <2>0, <2>2, SendEffect
    <3>2. UNCHANGED <<test, puts, versions, log, version, status, prepared>>
      BY <2>2 DEF SendTx, store
    <3>3. SentInv'
      <4>1. \A k \in Keys : k \notin Writes(sent + 1) \cup ReadOnly(sent + 1) => Named(sent + 1, k) = Invalid
        BY <2>0, <3>1, NamedFacts
      <4>2. ASSUME NEW u \in Txs, NEW k \in Keys, k \notin Writes(u) \cup ReadOnly(u)
            PROVE  guard'[u][k] = Invalid
        <5>1. CASE u = sent + 1
          BY <3>1, <4>1, <4>2, <5>1
        <5>2. CASE u # sent + 1
          BY <2>0, <3>1, <4>2, <5>2 DEF SentInv
        <5> QED
          BY <5>1, <5>2
      <4>3. FirstOf(test) - 1 <= sent + 1
        BY <2>0, SentFacts DEF SentInv
      <4>4. TotalPuts' = TotalPuts /\ FirstOf(test)' = FirstOf(test)
        BY <3>2 DEF TotalPuts, FirstOf
      <4> QED
        BY <3>1, <3>2, <4>2, <4>3, <4>4 DEF SentInv
    <3>4. \A t \in Txs, s \in Shards : status[<<t, s>>] # "unseen" => t \in FirstOf(test)..sent /\ t # sent + 1
      BY <2>0, SentFacts DEF OnePassInv
    <3>5. OnePassInv'
      <4>1. FirstOf(test)..sent \subseteq FirstOf(test)..(sent + 1)
        BY <2>0, SentFacts
      <4>2. FirstOf(test)' = FirstOf(test)
        BY <3>2 DEF FirstOf
      <4> QED
        BY <2>0, <3>1, <3>2, <4>1, <4>2, ZenonT(60) DEF OnePassInv
    <3>6. \A t \in Txs, s \in Shards : status[<<t, s>>] = "PENDING" => guard'[t] = guard[t]
      BY <3>1, <3>4
    <3>7. LockInv'
      BY <2>0, <3>2, <3>6, ZenonT(60) DEF LockInv, UpToDate
    <3>8. VersionInv'
      BY <2>0, <3>2 DEF VersionInv
    <3> QED
      BY <3>3, <3>5, <3>7, <3>8
  <2>3. CASE Report \/ UNCHANGED vars
    <3>1. UNCHANGED <<test, puts, sent, guard, log, version, status, prepared>>
      BY <2>3 DEF Report, store, vars, client
    <3> QED
      BY <2>0, <3>1 DEF SentInv, OnePassInv, VersionInv, LockInv, UpToDate, FirstOf, TotalPuts
  <2>4. ASSUME NEW t \in Txs, NEW s \in Shards, Prepare(t, s) \/ Learn(t, s)
        PROVE  SentInv' /\ OnePassInv' /\ VersionInv' /\ LockInv'
    <3>1. UNCHANGED <<test, puts, sent, guard>>
      BY <2>0, <2>4, StoreStepType DEF client
    <3>2. SentInv'
      BY <2>0, <3>1 DEF SentInv, FirstOf, TotalPuts
    <3> QED
      BY <2>4, <3>2, OnePassStep, VersionStep, LockStep
  <2> QED
    BY <2>1, <2>2, <2>3, <2>4 DEF Next, Client, Shard
<1> QED
  <2>1. Init /\ TypeOK => IInv
    BY <1>1 DEF IInv
  <2> QED
    BY <1>2, <2>1, TypeCorrect, PTL DEF Spec

-----------------------------------------------------------------------------
(***************************************************************************)
(* One at a time                                                           *)
(***************************************************************************)
(* The outcome of a transaction is the decision known to any of the        *)
(* shards; without one, no shard knows more than that it is undecided.     *)
OutcomeFacts ==
  \A t \in Txs :
    /\ Outcome(t) \in {"PENDING", "COMMIT", "ABORT"}
    /\ \A s \in Shards : status[<<t, s>>] \in Decided => Outcome(t) = status[<<t, s>>]
    /\ Outcome(t) = "COMMIT" <=> status[<<t, LastShardOf(t)>>] = "COMMIT"
    /\ Outcome(t) = "ABORT" <=> Dropped(t)
    /\ Outcome(t) # "PENDING" => t \in FirstOf(test)..sent

(* They follow from the invariant.                                         *)
LEMMA OutcomeIs == IInv => OutcomeFacts
<1> SUFFICES ASSUME IInv, NEW t \in Txs
             PROVE  /\ Outcome(t) \in {"PENDING", "COMMIT", "ABORT"}
                    /\ \A s \in Shards : status[<<t, s>>] \in Decided => Outcome(t) = status[<<t, s>>]
                    /\ Outcome(t) = "COMMIT" <=> status[<<t, LastShardOf(t)>>] = "COMMIT"
                    /\ Outcome(t) = "ABORT" <=> Dropped(t)
                    /\ Outcome(t) # "PENDING" => t \in FirstOf(test)..sent
  BY DEF OutcomeFacts
<1>1. OnePassInv /\ LastShardOf(t) \in Shards /\ LastShardOf(t) \in Int /\ \A s \in Shards : s \in Int
  BY TxFacts, ShardFacts DEF IInv
<1>2. ASSUME NEW s \in Shards, status[<<t, s>>] = "COMMIT"
      PROVE  status[<<t, LastShardOf(t)>>] = "COMMIT"
  <2>1. s <= LastShardOf(t)
    BY <1>1, <1>2 DEF OnePassInv
  <2>2. s = LastShardOf(t) \/ s < LastShardOf(t)
    BY <1>1, <2>1
  <2> QED
    BY <1>1, <1>2, <2>2 DEF OnePassInv
<1>3. ASSUME NEW s \in Shards, status[<<t, s>>] = "ABORT"
      PROVE  status[<<t, LastShardOf(t)>>] # "COMMIT"
  <2>1. s <= LastShardOf(t)
    BY <1>1, <1>3 DEF OnePassInv
  <2>2. s = LastShardOf(t) \/ s < LastShardOf(t)
    BY <1>1, <2>1
  <2> QED
    BY <1>1, <1>3, <2>2 DEF OnePassInv
<1>4. ASSUME NEW s \in Shards, status[<<t, s>>] \in Decided
      PROVE  Outcome(t) = status[<<t, s>>]
  BY <1>2, <1>3, <1>4 DEF Outcome, Dropped
<1>5. Outcome(t) = "COMMIT" <=> status[<<t, LastShardOf(t)>>] = "COMMIT"
  BY <1>1, <1>3 DEF Outcome, Dropped
<1>6. Outcome(t) # "PENDING" => t \in FirstOf(test)..sent
  BY <1>1 DEF Outcome, Dropped, OnePassInv
<1> QED
  BY <1>4, <1>5, <1>6 DEF Outcome, Dropped

(* At most one transaction is committed and not yet written to a key.      *)
SerialFacts ==
  \A k \in Keys :
    /\ \A t \in Txs :
         t \in Installing(k) <=> k \in Writes(t) /\ Outcome(t) = "COMMIT" /\ status[<<t, ShardOf(k)>>] = "PENDING"
    /\ \A t \in Installing(k) : SerialVersion(k) = prepared[<<t, ShardOf(k)>>]
    /\ (\A t \in Txs : t \notin Installing(k)) => SerialVersion(k) = version[k]
    /\ version[k] \in Int /\ SerialVersion(k) \in Int /\ version[k] <= SerialVersion(k)

(* They follow from the invariant.                                         *)
LEMMA SerialVersionIs == IInv => SerialFacts
<1> SUFFICES ASSUME IInv, NEW k \in Keys
             PROVE  /\ \A t \in Txs : t \in Installing(k) <=>
                         k \in Writes(t) /\ Outcome(t) = "COMMIT" /\ status[<<t, ShardOf(k)>>] = "PENDING"
                    /\ \A t \in Installing(k) : SerialVersion(k) = prepared[<<t, ShardOf(k)>>]
                    /\ (\A t \in Txs : t \notin Installing(k)) => SerialVersion(k) = version[k]
                    /\ version[k] \in Int /\ SerialVersion(k) \in Int /\ version[k] <= SerialVersion(k)
  BY DEF SerialFacts
<1>1. \A t \in Txs : t \in Installing(k) <=>
        k \in Writes(t) /\ Outcome(t) = "COMMIT" /\ status[<<t, ShardOf(k)>>] = "PENDING"
  BY DEF Installing
<1>2. LockInv /\ ShardOf(k) \in Shards /\ version[k] \in Int
  BY KeyFacts DEF IInv, TypeOK
<1>3. \A t, u \in Installing(k) : t = u
  <2> SUFFICES ASSUME NEW t \in Installing(k), NEW u \in Installing(k), t # u PROVE FALSE
    OBVIOUS
  <2>1. t \in Txs /\ u \in Txs /\ k \in Writes(t) /\ k \in Writes(u)
        /\ status[<<t, ShardOf(k)>>] = "PENDING" /\ status[<<u, ShardOf(k)>>] = "PENDING"
    BY DEF Installing
  <2>2. ~Conflict(t, u, ShardOf(k))
    BY <1>2, <2>1 DEF LockInv
  <2>3. k \in Touches(t, ShardOf(k))
    BY <2>1 DEF Touches
  <2> QED
    BY <2>1, <2>2, <2>3, ConflictFree DEF Conflict
<1>4. ASSUME NEW t \in Installing(k)
      PROVE  SerialVersion(k) = prepared[<<t, ShardOf(k)>>] /\ SerialVersion(k) \in Int /\ version[k] < SerialVersion(k)
  <2>1. (CHOOSE u \in Installing(k) : TRUE) = t
    BY <1>3
  <2>2. SerialVersion(k) = prepared[<<t, ShardOf(k)>>]
    BY <2>1 DEF SerialVersion
  <2>3. t \in Txs /\ k \in Writes(t) /\ status[<<t, ShardOf(k)>>] = "PENDING"
    BY DEF Installing
  <2>4. prepared[<<t, ShardOf(k)>>] \in Int
    BY <1>2, <2>3 DEF IInv, TypeOK
  <2>5. version[k] < prepared[<<t, ShardOf(k)>>]
    BY <1>2, <2>3 DEF LockInv
  <2> QED
    BY <2>2, <2>4, <2>5
<1>5. (\A t \in Txs : t \notin Installing(k)) => SerialVersion(k) = version[k]
  BY DEF SerialVersion, Installing
<1>6. SerialVersion(k) \in Int /\ version[k] <= SerialVersion(k)
  <2>1. CASE \E t \in Txs : t \in Installing(k)
    <3>1. SerialVersion(k) \in Int /\ version[k] < SerialVersion(k)
      BY <1>4, <2>1
    <3> QED
      BY <3>1, <1>2
  <2>2. CASE \A t \in Txs : t \notin Installing(k)
    BY <1>2, <1>5, <2>2
  <2> QED
    BY <2>1, <2>2
<1> QED
  BY <1>1, <1>2, <1>4, <1>5, <1>6

(* The outcomes in the next state.                                         *)
LEMMA OutcomeNext ==
  ASSUME IInv'
  PROVE  \A t \in Txs :
         /\ Outcome(t)' \in {"PENDING", "COMMIT", "ABORT"}
         /\ \A s \in Shards : status'[<<t, s>>] \in Decided => Outcome(t)' = status'[<<t, s>>]
         /\ Outcome(t)' = "COMMIT" <=> status'[<<t, LastShardOf(t)>>] = "COMMIT"
         /\ Outcome(t)' = "ABORT" <=> \E s \in Shards : status'[<<t, s>>] = "ABORT"
<1>1. OutcomeFacts'
  BY OutcomeIs, PTL
<1> QED
  BY <1>1 DEF OutcomeFacts, Dropped

(* The versions in the next state.                                         *)
LEMMA SerialNext ==
  ASSUME IInv'
  PROVE  \A k \in Keys :
         /\ \A u \in Txs :
              k \in Writes(u) /\ Outcome(u)' = "COMMIT" /\ status'[<<u, ShardOf(k)>>] = "PENDING"
                => SerialVersion(k)' = prepared'[<<u, ShardOf(k)>>]
         /\ (\A u \in Txs : ~(k \in Writes(u) /\ Outcome(u)' = "COMMIT" /\ status'[<<u, ShardOf(k)>>] = "PENDING"))
              => SerialVersion(k)' = version'[k]
<1> SUFFICES ASSUME NEW k \in Keys
             PROVE  /\ \A u \in Txs :
                         k \in Writes(u) /\ Outcome(u)' = "COMMIT" /\ status'[<<u, ShardOf(k)>>] = "PENDING"
                           => SerialVersion(k)' = prepared'[<<u, ShardOf(k)>>]
                    /\ (\A u \in Txs : ~(k \in Writes(u) /\ Outcome(u)' = "COMMIT" /\ status'[<<u, ShardOf(k)>>] = "PENDING"))
                         => SerialVersion(k)' = version'[k]
  OBVIOUS
<1>1. SerialFacts'
  BY SerialVersionIs, PTL
<1>2. /\ \A u \in Txs : u \in Installing(k)' <=>
           k \in Writes(u) /\ Outcome(u)' = "COMMIT" /\ status'[<<u, ShardOf(k)>>] = "PENDING"
      /\ \A u \in Installing(k)' : SerialVersion(k)' = prepared'[<<u, ShardOf(k)>>]
      /\ (\A u \in Txs : u \notin Installing(k)') => SerialVersion(k)' = version'[k]
  BY <1>1 DEF SerialFacts
<1> QED
  BY <1>2

(* What a step does to the store as it is seen one transaction at a time.  *)
Renews(keys) ==
  \A k \in Keys : IF k \in keys THEN SerialVersion(k)' > SerialVersion(k) ELSE SerialVersion(k)' = SerialVersion(k)

KeepsOutcomes == \A t \in Txs : Outcome(t)' = Outcome(t)

Settles(t, d) ==
  /\ Outcome(t) = "PENDING" /\ Outcome(t)' = d
  /\ \A u \in Txs \ {t} : Outcome(u)' = Outcome(u)

IsCurrent(t, k) == guard[t][k] \in {Invalid, SerialVersion(k)}

Commits(t) == Settles(t, "COMMIT") /\ (\A k \in Keys : IsCurrent(t, k)) /\ Renews(Writes(t))
Aborts(t)  == Settles(t, "ABORT") /\ (\E k \in Keys : ~IsCurrent(t, k)) /\ Renews({})

(* When a shard gets to a transaction, nobody else is about to write what  *)
(* it touches there or on the shards before.                               *)
LEMMA NobodyInstalls ==
  ASSUME IInv, NEW t \in Txs, NEW s \in Shards, Prepare(t, s),
         NEW k \in Writes(t) \cup ReadOnly(t), ShardOf(k) <= s
  PROVE  /\ \A u \in Txs : ~(k \in Writes(u) /\ status[<<u, ShardOf(k)>>] = "PENDING" /\ u # t)
         /\ \A u \in Txs : u \notin Installing(k)
         /\ SerialVersion(k) = version[k]
<1>1. /\ k \in Keys /\ ShardOf(k) \in Shards /\ k \in Touches(t, ShardOf(k))
      /\ ShardOf(k) \in Int /\ s \in Int /\ LastShardOf(t) \in Int
  BY TxFacts, KeyFacts, ShardFacts DEF Touches
<1>2. TypeOK /\ LockInv /\ OutcomeFacts /\ SerialFacts
  BY OutcomeIs, SerialVersionIs DEF IInv
<1>3. ASSUME NEW u \in Txs, k \in Writes(u), status[<<u, ShardOf(k)>>] = "PENDING", u # t
      PROVE  FALSE
  <2>1. ~Conflict(t, u, ShardOf(k))
    <3>1. CASE ShardOf(k) = s
      BY <1>2, <1>3, <3>1, PrepareEffect, NotHeldBack
    <3>2. CASE ShardOf(k) < s
      BY <1>1, <1>2, <1>3, <3>2, AroundPrepare DEF LockInv
    <3> QED
      BY <1>1, <3>1, <3>2
  <2> QED
    BY <1>1, <1>3, <2>1, ConflictFree
<1>4. Outcome(t) # "COMMIT"
  <2>1. LastShardOf(t) \in Shards /\ s <= LastShardOf(t)
    BY <1>2, TxFacts, PrepareEffect
  <2>2. status[<<t, LastShardOf(t)>>] = "unseen"
    BY <1>1, <2>1, AroundPrepare
  <2> QED
    BY <1>2, <2>2 DEF OutcomeFacts
<1>5. \A u \in Txs : u \notin Installing(k)
  BY <1>3, <1>4 DEF Installing
<1> QED
  BY <1>1, <1>2, <1>3, <1>5 DEF SerialFacts

(* Outcomes depend on nothing but the decisions known to the shards.       *)
LEMMA SameOutcome ==
  ASSUME IInv, IInv', NEW u \in Txs, \A r \in Shards : status'[<<u, r>>] = status[<<u, r>>]
  PROVE  Outcome(u)' = Outcome(u)
<1>1. OutcomeFacts /\ LastShardOf(u) \in Shards
  BY OutcomeIs, TxFacts
<1>2. /\ Outcome(u) \in {"PENDING", "COMMIT", "ABORT"}
      /\ Outcome(u) = "COMMIT" <=> status[<<u, LastShardOf(u)>>] = "COMMIT"
      /\ Outcome(u) = "ABORT" <=> \E r \in Shards : status[<<u, r>>] = "ABORT"
  BY <1>1 DEF OutcomeFacts, Dropped
<1>3. /\ Outcome(u)' \in {"PENDING", "COMMIT", "ABORT"}
      /\ Outcome(u)' = "COMMIT" <=> status'[<<u, LastShardOf(u)>>] = "COMMIT"
      /\ Outcome(u)' = "ABORT" <=> \E s \in Shards : status'[<<u, s>>] = "ABORT"
  BY OutcomeNext
<1> QED
  BY <1>1, <1>2, <1>3

(* Getting to a transaction decides it, as a whole, or changes nothing.    *)
LEMMA PrepareSettles ==
  ASSUME IInv, IInv', NEW t \in Txs, NEW s \in Shards, Prepare(t, s)
  PROVE  \/ Refuse(t, s) /\ Aborts(t)
         \/ PassOn(t, s) /\ KeepsOutcomes /\ Renews({})
         \/ Decide(t, s) /\ Commits(t)
<1>1. /\ TypeOK /\ SentInv /\ LockInv /\ VersionInv /\ OutcomeFacts /\ SerialFacts
      /\ s \in Int /\ LastShardOf(t) \in Shards /\ LastShardOf(t) \in Int /\ s <= LastShardOf(t)
      /\ guard' = guard
  BY OutcomeIs, SerialVersionIs, TxFacts, ShardFacts, PrepareEffect DEF IInv
<1>2. PICK d \in {"PENDING", "COMMIT", "ABORT"} :
        /\ d = "PENDING" <=> PassOn(t, s)
        /\ d = "COMMIT"  <=> Decide(t, s)
        /\ d = "ABORT"   <=> Refuse(t, s)
        /\ d = "PENDING" => s < LastShardOf(t)
        /\ d = "COMMIT"  => s = LastShardOf(t)
        /\ \A u \in Txs, r \in Shards :
             status'[<<u, r>>] = IF u = t /\ r = s THEN d ELSE status[<<u, r>>]
  BY <1>1, StatusAfterPrepare
<1>3. /\ \A q \in Shards : q < s => status[<<t, q>>] = "PENDING"
      /\ \A r \in Shards : s <= r /\ r <= LastShardOf(t) => status[<<t, r>>] = "unseen"
  BY AroundPrepare
<1>4. \A k \in Keys :
        version'[k] = IF Decide(t, s) /\ k \in Writes(t) /\ ShardOf(k) = s THEN log[s] ELSE version[k]
  BY <1>1, VersionAfterPrepare
<1>5. \A u \in Txs, r \in Shards :
        prepared'[<<u, r>>] = IF u = t /\ r = s /\ ~Refuse(t, s) THEN log[s] ELSE prepared[<<u, r>>]
  BY <1>1, VersionAfterPrepare
<1>6. Outcome(t) = "PENDING"
  <2>1. ASSUME NEW r \in Shards, status[<<t, r>>] = "ABORT" PROVE FALSE
    <3>1. r <= LastShardOf(t) /\ r \in Int
      BY <2>1, ShardFacts DEF IInv, OnePassInv
    <3>2. r < s \/ s <= r
      BY <3>1, <1>1
    <3> QED
      BY <2>1, <3>1, <3>2, <1>3
  <2>2. status[<<t, LastShardOf(t)>>] = "unseen"
    BY <1>1, <1>3
  <2> QED
    BY <2>1, <2>2, <1>1 DEF OutcomeFacts, Dropped
<1>7. Outcome(t)' = d
  <2>2. /\ Outcome(t)' \in {"PENDING", "COMMIT", "ABORT"}
        /\ \A r \in Shards : status'[<<t, r>>] \in Decided => Outcome(t)' = status'[<<t, r>>]
        /\ Outcome(t)' = "COMMIT" <=> status'[<<t, LastShardOf(t)>>] = "COMMIT"
        /\ Outcome(t)' = "ABORT" <=> \E r \in Shards : status'[<<t, r>>] = "ABORT"
    BY OutcomeNext
  <2>3. CASE d = "PENDING"
    <3>1. status'[<<t, LastShardOf(t)>>] # "COMMIT"
      BY <1>1, <1>2, <1>3, <2>3
    <3>2. ASSUME NEW r \in Shards, status'[<<t, r>>] = "ABORT" PROVE FALSE
      <4>1. status[<<t, r>>] = "ABORT"
        BY <1>2, <2>3, <3>2
      <4> QED
        BY <4>1, <1>1, <1>6 DEF OutcomeFacts, Dropped
    <3> QED
      BY <2>2, <2>3, <3>1, <3>2
  <2>4. CASE d # "PENDING"
    <3>1. status'[<<t, s>>] = d
      BY <1>2
    <3> QED
      BY <2>2, <2>4, <3>1
  <2> QED
    BY <2>3, <2>4
<1>8. \A u \in Txs \ {t} : Outcome(u)' = Outcome(u)
  BY <1>2, SameOutcome
<1>9. ASSUME NEW k \in Keys, ~(Decide(t, s) /\ k \in Writes(t))
      PROVE  SerialVersion(k)' = SerialVersion(k)
  <2>1. version'[k] = version[k] /\ ShardOf(k) \in Shards
    BY <1>4, <1>9, KeyFacts
  <2>2. ~(k \in Writes(t) /\ Outcome(t) = "COMMIT") /\ ~(k \in Writes(t) /\ Outcome(t)' = "COMMIT")
    BY <1>2, <1>6, <1>7, <1>9
  <2>3. \A u \in Txs : (k \in Writes(u) /\ Outcome(u)' = "COMMIT" /\ status'[<<u, ShardOf(k)>>] = "PENDING")
                       <=> u \in Installing(k)
    <3> TAKE u \in Txs
    <3>1. CASE u = t
      BY <3>1, <2>2 DEF Installing
    <3>2. CASE u # t
      BY <3>2, <2>1, <1>2, <1>8 DEF Installing
    <3> QED
      BY <3>1, <3>2
  <2>4. CASE \E u \in Txs : u \in Installing(k)
    <3>1. PICK u \in Txs : u \in Installing(k)
      BY <2>4
    <3>2. u # t
      BY <3>1, <2>2 DEF Installing
    <3>3. SerialVersion(k)' = prepared'[<<u, ShardOf(k)>>]
      BY <3>1, <2>3, SerialNext
    <3>4. SerialVersion(k) = prepared[<<u, ShardOf(k)>>]
      BY <3>1, <1>1 DEF SerialFacts
    <3> QED
      BY <3>2, <3>3, <3>4, <2>1, <1>5
  <2>5. CASE \A u \in Txs : u \notin Installing(k)
    <3>1. SerialVersion(k)' = version'[k]
      BY <2>5, <2>3, SerialNext
    <3>2. SerialVersion(k) = version[k]
      BY <2>5, <1>1 DEF SerialFacts
    <3> QED
      BY <3>1, <3>2, <2>1
  <2> QED
    BY <2>4, <2>5
<1>10. CASE d = "ABORT"
  <2>1. Refuse(t, s) /\ ~Decide(t, s)
    BY <1>2, <1>10
  <2>2. PICK k \in Touches(t, s) : guard[t][k] \notin {Invalid, version[k]}
    BY <2>1 DEF Refuse, UpToDate
  <2>3. k \in Writes(t) \cup ReadOnly(t) /\ ShardOf(k) <= s /\ k \in Keys
    BY <1>1, TouchesFacts DEF Touches
  <2>4. ~IsCurrent(t, k)
    BY <2>2, <2>3, NobodyInstalls DEF IsCurrent
  <2> QED
    BY <2>1, <2>3, <2>4, <1>6, <1>7, <1>8, <1>9, <1>10 DEF Aborts, Settles, Renews
<1>11. CASE d = "PENDING"
  <2>1. PassOn(t, s) /\ ~Decide(t, s)
    BY <1>2, <1>11
  <2> QED
    BY <2>1, <1>6, <1>7, <1>8, <1>9, <1>11 DEF KeepsOutcomes, Renews
<1>12. CASE d = "COMMIT"
  <2>1. Decide(t, s) /\ s = LastShardOf(t) /\ ~Refuse(t, s)
    BY <1>2, <1>12
  <2>2. \A k \in Writes(t) \cup ReadOnly(t) :
          k \in Keys /\ ShardOf(k) \in Shards /\ ShardOf(k) \in Int /\ ShardOf(k) <= s /\ SerialVersion(k) = version[k]
    <3> TAKE k \in Writes(t) \cup ReadOnly(t)
    <3>1. k \in Keys /\ ShardOf(k) <= s
      BY <2>1, TxFacts
    <3> QED
      BY <3>1, KeyFacts, ShardFacts, NobodyInstalls
  <2>3. ASSUME NEW k \in Keys PROVE IsCurrent(t, k)
    <3>1. CASE k \notin Writes(t) \cup ReadOnly(t)
      BY <3>1, <1>1 DEF SentInv, IsCurrent
    <3>2. CASE k \in Writes(t) \cup ReadOnly(t)
      <4>1. UpToDate(t, ShardOf(k))
        <5>1. CASE ShardOf(k) = s
          BY <5>1, <2>1 DEF Decide
        <5>2. CASE ShardOf(k) < s
          BY <5>2, <3>2, <2>2, <1>1, <1>3 DEF LockInv
        <5> QED
          BY <5>1, <5>2, <3>2, <2>2, <1>1
      <4>2. guard[t][k] \in {Invalid, version[k]}
        BY <3>2, <4>1 DEF UpToDate, Touches
      <4> QED
        BY <3>2, <4>2, <2>2 DEF IsCurrent
    <3> QED
      BY <3>1, <3>2
  <2>4. ASSUME NEW k \in Writes(t) PROVE SerialVersion(k)' > SerialVersion(k)
    <3>1. k \in Keys /\ ShardOf(k) \in Shards /\ ShardOf(k) \in Int /\ ShardOf(k) <= s /\ SerialVersion(k) = version[k]
      BY <2>2
    <3>2. version[k] \in Int /\ log[s] \in Int /\ prepared[<<t, ShardOf(k)>>] \in Int
      BY <3>1, <1>1 DEF TypeOK
    <3>3. CASE ShardOf(k) = s
      <4>1. \A u \in Txs : ~(k \in Writes(u) /\ status'[<<u, ShardOf(k)>>] = "PENDING")
        <5>1. \A u \in Txs : ~(k \in Writes(u) /\ status[<<u, ShardOf(k)>>] = "PENDING" /\ u # t)
          BY <3>1, NobodyInstalls
        <5> QED
          BY <5>1, <3>1, <3>3, <1>2, <1>12
      <4>2. SerialVersion(k)' = version'[k]
        BY <4>1, <3>1, SerialNext
      <4>3. version'[k] = log[s]
        BY <1>4, <2>1, <3>1, <3>3
      <4>4. version[k] < log[s]
        BY <1>1, <3>1, <3>3 DEF VersionInv
      <4> QED
        BY <3>1, <3>2, <4>2, <4>3, <4>4
    <3>4. CASE ShardOf(k) < s
      <4>1. status[<<t, ShardOf(k)>>] = "PENDING" /\ status'[<<t, ShardOf(k)>>] = "PENDING"
        BY <3>1, <3>4, <1>1, <1>2, <1>3
      <4>2. SerialVersion(k)' = prepared'[<<t, ShardOf(k)>>]
        BY <3>1, <4>1, <1>7, <1>12, SerialNext
      <4>3. prepared'[<<t, ShardOf(k)>>] = prepared[<<t, ShardOf(k)>>]
        BY <3>1, <3>4, <1>1, <1>5
      <4>4. version[k] < prepared[<<t, ShardOf(k)>>]
        BY <1>1, <3>1, <4>1 DEF LockInv
      <4> QED
        BY <3>1, <3>2, <4>2, <4>3, <4>4
    <3> QED
      BY <3>1, <3>3, <3>4, <1>1
  <2> QED
    BY <2>1, <2>3, <2>4, <1>6, <1>7, <1>8, <1>9, <1>12 DEF Commits, Settles, Renews
<1> QED
  BY <1>10, <1>11, <1>12

(* Learning a decision changes nothing that was not decided before.        *)
LEMMA LearnKeeps ==
  ASSUME IInv, IInv', NEW t \in Txs, NEW s \in Shards, Learn(t, s)
  PROVE  KeepsOutcomes /\ Renews({})
<1>1. TypeOK /\ LockInv /\ OutcomeFacts /\ SerialFacts
  BY OutcomeIs, SerialVersionIs DEF IInv
<1> DEFINE d == status[<<t, s + 1>>]
<1>2. /\ s + 1 \in Shards /\ status[<<t, s>>] = "PENDING" /\ d \in Decided
      /\ \A u \in Txs, r \in Shards : status'[<<u, r>>] = IF u = t /\ r = s THEN d ELSE status[<<u, r>>]
      /\ \A k \in Keys :
           version'[k] = IF d = "COMMIT" /\ k \in Writes(t) /\ ShardOf(k) = s THEN prepared[<<t, s>>] ELSE version[k]
      /\ prepared' = prepared
  BY <1>1, LearnEffect
<1>3. Outcome(t) = d
  BY <1>1, <1>2 DEF OutcomeFacts
<1> HIDE DEF d
<1>4. Outcome(t)' = d
  <2>1. status'[<<t, s>>] = d
    BY <1>2
  <2> QED
    BY <1>2, <2>1, OutcomeNext
<1>5. ASSUME NEW u \in Txs PROVE Outcome(u)' = Outcome(u)
  <2>1. CASE u = t
    BY <2>1, <1>3, <1>4
  <2>2. CASE u # t
    BY <2>2, <1>2, SameOutcome
  <2> QED
    BY <2>1, <2>2
<1>6. ASSUME NEW k \in Keys PROVE SerialVersion(k)' = SerialVersion(k)
  <2>1. ShardOf(k) \in Shards
    BY KeyFacts
  <2>2. \A u \in Txs : u \in Installing(k) <=>
          k \in Writes(u) /\ Outcome(u) = "COMMIT" /\ status[<<u, ShardOf(k)>>] = "PENDING"
    BY <1>1 DEF SerialFacts
  <2>3. CASE d = "COMMIT" /\ k \in Writes(t) /\ ShardOf(k) = s
    <3>1. t \in Installing(k)
      BY <2>2, <2>3, <1>2, <1>3
    <3>2. SerialVersion(k) = prepared[<<t, s>>]
      BY <3>1, <2>3, <1>1 DEF SerialFacts
    <3>3. ASSUME NEW u \in Txs, k \in Writes(u), status'[<<u, ShardOf(k)>>] = "PENDING"
          PROVE  FALSE
      <4>1. u # t /\ status[<<u, s>>] = "PENDING"
        BY <3>3, <2>3, <1>2
      <4>2. ~Conflict(t, u, s)
        BY <4>1, <1>1, <1>2 DEF LockInv
      <4>3. k \in Touches(t, s) /\ k \in Touches(t, s) \cap Writes(u)
        BY <2>3, <3>3, TouchesFacts
      <4> QED
        BY <4>2, <4>3 DEF Conflict
    <3>4. SerialVersion(k)' = version'[k]
      BY <3>3, SerialNext
    <3> QED
      BY <3>2, <3>4, <1>2, <2>3
  <2>4. CASE ~(d = "COMMIT" /\ k \in Writes(t) /\ ShardOf(k) = s)
    <3>1. version'[k] = version[k]
      BY <1>2, <2>4
    <3>2. \A u \in Txs : (k \in Writes(u) /\ Outcome(u)' = "COMMIT" /\ status'[<<u, ShardOf(k)>>] = "PENDING")
                         <=> u \in Installing(k)
      <4> TAKE u \in Txs
      <4>1. CASE u = t /\ ShardOf(k) = s
        BY <4>1, <2>2, <2>4, <1>3, <1>4
      <4>2. CASE ~(u = t /\ ShardOf(k) = s)
        BY <4>2, <2>1, <2>2, <1>2, <1>5
      <4> QED
        BY <4>1, <4>2
    <3>3. CASE \E u \in Txs : u \in Installing(k)
      <4>1. PICK u \in Txs : u \in Installing(k)
        BY <3>3
      <4>2. SerialVersion(k)' = prepared'[<<u, ShardOf(k)>>]
        BY <4>1, <3>2, SerialNext
      <4>3. SerialVersion(k) = prepared[<<u, ShardOf(k)>>]
        BY <4>1, <1>1 DEF SerialFacts
      <4> QED
        BY <4>2, <4>3, <1>2
    <3>4. CASE \A u \in Txs : u \notin Installing(k)
      <4>1. SerialVersion(k)' = version'[k]
        BY <3>4, <3>2, SerialNext
      <4>2. SerialVersion(k) = version[k]
        BY <3>4, <1>1 DEF SerialFacts
      <4> QED
        BY <4>1, <4>2, <3>1
    <3> QED
      BY <3>3, <3>4
  <2> QED
    BY <2>3, <2>4
<1> QED
  BY <1>5, <1>6 DEF KeepsOutcomes, Renews

(* A put renews its key, and nothing was sent yet.                         *)
LEMMA PutRenews ==
  ASSUME IInv, IInv', PutObject
  PROVE  /\ KeepsOutcomes
         /\ \E k \in Keys : k = KeyList[(puts \div 2) + 1] /\ Renews({k})
         /\ \A k \in Keys : SerialVersion(k) = version[k] /\ SerialVersion(k)' = version'[k]
<1>1. TypeOK /\ VersionInv /\ OutcomeFacts /\ SerialFacts
  BY OutcomeIs, SerialVersionIs DEF IInv
<1>2. status' = status /\ puts < TotalPuts
  BY DEF PutObject
<1>3. \A t \in Txs, s \in Shards : status[<<t, s>>] = "unseen"
  <2>1. puts # TotalPuts
    BY <1>1, <1>2, SentFacts
  <2> QED
    BY <2>1, NothingSeen
<1>4. KeepsOutcomes
  BY <1>2, SameOutcome DEF KeepsOutcomes
<1>5. ASSUME NEW k \in Keys PROVE SerialVersion(k) = version[k] /\ SerialVersion(k)' = version'[k]
  <2>1. ShardOf(k) \in Shards
    BY KeyFacts
  <2>2. \A t \in Txs : t \notin Installing(k)
    BY <2>1, <1>3 DEF Installing
  <2>3. SerialVersion(k) = version[k]
    BY <2>2, <1>1 DEF SerialFacts
  <2>4. \A t \in Txs : status'[<<t, ShardOf(k)>>] # "PENDING"
    BY <2>1, <1>2, <1>3
  <2>5. SerialVersion(k)' = version'[k]
    BY <2>4, SerialNext
  <2> QED
    BY <2>3, <2>5
<1>6. PICK k \in Keys :
        /\ k = KeyList[(puts \div 2) + 1]
        /\ \A l \in Keys : version'[l] = IF l = k THEN log[ShardOf(k)] ELSE version[l]
  BY <1>1, PutEffect
<1>7. version[k] < log[ShardOf(k)] /\ version[k] \in Int /\ log[ShardOf(k)] \in Int
  BY <1>1, KeyFacts DEF VersionInv, TypeOK
<1>8. version'[k] > version[k]
  BY <1>6, <1>7
<1>9. Renews({k})
  BY <1>5, <1>6, <1>8 DEF Renews
<1> QED
  BY <1>4, <1>5, <1>6, <1>9

(* The client's other steps leave the store alone.                         *)
LEMMA StoreUntouched ==
  ASSUME UNCHANGED store
  PROVE  KeepsOutcomes /\ Renews({})
<1>1. version' = version /\ status' = status /\ prepared' = prepared
  BY DEF store
<1>2. \A t \in Txs : Outcome(t)' = Outcome(t)
  BY <1>1 DEF Outcome, Dropped
<1>3. ASSUME NEW k \in Keys PROVE SerialVersion(k)' = SerialVersion(k)
  <2>1. Installing(k)' = Installing(k)
    BY <1>1, <1>2 DEF Installing
  <2> QED
    BY <2>1, <1>1 DEF SerialVersion
<1> QED
  BY <1>2, <1>3 DEF KeepsOutcomes, Renews

(* What Renews says, in the words of SerialStore.                          *)
LEMMA SerialRenews ==
  ASSUME IInv', NEW keys, Renews(keys)
  PROVE  Serial!Renew(keys)
<1>1. SerialFacts'
  BY SerialVersionIs, PTL
<1>2. \A k \in Keys : SerialVersion(k)' \in Int
  BY <1>1 DEF SerialFacts
<1>3. [k \in Keys |-> SerialVersion(k)]' \in [Keys -> Int]
  BY <1>2
<1>4. \A k \in Keys : [l \in Keys |-> SerialVersion(l)][k] = SerialVersion(k)
  OBVIOUS
<1>5. \A k \in Keys : [l \in Keys |-> SerialVersion(l)]'[k] = SerialVersion(k)'
  OBVIOUS
<1> QED
  BY <1>3, <1>4, <1>5 DEF Serial!Renew, Renews

(* When nothing is renewed, nothing changes.                               *)
LEMMA SerialSame ==
  ASSUME Renews({})
  PROVE  [k \in Keys |-> SerialVersion(k)]' = [k \in Keys |-> SerialVersion(k)]
BY DEF Renews

(* When no outcome changes, they stay as they are.                         *)
LEMMA OutcomesSame ==
  ASSUME KeepsOutcomes
  PROVE  [t \in Txs |-> Outcome(t)]' = [t \in Txs |-> Outcome(t)]
BY DEF KeepsOutcomes

(* What settling one transaction does to all the outcomes.                 *)
LEMMA OutcomesSettled ==
  ASSUME NEW t \in Txs, NEW d, Settles(t, d)
  PROVE  /\ [u \in Txs |-> Outcome(u)][t] = "PENDING"
         /\ [u \in Txs |-> Outcome(u)]' = [[u \in Txs |-> Outcome(u)] EXCEPT ![t] = d]
BY DEF Settles

(* A step of a shard is a step of the serial store.                        *)
LEMMA PrepareIsSerial ==
  ASSUME IInv, IInv', NEW t \in Txs, NEW s \in Shards, Prepare(t, s)
  PROVE  \/ Serial!Commit(t) \/ Serial!Abort(t)
         \/ UNCHANGED <<[k \in Keys |-> SerialVersion(k)], guard, [u \in Txs |-> Outcome(u)]>>
<1>1. guard' = guard
  BY PrepareEffect DEF IInv
<1>2. CASE Aborts(t)
  <2>1. Settles(t, "ABORT") /\ Renews({})
    BY <1>2 DEF Aborts
  <2>2. PICK k \in Keys : ~IsCurrent(t, k)
    BY <1>2 DEF Aborts
  <2>3. ~Serial!UpToDate(t, k)
    BY <2>2 DEF IsCurrent, Serial!UpToDate
  <2> QED
    BY <1>1, <2>1, <2>3, OutcomesSettled, SerialSame DEF Serial!Abort
<1>3. CASE Commits(t)
  <2>1. Settles(t, "COMMIT") /\ Renews(Writes(t))
    BY <1>3 DEF Commits
  <2>2. \A k \in Keys : Serial!UpToDate(t, k)
    BY <1>3 DEF Commits, IsCurrent, Serial!UpToDate
  <2> QED
    BY <1>1, <2>1, <2>2, OutcomesSettled, SerialRenews DEF Serial!Commit
<1>4. CASE KeepsOutcomes /\ Renews({})
  BY <1>1, <1>4, SerialSame, OutcomesSame
<1> QED
  BY <1>2, <1>3, <1>4, PrepareSettles

(* The transactions are decided as if one at a time, each on all its       *)
(* shards at once, and none is aborted without a reason: the two tests run *)
(* on SerialStore, whatever the order in which shards get to transactions. *)
THEOREM SerialStoreImplemented == Spec => ImplementsSerialStore
<1>1. Init => Serial!Init
  <2> SUFFICES ASSUME Init PROVE Serial!Init
    OBVIOUS
  <2>1. \A t \in Txs, s \in Shards : status[<<t, s>>] = "unseen"
    BY DEF Init
  <2>2. \A t \in Txs : Outcome(t) = "PENDING"
    BY <2>1, TxFacts DEF Outcome, Dropped
  <2>3. \A k \in Keys : SerialVersion(k) = version[k]
    BY <2>2 DEF SerialVersion, Installing
  <2>4. \A k \in Keys : version[k] \in Int
    <3>1. \A k \in Keys : ShardOf(k) \in Shards
      BY KeyFacts
    <3>2. PICK n \in Nat : log = [s \in Shards |-> n]
      BY DEF Init
    <3> QED
      BY <3>1, <3>2 DEF Init
  <2>5. [k \in Keys |-> SerialVersion(k)] \in [Keys -> Int]
    BY <2>3, <2>4
  <2>6. [t \in Txs |-> Outcome(t)] = [t \in Txs |-> "PENDING"]
    BY <2>2
  <2>7. guard = [t \in Txs |-> [k \in Keys |-> Invalid]]
    BY DEF Init
  <2> QED
    BY <2>5, <2>6, <2>7 DEF Serial!Init
<1>2. IInv /\ IInv' /\ [Next]_vars =>
        [Serial!Next]_<<[k \in Keys |-> SerialVersion(k)], guard, [t \in Txs |-> Outcome(t)]>>
  <2> SUFFICES ASSUME IInv, IInv', [Next]_vars
               PROVE  \/ Serial!Next
                      \/ UNCHANGED <<[k \in Keys |-> SerialVersion(k)], guard, [t \in Txs |-> Outcome(t)]>>
    OBVIOUS
  <2>1. CASE PutObject
    <3>1. PICK k \in Keys : Renews({k})
      BY <2>1, PutRenews
    <3>2. KeepsOutcomes /\ guard' = guard
      BY <2>1, PutRenews DEF PutObject
    <3>3. Serial!Put(k)
      BY <3>1, <3>2, SerialRenews, OutcomesSame DEF Serial!Put
    <3> QED
      BY <3>3 DEF Serial!Next
  <2>2. CASE SendTx
    <3>1. KeepsOutcomes /\ Renews({})
      BY <2>2, StoreUntouched DEF SendTx
    <3>2. /\ sent + 1 \in Txs /\ guard' \in [Txs -> [Keys -> Int]]
          /\ \A u \in Txs : guard'[u] = IF u = sent + 1 THEN [k \in Keys |-> Named(sent + 1, k)] ELSE guard[u]
      BY <2>2, SendEffect DEF IInv
    <3>3. Outcome(sent + 1) = "PENDING"
      <4>1. sent + 1 \notin FirstOf(test)..sent
        BY SentFacts DEF IInv
      <4> QED
        BY <3>2, <4>1, OutcomeIs DEF OutcomeFacts
    <3>4. Serial!Send(sent + 1)
      BY <3>1, <3>2, <3>3, SerialSame, OutcomesSame DEF Serial!Send
    <3> QED
      BY <3>2, <3>4 DEF Serial!Next
  <2>3. CASE Report \/ UNCHANGED vars
    <3>1. UNCHANGED store /\ guard' = guard
      BY <2>3 DEF Report, vars
    <3> QED
      BY <3>1, StoreUntouched, SerialSame, OutcomesSame
  <2>4. ASSUME NEW t \in Txs, NEW s \in Shards, Prepare(t, s)
        PROVE  \/ Serial!Next
               \/ UNCHANGED <<[k \in Keys |-> SerialVersion(k)], guard, [u \in Txs |-> Outcome(u)]>>
    BY <2>4, PrepareIsSerial DEF Serial!Next
  <2>5. ASSUME NEW t \in Txs, NEW s \in Shards, Learn(t, s)
        PROVE  UNCHANGED <<[k \in Keys |-> SerialVersion(k)], guard, [u \in Txs |-> Outcome(u)]>>
    <3>1. guard' = guard
      BY <2>5, LearnEffect DEF IInv
    <3> QED
      BY <2>5, <3>1, LearnKeeps, SerialSame, OutcomesSame
  <2> QED
    BY <2>1, <2>2, <2>3, <2>4, <2>5 DEF Next, Client, Shard
<1> QED
  BY <1>1, <1>2, IInvHolds, PTL DEF Spec, ImplementsSerialStore, Serial!Spec

-----------------------------------------------------------------------------
(***************************************************************************)
(* The outcomes of the test with transactions                              *)
(***************************************************************************)
(* What is printed is the decision the first shard knew, and knows.        *)
ReportInv ==
  \A n \in 1..Len(reported) :
    FirstOf(test) + n - 1 \in FirstOf(test)..sent /\ reported[n] = status[<<FirstOf(test) + n - 1, 0>>]

(* The two transactions that write a key.                                  *)
Writers(k) == IF k[2] = 1 THEN {2, 3} ELSE {4, 5}

Renewed(k) == \E t \in Writers(k) : Outcome(t) = "COMMIT"

(* A key has the version its last put returned until one of its writers    *)
(* is committed, and a later one from then on.                             *)
PutInv ==
  test = "multishard_tx" =>
    \A n \in 1..(2 * NumShards) :
      LET k == KeyList[n] IN
      /\ puts >= 2 * n - 1 => /\ log[ShardOf(k)] >= 1
                              /\ versions[k] <= SerialVersion(k)
                              /\ SerialVersion(k) = versions[k] <=> ~Renewed(k)
      /\ puts >= 2 * n => versions[k] >= 1

(* A transaction names what the last puts returned, the first one a        *)
(* version less for the key of shard 2.                                    *)
NamesInv ==
  test = "multishard_tx" =>
    /\ sent <= 5
    /\ \A t \in 1..sent, k \in Keys : k \in Writes(t) \cup ReadOnly(t) =>
         guard[t][k] = IF t = 1 /\ k = <<2, 1>> THEN versions[k] - 1 ELSE versions[k]

(* What the transactions decide for each other.                            *)
PairsInv ==
  test = "multishard_tx" =>
    /\ Outcome(1) # "COMMIT"
    /\ ~(Outcome(2) = "COMMIT" /\ Outcome(3) = "COMMIT")
    /\ ~(Outcome(2) = "ABORT" /\ Outcome(3) = "ABORT")
    /\ ~(Outcome(4) = "COMMIT" /\ Outcome(5) = "COMMIT")
    /\ Outcome(5) = "ABORT" => Outcome(4) = "COMMIT"

(* In order, TX3 and TX4 are not looked at where they meet TX2 before that *)
(* is decided.                                                             *)
OrderInv ==
  test = "multishard_tx" /\ inOrder =>
    /\ status[<<3, 0>>] # "unseen" => Outcome(2) # "PENDING"
    /\ status[<<4, 1>>] # "unseen" => Outcome(2) # "PENDING"
    /\ Outcome(2) # "ABORT"
    /\ Outcome(4) # "COMMIT"

OutcomesInv == PutInv /\ NamesInv /\ PairsInv /\ OrderInv

(* Which of the keys a transaction writes and reads.                       *)
LEMMA WriterFacts ==
  /\ \A k \in Keys, t \in 2..5 : k \in Writes(t) <=> t \in Writers(k)
  /\ \A k \in Keys : k \in Writes(1) => k[2] = 1
  /\ <<2, 1>> \in Writes(1) /\ <<2, 1>> \in Keys
  /\ <<0, 1>> \in Writes(2) \cap Writes(3) /\ <<1, 1>> \in Writes(2) \cap ReadOnly(4) /\ <<1, 1>> \in Keys
  /\ ReadOnly(4) = {<<1, 1>>} /\ \A t \in {1, 2, 3, 5} : ReadOnly(t) = {}
  /\ Writers(<<1, 1>>) = {2, 3}
<1>1. /\ \A t \in 1..3 : Writes(t) = Shards \X {1}
      /\ \A t \in 4..5 : Writes(t) = Shards \X {2}
  BY DEF Writes
<1>2. \A k \in Keys, t \in 2..3 : k \in Writes(t) <=> k[2] = 1
  BY <1>1, KeyFacts
<1>3. \A k \in Keys, t \in 4..5 : k \in Writes(t) <=> k[2] = 2
  BY <1>1, KeyFacts
<1>4. \A k \in Keys : k[2] \in {1, 2}
  BY KeyFacts
<1>5. \A k \in Keys, t \in 2..5 : k \in Writes(t) <=> t \in Writers(k)
  <2> TAKE k \in Keys, t \in 2..5
  <2>1. CASE t \in 2..3
    BY <2>1, <1>2, <1>4 DEF Writers
  <2>2. CASE t \in 4..5
    BY <2>2, <1>3, <1>4 DEF Writers
  <2> QED
    BY <2>1, <2>2
<1>6. ReadOnly(4) = {<<1, 1>>} /\ \A t \in {1, 2, 3, 5} : ReadOnly(t) = {}
  BY DEF ReadOnly
<1>7. <<0, 1>> \in Shards \X {1} /\ <<1, 1>> \in Shards \X {1} /\ <<2, 1>> \in Shards \X {1}
  BY ShardFacts
<1>8. <<1, 1>> \in Keys /\ <<2, 1>> \in Keys
  BY ShardFacts DEF Keys
<1>9. Writers(<<1, 1>>) = {2, 3}
  BY DEF Writers
<1>10. Writes(1) = Shards \X {1} /\ Writes(2) = Shards \X {1} /\ Writes(3) = Shards \X {1}
  BY <1>1
<1>11. \A k \in Keys : k \in Writes(1) => k[2] = 1
  BY <1>10
<1> QED
  BY <1>5, <1>6, <1>7, <1>8, <1>9, <1>10, <1>11

(* What PutInv says when the puts are done.                                *)
LEMMA PutsDone ==
  ASSUME TypeOK, PutInv, test = "multishard_tx", puts = TotalPuts, NEW k \in Keys
  PROVE  versions[k] \in Int /\ versions[k] >= 1 /\ versions[k] <= SerialVersion(k)
         /\ (SerialVersion(k) = versions[k] <=> ~Renewed(k))
<1>1. PICK n \in 1..(2 * NumShards) : KeyList[n] = k
  BY KeyListFacts
<1>2. puts = 4 * NumShards
  BY SentFacts
<1>3. puts >= 2 * n - 1 /\ puts >= 2 * n
  BY <1>2
<1>4. versions[k] \in Int
  BY DEF TypeOK
<1> QED
  BY <1>1, <1>3, <1>4 DEF PutInv

(* Every step that is not a put.                                           *)
LEMMA StepKinds ==
  ASSUME IInv, IInv', [Next]_vars, ~PutObject
  PROVE  /\ UNCHANGED <<test, inOrder, puts, versions>>
         /\ \A t \in FirstOf(test)..sent : guard'[t] = guard[t]
         /\ \/ KeepsOutcomes /\ Renews({})
            \/ \E t \in FirstOf(test)..sent, s \in Shards :
                 Prepare(t, s) /\ (Aborts(t) \/ (Commits(t) /\ Decide(t, s)))
<1>1. TypeOK
  BY DEF IInv
<1>2. CASE SendTx
  <2>1. KeepsOutcomes /\ Renews({}) /\ UNCHANGED <<test, inOrder, puts, versions>>
    BY <1>2, StoreUntouched DEF SendTx
  <2>2. \A u \in Txs : u # sent + 1 => guard'[u] = guard[u]
    BY <1>1, <1>2, SendEffect
  <2> QED
    BY <1>1, <2>1, <2>2, SentFacts
<1>3. CASE Report \/ UNCHANGED vars
  <2>1. UNCHANGED store /\ UNCHANGED <<test, inOrder, puts, versions, guard>>
    BY <1>3 DEF Report, vars, client
  <2> QED
    BY <2>1, StoreUntouched
<1>4. ASSUME NEW t \in Txs, NEW s \in Shards, Prepare(t, s)
      PROVE  /\ UNCHANGED <<test, inOrder, puts, versions, guard>>
             /\ \/ KeepsOutcomes /\ Renews({})
                \/ /\ t \in FirstOf(test)..sent
                   /\ Prepare(t, s) /\ (Aborts(t) \/ (Commits(t) /\ Decide(t, s)))
  <2>1. UNCHANGED <<test, inOrder, puts, versions, guard>>
    BY <1>1, <1>4, StoreStepType DEF client
  <2>2. t \in FirstOf(test)..sent
    BY <1>1, <1>4, PrepareEffect
  <2> QED
    BY <1>4, <2>1, <2>2, PrepareSettles
<1>5. ASSUME NEW t \in Txs, NEW s \in Shards, Learn(t, s)
      PROVE  UNCHANGED <<test, inOrder, puts, versions, guard>> /\ KeepsOutcomes /\ Renews({})
  <2>1. UNCHANGED <<test, inOrder, puts, versions, guard>>
    BY <1>1, <1>5, StoreStepType DEF client
  <2> QED
    BY <1>5, <2>1, LearnKeeps
<1> QED
  BY <1>2, <1>3, <1>4, <1>5 DEF Next, Client, Shard

(* What is known of a transaction that was sent.                           *)
LEMMA SentTx ==
  ASSUME IInv, OutcomesInv, test = "multishard_tx", NEW t \in FirstOf(test)..sent
  PROVE  /\ TypeOK /\ puts = TotalPuts /\ t \in 1..sent /\ t \in 1..5 /\ t \in Txs
         /\ \A k \in Writes(t) \cup ReadOnly(t) :
              /\ k \in Keys
              /\ guard[t][k] = IF t = 1 /\ k = <<2, 1>> THEN versions[k] - 1 ELSE versions[k]
              /\ versions[k] \in Int /\ versions[k] >= 1 /\ versions[k] <= SerialVersion(k)
              /\ SerialVersion(k) \in Int
              /\ SerialVersion(k) = versions[k] <=> ~Renewed(k)
<1>1. TypeOK /\ FirstOf(test) = 1 /\ FirstOf(test)..sent \subseteq Txs /\ sent \in Nat
  BY SentFacts DEF IInv
<1>2. puts = TotalPuts /\ t \in 1..sent /\ t \in Txs
  BY <1>1 DEF IInv, SentInv
<1>3. sent <= 5
  BY DEF OutcomesInv, NamesInv
<1>4. t \in 1..5
  BY <1>1, <1>2, <1>3
<1>5. ASSUME NEW k \in Writes(t) \cup ReadOnly(t)
      PROVE  /\ k \in Keys
             /\ guard[t][k] = IF t = 1 /\ k = <<2, 1>> THEN versions[k] - 1 ELSE versions[k]
             /\ versions[k] \in Int /\ versions[k] >= 1 /\ versions[k] <= SerialVersion(k)
             /\ SerialVersion(k) \in Int
             /\ SerialVersion(k) = versions[k] <=> ~Renewed(k)
  <2>1. k \in Keys
    BY <1>2, TxFacts
  <2>2. guard[t][k] = IF t = 1 /\ k = <<2, 1>> THEN versions[k] - 1 ELSE versions[k]
    BY <1>2, <2>1 DEF OutcomesInv, NamesInv
  <2>3. SerialVersion(k) \in Int
    BY <2>1, SerialVersionIs DEF SerialFacts
  <2> QED
    BY <1>1, <1>2, <2>1, <2>2, <2>3, PutsDone DEF OutcomesInv
<1> QED
  BY <1>1, <1>2, <1>4, <1>5

(* What it takes to commit a transaction, and to abort one.                *)
LEMMA CommitNeeds ==
  ASSUME IInv, OutcomesInv, test = "multishard_tx", NEW t \in FirstOf(test)..sent,
         \A k \in Keys : IsCurrent(t, k)
  PROVE  t \in 2..5 /\ \A k \in Writes(t) \cup ReadOnly(t) : ~Renewed(k)
<1>1. t \in 1..5
  BY SentTx
<1>2. t # 1
  <2> SUFFICES ASSUME t = 1 PROVE FALSE
    OBVIOUS
  <2> DEFINE k == <<2, 1>>
  <2>1. k \in Writes(t) \cup ReadOnly(t) /\ k \in Keys
    BY WriterFacts
  <2>2. guard[t][k] = versions[k] - 1 /\ versions[k] \in Int /\ versions[k] >= 1 /\ versions[k] <= SerialVersion(k)
        /\ SerialVersion(k) \in Int
    BY <2>1, SentTx
  <2>3. guard[t][k] \in {-1, SerialVersion(k)}
    BY <2>1 DEF IsCurrent, Invalid
  <2> HIDE DEF k
  <2> QED
    BY <2>2, <2>3
<1>3. ASSUME NEW k \in Writes(t) \cup ReadOnly(t) PROVE ~Renewed(k)
  <2>1. /\ k \in Keys /\ guard[t][k] = versions[k] /\ versions[k] \in Int /\ versions[k] >= 1
        /\ SerialVersion(k) = versions[k] <=> ~Renewed(k)
    BY <1>2, SentTx
  <2>2. guard[t][k] \in {-1, SerialVersion(k)}
    BY <2>1 DEF IsCurrent, Invalid
  <2>3. SerialVersion(k) = versions[k]
    BY <2>1, <2>2
  <2> QED
    BY <2>1, <2>3
<1> QED
  BY <1>1, <1>2, <1>3

(* A transaction but the first is aborted when another one was committed   *)
(* that wrote to one of its keys.                                          *)
LEMMA AbortNeeds ==
  ASSUME IInv, OutcomesInv, test = "multishard_tx", NEW t \in FirstOf(test)..sent, t # 1,
         \E k \in Keys : ~IsCurrent(t, k)
  PROVE  \E k \in Writes(t) \cup ReadOnly(t) : Renewed(k)
<1>1. PICK k \in Keys : ~IsCurrent(t, k)
  OBVIOUS
<1>2. t \in Txs
  BY SentTx
<1>3. k \in Writes(t) \cup ReadOnly(t)
  BY <1>1, <1>2 DEF IsCurrent, IInv, SentInv
<1>4. guard[t][k] = versions[k] /\ (SerialVersion(k) = versions[k] <=> ~Renewed(k))
  BY <1>3, SentTx
<1>5. guard[t][k] # SerialVersion(k)
  BY <1>1 DEF IsCurrent
<1> QED
  BY <1>3, <1>4, <1>5

(* In order, a shard does not get to a transaction before it knows that an *)
(* earlier one that conflicts with it is decided.                          *)
LEMMA OrderedPrepare ==
  ASSUME IInv, inOrder, NEW t \in Txs, NEW s \in Shards, Prepare(t, s),
         NEW u \in Txs, FirstOf(test) <= u, u < t, Conflict(t, u, s)
  PROVE  Outcome(u) # "PENDING"
<1>1. TypeOK /\ OutcomeFacts
  BY OutcomeIs DEF IInv
<1>2. ~HeldBack(t, s)
  BY <1>1, PrepareEffect
<1>3. u \in Txs \ {t}
  BY DEF Txs
<1>4. status[<<u, s>>] # "PENDING" /\ ~(status[<<u, s>>] = "unseen" /\ ~Dropped(u))
  BY <1>2, <1>3 DEF HeldBack
<1>5. status[<<u, s>>] \in Statuses
  BY <1>1 DEF TypeOK
<1>6. status[<<u, s>>] \in Decided \/ Dropped(u)
  BY <1>4, <1>5
<1> QED
  BY <1>1, <1>6 DEF OutcomeFacts

(* The logs only grow.                                                     *)
LEMMA LogGrows ==
  ASSUME TypeOK, [Next]_vars, NEW s \in Shards
  PROVE  log[s] \in Nat /\ log'[s] >= log[s]
<1>1. log[s] \in Nat
  BY DEF TypeOK
<1>2. CASE PutObject
  <2>1. PICK k \in Keys : \A r \in Shards : log'[r] = IF r = ShardOf(k) THEN log[r] + 1 ELSE log[r]
    BY <1>2, PutEffect
  <2>2. log'[s] = log[s] + 1 \/ log'[s] = log[s]
    BY <2>1
  <2> QED
    BY <1>1, <2>2
<1>3. CASE SendTx \/ Report \/ UNCHANGED vars
  BY <1>1, <1>3 DEF SendTx, Report, store, vars
<1>4. ASSUME NEW t \in Txs, NEW r \in Shards, Prepare(t, r) PROVE log'[s] >= log[s]
  <2>1. \A q \in Shards : log'[q] = IF q = r THEN log[q] + 1 ELSE log[q]
    BY <1>4, PrepareEffect
  <2>2. log'[s] = log[s] + 1 \/ log'[s] = log[s]
    BY <2>1
  <2> QED
    BY <1>1, <2>2
<1>5. ASSUME NEW t \in Txs, NEW r \in Shards, Learn(t, r) PROVE log'[s] >= log[s]
  <2>1. log' = log
    BY <1>5, LearnEffect
  <2> QED
    BY <1>1, <2>1
<1> QED
  BY <1>1, <1>2, <1>3, <1>4, <1>5 DEF Next, Client, Shard

(* The keys keep in step with their writers.                               *)
LEMMA PutInvStep ==
  ASSUME IInv, IInv', OutcomesInv, [Next]_vars
  PROVE  PutInv'
<1>1. TypeOK /\ PutInv /\ OutcomeFacts /\ SerialFacts /\ TypeOK'
  BY OutcomeIs, SerialVersionIs DEF OutcomesInv, IInv
<1>2. test' = test
  BY StepKinds DEF PutObject
<1> SUFFICES ASSUME test = "multishard_tx", NEW n \in 1..(2 * NumShards)
             PROVE  LET k == KeyList[n] IN
                    /\ puts' >= 2 * n - 1 => /\ log'[ShardOf(k)] >= 1
                                             /\ versions'[k] <= SerialVersion(k)'
                                             /\ SerialVersion(k)' = versions'[k] <=> ~Renewed(k)'
                    /\ puts' >= 2 * n => versions'[k] >= 1
  BY <1>2 DEF PutInv
<1> DEFINE k == KeyList[n]
<1>3. k \in Keys /\ ShardOf(k) \in Shards
  BY KeyListFacts, KeyFacts
<1>4. /\ puts >= 2 * n - 1 => /\ log[ShardOf(k)] >= 1
                              /\ versions[k] <= SerialVersion(k)
                              /\ SerialVersion(k) = versions[k] <=> ~Renewed(k)
      /\ puts >= 2 * n => versions[k] >= 1
  BY <1>1 DEF PutInv
<1>5. k = KeyList[n]
  OBVIOUS
<1> HIDE DEF k
<1>6. /\ log[ShardOf(k)] \in Nat /\ log'[ShardOf(k)] \in Nat /\ log'[ShardOf(k)] >= log[ShardOf(k)]
      /\ SerialVersion(k) \in Int /\ versions[k] \in Int /\ puts \in Nat
  <2>1. log'[ShardOf(k)] \in Nat
    BY <1>1, <1>3 DEF TypeOK
  <2> QED
    BY <1>1, <1>3, <2>1, LogGrows, SentFacts DEF SerialFacts, TypeOK
<1>7. Writers(k) \subseteq Txs
  BY DEF Writers, Txs
<1>8. CASE PutObject
  <2>1. PICK l \in Keys :
          /\ l = KeyList[(puts \div 2) + 1]
          /\ \A q \in Keys :
               /\ version'[q] = IF q = l THEN log[ShardOf(l)] ELSE version[q]
               /\ versions'[q] = IF q = l THEN log[ShardOf(l)] ELSE versions[q]
          /\ \A r \in Shards : log'[r] = IF r = ShardOf(l) THEN log[r] + 1 ELSE log[r]
    BY <1>1, <1>8, PutEffect
  <2>2. puts' = puts + 1 /\ (puts \div 2) + 1 \in 1..(2 * NumShards) /\ puts < TotalPuts
    BY <1>1, <1>8, PutEffect DEF PutObject
  <2>3. SerialVersion(k) = version[k] /\ SerialVersion(k)' = version'[k] /\ KeepsOutcomes
    BY <1>3, <1>8, PutRenews
  <2>4. \A t \in Txs : Outcome(t) = "PENDING" /\ Outcome(t)' = "PENDING"
    <3>1. puts # TotalPuts
      BY <1>1, <2>2, SentFacts
    <3>2. sent < FirstOf(test)
      BY <1>1, <3>1, SentFacts DEF IInv, SentInv
    <3>3. \A t \in Txs : t \notin FirstOf(test)..sent
      BY <1>1, <3>2, SentFacts
    <3>4. \A t \in Txs : Outcome(t) = "PENDING"
      BY <1>1, <3>3 DEF OutcomeFacts
    <3> QED
      BY <2>3, <3>4 DEF KeepsOutcomes
  <2>5. ~Renewed(k) /\ ~Renewed(k)'
    BY <1>7, <2>4 DEF Renewed
  <2>6. CASE k = l
    <3>1. n = (puts \div 2) + 1
      <4>1. \A i \in 1..(2 * NumShards) : KeyList[n] = KeyList[i] => n = i
        BY KeyListFacts
      <4>2. KeyList[n] = KeyList[(puts \div 2) + 1]
        BY <1>5, <2>1, <2>6
      <4> QED
        BY <2>2, <4>1, <4>2
    <3>2. versions'[k] = log[ShardOf(k)] /\ SerialVersion(k)' = log[ShardOf(k)]
          /\ log'[ShardOf(k)] = log[ShardOf(k)] + 1
      BY <1>3, <2>1, <2>3, <2>6
    <3>3. puts' >= 2 * n => puts >= 2 * n - 1
      BY <1>6, <2>2
    <3>4. puts' >= 2 * n => versions'[k] >= 1
      BY <1>4, <3>2, <3>3
    <3>5. log'[ShardOf(k)] >= 1 /\ versions'[k] <= SerialVersion(k)'
      BY <1>6, <3>2
    <3> QED
      BY <2>5, <3>2, <3>4, <3>5 DEF k
  <2>7. CASE k # l
    <3>1. n # (puts \div 2) + 1
      BY <1>5, <2>1, <2>7
    <3>2. (puts' >= 2 * n - 1 => puts >= 2 * n - 1) /\ (puts' >= 2 * n => puts >= 2 * n)
      BY <1>6, <2>2, <3>1
    <3>3. versions'[k] = versions[k] /\ SerialVersion(k)' = SerialVersion(k)
      BY <1>3, <2>1, <2>3, <2>7
    <3>4. log[ShardOf(k)] >= 1 => log'[ShardOf(k)] >= 1
      BY <1>6
    <3> QED
      BY <1>4, <2>5, <3>2, <3>3, <3>4 DEF k
  <2> QED
    BY <2>6, <2>7
<1>9. CASE ~PutObject
  <2>1. versions' = versions /\ puts' = puts
    BY <1>9, StepKinds
  <2>2. log[ShardOf(k)] >= 1 => log'[ShardOf(k)] >= 1
    BY <1>6
  <2>3. CASE KeepsOutcomes /\ Renews({})
    <3>1. SerialVersion(k)' = SerialVersion(k)
      BY <1>3, <2>3 DEF Renews
    <3>2. Renewed(k)' <=> Renewed(k)
      BY <1>7, <2>3 DEF Renewed, KeepsOutcomes
    <3> QED
      BY <1>4, <2>1, <2>2, <3>1, <3>2 DEF k
  <2>4. ASSUME NEW t \in FirstOf(test)..sent, Aborts(t)
        PROVE  SerialVersion(k)' = SerialVersion(k) /\ (Renewed(k)' <=> Renewed(k))
    <3>1. SerialVersion(k)' = SerialVersion(k)
      BY <1>3, <2>4 DEF Aborts, Renews
    <3>2. \A u \in Txs : Outcome(u)' = "COMMIT" <=> Outcome(u) = "COMMIT"
      BY <2>4 DEF Aborts, Settles
    <3> QED
      BY <1>7, <3>1, <3>2 DEF Renewed
  <2>5. ASSUME NEW t \in FirstOf(test)..sent, Commits(t)
        PROVE  /\ SerialVersion(k) <= SerialVersion(k)' /\ SerialVersion(k)' \in Int
               /\ \/ SerialVersion(k)' = SerialVersion(k) /\ (Renewed(k)' <=> Renewed(k))
                  \/ SerialVersion(k) < SerialVersion(k)' /\ Renewed(k)' /\ versions[k] <= SerialVersion(k)
    <3>1. t \in 2..5 /\ t \in Txs
      BY <2>5, CommitNeeds, SentTx DEF Commits
    <3>2. Settles(t, "COMMIT") /\ Renews(Writes(t))
      BY <2>5 DEF Commits
    <3>3. SerialVersion(k)' \in Int
      <4>1. SerialFacts'
        BY SerialVersionIs, PTL
      <4> QED
        BY <1>3, <4>1 DEF SerialFacts
    <3>4. CASE k \in Writes(t)
      <4>1. t \in Writers(k)
        BY <1>3, <3>1, <3>4, WriterFacts
      <4>2. Renewed(k)'
        BY <3>2, <4>1 DEF Renewed, Settles
      <4>3. SerialVersion(k)' > SerialVersion(k)
        BY <1>3, <3>2, <3>4 DEF Renews
      <4>4. versions[k] <= SerialVersion(k)
        BY <3>4, SentTx
      <4> QED
        BY <1>6, <3>3, <4>2, <4>3, <4>4
    <3>5. CASE k \notin Writes(t)
      <4>1. t \notin Writers(k)
        BY <1>3, <3>1, <3>5, WriterFacts
      <4>2. Renewed(k)' <=> Renewed(k)
        BY <1>7, <3>2, <4>1 DEF Renewed, Settles
      <4>3. SerialVersion(k)' = SerialVersion(k)
        BY <1>3, <3>2, <3>5 DEF Renews
      <4> QED
        BY <1>6, <4>2, <4>3
    <3> QED
      BY <3>4, <3>5
  <2>6. CASE \E t \in FirstOf(test)..sent : Aborts(t)
    BY <1>4, <2>1, <2>2, <2>4, <2>6 DEF k
  <2>7. CASE \E t \in FirstOf(test)..sent : Commits(t)
    <3>1. PICK t \in FirstOf(test)..sent : Commits(t)
      BY <2>7
    <3>2. CASE SerialVersion(k)' = SerialVersion(k) /\ (Renewed(k)' <=> Renewed(k))
      BY <1>4, <2>1, <2>2, <3>2 DEF k
    <3>3. CASE SerialVersion(k) < SerialVersion(k)' /\ Renewed(k)' /\ versions[k] <= SerialVersion(k)
      <4>1. SerialVersion(k)' \in Int
        BY <2>5, <3>1
      <4>2. versions[k] < SerialVersion(k)'
        BY <1>6, <3>3, <4>1
      <4>3. versions[k] <= SerialVersion(k)' /\ SerialVersion(k)' # versions[k]
        BY <1>6, <4>1, <4>2
      <4> QED
        BY <1>4, <2>1, <2>2, <3>3, <4>3 DEF k
    <3> QED
      BY <2>5, <3>1, <3>2, <3>3
  <2> QED
    BY <1>9, <2>3, <2>6, <2>7, StepKinds
<1> QED
  BY <1>8, <1>9

(* The versions named stay what they were.                                 *)
LEMMA NamesInvStep ==
  ASSUME IInv, IInv', OutcomesInv, [Next]_vars
  PROVE  NamesInv'
<1>1. TypeOK /\ NamesInv /\ SentInv
  BY DEF OutcomesInv, IInv
<1>2. test' = test
  BY StepKinds DEF PutObject
<1>3. FirstOf(test) \in Int /\ sent \in Nat /\ (test = "multishard_tx" => FirstOf(test) = 1)
  BY <1>1, SentFacts
<1> SUFFICES ASSUME test = "multishard_tx"
             PROVE  /\ sent' <= 5
                    /\ \A t \in 1..sent', k \in Keys : k \in Writes(t) \cup ReadOnly(t) =>
                         guard'[t][k] = IF t = 1 /\ k = <<2, 1>> THEN versions'[k] - 1 ELSE versions'[k]
  BY <1>2 DEF NamesInv
<1>4. /\ sent <= 5
      /\ \A t \in 1..sent, k \in Keys : k \in Writes(t) \cup ReadOnly(t) =>
           guard[t][k] = IF t = 1 /\ k = <<2, 1>> THEN versions[k] - 1 ELSE versions[k]
  BY <1>1 DEF NamesInv
<1>5. CASE PutObject
  <2>1. sent' = sent /\ puts # TotalPuts
    BY <1>1, <1>5, SentFacts DEF PutObject
  <2>2. sent < 1
    BY <1>1, <1>3, <2>1 DEF SentInv
  <2> QED
    BY <1>3, <2>1, <2>2
<1>6. CASE SendTx
  <2>1. /\ sent + 1 \in 1..5 /\ sent + 1 \in Txs /\ sent' = sent + 1
        /\ \A u \in Txs : guard'[u] = IF u = sent + 1 THEN [k \in Keys |-> Named(sent + 1, k)] ELSE guard[u]
    BY <1>1, <1>6, SendEffect, TxOfFacts
  <2>2. versions' = versions
    BY <1>6 DEF SendTx
  <2>3. ASSUME NEW t \in 1..sent', NEW k \in Keys, k \in Writes(t) \cup ReadOnly(t)
        PROVE  guard'[t][k] = IF t = 1 /\ k = <<2, 1>> THEN versions[k] - 1 ELSE versions[k]
    <3>1. CASE t = sent + 1
      <4>1. guard'[t][k] = Named(t, k) /\ t \in Txs /\ t \in 1..5
        BY <2>1, <3>1
      <4>2. Named(t, k) = IF t = 1 /\ k = <<2, 1>> THEN versions[k] - 1 ELSE versions[k]
        BY <1>1, <2>3, <4>1, NamedFacts
      <4> QED
        BY <4>1, <4>2
    <3>2. CASE t # sent + 1
      <4>1. t \in 1..sent /\ t \in Txs
        BY <1>3, <2>1, <3>2 DEF Txs
      <4> QED
        BY <1>4, <2>1, <2>3, <3>2, <4>1
    <3> QED
      BY <3>1, <3>2
  <2>4. sent' <= 5
    BY <2>1
  <2> QED
    BY <2>2, <2>3, <2>4
<1>7. CASE ~PutObject /\ ~SendTx
  <2>1. versions' = versions /\ \A t \in FirstOf(test)..sent : guard'[t] = guard[t]
    BY <1>7, StepKinds
  <2>2. sent' = sent
    <3>1. ASSUME NEW t \in Txs, NEW s \in Shards, Prepare(t, s) \/ Learn(t, s) PROVE sent' = sent
      BY <1>1, <3>1, StoreStepType DEF client
    <3> QED
      BY <1>7, <3>1 DEF Next, Client, Shard, Report, vars, client
  <2> QED
    BY <1>3, <1>4, <2>1, <2>2
<1> QED
  BY <1>5, <1>6, <1>7

(* An outcome is final.                                                    *)
LEMMA OutcomeFinal ==
  ASSUME IInv, IInv', [Next]_vars, NEW u \in Txs, Outcome(u) # "PENDING"
  PROVE  Outcome(u)' = Outcome(u)
<1>1. CASE PutObject
  BY <1>1, PutRenews DEF KeepsOutcomes
<1>2. CASE ~PutObject
  <2>1. CASE KeepsOutcomes
    BY <2>1 DEF KeepsOutcomes
  <2>2. ASSUME NEW t, Aborts(t) \/ Commits(t) PROVE Outcome(u)' = Outcome(u)
    BY <2>2 DEF Aborts, Commits, Settles
  <2> QED
    BY <1>2, <2>1, <2>2, StepKinds
<1> QED
  BY <1>1, <1>2

(* What the transactions decide for each other stays true.                 *)
LEMMA PairsInvStep ==
  ASSUME IInv, IInv', OutcomesInv, [Next]_vars
  PROVE  PairsInv'
<1>1. TypeOK /\ PairsInv
  BY DEF OutcomesInv, IInv
<1>2. test' = test
  BY StepKinds DEF PutObject
<1>3. 1 \in Txs /\ 2 \in Txs /\ 3 \in Txs /\ 4 \in Txs /\ 5 \in Txs
  BY DEF Txs
<1>4. CASE KeepsOutcomes
  BY <1>1, <1>2, <1>3, <1>4 DEF PairsInv, KeepsOutcomes
<1>5. ASSUME NEW t \in FirstOf(test)..sent, test = "multishard_tx", Commits(t) PROVE PairsInv'
  <2>1. t \in 2..5 /\ \A k \in Writes(t) \cup ReadOnly(t) : ~Renewed(k)
    BY <1>5, CommitNeeds DEF Commits
  <2>2. Settles(t, "COMMIT")
    BY <1>5 DEF Commits
  <2>3. \E k \in Keys : k \in Writes(t) /\ Writers(k) = IF t \in {2, 3} THEN {2, 3} ELSE {4, 5}
    <3>1. <<1, 1>> \in Keys /\ <<1, 2>> \in Keys /\ Writers(<<1, 1>>) = {2, 3} /\ Writers(<<1, 2>>) = {4, 5}
      BY ShardFacts DEF Keys, Writers
    <3>2. CASE t \in {2, 3}
      BY <2>1, <3>1, <3>2, WriterFacts
    <3>3. CASE t \notin {2, 3}
      <4>1. t \in {4, 5}
        BY <2>1, <3>3
      <4> QED
        BY <2>1, <3>1, <3>3, <4>1, WriterFacts
    <3> QED
      BY <3>2, <3>3
  <2>4. IF t \in {2, 3} THEN Outcome(2) # "COMMIT" /\ Outcome(3) # "COMMIT"
                        ELSE Outcome(4) # "COMMIT" /\ Outcome(5) # "COMMIT"
    BY <2>1, <2>3 DEF Renewed
  <2>5. t = 2 \/ t = 3 \/ t = 4 \/ t = 5
    BY <2>1
  <2> QED
    BY <1>1, <1>2, <1>3, <2>2, <2>4, <2>5 DEF PairsInv, Settles
<1>6. ASSUME NEW t \in FirstOf(test)..sent, test = "multishard_tx", Aborts(t) PROVE PairsInv'
  <2>1. Settles(t, "ABORT")
    BY <1>6 DEF Aborts
  <2>2. t = 1 \/ t = 2 \/ t = 3 \/ t = 4 \/ t = 5
    <3>1. t \in 1..5
      BY <1>6, SentTx
    <3> QED
      BY <3>1
  <2>3. ASSUME t # 1 PROVE \E k \in Writes(t) \cup ReadOnly(t) : Renewed(k)
    BY <1>6, <2>3, AbortNeeds DEF Aborts
  <2>4. t \in {2, 3} => Outcome(2) = "COMMIT" \/ Outcome(3) = "COMMIT"
    <3> SUFFICES ASSUME t \in {2, 3} PROVE Outcome(2) = "COMMIT" \/ Outcome(3) = "COMMIT"
      OBVIOUS
    <3>1. PICK k \in Writes(t) : Renewed(k)
      BY <2>3, WriterFacts
    <3>2. k \in Keys /\ t \in 2..5
      BY <1>3, TxFacts
    <3>3. t \in Writers(k)
      BY <3>2, WriterFacts
    <3>4. Writers(k) = {2, 3}
      BY <3>3 DEF Writers
    <3> QED
      BY <3>1, <3>4 DEF Renewed
  <2>5. t = 5 => Outcome(4) = "COMMIT" \/ Outcome(5) = "COMMIT"
    <3> SUFFICES ASSUME t = 5 PROVE Outcome(4) = "COMMIT" \/ Outcome(5) = "COMMIT"
      OBVIOUS
    <3>1. PICK k \in Writes(t) : Renewed(k)
      BY <2>3, WriterFacts
    <3>2. k \in Keys /\ t \in 2..5
      BY <1>3, TxFacts
    <3>3. t \in Writers(k)
      BY <3>2, WriterFacts
    <3>4. Writers(k) = {4, 5}
      BY <3>3 DEF Writers
    <3> QED
      BY <3>1, <3>4 DEF Renewed
  <2> QED
    BY <1>1, <1>2, <1>3, <2>1, <2>2, <2>4, <2>5 DEF PairsInv, Settles
<1>7. CASE PutObject
  BY <1>4, <1>7, PutRenews
<1>8. CASE ~PutObject
  <2>1. CASE test = "multishard_tx"
    BY <1>4, <1>5, <1>6, <1>8, <2>1, StepKinds
  <2>2. CASE test # "multishard_tx"
    BY <1>2, <2>2 DEF PairsInv
  <2> QED
    BY <2>1, <2>2
<1> QED
  BY <1>7, <1>8

(* A shard gets to see a transaction when it gets to it.                   *)
LEMMA FirstSeen ==
  ASSUME TypeOK, [Next]_vars, NEW t \in Txs, NEW s \in Shards,
         status[<<t, s>>] = "unseen", status'[<<t, s>>] # "unseen"
  PROVE  Prepare(t, s)
<1>1. CASE PutObject \/ SendTx \/ Report \/ UNCHANGED vars
  BY <1>1 DEF PutObject, SendTx, Report, vars, store
<1>2. ASSUME NEW u \in Txs, NEW r \in Shards, Prepare(u, r) PROVE Prepare(t, s)
  <2>1. PICK d \in {"PENDING", "COMMIT", "ABORT"} :
          \A v \in Txs, q \in Shards : status'[<<v, q>>] = IF v = u /\ q = r THEN d ELSE status[<<v, q>>]
    BY <1>2, StatusAfterPrepare
  <2>2. t = u /\ s = r
    BY <2>1
  <2> QED
    BY <1>2, <2>2
<1>3. ASSUME NEW u \in Txs, NEW r \in Shards, Learn(u, r) PROVE FALSE
  <2>1. status[<<u, r>>] = "PENDING"
    BY <1>3, LearnEffect
  <2>2. PICK d \in Decided :
          \A v \in Txs, q \in Shards : status'[<<v, q>>] = IF v = u /\ q = r THEN d ELSE status[<<v, q>>]
    BY <1>3, StatusAfterLearn
  <2>3. t = u /\ s = r
    BY <2>2
  <2> QED
    BY <2>1, <2>3
<1> QED
  BY <1>1, <1>2, <1>3 DEF Next, Client, Shard

(* What the order of the transactions decides stays true.                  *)
LEMMA OrderInvStep ==
  ASSUME IInv, IInv', OutcomesInv, [Next]_vars
  PROVE  OrderInv'
<1>1. TypeOK /\ OrderInv /\ PairsInv /\ OnePassInv /\ OutcomeFacts
  BY OutcomeIs DEF OutcomesInv, IInv
<1>2. test' = test /\ inOrder' = inOrder
  BY StepKinds DEF PutObject
<1>3. 2 \in Txs /\ 3 \in Txs /\ 4 \in Txs
  BY DEF Txs
<1>4. 0 \in Shards /\ 1 \in Shards /\ 1 < Last /\ Last \in Shards /\ Last \in Int
  BY ShardFacts
<1>5. LastShardOf(3) = Last /\ LastShardOf(4) = Last
  BY DEF LastShardOf
<1> SUFFICES ASSUME test = "multishard_tx", inOrder
             PROVE  /\ status'[<<3, 0>>] # "unseen" => Outcome(2)' # "PENDING"
                    /\ status'[<<4, 1>>] # "unseen" => Outcome(2)' # "PENDING"
                    /\ Outcome(2)' # "ABORT"
                    /\ Outcome(4)' # "COMMIT"
  BY <1>2 DEF OrderInv
<1>6. /\ status[<<3, 0>>] # "unseen" => Outcome(2) # "PENDING"
      /\ status[<<4, 1>>] # "unseen" => Outcome(2) # "PENDING"
      /\ Outcome(2) # "ABORT"
      /\ Outcome(4) # "COMMIT"
  BY <1>1 DEF OrderInv
<1>7. Outcome(2) # "PENDING" => Outcome(2)' = Outcome(2)
  BY <1>3, OutcomeFinal
<1>8. ASSUME NEW t \in Txs, NEW s \in Shards, 2 < t, Conflict(t, 2, s), status'[<<t, s>>] # "unseen"
      PROVE  status[<<t, s>>] # "unseen" \/ Outcome(2) # "PENDING"
  <2> SUFFICES ASSUME status[<<t, s>>] = "unseen" PROVE Outcome(2) # "PENDING"
    OBVIOUS
  <2>1. Prepare(t, s)
    BY <1>1, <1>8, FirstSeen
  <2>2. FirstOf(test) <= 2
    BY <1>1, SentFacts
  <2> QED
    BY <1>3, <1>8, <2>1, <2>2, OrderedPrepare
<1>9. /\ status'[<<3, 0>>] # "unseen" => Outcome(2)' # "PENDING"
      /\ status'[<<4, 1>>] # "unseen" => Outcome(2)' # "PENDING"
  <2>1. Conflict(3, 2, 0) /\ Conflict(4, 2, 1)
    <3>1. <<0, 1>> \in Touches(3, 0) \cap Writes(2) /\ <<1, 1>> \in Touches(4, 1) \cap Writes(2)
      BY WriterFacts DEF Touches, ShardOf
    <3> QED
      BY <3>1 DEF Conflict
  <2>2. status'[<<3, 0>>] # "unseen" => Outcome(2) # "PENDING"
    BY <1>3, <1>4, <1>6, <1>8, <2>1
  <2>3. status'[<<4, 1>>] # "unseen" => Outcome(2) # "PENDING"
    BY <1>3, <1>4, <1>6, <1>8, <2>1
  <2> QED
    BY <1>7, <2>2, <2>3
<1>10. Outcome(2)' # "ABORT"
  <2> SUFFICES ASSUME NEW t \in FirstOf(test)..sent, Aborts(t), t = 2 PROVE FALSE
    <3>1. CASE PutObject
      BY <1>3, <1>6, <3>1, PutRenews DEF KeepsOutcomes
    <3>2. CASE ~PutObject
      <4>1. CASE KeepsOutcomes
        BY <1>3, <1>6, <4>1 DEF KeepsOutcomes
      <4>2. ASSUME NEW t \in FirstOf(test)..sent, Commits(t) PROVE Outcome(2)' # "ABORT"
        BY <1>3, <1>6, <4>2 DEF Commits, Settles
      <4>3. ASSUME NEW t \in FirstOf(test)..sent, Aborts(t), t # 2 PROVE Outcome(2)' # "ABORT"
        BY <1>3, <1>6, <4>3 DEF Aborts, Settles
      <4> QED
        BY <3>2, <4>1, <4>2, <4>3, StepKinds
    <3> QED
      BY <3>1, <3>2
  <2>1. PICK k \in Writes(2) \cup ReadOnly(2) : Renewed(k)
    BY AbortNeeds DEF Aborts
  <2>2. k \in Writes(2) /\ k \in Keys
    BY <1>3, TxFacts, WriterFacts
  <2>3. 2 \in Writers(k)
    BY <2>2, WriterFacts
  <2>4. Writers(k) = {2, 3}
    BY <2>3 DEF Writers
  <2>5. Outcome(2) = "PENDING"
    BY DEF Aborts, Settles
  <2>6. Outcome(3) = "COMMIT"
    BY <2>1, <2>4, <2>5 DEF Renewed
  <2>7. status[<<3, Last>>] = "COMMIT"
    BY <1>1, <1>3, <1>5, <2>6 DEF OutcomeFacts
  <2>8. status[<<3, 0>>] # "unseen"
    <3>1. 0 < Last /\ Last <= LastShardOf(3)
      BY <1>4, <1>5
    <3> QED
      BY <1>1, <1>3, <1>4, <2>7, <3>1 DEF OnePassInv
  <2> QED
    BY <1>6, <2>5, <2>8
<1>11. Outcome(4)' # "COMMIT"
  <2> SUFFICES ASSUME NEW t \in FirstOf(test)..sent, NEW s \in Shards, Prepare(t, s), Commits(t), Decide(t, s), t = 4
               PROVE  FALSE
    <3>1. CASE PutObject
      BY <1>3, <1>6, <3>1, PutRenews DEF KeepsOutcomes
    <3>2. CASE ~PutObject
      <4>1. CASE KeepsOutcomes
        BY <1>3, <1>6, <4>1 DEF KeepsOutcomes
      <4>2. ASSUME NEW t \in FirstOf(test)..sent, Aborts(t) PROVE Outcome(4)' # "COMMIT"
        BY <1>3, <1>6, <4>2 DEF Aborts, Settles
      <4>3. ASSUME NEW t \in FirstOf(test)..sent, Commits(t), t # 4 PROVE Outcome(4)' # "COMMIT"
        BY <1>3, <1>6, <4>3 DEF Commits, Settles
      <4> QED
        BY <3>2, <4>1, <4>2, <4>3, StepKinds
    <3> QED
      BY <3>1, <3>2
  <2>1. s = Last
    BY <1>5 DEF Decide
  <2>2. status[<<4, 1>>] = "PENDING"
    BY <1>3, <1>4, <2>1, AroundPrepare
  <2>3. Outcome(2) = "COMMIT"
    BY <1>1, <1>3, <1>6, <2>2 DEF OutcomeFacts
  <2>4. Renewed(<<1, 1>>)
    BY <2>3, WriterFacts DEF Renewed
  <2>5. <<1, 1>> \in Writes(4) \cup ReadOnly(4)
    BY WriterFacts
  <2> QED
    BY <2>4, <2>5, CommitNeeds DEF Commits
<1> QED
  BY <1>9, <1>10, <1>11

(* What the client has printed stays true.                                 *)
LEMMA ReportInvStep ==
  ASSUME IInv, IInv', ReportInv, [Next]_vars
  PROVE  ReportInv'
<1>1. TypeOK /\ reported \in Seq(Decided) /\ Len(reported) \in Nat
  BY DEF IInv, TypeOK
<1>2. test' = test
  BY StepKinds DEF PutObject
<1>3. FirstOf(test) \in Int /\ sent \in Nat /\ FirstOf(test)..sent \subseteq Txs /\ FirstOf(test)' = FirstOf(test)
  BY <1>1, <1>2, SentFacts DEF FirstOf
<1>4. 0 \in Shards
  BY ShardFacts
<1>5. sent' \in {sent, sent + 1}
  <2>1. ASSUME NEW t \in Txs, NEW s \in Shards, Prepare(t, s) \/ Learn(t, s) PROVE sent' = sent
    BY <1>1, <2>1, StoreStepType DEF client
  <2> QED
    BY <2>1 DEF Next, Client, Shard, PutObject, SendTx, Report, vars, client
<1>6. ASSUME NEW t \in FirstOf(test)..sent, status[<<t, 0>>] \in Decided
      PROVE  status'[<<t, 0>>] = status[<<t, 0>>] /\ t \in FirstOf(test)'..sent'
  <2>1. t \in Txs
    BY <1>3
  <2>2. Outcome(t) = status[<<t, 0>>]
    BY <1>4, <1>6, <2>1, OutcomeIs DEF OutcomeFacts
  <2>3. Outcome(t)' = status[<<t, 0>>]
    BY <1>6, <2>1, <2>2, OutcomeFinal
  <2>4. status'[<<t, 0>>] = status[<<t, 0>>]
    <3>1. CASE PutObject \/ SendTx \/ Report \/ UNCHANGED vars
      BY <3>1 DEF PutObject, SendTx, Report, vars, store
    <3>2. ASSUME NEW u \in Txs, NEW r \in Shards, Prepare(u, r)
          PROVE  status'[<<t, 0>>] = status[<<t, 0>>]
      <4>1. status[<<u, r>>] = "unseen"
        BY <1>1, <3>2, PrepareEffect
      <4>2. PICK d \in {"PENDING", "COMMIT", "ABORT"} :
              \A v \in Txs, q \in Shards : status'[<<v, q>>] = IF v = u /\ q = r THEN d ELSE status[<<v, q>>]
        BY <1>1, <3>2, StatusAfterPrepare
      <4> QED
        BY <1>4, <1>6, <2>1, <4>1, <4>2
    <3>3. ASSUME NEW u \in Txs, NEW r \in Shards, Learn(u, r)
          PROVE  status'[<<t, 0>>] = status[<<t, 0>>]
      <4>1. status[<<u, r>>] = "PENDING"
        BY <1>1, <3>3, LearnEffect
      <4>2. PICK d \in Decided :
              \A v \in Txs, q \in Shards : status'[<<v, q>>] = IF v = u /\ q = r THEN d ELSE status[<<v, q>>]
        BY <1>1, <3>3, StatusAfterLearn
      <4> QED
        BY <1>4, <1>6, <2>1, <4>1, <4>2
    <3> QED
      BY <3>1, <3>2, <3>3 DEF Next, Client, Shard
  <2> QED
    BY <1>3, <1>5, <2>4
<1>7. ASSUME NEW n \in 1..Len(reported)
      PROVE  /\ FirstOf(test)' + n - 1 \in FirstOf(test)'..sent'
             /\ reported[n] = status'[<<FirstOf(test)' + n - 1, 0>>]
  <2>1. FirstOf(test) + n - 1 \in FirstOf(test)..sent /\ reported[n] = status[<<FirstOf(test) + n - 1, 0>>]
    BY DEF ReportInv
  <2>2. reported[n] \in Decided
    BY <1>1, ElementOfSeq
  <2> QED
    BY <1>3, <1>6, <2>1, <2>2
<1>8. CASE reported' = reported
  BY <1>7, <1>8 DEF ReportInv
<1>9. CASE Report
  <2> DEFINE t == FirstOf(test) + Len(reported)
  <2>1. t <= sent /\ status[<<t, 0>>] \in Decided /\ reported' = Append(reported, status[<<t, 0>>])
    BY <1>9 DEF Report, MayReport
  <2>2. t \in FirstOf(test)..sent
    BY <1>1, <1>3, <2>1
  <2>3. status'[<<t, 0>>] = status[<<t, 0>>] /\ t \in FirstOf(test)'..sent'
    BY <1>6, <2>1, <2>2
  <2>4. /\ Len(reported') = Len(reported) + 1 /\ reported'[Len(reported) + 1] = status[<<t, 0>>]
        /\ \A n \in 1..Len(reported) : reported'[n] = reported[n]
    BY <1>1, <2>1
  <2> SUFFICES ASSUME NEW n \in 1..Len(reported')
               PROVE  /\ FirstOf(test)' + n - 1 \in FirstOf(test)'..sent'
                      /\ reported'[n] = status'[<<FirstOf(test)' + n - 1, 0>>]
    BY DEF ReportInv
  <2>5. CASE n = Len(reported) + 1
    <3>1. FirstOf(test)' + n - 1 = t
      BY <1>1, <1>3, <2>5
    <3> QED
      BY <2>3, <2>4, <2>5, <3>1
  <2>6. CASE n # Len(reported) + 1
    <3>1. n \in 1..Len(reported)
      BY <1>1, <2>4, <2>6
    <3> QED
      BY <1>7, <2>4, <3>1
  <2> QED
    BY <2>5, <2>6
<1>10. CASE ~Report
  <2>1. ASSUME NEW t \in Txs, NEW s \in Shards, Prepare(t, s) \/ Learn(t, s) PROVE reported' = reported
    BY <1>1, <2>1, StoreStepType DEF client
  <2>2. reported' = reported
    BY <1>10, <2>1 DEF Next, Client, Shard, PutObject, SendTx, vars, client
  <2> QED
    BY <1>8, <2>2
<1> QED
  BY <1>9, <1>10

(* The invariants about outcomes hold.                                     *)
THEOREM OutcomesHold == Spec => [](OutcomesInv /\ ReportInv)
<1>1. Init => OutcomesInv /\ ReportInv
  <2> SUFFICES ASSUME Init PROVE OutcomesInv /\ ReportInv
    OBVIOUS
  <2>1. \A t \in Txs, s \in Shards : status[<<t, s>>] = "unseen"
    BY DEF Init
  <2>2. \A t \in Txs : Outcome(t) = "PENDING"
    BY <2>1, TxFacts DEF Outcome, Dropped
  <2>3. Len(reported) = 0 /\ puts = 0 /\ sent = FirstOf(test) - 1
    BY DEF Init
  <2>4. ReportInv
    BY <2>3 DEF ReportInv
  <2>5. PutInv
    BY <2>3 DEF PutInv
  <2>6. NamesInv
    BY <2>3, TxOfFacts DEF NamesInv
  <2>7. 1 \in Txs /\ 2 \in Txs /\ 3 \in Txs /\ 4 \in Txs /\ 5 \in Txs /\ 0 \in Shards /\ 1 \in Shards
    BY ShardFacts DEF Txs
  <2>8. PairsInv /\ OrderInv
    BY <2>1, <2>2, <2>7 DEF PairsInv, OrderInv
  <2> QED
    BY <2>4, <2>5, <2>6, <2>8 DEF OutcomesInv
<1>2. IInv /\ IInv' /\ OutcomesInv /\ ReportInv /\ [Next]_vars => (OutcomesInv /\ ReportInv)'
  BY PutInvStep, NamesInvStep, PairsInvStep, OrderInvStep, ReportInvStep DEF OutcomesInv
<1> QED
  BY <1>1, <1>2, IInvHolds, PTL DEF Spec

(* When all is printed, it is how the transactions were decided.           *)
LEMMA ReportedOutcomes ==
  ASSUME IInv, ReportInv, AllReported
  PROVE  /\ reported \in Seq(Decided)
         /\ test = "multishard_tx" => /\ Len(reported) = 5
                                      /\ \A n \in 1..5 : reported[n] = Outcome(n) /\ reported[n] \in Decided
         /\ test = "multiple_object" => /\ Len(reported) = 4
                                        /\ \A n \in 1..4 : reported[n] = Outcome(n + 5) /\ reported[n] \in Decided
<1>1. TypeOK /\ OutcomeFacts /\ reported \in Seq(Decided) /\ Len(reported) \in Nat
  BY OutcomeIs DEF IInv, TypeOK
<1>2. 0 \in Shards
  BY ShardFacts
<1>3. ASSUME NEW n \in 1..Len(reported)
      PROVE  reported[n] = Outcome(FirstOf(test) + n - 1) /\ reported[n] \in Decided
  <2>1. FirstOf(test) + n - 1 \in Txs /\ reported[n] = status[<<FirstOf(test) + n - 1, 0>>]
    BY <1>1, SentFacts DEF ReportInv
  <2>2. reported[n] \in Decided
    BY <1>1, ElementOfSeq
  <2> QED
    BY <1>1, <1>2, <2>1, <2>2 DEF OutcomeFacts
<1>4. CASE test = "multishard_tx"
  <2>1. Len(reported) = 5 /\ FirstOf(test) = 1
    BY <1>4, TxOfFacts DEF AllReported
  <2>2. \A n \in 1..5 : FirstOf(test) + n - 1 = n
    BY <2>1
  <2> QED
    BY <1>1, <1>3, <1>4, <2>1, <2>2
<1>5. CASE test = "multiple_object"
  <2>1. Len(reported) = 4 /\ FirstOf(test) = 6
    BY <1>5, TxOfFacts DEF AllReported
  <2>2. \A n \in 1..4 : FirstOf(test) + n - 1 = n + 5
    BY <2>1
  <2> QED
    BY <1>1, <1>3, <1>5, <2>1, <2>2
<1> QED
  BY <1>1, <1>4, <1>5

(* In whatever order the shards get to the transactions, TX1 fails, one of *)
(* TX2 and TX3 succeeds, and one of TX4 and TX5.                           *)
THEOREM OneOfEachPairHolds == Spec => []OneOfEachPair
<1>1. IInv /\ OutcomesInv /\ ReportInv => OneOfEachPair
  <2> SUFFICES ASSUME IInv, OutcomesInv, ReportInv, test = "multishard_tx", AllReported
               PROVE  /\ reported[1] = "ABORT"
                      /\ {reported[2], reported[3]} = Decided
                      /\ {reported[4], reported[5]} = Decided
    BY DEF OneOfEachPair
  <2>1. \A n \in 1..5 : reported[n] = Outcome(n) /\ reported[n] \in Decided
    BY ReportedOutcomes
  <2>2. PairsInv
    BY DEF OutcomesInv
  <2> QED
    BY <2>1, <2>2 DEF PairsInv
<1> QED
  BY <1>1, IInvHolds, OutcomesHold, PTL

(* When the store keeps the order of conflicting transactions, what is     *)
(* printed is what the comment announces: TX2 and TX5 succeed, the others  *)
(* fail.                                                                   *)
THEOREM AnnouncedOutcomesHold == Spec => []AnnouncedOutcomes
<1>1. IInv /\ OutcomesInv /\ ReportInv => AnnouncedOutcomes
  <2> SUFFICES ASSUME IInv, OutcomesInv, ReportInv, test = "multishard_tx", inOrder, AllReported
               PROVE  reported = <<"ABORT", "COMMIT", "ABORT", "ABORT", "COMMIT">>
    BY DEF AnnouncedOutcomes
  <2>1. /\ reported \in Seq(Decided) /\ Len(reported) = 5
        /\ \A n \in 1..5 : reported[n] = Outcome(n) /\ reported[n] \in Decided
    BY ReportedOutcomes
  <2>2. PairsInv /\ OrderInv
    BY DEF OutcomesInv
  <2>3. /\ reported[1] = "ABORT" /\ reported[2] = "COMMIT" /\ reported[3] = "ABORT"
        /\ reported[4] = "ABORT" /\ reported[5] = "COMMIT"
    BY <2>1, <2>2 DEF PairsInv, OrderInv
  <2> QED
    BY <2>1, <2>3
<1> QED
  BY <1>1, IInvHolds, OutcomesHold, PTL

-----------------------------------------------------------------------------
(***************************************************************************)
(* The outcomes of the test with several objects                           *)
(***************************************************************************)
Objects == {0} \X {1, 2}

(* A write is sent when the one before it is decided: the second one       *)
(* leaves the version that the third and the fourth name, and the third    *)
(* changes nothing.                                                        *)
ObjectsInv ==
  test = "multiple_object" =>
    /\ sent <= 9
    /\ 5 + Len(reported) <= sent /\ sent <= 6 + Len(reported)
    /\ \A t \in {6, 7, 9} : status[<<t, 0>>] \in {"unseen", "COMMIT"}
    /\ status[<<8, 0>>] \in {"unseen", "ABORT"}
    /\ status[<<6, 0>>] = "COMMIT" => log[0] >= 1
    /\ status[<<7, 0>>] = "COMMIT" =>
         /\ Written >= 1
         /\ status[<<9, 0>>] = "unseen" => \A k \in Objects : version[k] = Written
    /\ \A k \in Objects :
         /\ guard[6][k] = Invalid /\ guard[7][k] = Invalid
         /\ sent >= 8 => status[<<7, 0>>] = "COMMIT" /\ guard[8][k] = Written - 1
         /\ sent >= 9 => guard[9][k] = Written

(* The objects and the writes.                                             *)
LEMMA ObjectFacts ==
  /\ Objects \subseteq Keys /\ <<0, 1>> \in Objects
  /\ \A k \in Objects : ShardOf(k) = 0
  /\ \A t \in 6..9 : /\ t \in Txs /\ Writes(t) = Objects /\ ReadOnly(t) = {}
                     /\ Touches(t, 0) = Objects /\ LastShardOf(t) = 0
  /\ 0 \in Shards
<1>1. \A t \in 6..9 : t \in Txs /\ Writes(t) = Objects /\ ReadOnly(t) = {} /\ LastShardOf(t) = 0
  BY DEF Writes, ReadOnly, LastShardOf, Objects, Txs
<1>2. Objects \subseteq Keys /\ 0 \in Shards /\ <<0, 1>> \in Objects
  BY ShardFacts DEF Objects, Keys
<1>3. \A k \in Objects : ShardOf(k) = 0
  BY DEF Objects, ShardOf
<1>4. \A t \in 6..9 : Touches(t, 0) = Objects
  BY <1>1, <1>3 DEF Touches
<1> QED
  BY <1>1, <1>2, <1>3, <1>4

(* What a shard does to one of the writes.                                 *)
LEMMA ObjectPrepare ==
  ASSUME IInv, ReportInv, ObjectsInv, test = "multiple_object", NEW t \in Txs, NEW s \in Shards, Prepare(t, s)
  PROVE  /\ s = 0 /\ t = sent /\ t \in 6..9 /\ status[<<t, 0>>] = "unseen"
         /\ \A u \in 6..9 : u < t => status[<<u, 0>>] \in Decided
         /\ \A u \in 6..9 : u > t => status[<<u, 0>>] = "unseen"
<1>1. TypeOK /\ Len(reported) \in Nat /\ reported \in Seq(Decided) /\ OnePassInv
  BY DEF IInv, TypeOK
<1>2. FirstOf(test) = 6 /\ sent \in Nat
  BY <1>1, SentFacts
<1>3. t \in 6..sent /\ s <= LastShardOf(t) /\ status[<<t, s>>] = "unseen" /\ sent <= 9
  BY <1>1, <1>2, PrepareEffect DEF ObjectsInv
<1>4. t \in 6..9
  BY <1>2, <1>3
<1>5. s = 0
  BY <1>3, <1>4, ObjectFacts DEF Shards
<1>6. \A u \in 6..9 : u < 6 + Len(reported) => status[<<u, 0>>] \in Decided
  <2> SUFFICES ASSUME NEW u \in 6..9, u < 6 + Len(reported) PROVE status[<<u, 0>>] \in Decided
    OBVIOUS
  <2> DEFINE n == u - 5
  <2>1. n \in 1..Len(reported) /\ 6 + n - 1 = u
    BY <1>1
  <2>2. reported[n] = status[<<6 + n - 1, 0>>] /\ reported[n] \in Decided
    BY <1>1, <1>2, <2>1, ElementOfSeq DEF ReportInv
  <2> QED
    BY <2>1, <2>2
<1>7. sent <= 6 + Len(reported)
  BY DEF ObjectsInv
<1>8. t = sent
  <2>1. ~(t < 6 + Len(reported))
    BY <1>3, <1>4, <1>5, <1>6
  <2> QED
    BY <1>1, <1>2, <1>3, <1>4, <1>7, <2>1
<1>9. \A u \in 6..9 : u < t => status[<<u, 0>>] \in Decided
  <2> SUFFICES ASSUME NEW u \in 6..9, u < t PROVE status[<<u, 0>>] \in Decided
    OBVIOUS
  <2>1. u < 6 + Len(reported)
    BY <1>1, <1>2, <1>7, <1>8
  <2> QED
    BY <1>6, <2>1
<1>10. \A u \in 6..9 : u > t => status[<<u, 0>>] = "unseen"
  <2>1. \A u \in 6..9 : u > t => u \notin 6..sent /\ u \in Txs
    BY <1>2, <1>8 DEF Txs
  <2> QED
    BY <1>1, <1>2, <2>1, ObjectFacts DEF OnePassInv
<1> QED
  BY <1>3, <1>4, <1>5, <1>8, <1>9, <1>10

(* The invariant of the writes, step by step.                              *)
LEMMA ObjectsInvStep ==
  ASSUME IInv, IInv', ReportInv, ObjectsInv, [Next]_vars
  PROVE  ObjectsInv'
<1>1. TypeOK /\ Len(reported) \in Nat /\ reported \in Seq(Decided) /\ OnePassInv /\ SentInv
  BY DEF IInv, TypeOK
<1>2. test' = test
  BY StepKinds DEF PutObject
<1> SUFFICES ASSUME test = "multiple_object"
             PROVE  ObjectsInv'
  BY <1>2 DEF ObjectsInv
<1>3. FirstOf(test) = 6 /\ TxOf(test) = 6..9 /\ sent \in Nat /\ TotalPuts = 0 /\ puts \in Nat
  BY <1>1, SentFacts
<1>4. ~PutObject
  BY <1>3 DEF PutObject
<1>5. Written \in Int /\ 6 \in Txs /\ 7 \in Txs /\ 8 \in Txs /\ 9 \in Txs /\ 0 \in Shards
  <2>1. 6 \in Txs /\ 7 \in Txs /\ 8 \in Txs /\ 9 \in Txs /\ 0 \in Shards
    BY ShardFacts DEF Txs
  <2>2. <<7, 0>> \in Txs \X Shards
    BY <2>1
  <2> QED
    BY <1>1, <2>1, <2>2 DEF TypeOK, Written
<1>6. CASE UNCHANGED vars
  BY <1>6 DEF ObjectsInv, vars, client, store, Written
<1>7. CASE Report
  <2>1. /\ UNCHANGED <<test, sent, guard, log, version, status, prepared>>
        /\ Len(reported') = Len(reported) + 1 /\ 6 + Len(reported) <= sent
    BY <1>1, <1>3, <1>7 DEF Report, store, MayReport
  <2>2. 5 + Len(reported') <= sent' /\ sent' <= 6 + Len(reported')
    BY <1>1, <1>3, <2>1 DEF ObjectsInv
  <2> QED
    BY <2>1, <2>2 DEF ObjectsInv, Written
<1>8. CASE SendTx
  <2>1. /\ sent + 1 \in 6..9 /\ sent' = sent + 1
        /\ \A u \in Txs : guard'[u] = IF u = sent + 1 THEN [k \in Keys |-> Named(sent + 1, k)] ELSE guard[u]
    BY <1>1, <1>3, <1>8, SendEffect
  <2>2. UNCHANGED <<test, reported, log, version, status, prepared>> /\ sent < 6 + Len(reported)
    BY <1>3, <1>8 DEF SendTx, store, WaitsForEach
  <2>3. Written' = Written
    BY <2>2 DEF Written
  <2>4. sent = 5 + Len(reported)
    BY <1>1, <1>3, <2>2 DEF ObjectsInv
  <2>5. sent' <= 9 /\ 5 + Len(reported') <= sent' /\ sent' <= 6 + Len(reported')
    BY <1>1, <1>3, <2>1, <2>2, <2>4
  <2>6. sent' >= 8 => status[<<7, 0>>] = "COMMIT"
    <3> SUFFICES ASSUME sent + 1 >= 8 PROVE status[<<7, 0>>] = "COMMIT"
      BY <2>1
    <3>1. 2 \in 1..Len(reported)
      BY <1>1, <2>4
    <3>2. reported[2] = status[<<6 + 2 - 1, 0>>] /\ reported[2] \in Decided
      BY <1>1, <1>3, <3>1, ElementOfSeq DEF ReportInv
    <3>3. status[<<7, 0>>] \in Decided
      BY <3>2
    <3> QED
      BY <3>3 DEF ObjectsInv
  <2>7. ASSUME NEW k \in Objects
        PROVE  /\ guard'[6][k] = Invalid /\ guard'[7][k] = Invalid
               /\ sent' >= 8 => guard'[8][k] = Written - 1
               /\ sent' >= 9 => guard'[9][k] = Written
    <3>1. k \in Keys /\ \A t \in 6..9 : t \in Txs /\ k \in Writes(t) \cup ReadOnly(t)
      BY ObjectFacts
    <3>2. /\ Named(6, k) = Invalid /\ Named(7, k) = Invalid
          /\ Named(8, k) = Written - 1 /\ Named(9, k) = Written
      BY <1>1, <3>1, NamedFacts
    <3>3. \A t \in 6..9 : guard'[t][k] = IF t = sent + 1 THEN Named(t, k) ELSE guard[t][k]
      BY <2>1, <3>1
    <3>4. /\ guard[6][k] = Invalid /\ guard[7][k] = Invalid
          /\ sent >= 8 => guard[8][k] = Written - 1
          /\ sent >= 9 => guard[9][k] = Written
      BY DEF ObjectsInv
    <3>5. sent' >= 8 => sent + 1 = 8 \/ sent >= 8
      BY <1>3, <2>1
    <3>6. sent' >= 9 => sent + 1 = 9 \/ sent >= 9
      BY <1>3, <2>1
    <3> QED
      BY <3>2, <3>3, <3>4, <3>5, <3>6
  <2> QED
    BY <1>2, <2>2, <2>3, <2>5, <2>6, <2>7 DEF ObjectsInv
<1>9. ASSUME NEW t \in Txs, NEW s \in Shards, Prepare(t, s) PROVE ObjectsInv'
  <2>1. /\ s = 0 /\ t = sent /\ t \in 6..9 /\ status[<<t, 0>>] = "unseen"
        /\ \A u \in 6..9 : u < t => status[<<u, 0>>] \in Decided
        /\ \A u \in 6..9 : u > t => status[<<u, 0>>] = "unseen"
    BY <1>9, ObjectPrepare
  <2>2. UNCHANGED <<test, inOrder, puts, versions, sent, reported, guard>>
    BY <1>1, <1>9, PrepareEffect DEF client
  <2>3. log[0] \in Nat /\ log'[0] = log[0] + 1
    BY <1>1, <1>9, <2>1, PrepareEffect
  <2>4. PICK d \in {"PENDING", "COMMIT", "ABORT"} :
          /\ d = "COMMIT" <=> Decide(t, 0)
          /\ d = "ABORT" <=> Refuse(t, 0)
          /\ d = "PENDING" => 0 < LastShardOf(t)
          /\ \A u \in Txs, r \in Shards :
               status'[<<u, r>>] = IF u = t /\ r = 0 THEN d ELSE status[<<u, r>>]
    BY <1>1, <1>9, <2>1, StatusAfterPrepare
  <2>5. d # "PENDING"
    BY <2>1, <2>4, ObjectFacts
  <2>6. UpToDate(t, 0) <=> \A k \in Objects : guard[t][k] \in {Invalid, version[k]}
    BY <2>1, ObjectFacts DEF UpToDate
  <2>7. (d = "COMMIT" => UpToDate(t, 0)) /\ (d = "ABORT" => ~UpToDate(t, 0))
    BY <2>4 DEF Decide, Refuse
  <2>8. /\ status'[<<t, 0>>] = d
        /\ \A u \in 6..9 : u # t => status'[<<u, 0>>] = status[<<u, 0>>]
    BY <1>5, <2>1, <2>4, ObjectFacts
  <2>9. \A k \in Objects : version'[k] = IF d = "COMMIT" THEN log[0] ELSE version[k]
    <3> TAKE k \in Objects
    <3>1. k \in Keys /\ k \in Writes(t) /\ ShardOf(k) = 0
      BY <2>1, ObjectFacts
    <3> QED
      BY <1>1, <1>9, <2>1, <2>4, <3>1, VersionAfterPrepare
  <2>10. Written' = IF t = 7 /\ d = "COMMIT" THEN log[0] ELSE Written
    <3>1. prepared'[<<7, 0>>] = IF 7 = t /\ 0 = 0 /\ ~Refuse(t, 0) THEN log[0] ELSE prepared[<<7, 0>>]
      BY <1>1, <1>5, <1>9, <2>1, VersionAfterPrepare
    <3> QED
      BY <2>4, <2>5, <3>1 DEF Written
  <2>11. /\ sent <= 9
         /\ 5 + Len(reported) <= sent /\ sent <= 6 + Len(reported)
         /\ \A u \in {6, 7, 9} : status[<<u, 0>>] \in {"unseen", "COMMIT"}
         /\ status[<<8, 0>>] \in {"unseen", "ABORT"}
         /\ status[<<6, 0>>] = "COMMIT" => log[0] >= 1
         /\ status[<<7, 0>>] = "COMMIT" => Written >= 1
         /\ status[<<7, 0>>] = "COMMIT" /\ status[<<9, 0>>] = "unseen" => \A k \in Objects : version[k] = Written
         /\ sent >= 8 => status[<<7, 0>>] = "COMMIT"
         /\ \A k \in Objects :
              /\ guard[6][k] = Invalid /\ guard[7][k] = Invalid
              /\ sent >= 8 => guard[8][k] = Written - 1
              /\ sent >= 9 => guard[9][k] = Written
    BY ObjectFacts DEF ObjectsInv
  <2>12. log'[0] >= 1
    BY <2>3
  <2>13. PICK k0 \in Objects : TRUE
    BY ObjectFacts
  <2>14. CASE t = 6
    <3>1. d = "COMMIT"
      BY <2>5, <2>6, <2>7, <2>11, <2>14
    <3>2. status'[<<6, 0>>] = "COMMIT" /\ status'[<<7, 0>>] = "unseen" /\ status'[<<8, 0>>] = "unseen"
          /\ status'[<<9, 0>>] = "unseen"
      BY <2>1, <2>8, <2>14, <3>1
    <3>3. ~(sent >= 8)
      BY <2>1, <2>14
    <3> QED
      BY <2>2, <2>10, <2>11, <2>12, <2>14, <3>2, <3>3 DEF ObjectsInv
  <2>15. CASE t = 7
    <3>1. d = "COMMIT"
      BY <2>5, <2>6, <2>7, <2>11, <2>15
    <3>2. status'[<<6, 0>>] = "COMMIT" /\ status'[<<7, 0>>] = "COMMIT" /\ status'[<<8, 0>>] = "unseen"
          /\ status'[<<9, 0>>] = "unseen" /\ log[0] >= 1
      BY <2>1, <2>8, <2>11, <2>15, <3>1
    <3>3. Written' = log[0] /\ \A k \in Objects : version'[k] = log[0]
      BY <2>9, <2>10, <2>15, <3>1
    <3>4. ~(sent >= 8) /\ ~(sent >= 9)
      BY <2>1, <2>15
    <3> QED
      BY <2>2, <2>11, <2>12, <3>2, <3>3, <3>4 DEF ObjectsInv
  <2>16. CASE t = 8
    <3>1. status[<<7, 0>>] = "COMMIT" /\ status[<<9, 0>>] = "unseen" /\ status[<<6, 0>>] = "COMMIT"
      BY <2>1, <2>11, <2>16
    <3>2. guard[8][k0] = Written - 1 /\ version[k0] = Written /\ Written >= 1
      BY <2>1, <2>11, <2>13, <2>16, <3>1
    <3>3. guard[8][k0] \notin {Invalid, version[k0]}
      BY <1>5, <3>2 DEF Invalid
    <3>4. d = "ABORT"
      BY <2>5, <2>6, <2>7, <2>13, <2>16, <3>3
    <3>5. status'[<<6, 0>>] = "COMMIT" /\ status'[<<7, 0>>] = "COMMIT" /\ status'[<<8, 0>>] = "ABORT"
          /\ status'[<<9, 0>>] = "unseen"
      BY <2>8, <2>16, <3>1, <3>4
    <3>6. Written' = Written /\ \A k \in Objects : version'[k] = version[k]
      BY <2>9, <2>10, <2>16, <3>4
    <3> QED
      BY <2>2, <2>11, <2>12, <3>1, <3>5, <3>6 DEF ObjectsInv
  <2>17. CASE t = 9
    <3>1. /\ status[<<6, 0>>] = "COMMIT" /\ status[<<7, 0>>] = "COMMIT" /\ status[<<8, 0>>] = "ABORT"
          /\ status[<<9, 0>>] = "unseen"
      BY <2>1, <2>11, <2>17
    <3>2. \A k \in Objects : guard[9][k] = version[k]
      BY <2>1, <2>11, <2>17, <3>1
    <3>3. d = "COMMIT"
      BY <2>5, <2>6, <2>7, <2>17, <3>2
    <3>4. status'[<<6, 0>>] = "COMMIT" /\ status'[<<7, 0>>] = "COMMIT" /\ status'[<<8, 0>>] = "ABORT"
          /\ status'[<<9, 0>>] = "COMMIT"
      BY <2>8, <2>17, <3>1, <3>3
    <3>5. Written' = Written
      BY <2>10, <2>17
    <3> QED
      BY <2>2, <2>11, <2>12, <3>1, <3>4, <3>5 DEF ObjectsInv
  <2>18. t = 6 \/ t = 7 \/ t = 8 \/ t = 9
    BY <2>1
  <2> QED
    BY <2>14, <2>15, <2>16, <2>17, <2>18
<1>10. ASSUME NEW t \in Txs, NEW s \in Shards, Learn(t, s) PROVE FALSE
  <2>1. status[<<t, s>>] = "PENDING"
    BY <1>1, <1>10, LearnEffect
  <2>2. t \in 6..sent /\ s < LastShardOf(t)
    BY <1>1, <1>3, <2>1 DEF OnePassInv
  <2>3. t \in 6..9
    BY <1>3, <2>2 DEF ObjectsInv
  <2> QED
    BY <2>2, <2>3, ObjectFacts DEF Shards
<1> QED
  BY <1>4, <1>6, <1>7, <1>8, <1>9, <1>10 DEF Next, Client, Shard

(* The update with the wrong previous version fails and leaves no trace:   *)
(* the correct one after it, like those before it, succeeds.               *)
THEOREM OnlyWrongUpdateFailsHolds == Spec => []OnlyWrongUpdateFails
<1>1. Init => ObjectsInv
  <2> SUFFICES ASSUME Init, test = "multiple_object" PROVE ObjectsInv
    BY DEF ObjectsInv
  <2>1. Len(reported) = 0 /\ sent = 5
    BY TxOfFacts DEF Init
  <2>2. \A t \in 6..9 : status[<<t, 0>>] = "unseen"
    BY ObjectFacts DEF Init
  <2>3. \A k \in Objects : guard[6][k] = Invalid /\ guard[7][k] = Invalid
    BY ObjectFacts DEF Init
  <2> QED
    BY <2>1, <2>2, <2>3 DEF ObjectsInv
<1>2. IInv /\ IInv' /\ ReportInv /\ ObjectsInv /\ [Next]_vars => ObjectsInv'
  BY ObjectsInvStep
<1>3. IInv /\ ReportInv /\ ObjectsInv => OnlyWrongUpdateFails
  <2> SUFFICES ASSUME IInv, ReportInv, ObjectsInv, test = "multiple_object", AllReported
               PROVE  reported = <<"COMMIT", "COMMIT", "ABORT", "COMMIT">>
    BY DEF OnlyWrongUpdateFails
  <2>1. /\ reported \in Seq(Decided) /\ Len(reported) = 4
        /\ \A n \in 1..4 : reported[n] \in Decided
    BY ReportedOutcomes
  <2>2. \A n \in 1..4 : reported[n] = status[<<6 + n - 1, 0>>]
    BY <2>1, TxOfFacts DEF ReportInv
  <2>3. /\ reported[1] = status[<<6, 0>>] /\ reported[2] = status[<<7, 0>>]
        /\ reported[3] = status[<<8, 0>>] /\ reported[4] = status[<<9, 0>>]
    BY <2>2
  <2>4. reported[1] = "COMMIT" /\ reported[2] = "COMMIT" /\ reported[3] = "ABORT" /\ reported[4] = "COMMIT"
    BY <2>1, <2>3 DEF ObjectsInv
  <2> QED
    BY <2>1, <2>4
<1> QED
  BY <1>1, <1>2, <1>3, IInvHolds, OutcomesHold, PTL DEF Spec
=============================================================================
