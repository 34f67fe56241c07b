---------------------------- MODULE SerialStore ----------------------------
(***************************************************************************)
(* What a client expects of a store of versioned objects with atomic       *)
(* writes of several objects: the writes are decided one at a time.  A     *)
(* write that names a version for a key, to be written or only read, is    *)
(* committed, as a whole, if all those versions are current, and aborted   *)
(* without a trace if one of them is not.                                  *)
(***************************************************************************)
EXTENDS Integers

CONSTANTS Keys, Txs,
          Writes(_),    \* the keys a transaction writes
          Invalid       \* "any version will do"

VARIABLES version,      \* key |-> its current version
          expects,      \* transaction |-> the version it names for a key
          outcome       \* transaction |-> how it was decided

Init == /\ version \in [Keys -> Int]
        /\ expects = [t \in Txs |-> [k \in Keys |-> Invalid]]
        /\ outcome = [t \in Txs |-> "PENDING"]

UpToDate(t, k) == expects[t][k] \in {Invalid, version[k]}

(* Written keys get a version they never had before.                       *)
Renew(keys) ==
  /\ version' \in [Keys -> Int]
  /\ \A k \in Keys : IF k \in keys THEN version'[k] > version[k] ELSE version'[k] = version[k]

Put(k) == Renew({k}) /\ UNCHANGED <<expects, outcome>>

Send(t) ==
  /\ outcome[t] = "PENDING"
  /\ expects' \in [Txs -> [Keys -> Int]]
  /\ \A u \in Txs \ {t} : expects'[u] = expects[u]
  /\ UNCHANGED <<version, outcome>>

Commit(t) ==
  /\ outcome[t] = "PENDING"
  /\ \A k \in Keys : UpToDate(t, k)
  /\ Renew(Writes(t))
  /\ outcome' = [outcome EXCEPT ![t] = "COMMIT"]
  /\ UNCHANGED expects

Abort(t) ==
  /\ outcome[t] = "PENDING"
  /\ \E k \in Keys : ~UpToDate(t, k)
  /\ outcome' = [outcome EXCEPT ![t] = "ABORT"]
  /\ UNCHANGED <<version, expects>>

Next == \/ \E k \in Keys : Put(k)
        \/ \E t \in Txs : Send(t) \/ Commit(t) \/ Abort(t)

Spec == Init /\ [][Next]_<<version, expects, outcome>>
=============================================================================
