------------------------ MODULE PipelineSetupProofs ------------------------
(***************************************************************************)
(* Proofs about PipelineSetup, for all numbers of clients, categories and  *)
(* parts: for all that the clients may overlap and die, for those that     *)
(* overlap once the configuration is complete, and for clients in turn.    *)
(***************************************************************************)
EXTENDS PipelineSetup, FiniteSetTheorems, TLAPS

USE SetupAssumption DEF Kinds, Fields

(* Every want is a function from fields to numbers within the bound.       *)
LEMMA WantType ==
  ASSUME NEW w \in Wants, NEW k \in Kinds
  PROVE  w[<<k, "num">>] \in 0..MaxParts /\ w[<<k, "size">>] \in Nat
OBVIOUS

(* What a client wants, and what it is to put, is within the bounds.       *)
LEMMA ClientBounds ==
  ASSUME TypeOK, NEW c \in Clients
  PROVE  \A k \in Kinds : /\ want[c][<<k, "num">>] \in 0..MaxParts
                          /\ want[c][<<k, "size">>] \in Nat
                          /\ toPut[c][k] \in 0..MaxParts
<1>1. want[c] \in Wants /\ toPut[c] \in [Kinds -> 0..MaxParts]
  BY DEF TypeOK
<1> QED
  BY <1>1, WantType

(* There are four fields, published in order.                              *)
LEMMA FieldOrderType ==
  /\ Len(FieldOrder) = 4
  /\ \A i \in 1..4 : FieldOrder[i] \in Fields
BY DEF FieldOrder

(* What is known of a client by where it is.  The category is 0 until the  *)
(* parts are put, and the loops stay within their bounds; a client has     *)
(* taken nothing off toPut before it has decided what to put.              *)
ClientOK(c) ==
  /\ pc[c] = "publish" => index[c] \in 1..4
  /\ pc[c] \notin {"parts", "ready", "done"} => cat[c] = 0
  /\ pc[c] = "parts" =>
       /\ cat[c] \in CategoriesOf(kind[c])
       /\ First(c, kind[c]) <= index[c] /\ index[c] <= want[c][<<kind[c], "num">>]
  /\ \A k \in Kinds :
       /\ toPut[c][k] <= want[c][<<k, "num">>]
       /\ pc[c] = "publish" => toPut[c][k] = want[c][<<k, "num">>]
       /\ Decided(c, k) \/ pc[c] \in {"ready", "done"} \/ toPut[c][k] = want[c][<<k, "num">>]

ShapeInv == \A c \in Clients : ClientOK(c)

(* What is known of a client depends on its own variables only.            *)
LEMMA OthersOK ==
  ASSUME NEW d \in Clients, ClientOK(d),
         pc'[d] = pc[d], kind'[d] = kind[d], cat'[d] = cat[d], index'[d] = index[d],
         toPut'[d] = toPut[d], want'[d] = want[d]
  PROVE  ClientOK(d)'
BY DEF ClientOK, Decided, First, CategoriesOf

(* A client starts with a part that may exist.                             *)
LEMMA FirstBounds ==
  ASSUME TypeOK, ShapeInv, NEW c \in Clients, NEW k \in Kinds
  PROVE  First(c, k) \in 0..MaxParts
<1>1. want[c][<<k, "num">>] \in 0..MaxParts /\ toPut[c][k] \in 0..MaxParts
  BY ClientBounds
<1>2. toPut[c][k] <= want[c][<<k, "num">>]
  BY DEF ShapeInv, ClientOK
<1> QED
  BY <1>1, <1>2 DEF First

(* Before anything runs, clients are as they should be where they are.     *)
LEMMA InitShape == Init => TypeOK /\ ShapeInv
<1> SUFFICES ASSUME Init PROVE TypeOK /\ ShapeInv
  OBVIOUS
<1>1. 0 \in Categories
  BY DEF Categories
<1>2. TypeOK
  BY <1>1, WantType, FieldOrderType DEF Init, TypeOK
<1>3. ShapeInv
  BY WantType DEF Init, ShapeInv, ClientOK, Decided, First
<1> QED
  BY <1>2, <1>3

(* Every step keeps clients as they should be where they are.              *)
LEMMA NextShape ==
  ASSUME TypeOK, ShapeInv, [Next]_vars
  PROVE  TypeOK' /\ ShapeInv'
<1> USE DEF store, locals
<1>1. CASE UNCHANGED vars
  <2>1. TypeOK'
    BY <1>1 DEF vars, TypeOK
  <2>2. ShapeInv'
    BY <1>1, OthersOK DEF vars, ShapeInv
  <2> QED
    BY <2>1, <2>2
<1>2. ASSUME NEW c \in Clients, Begin(c) PROVE TypeOK' /\ ShapeInv'
  <2>1. TypeOK'
    BY <1>2, WantType, FieldOrderType DEF TypeOK, ShapeInv, ClientOK, Decided, Begin
  <2>2. ClientOK(c)'
    BY <1>2, WantType, FieldOrderType DEF TypeOK, ShapeInv, ClientOK, Decided, Begin, First
  <2>3. \A d \in Clients \ {c} : ClientOK(d)'
    BY <1>2, OthersOK DEF TypeOK, ShapeInv, Begin
  <2> QED
    BY <2>2, <2>3, <2>1 DEF ShapeInv
<1>3. ASSUME NEW c \in Clients, ListConfig(c) PROVE TypeOK' /\ ShapeInv'
  <2>1. TypeOK'
    <3>1. pc' = [pc EXCEPT ![c] = "publish"] \/ pc' = [pc EXCEPT ![c] = "compare"]
      BY <1>3 DEF ListConfig
    <3>2. index' = [index EXCEPT ![c] = 1] \/ index' = index
      BY <1>3 DEF ListConfig
    <3>3. UNCHANGED <<config, registered, parts, want, kind, cat, toPut, dead>>
      BY <1>3 DEF ListConfig
    <3>4. 1 \in 0..(MaxParts + Len(FieldOrder) + 1)
      BY FieldOrderType
    <3>5. index' \in [Clients -> 0..(MaxParts + Len(FieldOrder) + 1)]
      BY <3>2, <3>4 DEF TypeOK
    <3> QED
      BY <3>1, <3>3, <3>5 DEF TypeOK
  <2>2. ClientOK(c)'
    <3>1. pc[c] = "list" /\ UNCHANGED <<want, kind, cat, toPut>>
      BY <1>3 DEF ListConfig
    <3>2. \/ pc'[c] = "publish" /\ index'[c] = 1
          \/ pc'[c] = "compare"
      BY <1>3 DEF ListConfig, TypeOK
    <3>3. cat[c] = 0 /\ \A k \in Kinds : toPut[c][k] = want[c][<<k, "num">>]
      BY <3>1 DEF ShapeInv, ClientOK, Decided
    <3>4. \A k \in Kinds : want[c][<<k, "num">>] \in Nat
      BY WantType DEF TypeOK
    <3> QED
      BY <3>1, <3>2, <3>3, <3>4 DEF ClientOK, Decided
  <2>3. \A d \in Clients \ {c} : ClientOK(d)'
    BY <1>3, OthersOK DEF TypeOK, ShapeInv, ListConfig
  <2> QED
    BY <2>2, <2>3, <2>1 DEF ShapeInv
<1>4. ASSUME NEW c \in Clients, PublishField(c) PROVE TypeOK' /\ ShapeInv'
  <2>1. TypeOK'
    BY <1>4, WantType, FieldOrderType DEF TypeOK, ShapeInv, ClientOK, Decided, PublishField
  <2>2. ClientOK(c)'
    <3>1. pc[c] = "publish" /\ UNCHANGED <<want, kind, cat, toPut>>
      BY <1>4 DEF PublishField
    <3>2. \/ pc'[c] = "publish" /\ index'[c] \in 1..4
          \/ pc'[c] = "register"
      BY <1>4, FieldOrderType DEF PublishField, TypeOK, ShapeInv, ClientOK
    <3>3. cat[c] = 0 /\ \A k \in Kinds : toPut[c][k] = want[c][<<k, "num">>]
      BY <3>1 DEF ShapeInv, ClientOK
    <3>4. \A k \in Kinds : want[c][<<k, "num">>] \in Nat
      BY WantType DEF TypeOK
    <3> QED
      BY <3>1, <3>2, <3>3, <3>4 DEF ClientOK, Decided
  <2>3. \A d \in Clients \ {c} : ClientOK(d)'
    BY <1>4, OthersOK DEF TypeOK, ShapeInv, PublishField
  <2> QED
    BY <2>2, <2>3, <2>1 DEF ShapeInv
<1>5. ASSUME NEW c \in Clients, CompareSize(c) PROVE TypeOK' /\ ShapeInv'
  <2>1. TypeOK'
    BY <1>5, WantType, FieldOrderType DEF TypeOK, ShapeInv, ClientOK, Decided, CompareSize, Fail
  <2>2. ClientOK(c)'
    BY <1>5, WantType, FieldOrderType DEF TypeOK, ShapeInv, ClientOK, Decided, CompareSize, Fail, First
  <2>3. \A d \in Clients \ {c} : ClientOK(d)'
    BY <1>5, OthersOK DEF TypeOK, ShapeInv, CompareSize, Fail
  <2> QED
    BY <2>2, <2>3, <2>1 DEF ShapeInv
<1>6. ASSUME NEW c \in Clients, PutSize(c) PROVE TypeOK' /\ ShapeInv'
  <2>1. TypeOK'
    BY <1>6, WantType, FieldOrderType DEF TypeOK, ShapeInv, ClientOK, Decided, PutSize, NextKind
  <2>2. ClientOK(c)'
    BY <1>6, WantType, FieldOrderType DEF TypeOK, ShapeInv, ClientOK, Decided, PutSize, NextKind, First
  <2>3. \A d \in Clients \ {c} : ClientOK(d)'
    BY <1>6, OthersOK DEF TypeOK, ShapeInv, PutSize, NextKind
  <2> QED
    BY <2>2, <2>3, <2>1 DEF ShapeInv
<1>7. ASSUME NEW c \in Clients, CompareNumber(c) PROVE TypeOK' /\ ShapeInv'
  <2>1. TypeOK'
    <3> DEFINE k == kind[c]
               n == config[<<k, "num">>]
    <3>1. k \in Kinds /\ pc[c] = "number" /\ toPut[c][k] = want[c][<<k, "num">>]
      BY <1>7 DEF CompareNumber, TypeOK, ShapeInv, ClientOK, Decided
    <3>2. want[c][<<k, "num">>] \in 0..MaxParts
      BY <3>1, WantType DEF TypeOK
    <3>3. n = Absent \/ n \in Nat
      BY <3>1 DEF TypeOK
    <3>4. CASE n = Absent
      BY <1>7, <3>4 DEF CompareNumber, Fail, TypeOK
    <3>5. CASE n # Absent
      <4>1. \/ n < want[c][<<k, "num">>] /\ toPut' = [toPut EXCEPT ![c][k] = @ - n]
            \/ toPut' = [toPut EXCEPT ![c][k] = 0]
        BY <1>7, <3>5 DEF CompareNumber
      <4>2. \E m \in 0..MaxParts : toPut' = [toPut EXCEPT ![c] = [toPut[c] EXCEPT ![k] = m]]
        <5>1. CASE n < want[c][<<k, "num">>] /\ toPut' = [toPut EXCEPT ![c][k] = @ - n]
          <6>1. toPut[c][k] - n \in 0..MaxParts
            BY <5>1, <3>1, <3>2, <3>3, <3>5
          <6> QED
            BY <5>1, <6>1 DEF TypeOK
        <5>2. CASE toPut' = [toPut EXCEPT ![c][k] = 0]
          BY <5>2, 0 \in 0..MaxParts DEF TypeOK
        <5> QED
          BY <4>1, <5>1, <5>2
      <4>3. toPut' \in [Clients -> [Kinds -> 0..MaxParts]]
        BY <4>2, <3>1 DEF TypeOK
      <4> QED
        BY <1>7, <3>5, <4>3 DEF CompareNumber, NextKind, Fail, TypeOK
    <3> QED
      BY <3>4, <3>5
  <2>2. ClientOK(c)'
    BY <1>7, WantType, FieldOrderType DEF TypeOK, ShapeInv, ClientOK, Decided, CompareNumber, Fail, NextKind, First
  <2>3. \A d \in Clients \ {c} : ClientOK(d)'
    BY <1>7, OthersOK DEF TypeOK, ShapeInv, CompareNumber, Fail, NextKind
  <2> QED
    BY <2>2, <2>3, <2>1 DEF ShapeInv
<1>8. ASSUME NEW c \in Clients, PutNumber(c) PROVE TypeOK' /\ ShapeInv'
  <2>1. TypeOK'
    BY <1>8, WantType, FieldOrderType DEF TypeOK, ShapeInv, ClientOK, Decided, PutNumber, NextKind
  <2>2. ClientOK(c)'
    BY <1>8, WantType, FieldOrderType DEF TypeOK, ShapeInv, ClientOK, Decided, PutNumber, NextKind, First
  <2>3. \A d \in Clients \ {c} : ClientOK(d)'
    BY <1>8, OthersOK DEF TypeOK, ShapeInv, PutNumber, NextKind
  <2> QED
    BY <2>2, <2>3, <2>1 DEF ShapeInv
<1>9. ASSUME NEW c \in Clients, Register(c) PROVE TypeOK' /\ ShapeInv'
  <2>1. TypeOK'
    <3>1. First(c, "entry") \in 0..MaxParts
      BY FirstBounds
    <3>2. index' \in [Clients -> 0..(MaxParts + Len(FieldOrder) + 1)]
      BY <1>9, <3>1, FieldOrderType DEF Register, TypeOK
    <3> QED
      BY <1>9, <3>2 DEF Register, TypeOK
  <2>2. ClientOK(c)'
    <3>1. /\ pc[c] = "register" /\ UNCHANGED <<want, cat, toPut>>
          /\ pc'[c] = "parts" /\ kind'[c] = "entry" /\ index'[c] = First(c, "entry")
      BY <1>9 DEF Register, TypeOK
    <3>2. cat[c] = 0 /\ \A k \in Kinds : toPut[c][k] <= want[c][<<k, "num">>]
      BY <3>1 DEF ShapeInv, ClientOK
    <3>3. \A k \in Kinds : want[c][<<k, "num">>] \in Nat /\ toPut[c][k] \in Nat
      BY WantType DEF TypeOK
    <3> QED
      BY <3>1, <3>2, <3>3 DEF ClientOK, Decided, First, CategoriesOf
  <2>3. \A d \in Clients \ {c} : ClientOK(d)'
    BY <1>9, OthersOK DEF TypeOK, ShapeInv, Register
  <2> QED
    BY <2>2, <2>3, <2>1 DEF ShapeInv
<1>10. ASSUME NEW c \in Clients, PutPart(c) PROVE TypeOK' /\ ShapeInv'
  <2>1. TypeOK'
    <3>1. index[c] + 1 \in 0..(MaxParts + Len(FieldOrder) + 1)
      <4>1. index[c] \in Nat /\ index[c] < want[c][<<kind[c], "num">>] /\ kind[c] \in Kinds
        BY <1>10 DEF PutPart, TypeOK
      <4> QED
        BY <4>1, ClientBounds, FieldOrderType
    <3>2. want[c][<<kind[c], "size">>] \in Nat
      BY WantType DEF TypeOK
    <3>3. parts' \in [Parts -> Nat \cup {Absent}]
      BY <1>10, <3>2 DEF PutPart, TypeOK
    <3>4. index' \in [Clients -> 0..(MaxParts + Len(FieldOrder) + 1)]
      BY <1>10, <3>1 DEF PutPart, TypeOK
    <3> QED
      BY <1>10, <3>3, <3>4 DEF PutPart, TypeOK
  <2>2. ClientOK(c)'
    BY <1>10, WantType, FieldOrderType DEF TypeOK, ShapeInv, ClientOK, Decided, PutPart, First, CategoriesOf, Parts
  <2>3. \A d \in Clients \ {c} : ClientOK(d)'
    BY <1>10, OthersOK DEF TypeOK, ShapeInv, PutPart
  <2> QED
    BY <2>2, <2>3, <2>1 DEF ShapeInv
<1>11. ASSUME NEW c \in Clients, NextCategory(c) PROVE TypeOK' /\ ShapeInv'
  <2>0. \A k \in Kinds : want[c][<<k, "num">>] \in 0..MaxParts /\ toPut[c][k] \in 0..MaxParts
    BY ClientBounds
  <2>4. First(c, "data") \in 0..MaxParts
    BY FirstBounds
  <2>5. ASSUME kind[c] = "data" /\ cat[c] = NumCategories - 1
        PROVE  TypeOK' /\ ClientOK(c)'
    <3>1. pc' = [pc EXCEPT ![c] = "ready"] /\ UNCHANGED <<store, want, locals, dead>>
      BY <1>11, <2>5 DEF NextCategory
    <3>2. TypeOK'
      BY <3>1 DEF TypeOK
    <3>3. ClientOK(c)'
      BY <3>1, <2>0 DEF ClientOK, TypeOK, ShapeInv
    <3> QED
      BY <3>2, <3>3
  <2>6. ASSUME ~(kind[c] = "data" /\ cat[c] = NumCategories - 1)
        PROVE  TypeOK' /\ ClientOK(c)'
    <3> DEFINE next == IF kind[c] = "entry" THEN 0 ELSE cat[c] + 1
    <3>1. /\ pc[c] = "parts" /\ UNCHANGED <<store, want, toPut, dead, pc>>
          /\ kind' = [kind EXCEPT ![c] = "data"]
          /\ cat' = [cat EXCEPT ![c] = next]
          /\ index' = [index EXCEPT ![c] = First(c, "data")]
      BY <1>11, <2>6 DEF NextCategory
    <3>2. next \in Categories
      BY <3>1, <2>6 DEF TypeOK, Categories
    <3>3. TypeOK'
      BY <3>1, <3>2, <2>4, FieldOrderType DEF TypeOK
    <3>4. /\ kind'[c] = "data" /\ cat'[c] = next /\ index'[c] = First(c, "data")
          /\ pc'[c] = "parts"
      BY <3>1 DEF TypeOK
    <3>5. \A k \in Kinds : toPut[c][k] <= want[c][<<k, "num">>]
      BY DEF ShapeInv, ClientOK
    <3>6. ClientOK(c)'
      BY <3>1, <3>2, <3>4, <3>5, <2>0 DEF ClientOK, Decided, First, CategoriesOf
    <3> QED
      BY <3>3, <3>6
  <2>1. TypeOK'
    BY <2>5, <2>6
  <2>2. ClientOK(c)'
    BY <2>5, <2>6
  <2>3. \A d \in Clients \ {c} : ClientOK(d)'
    BY <1>11, OthersOK DEF TypeOK, ShapeInv, NextCategory
  <2> QED
    BY <2>2, <2>3, <2>1 DEF ShapeInv
<1>12. ASSUME NEW c \in Clients, RunBenchmark(c) PROVE TypeOK' /\ ShapeInv'
  <2>1. TypeOK'
    BY <1>12, WantType, FieldOrderType DEF TypeOK, ShapeInv, ClientOK, Decided, RunBenchmark
  <2>2. ClientOK(c)'
    BY <1>12, WantType, FieldOrderType DEF TypeOK, ShapeInv, ClientOK, Decided, RunBenchmark, First
  <2>3. \A d \in Clients \ {c} : ClientOK(d)'
    BY <1>12, OthersOK DEF TypeOK, ShapeInv, RunBenchmark
  <2> QED
    BY <2>2, <2>3, <2>1 DEF ShapeInv
<1>13. ASSUME NEW c \in Clients, Kill(c) PROVE TypeOK' /\ ShapeInv'
  <2>1. TypeOK'
    BY <1>13, WantType, FieldOrderType DEF TypeOK, ShapeInv, ClientOK, Decided, Kill, Fail
  <2>2. ClientOK(c)'
    BY <1>13, WantType, FieldOrderType DEF TypeOK, ShapeInv, ClientOK, Decided, Kill, Fail, First
  <2>3. \A d \in Clients \ {c} : ClientOK(d)'
    BY <1>13, OthersOK DEF TypeOK, ShapeInv, Kill, Fail
  <2> QED
    BY <2>2, <2>3, <2>1 DEF ShapeInv
<1> QED
  BY <1>1, <1>2, <1>3, <1>4, <1>5, <1>6, <1>7, <1>8, <1>9, <1>10, <1>11, <1>12, <1>13 DEF Next, SetupStep

(* TypeOK is an invariant of the specification.                            *)
THEOREM TypeCorrect == Spec => []TypeOK
<1>1. Init => TypeOK /\ ShapeInv
  BY InitShape
<1>2. (TypeOK /\ ShapeInv) /\ [Next]_vars => (TypeOK /\ ShapeInv)'
  BY NextShape
<1> QED
  BY <1>1, <1>2, PTL DEF Spec

-----------------------------------------------------------------------------
(* No part is forgotten.                                                   *)

AccountedFor(p) == parts[p] # Absent \/ \E c \in Clients : Upcoming(c, p)

AnnouncedInv == \A p \in Parts : Announced(p) => AccountedFor(p)

(* A client that has decided to put the parts from First(c, k) on does so  *)
(* because it was told that others put those below.                        *)
SkippedInv ==
  \A c \in Clients, p \in Parts :
    Decided(c, p[1]) /\ p[3] < First(c, p[1]) => AccountedFor(p)

AccountInv == AnnouncedInv /\ SkippedInv

(* A part has a kind, a category of that kind and a number.                *)
LEMMA PartType ==
  ASSUME NEW p \in Parts
  PROVE  /\ p[1] \in Kinds /\ p[2] \in Nat /\ p[2] \in CategoriesOf(p[1]) /\ p[3] \in Nat
         /\ p = <<p[1], p[2], p[3]>>
BY DEF Parts, Categories

(* What a client that does not move has yet to put stays the same.         *)
LEMMA OthersPut ==
  ASSUME NEW d \in Clients, NEW p \in Parts, Upcoming(d, p),
         pc'[d] = pc[d], kind'[d] = kind[d], cat'[d] = cat[d], index'[d] = index[d],
         toPut'[d] = toPut[d], want'[d] = want[d]
  PROVE  Upcoming(d, p)'
BY DEF Upcoming, Decided, Passed, First

(* The client that moves still has to put what it had to, or has put it.   *)
LEMMA MoverPuts ==
  ASSUME TypeOK, ShapeInv, NEW c \in Clients, SetupStep(c),
         NEW p \in Parts, Upcoming(c, p)
  PROVE  Upcoming(c, p)' \/ parts'[p] # Absent
<1> USE DEF store, locals
<1>11. /\ p[1] \in Kinds /\ p[2] \in Nat /\ p[2] \in CategoriesOf(p[1]) /\ p[3] \in Nat
      /\ p = <<p[1], p[2], p[3]>>
  BY PartType
<1>12. kind[c] \in Kinds /\ cat[c] \in Nat /\ index[c] \in Nat
  BY DEF TypeOK, Categories
<1>13. /\ Decided(c, p[1]) /\ ~Passed(c, p)
      /\ First(c, p[1]) <= p[3] /\ p[3] < want[c][<<p[1], "num">>]
  BY DEF Upcoming
<1>1. CASE Begin(c)
  BY <1>1, <1>11, <1>12, <1>13 DEF Begin, TypeOK, Upcoming, Decided, Passed, First
<1>2. CASE ListConfig(c)
  BY <1>2, <1>11, <1>12, <1>13 DEF ListConfig, TypeOK, Upcoming, Decided, Passed, First
<1>3. CASE PublishField(c)
  BY <1>3, <1>11, <1>12, <1>13 DEF PublishField, TypeOK, Upcoming, Decided, Passed, First
<1>4. CASE CompareSize(c)
  BY <1>4, <1>11, <1>12, <1>13 DEF CompareSize, Fail, TypeOK, Upcoming, Decided, Passed, First
<1>5. CASE PutSize(c)
  BY <1>5, <1>11, <1>12, <1>13 DEF PutSize, NextKind, TypeOK, Upcoming, Decided, Passed, First
<1>6. CASE PutNumber(c)
  BY <1>6, <1>11, <1>12, <1>13 DEF PutNumber, NextKind, TypeOK, Upcoming, Decided, Passed, First
<1>7. CASE CompareNumber(c)
  <2>1. pc[c] = "number" /\ kind[c] = "data" /\ p[1] = "entry" /\ UNCHANGED <<want, config, registered, parts, cat, index>>
    BY <1>7, <1>13 DEF CompareNumber, Fail, Decided
  <2>2. \/ UNCHANGED <<pc, kind, toPut>>
        \/ /\ pc'[c] \in {"extend", "register"} /\ kind'[c] = "data"
           /\ toPut'[c]["entry"] = toPut[c]["entry"]
    BY <1>7, <2>1 DEF CompareNumber, Fail, NextKind, TypeOK
  <2> QED
    BY <2>1, <2>2, <1>13 DEF Upcoming, Decided, Passed, First
<1>8. CASE Register(c)
  <2>1. /\ pc'[c] = "parts" /\ kind'[c] = "entry" /\ index'[c] = First(c, "entry")
        /\ UNCHANGED <<want, toPut>>
    BY <1>8 DEF Register, TypeOK
  <2>2. p[1] = "entry" => ~(p[3] < First(c, "entry"))
    BY <1>11, <1>13, FirstBounds
  <2> QED
    BY <2>1, <2>2, <1>11, <1>13 DEF Upcoming, Decided, Passed, First
<1>9. CASE PutPart(c)
  <2>1. /\ pc[c] = "parts" /\ pc'[c] = "parts" /\ index'[c] = index[c] + 1
        /\ UNCHANGED <<want, toPut, kind, cat>>
    BY <1>9 DEF PutPart, TypeOK
  <2>2. CASE p = <<kind[c], cat[c], index[c]>>
    <3>1. parts'[p] = want[c][<<kind[c], "size">>]
      BY <1>9, <2>2 DEF PutPart, TypeOK
    <3>2. want[c][<<kind[c], "size">>] \in Nat
      BY <1>12, ClientBounds
    <3> QED
      BY <3>1, <3>2
  <2>3. CASE p # <<kind[c], cat[c], index[c]>>
    <3>1. ~(p[1] = kind[c] /\ p[2] = cat[c] /\ p[3] = index[c])
      BY <2>3, <1>11
    <3> QED
      BY <2>1, <3>1, <1>11, <1>12, <1>13 DEF Upcoming, Decided, Passed, First
  <2> QED
    BY <2>2, <2>3
<1>10. CASE NextCategory(c)
  <2>1. /\ pc[c] = "parts" /\ index[c] = want[c][<<kind[c], "num">>]
        /\ cat[c] \in CategoriesOf(kind[c]) /\ UNCHANGED <<want, toPut>>
    BY <1>10 DEF NextCategory, ShapeInv, ClientOK
  <2>2. ~(p[1] = kind[c] /\ p[2] = cat[c])
    BY <2>1, <1>13, <1>12 DEF Passed
  <2>3. p[1] = "data" /\ (kind[c] = "data" => cat[c] < p[2])
    BY <2>1, <2>2, <1>11, <1>12, <1>13 DEF Passed, CategoriesOf
  <2>4. p[2] <= NumCategories - 1
    BY <1>11, <2>3 DEF CategoriesOf, Categories
  <2>5. /\ pc'[c] = "parts" /\ kind'[c] = "data" /\ index'[c] = First(c, "data")
        /\ cat'[c] = IF kind[c] = "entry" THEN 0 ELSE cat[c] + 1
    BY SMTT(30), <1>10, <2>3, <2>4, <1>11, <1>12, <2>1 DEF NextCategory, TypeOK
  <2>6. ~Passed(c, p)'
    <3>1. First(c, "data") \in Nat
      BY FirstBounds
    <3> QED
      BY <2>3, <2>5, <1>11, <1>12, <1>13, <3>1 DEF Passed
  <2> QED
    BY <2>1, <2>5, <2>6, <1>13 DEF Upcoming, Decided, First
<1> QED
  BY <1>1, <1>2, <1>3, <1>4, <1>5, <1>6, <1>7, <1>8, <1>9, <1>10 DEF SetupStep

(* One step leaves every part accounted for that was.                      *)
LEMMA StaysAccounted ==
  ASSUME TypeOK, ShapeInv, [Next]_vars, NEW p \in Parts, AccountedFor(p)
  PROVE  AccountedFor(p)'
<1> USE DEF store, locals
<1>1. CASE UNCHANGED vars
  BY <1>1, OthersPut DEF vars, AccountedFor
<1>2. ASSUME NEW c \in Clients, SetupStep(c) PROVE AccountedFor(p)'
  <2>1. CASE parts[p] # Absent
    <3>1. \A k \in Kinds : want[c][<<k, "size">>] \in Nat
      BY ClientBounds
    <3> QED
      BY <1>2, <2>1, <3>1 DEF TypeOK, AccountedFor, SetupStep, Begin, ListConfig, PublishField,
         CompareSize, PutSize, CompareNumber, PutNumber, Register, PutPart, NextCategory, Fail
  <2>2. ASSUME NEW d \in Clients, Upcoming(d, p) PROVE AccountedFor(p)'
    <3>1. CASE d = c
      BY <1>2, <2>2, <3>1, MoverPuts DEF AccountedFor
    <3>2. CASE d # c
      <4>1. /\ pc'[d] = pc[d] /\ kind'[d] = kind[d] /\ cat'[d] = cat[d] /\ index'[d] = index[d]
            /\ toPut'[d] = toPut[d] /\ want'[d] = want[d]
        BY <1>2, <3>2 DEF TypeOK, SetupStep, Begin, ListConfig, PublishField, CompareSize, PutSize,
           CompareNumber, PutNumber, Register, PutPart, NextCategory, Fail, NextKind
      <4> QED
        BY <4>1, <2>2, OthersPut DEF AccountedFor
    <3> QED
      BY <3>1, <3>2
  <2> QED
    BY <2>1, <2>2 DEF AccountedFor
<1>3. ASSUME NEW c \in Clients, RunBenchmark(c) PROVE AccountedFor(p)'
  <2>1. \A d \in Clients : Upcoming(d, p) => Upcoming(d, p)'
    BY <1>3 DEF RunBenchmark, TypeOK, Upcoming, Decided, Passed, First
  <2> QED
    BY <1>3, <2>1 DEF RunBenchmark, AccountedFor
<1>4. ASSUME NEW c \in Clients, Kill(c) PROVE AccountedFor(p)'
  BY <1>4, OthersPut DEF Kill, Fail, AccountedFor
<1> QED
  BY <1>1, <1>2, <1>3, <1>4 DEF Next

(* The client that announces p has decided to put it, or was told by the   *)
(* configuration that it was announced before.                             *)
LEMMA AnnouncedStep ==
  ASSUME TypeOK, ShapeInv, AccountInv, [Next]_vars, NEW p \in Parts, Announced(p)'
  PROVE  AccountedFor(p)'
<1> USE DEF store, locals
<1> DEFINE num == <<p[1], "num">>
<1>1. /\ p[1] \in Kinds /\ p[3] \in Nat
  BY PartType
<1>2. CASE config'[num] = config[num]
  BY <1>2, StaysAccounted DEF Announced, AccountInv, AnnouncedInv
<1>3. CASE config'[num] # config[num]
  <2>1. PICK c \in Clients : PublishField(c) \/ PutSize(c) \/ PutNumber(c)
    BY <1>3 DEF vars, Next, SetupStep, Begin, ListConfig, CompareSize, CompareNumber, Register,
       PutPart, NextCategory, Fail, RunBenchmark, Kill
  <2>2. ~PutSize(c)
    BY <1>1, <1>3 DEF PutSize, TypeOK
  <2>3. CASE PublishField(c)
    <3>1. /\ pc[c] = "publish" /\ pc'[c] \in {"publish", "register"}
          /\ UNCHANGED <<want, toPut>>
      BY <2>3 DEF PublishField, TypeOK
    <3>2. config'[num] = want[c][num]
      BY <1>1, <1>3, <2>3, FieldOrderType DEF PublishField, TypeOK, ShapeInv, ClientOK
    <3>3. toPut[c][p[1]] = want[c][num]
      BY <1>1, <3>1 DEF ShapeInv, ClientOK
    <3>4. want[c][num] \in Nat
      BY <1>1, ClientBounds
    <3> QED
      BY <1>1, <3>1, <3>2, <3>3, <3>4 DEF Announced, AccountedFor, Upcoming, Decided, Passed, First
  <2>4. CASE PutNumber(c)
    <3>1. /\ pc[c] = "extend" /\ kind[c] \in Kinds /\ UNCHANGED <<want, toPut>>
          /\ pc'[c] = IF kind[c] = "entry" THEN "compare" ELSE "register"
          /\ kind'[c] = "data"
          /\ config' = [config EXCEPT ![<<kind[c], "num">>] = want[c][<<kind[c], "num">>]]
      BY <2>4 DEF PutNumber, NextKind, TypeOK
    <3>2. p[1] = kind[c] /\ config'[num] = want[c][num]
      BY <1>1, <1>3, <3>1 DEF TypeOK
    <3>3. First(c, p[1]) \in Nat /\ Decided(c, p[1])
      BY <1>1, <3>1, <3>2, FirstBounds DEF Decided
    <3>4. CASE p[3] < First(c, p[1])
      BY <3>3, <3>4, StaysAccounted DEF AccountInv, SkippedInv
    <3>5. CASE ~(p[3] < First(c, p[1]))
      BY <1>1, <3>1, <3>2, <3>3, <3>5 DEF Announced, AccountedFor, Upcoming, Decided, Passed, First
    <3> QED
      BY <3>4, <3>5
  <2> QED
    BY <2>1, <2>2, <2>3, <2>4
<1> QED
  BY <1>2, <1>3

(* A client that decides not to put p does so because it is announced.     *)
LEMMA SkippedStep ==
  ASSUME TypeOK, ShapeInv, AccountInv, [Next]_vars, NEW c \in Clients, NEW p \in Parts,
         Decided(c, p[1])', p[3] < First(c, p[1])'
  PROVE  AccountedFor(p)'
<1> USE DEF store, locals
<1>1. p[1] \in Kinds /\ p[3] \in Nat
  BY PartType
<1>2. want[c][<<p[1], "num">>] \in Nat /\ toPut[c][p[1]] \in Nat
  BY <1>1, ClientBounds
<1>3. CASE Decided(c, p[1]) /\ First(c, p[1])' = First(c, p[1])
  BY <1>3, StaysAccounted DEF AccountInv, SkippedInv
<1>4. CASE ~(Decided(c, p[1]) /\ First(c, p[1])' = First(c, p[1]))
  <2>1. pc'[c] # pc[c] \/ kind'[c] # kind[c] \/ toPut'[c] # toPut[c] \/ want'[c] # want[c]
    BY <1>4 DEF Decided, First
  <2>2. SetupStep(c) \/ RunBenchmark(c)
    <3>1. PICK d \in Clients : SetupStep(d) \/ RunBenchmark(d) \/ Kill(d)
      BY <2>1 DEF Next, vars
    <3>2. ~Kill(d)
      BY <2>1 DEF Kill, Fail
    <3>3. CASE d # c
      BY <2>1, <3>1, <3>2, <3>3 DEF TypeOK, SetupStep, Begin, ListConfig, PublishField, CompareSize,
         PutSize, CompareNumber, PutNumber, Register, PutPart, NextCategory, Fail, NextKind, RunBenchmark
    <3> QED
      BY <3>1, <3>2, <3>3
  <2>3. \/ CompareNumber(c) \/ ListConfig(c) \/ CompareSize(c)
    BY SMTT(30), <2>2, <1>1, <1>4 DEF SetupStep, TypeOK, Begin, PublishField, PutSize, PutNumber, Register,
       PutPart, NextCategory, NextKind, RunBenchmark, Decided, First
  <2>4. CASE CompareNumber(c)
    <3>1. pc[c] = "number" /\ kind[c] \in Kinds /\ UNCHANGED <<want, config>>
      BY <2>4 DEF CompareNumber, Fail, TypeOK
    <3>2. p[1] = kind[c]
      <4> SUFFICES ASSUME p[1] # kind[c] PROVE FALSE
        OBVIOUS
      <4>1. toPut' = toPut \/ \E n : toPut' = [toPut EXCEPT ![c][kind[c]] = n]
        BY <2>4 DEF CompareNumber, Fail
      <4>2. toPut'[c][p[1]] = toPut[c][p[1]]
        BY <4>1, <3>1, <1>1 DEF TypeOK
      <4>3. ~Decided(c, p[1])
        BY <4>2, <3>1, <1>4 DEF First
      <4>4. kind[c] = "entry" /\ p[1] = "data"
        BY <4>3, <3>1, <1>1 DEF Decided
      <4>5. \/ UNCHANGED <<pc, kind>>
            \/ pc'[c] = "extend" /\ kind'[c] = "entry"
            \/ pc'[c] = "compare" /\ kind'[c] = "data"
        BY <2>4, <4>4 DEF CompareNumber, Fail, NextKind, TypeOK
      <4> QED
        BY <4>3, <4>4, <4>5 DEF Decided
    <3>3. toPut[c][p[1]] = want[c][<<p[1], "num">>]
      BY <3>1, <3>2, <1>1 DEF ShapeInv, ClientOK, Decided
    <3>4. config[<<p[1], "num">>] # Absent
      BY <2>4, <2>1, <3>2 DEF CompareNumber, Fail
    <3>5. config[<<p[1], "num">>] \in Nat
      BY <1>1, <3>4 DEF TypeOK
    <3>6. Announced(p)
      BY <2>4, <3>1, <3>2, <3>3, <3>4, <3>5, <1>1, <1>2 DEF CompareNumber, First, Announced, TypeOK
    <3> QED
      BY <3>6, StaysAccounted DEF AccountInv, AnnouncedInv
  <2>5. CASE ListConfig(c) \/ CompareSize(c)
    <3>1. UNCHANGED <<want, toPut>> /\ ~Decided(c, p[1])
      BY <2>5, <1>4 DEF ListConfig, CompareSize, Fail, First
    <3>2. toPut[c][p[1]] = want[c][<<p[1], "num">>]
      BY <2>5, <3>1, <1>1 DEF ListConfig, CompareSize, ShapeInv, ClientOK
    <3> QED
      BY <3>1, <3>2, <1>1, <1>2 DEF First
  <2> QED
    BY <2>3, <2>4, <2>5
<1> QED
  BY <1>3, <1>4

(* A missing part always has a client that is about to put it or died      *)
(* before it did, whatever the overlap and the deaths.                     *)
THEOREM MissingPartsAccounted == Spec => []MissingPartHasPutter
<1>1. Init => AccountInv
  BY WantType DEF Init, AccountInv, AnnouncedInv, SkippedInv, Announced, Decided, Parts
<1>2. TypeOK /\ ShapeInv /\ AccountInv /\ [Next]_vars => AccountInv'
  BY AnnouncedStep, SkippedStep DEF AccountInv, AnnouncedInv, SkippedInv
<1>3. TypeOK /\ ShapeInv /\ [Next]_vars => (TypeOK /\ ShapeInv)'
  BY NextShape
<1>4. AccountInv => MissingPartHasPutter
  BY DEF AccountInv, AnnouncedInv, AccountedFor, MissingPartHasPutter
<1> QED
  BY InitShape, <1>1, <1>2, <1>3, <1>4, PTL DEF Spec

-----------------------------------------------------------------------------
(* Clients that overlap only once the configuration is complete, and are   *)
(* not killed.                                                             *)

(* Until the configuration is complete there is one client, which has      *)
(* published the fields below its index and no other.                      *)
PublishInv ==
  /\ registered = {}
  /\ \A c \in Clients : pc[c] \in {"new", "list", "publish"}
  /\ \A c, d \in Clients : pc[c] # "new" /\ pc[d] # "new" => c = d
  /\ \A c \in Clients : pc[c] = "publish" =>
       \A i \in 1..4 : config[FieldOrder[i]] # Absent <=> i < index[c]
  /\ (\A c \in Clients : pc[c] # "publish") => \A f \in Fields : config[f] = Absent

ConfigInv == dead = {} /\ (Configured \/ PublishInv)

(* Every field is published.                                               *)
LEMMA FieldsOrdered == \A f \in Fields : \E i \in 1..4 : f = FieldOrder[i]
<1>1. /\ FieldOrder[1] = <<"entry", "size">> /\ FieldOrder[2] = <<"entry", "num">>
      /\ FieldOrder[3] = <<"data", "size">> /\ FieldOrder[4] = <<"data", "num">>
  BY DEF FieldOrder
<1>2. \A f \in Fields : f \in {<<"entry", "size">>, <<"entry", "num">>, <<"data", "size">>, <<"data", "num">>}
  OBVIOUS
<1> QED
  BY <1>1, <1>2

(* No field is published twice.                                            *)
LEMMA FieldsDiffer == \A i, j \in 1..4 : FieldOrder[i] = FieldOrder[j] => i = j
BY DEF FieldOrder

(* A complete configuration stays complete, and nobody dies of it.         *)
LEMMA ConfiguredStep ==
  ASSUME MaxCrashes = 0, TypeOK, ShapeInv, dead = {}, Configured, [Next]_vars
  PROVE  dead' = {} /\ Configured'
<1> USE DEF store, locals
<1>1. CASE UNCHANGED vars
  BY <1>1 DEF vars, Configured
<1>2. ASSUME NEW c \in Clients, SetupStep(c) PROVE dead' = {} /\ Configured'
  <2>1. kind[c] \in Kinds /\ \A f \in Fields : want[c][f] \in Nat
    BY DEF TypeOK
  <2>2. dead' = {}
    BY <1>2, <2>1 DEF Configured, SetupStep, Begin, ListConfig, PublishField, CompareSize,
       PutSize, CompareNumber, PutNumber, Register, PutPart, NextCategory, Fail
  <2>3. config' = config \/ \E f \in Fields : config' = [config EXCEPT ![f] = want[c][f]]
    <3>1. CASE PublishField(c)
      BY <3>1, FieldOrderType DEF PublishField, ShapeInv, ClientOK
    <3>2. CASE PutSize(c) \/ PutNumber(c)
      BY <3>2, <2>1 DEF PutSize, PutNumber
    <3> QED
      BY <1>2, <3>1, <3>2 DEF SetupStep, Begin, ListConfig, CompareSize, CompareNumber, Register,
         PutPart, NextCategory, Fail
  <2>4. Configured'
    BY <2>1, <2>3 DEF Configured, TypeOK
  <2> QED
    BY <2>2, <2>4
<1>3. ASSUME NEW c \in Clients, RunBenchmark(c) PROVE dead' = {} /\ Configured'
  BY <1>3 DEF RunBenchmark, Configured
<1>4. ASSUME NEW c \in Clients, Kill(c) PROVE FALSE
  BY <1>4, FS_EmptySet DEF Kill
<1> QED
  BY <1>1, <1>2, <1>3, <1>4 DEF Next

(* The first client publishes the whole configuration alone.               *)
LEMMA PublishStep ==
  ASSUME Overlap # "always", MaxCrashes = 0, TypeOK, ShapeInv, dead = {},
         ~Configured, PublishInv, [Next]_vars
  PROVE  dead' = {} /\ (Configured \/ PublishInv)'
<1> USE DEF store, locals
<1>1. CASE UNCHANGED vars
  BY <1>1 DEF vars, Configured, PublishInv
<1>2. ASSUME NEW c \in Clients, SetupStep(c) PROVE dead' = {} /\ (Configured \/ PublishInv)'
  <2>1. pc[c] \in {"new", "list", "publish"} /\ registered = {}
    BY DEF PublishInv
  <2>2. Begin(c) \/ ListConfig(c) \/ PublishField(c)
    BY <1>2, <2>1 DEF SetupStep, CompareSize, PutSize, CompareNumber, PutNumber, Register,
       PutPart, NextCategory
  <2>3. CASE Begin(c)
    <3>1. \A d \in Clients : pc[d] = "new"
      BY <2>3 DEF Begin, MayBegin, Ended, PublishInv
    <3> QED
      BY <2>3, <3>1 DEF Begin, PublishInv, TypeOK
  <2>4. CASE ListConfig(c)
    <3>1. \A d \in Clients : d # c => pc[d] = "new"
      BY <2>4 DEF ListConfig, PublishInv
    <3>2. \A f \in Fields : config[f] = Absent
      BY <2>4, <3>1 DEF ListConfig, PublishInv
    <3>3. pc' = [pc EXCEPT ![c] = "publish"] /\ index'[c] = 1 /\ UNCHANGED <<config, registered, dead>>
      BY <2>4, <2>1, <3>2 DEF ListConfig, TypeOK
    <3> QED
      BY <3>1, <3>2, <3>3, FieldOrderType DEF PublishInv, TypeOK
  <2>5. CASE PublishField(c)
    <3>1. /\ pc[c] = "publish" /\ index[c] \in 1..4 /\ FieldOrder[index[c]] \in Fields
          /\ index'[c] = index[c] + 1 /\ UNCHANGED <<registered, dead>>
          /\ pc'[c] = IF index[c] = 4 THEN "register" ELSE "publish"
          /\ \A d \in Clients : d # c => pc'[d] = pc[d]
      BY <2>5, FieldOrderType DEF PublishField, TypeOK, ShapeInv, ClientOK
    <3>2. want[c][FieldOrder[index[c]]] \in Nat
      BY <3>1 DEF TypeOK
    <3>3. \A d \in Clients : d # c => pc[d] = "new"
      BY <3>1 DEF PublishInv
    <3>4. \A i \in 1..4 : config'[FieldOrder[i]] =
            IF i = index[c] THEN want[c][FieldOrder[index[c]]] ELSE config[FieldOrder[i]]
      BY <2>5, <3>1, FieldOrderType, FieldsDiffer DEF PublishField, TypeOK
    <3>5. \A i \in 1..4 : config'[FieldOrder[i]] # Absent <=> i < index'[c]
      BY <3>1, <3>2, <3>4 DEF PublishInv
    <3>6. CASE index[c] = 4
      BY <3>1, <3>5, <3>6, FieldsOrdered DEF Configured
    <3>7. CASE index[c] # 4
      BY <3>1, <3>3, <3>5, <3>7 DEF PublishInv
    <3> QED
      BY <3>6, <3>7
  <2> QED
    BY <2>2, <2>3, <2>4, <2>5
<1>3. ASSUME NEW c \in Clients, RunBenchmark(c) PROVE FALSE
  BY <1>3 DEF RunBenchmark, PublishInv
<1>4. ASSUME NEW c \in Clients, Kill(c) PROVE FALSE
  BY <1>4, FS_EmptySet DEF Kill
<1> QED
  BY <1>1, <1>2, <1>3, <1>4 DEF Next

(* Clients that overlap once the configuration is complete leave no        *)
(* announced part out and never look up a missing configuration object.    *)
THEOREM OverlapLeavesPartsComplete ==
  ASSUME Overlap # "always", MaxCrashes = 0
  PROVE  Spec => []PartsComplete
<1>1. Init => ConfigInv
  BY FieldOrderType DEF Init, ConfigInv, PublishInv
<1>2. TypeOK /\ ShapeInv /\ ConfigInv /\ [Next]_vars => ConfigInv'
  BY ConfiguredStep, PublishStep DEF ConfigInv
<1>3. TypeOK /\ ShapeInv /\ [Next]_vars => (TypeOK /\ ShapeInv)'
  BY NextShape
<1>4. TypeOK /\ ConfigInv /\ MissingPartHasPutter => PartsComplete
  <2> SUFFICES ASSUME TypeOK, ConfigInv, MissingPartHasPutter, \A c \in Clients : ~InSetup(c),
                      NEW p \in Parts, Announced(p)
               PROVE  parts[p] # Absent
    BY DEF PartsComplete, ConfigInv
  <2>1. \A c \in Clients : ~Upcoming(c, p)
    BY DEF InSetup, ConfigInv, Upcoming, Decided
  <2> QED
    BY <2>1 DEF MissingPartHasPutter
<1> QED
  BY InitShape, MissingPartsAccounted, <1>1, <1>2, <1>3, <1>4, PTL DEF Spec

-----------------------------------------------------------------------------
(* Clients that run one after the other, and are not killed.               *)

Active(c) == pc[c] \notin {"new", "done"}

(* The client has compared or put the size of the parts of kind k.         *)
PastSize(c, k) ==
  \/ pc[c] \in {"register", "parts", "ready"}
  \/ pc[c] \in {"number", "extend"} /\ k = kind[c]
  \/ pc[c] \in {"compare", "resize", "number", "extend"} /\ kind[c] = "data" /\ k = "entry"

(* The client has compared or put their number.                            *)
PastNumber(c, k) ==
  \/ pc[c] \in {"register", "parts", "ready"}
  \/ pc[c] \in {"compare", "resize", "number", "extend"} /\ kind[c] = "data" /\ k = "entry"

(* What the configuration holds for the client whose turn it is.           *)
TurnOK(c) ==
  /\ pc[c] \in {"new", "list"} => kind[c] = "entry"
  /\ pc[c] = "publish" =>
       \A i \in 1..4 : config[FieldOrder[i]] =
         IF i < index[c] THEN want[c][FieldOrder[i]] ELSE Absent
  /\ \A k \in Kinds : PastSize(c, k) => config[<<k, "size">>] = want[c][<<k, "size">>]
  /\ pc[c] = "extend" =>
       /\ config[<<kind[c], "num">>] # Absent
       /\ config[<<kind[c], "num">>] < want[c][<<kind[c], "num">>]

OneAtATime == \A c, d \in Clients : Active(c) /\ Active(d) => c = d

TurnInv == OneAtATime /\ \A c \in Clients : TurnOK(c)

(* With one size, the size is never put again, so that a number that is    *)
(* too small is always found.                                              *)
OneSizeInv ==
  SameSizes =>
    /\ \A c \in Clients, k \in Kinds :
         /\ config[<<k, "size">>] \in {Absent, want[c][<<k, "size">>]}
         /\ PastNumber(c, k) => /\ config[<<k, "num">>] # Absent
                                /\ config[<<k, "num">>] >= want[c][<<k, "num">>]
    /\ \A c \in Clients : pc[c] # "resize"
    /\ \A c \in Clients, p \in Parts : parts[p] \in {Absent, want[c][<<p[1], "size">>]}

(* The others wait while a client takes its turn.                          *)
LEMMA OthersWait ==
  ASSUME Overlap = "never", TypeOK, dead = {}, OneAtATime,
         NEW c \in Clients, SetupStep(c) \/ RunBenchmark(c)
  PROVE  /\ want' = want
         /\ \A d \in Clients : d # c => /\ ~Active(d)
                                        /\ pc'[d] = pc[d] /\ kind'[d] = kind[d] /\ index'[d] = index[d]
<1> USE DEF store, locals
<1>1. \A d \in Clients : d # c => ~Active(d)
  <2>1. CASE Begin(c)
    BY <2>1 DEF Begin, MayBegin, Ended, Active
  <2>2. CASE ~Begin(c)
    <3>1. Active(c)
      BY <2>2 DEF Active, SetupStep, ListConfig, PublishField, CompareSize, PutSize, CompareNumber,
         PutNumber, Register, PutPart, NextCategory, RunBenchmark
    <3> QED
      BY <3>1 DEF OneAtATime
  <2> QED
    BY <2>1, <2>2
<1>2. want' = want
  BY DEF SetupStep, Begin, ListConfig, PublishField, CompareSize, PutSize, CompareNumber,
     PutNumber, Register, PutPart, NextCategory, Fail, RunBenchmark
<1>3. \A d \in Clients : d # c => pc'[d] = pc[d] /\ kind'[d] = kind[d] /\ index'[d] = index[d]
  BY DEF TypeOK, SetupStep, Begin, ListConfig, PublishField, CompareSize, PutSize, CompareNumber,
     PutNumber, Register, PutPart, NextCategory, Fail, NextKind, RunBenchmark
<1> QED
  BY <1>1, <1>2, <1>3

(* What the client whose turn it is finds in the configuration.            *)
LEMMA MoverTurn ==
  ASSUME TypeOK, ShapeInv, dead = {}, dead' = {}, NEW c \in Clients, TurnOK(c),
         SetupStep(c) \/ RunBenchmark(c)
  PROVE  TurnOK(c)'
<1> USE DEF store, locals
<1>1. kind[c] \in Kinds /\ \A f \in Fields : want[c][f] \in Nat
  BY DEF TypeOK
<1>2. CASE Begin(c)
  BY <1>2 DEF Begin, TypeOK, TurnOK, PastSize
<1>3. CASE ListConfig(c)
  <2>1. CASE pc'[c] = "publish"
    <3>1. \A f \in Fields : config'[f] = Absent
      BY <1>3, <2>1 DEF ListConfig, TypeOK
    <3>2. index'[c] = 1
      BY <1>3, <2>1 DEF ListConfig, TypeOK
    <3> QED
      BY <2>1, <3>1, <3>2, FieldOrderType DEF TurnOK, PastSize
  <2>2. CASE pc'[c] = "compare"
    BY <1>3, <2>2 DEF ListConfig, TurnOK, PastSize
  <2> QED
    BY <1>3, <2>1, <2>2 DEF ListConfig, TypeOK
<1>4. CASE PublishField(c)
  <2>1. /\ pc[c] = "publish" /\ index[c] \in 1..4 /\ index'[c] = index[c] + 1
        /\ FieldOrder[index[c]] \in Fields
        /\ pc'[c] = IF index[c] = 4 THEN "register" ELSE "publish"
        /\ want' = want
    BY <1>4, FieldOrderType DEF PublishField, TypeOK, ShapeInv, ClientOK
  <2>2. \A i \in 1..4 : config'[FieldOrder[i]] =
          IF i = index[c] THEN want[c][FieldOrder[index[c]]] ELSE config[FieldOrder[i]]
    BY <1>4, <2>1, FieldOrderType, FieldsDiffer DEF PublishField, TypeOK
  <2>3. \A i \in 1..4 : config'[FieldOrder[i]] = IF i < index'[c] THEN want'[c][FieldOrder[i]] ELSE Absent
    BY <2>1, <2>2 DEF TurnOK
  <2>4. CASE index[c] = 4
    <3>1. \A f \in Fields : config'[f] = want'[c][f]
      <4>1. \A i \in 1..4 : config'[FieldOrder[i]] = want'[c][FieldOrder[i]]
        BY <2>1, <2>3, <2>4
      <4> QED
        BY <4>1, FieldsOrdered
    <3> QED
      BY <2>1, <2>4, <3>1 DEF TurnOK, PastSize
  <2>5. CASE index[c] # 4
    BY <2>1, <2>3, <2>5 DEF TurnOK, PastSize
  <2> QED
    BY <2>4, <2>5
<1>5. CASE CompareSize(c)
  <2>1. /\ UNCHANGED <<config, want, kind>> /\ pc[c] = "compare"
        /\ pc'[c] = IF config[<<kind[c], "size">>] = want[c][<<kind[c], "size">>] THEN "number" ELSE "resize"
    BY <1>5 DEF CompareSize, Fail, TypeOK
  <2> QED
    BY <1>1, <2>1 DEF TurnOK, PastSize
<1>6. CASE PutSize(c)
  <2>1. /\ pc[c] = "resize" /\ want' = want
        /\ pc'[c] = IF kind[c] = "entry" THEN "compare" ELSE "register"
        /\ kind'[c] = "data"
        /\ config' = [config EXCEPT ![<<kind[c], "size">>] = want[c][<<kind[c], "size">>]]
    BY <1>6 DEF PutSize, NextKind, TypeOK
  <2>2. config'[<<kind[c], "size">>] = want[c][<<kind[c], "size">>]
    BY <1>1, <2>1 DEF TypeOK
  <2>3. kind[c] = "data" => config'[<<"entry", "size">>] = config[<<"entry", "size">>]
    BY <1>1, <2>1 DEF TypeOK
  <2> QED
    BY <1>1, <2>1, <2>2, <2>3 DEF TurnOK, PastSize
<1>7. CASE CompareNumber(c)
  <2>1. /\ UNCHANGED <<config, want>> /\ pc[c] = "number" /\ config[<<kind[c], "num">>] # Absent
        /\ \/ /\ pc'[c] = "extend" /\ kind' = kind
              /\ config[<<kind[c], "num">>] < want[c][<<kind[c], "num">>]
           \/ /\ pc'[c] = IF kind[c] = "entry" THEN "compare" ELSE "register"
              /\ kind'[c] = "data"
    BY <1>7 DEF CompareNumber, Fail, NextKind, TypeOK
  <2> QED
    BY <1>1, <2>1 DEF TurnOK, PastSize
<1>8. CASE PutNumber(c)
  <2>1. /\ pc[c] = "extend" /\ want' = want
        /\ pc'[c] = IF kind[c] = "entry" THEN "compare" ELSE "register"
        /\ kind'[c] = "data"
        /\ config' = [config EXCEPT ![<<kind[c], "num">>] = want[c][<<kind[c], "num">>]]
    BY <1>8 DEF PutNumber, NextKind, TypeOK
  <2>2. \A k \in Kinds : config'[<<k, "size">>] = config[<<k, "size">>]
    BY <1>1, <2>1 DEF TypeOK
  <2> QED
    BY <1>1, <2>1, <2>2 DEF TurnOK, PastSize
<1>9. CASE Register(c) \/ PutPart(c) \/ NextCategory(c) \/ RunBenchmark(c)
  <2>1. /\ UNCHANGED <<config, want>> /\ pc[c] \in {"register", "parts", "ready"}
        /\ pc'[c] \in {"parts", "ready", "done"}
    BY <1>9 DEF Register, PutPart, NextCategory, RunBenchmark, TypeOK
  <2> QED
    BY <2>1 DEF TurnOK, PastSize
<1> QED
  BY <1>2, <1>3, <1>4, <1>5, <1>6, <1>7, <1>8, <1>9 DEF SetupStep

(* One step of clients that take turns.                                    *)
LEMMA TurnStep ==
  ASSUME Overlap = "never", MaxCrashes = 0, TypeOK, ShapeInv, ConfigInv, ConfigInv', TurnInv, [Next]_vars
  PROVE  TurnInv'
<1> USE DEF store, locals
<1>1. CASE UNCHANGED vars
  BY <1>1 DEF vars, TurnInv, OneAtATime, Active, TurnOK, PastSize
<1>2. ASSUME NEW c \in Clients, SetupStep(c) \/ RunBenchmark(c) PROVE TurnInv'
  <2>1. dead = {} /\ dead' = {} /\ OneAtATime
    BY DEF ConfigInv, TurnInv
  <2>2. \A d \in Clients : d # c => ~Active(d) /\ pc'[d] = pc[d] /\ kind'[d] = kind[d]
    BY <1>2, <2>1, OthersWait
  <2>3. TurnOK(c)'
    BY <1>2, <2>1, MoverTurn DEF TurnInv
  <2>4. \A d \in Clients : d # c => TurnOK(d)'
    BY <2>2, SMTT(20) DEF Active, TurnInv, TurnOK, PastSize
  <2>5. OneAtATime'
    BY <2>2 DEF OneAtATime, Active
  <2> QED
    BY <2>3, <2>4, <2>5 DEF TurnInv
<1>3. ASSUME NEW c \in Clients, Kill(c) PROVE FALSE
  BY <1>3, FS_EmptySet DEF Kill, ConfigInv
<1> QED
  BY <1>1, <1>2, <1>3 DEF Next

(* Clients that run one after the other leave setup() with the sizes that  *)
(* they want and with every part that they announce.                       *)
THEOREM TurnsReadyToServe ==
  ASSUME Overlap = "never", MaxCrashes = 0
  PROVE  Spec => []ReadyToServe
<1>1. Init => ConfigInv /\ TurnInv
  BY FieldOrderType DEF Init, ConfigInv, PublishInv, TurnInv, OneAtATime, Active, TurnOK, PastSize
<1>2. TypeOK /\ ShapeInv /\ ConfigInv /\ [Next]_vars => ConfigInv'
  BY ConfiguredStep, PublishStep DEF ConfigInv
<1>3. TypeOK /\ ShapeInv /\ [Next]_vars => (TypeOK /\ ShapeInv)'
  BY NextShape
<1>4. TypeOK /\ ShapeInv /\ ConfigInv /\ ConfigInv' /\ TurnInv /\ [Next]_vars => TurnInv'
  BY TurnStep
<1>5. ConfigInv /\ TurnInv /\ PartsComplete => ReadyToServe
  <2> SUFFICES ASSUME ConfigInv, TurnInv, PartsComplete, NEW c \in Clients, pc[c] = "ready"
               PROVE  /\ Configured
                      /\ \A k \in Kinds : config[<<k, "size">>] = want[c][<<k, "size">>]
                      /\ \A p \in Parts : Announced(p) => parts[p] # Absent
    BY DEF ReadyToServe
  <2>1. Configured
    BY DEF ConfigInv, PublishInv
  <2>2. \A k \in Kinds : config[<<k, "size">>] = want[c][<<k, "size">>]
    BY ZenonT(60) DEF TurnInv, TurnOK, PastSize
  <2>3. \A d \in Clients : ~InSetup(d)
    BY DEF TurnInv, OneAtATime, Active, InSetup
  <2> QED
    BY <2>1, <2>2, <2>3 DEF PartsComplete
<1>6. Spec => []PartsComplete
  BY OverlapLeavesPartsComplete
<1> QED
  BY InitShape, <1>1, <1>2, <1>3, <1>4, <1>5, <1>6, PTL DEF Spec

(* One step of clients that take turns and want the same sizes.            *)
LEMMA OneSizeStep ==
  ASSUME Overlap = "never", MaxCrashes = 0, TypeOK, ShapeInv, ConfigInv, ConfigInv', TurnInv, TurnInv',
         OneSizeInv, [Next]_vars
  PROVE  OneSizeInv'
<1> USE DEF store, locals
<1>1. CASE UNCHANGED vars
  BY <1>1 DEF vars, OneSizeInv, SameSizes, PastNumber
<1>2. ASSUME NEW c \in Clients, SetupStep(c) \/ RunBenchmark(c) PROVE OneSizeInv'
  <2>1. dead = {} /\ dead' = {} /\ OneAtATime /\ TurnOK(c) /\ TurnOK(c)' /\ ClientOK(c)
    BY DEF ConfigInv, TurnInv, ShapeInv
  <2>2. want' = want /\ \A d \in Clients : d # c => ~Active(d) /\ pc'[d] = pc[d]
    BY <1>2, <2>1, OthersWait
  <2> SUFFICES ASSUME SameSizes PROVE OneSizeInv'
    BY <2>2 DEF SameSizes, OneSizeInv
  <2>3. kind[c] \in Kinds /\ \A f \in Fields : want[c][f] \in Nat
    BY DEF TypeOK
  <2>4. pc[c] # "resize" /\ ~PutSize(c)
    BY DEF OneSizeInv, PutSize
  <2>5. \A d \in Clients : pc'[d] # "resize"
    <3>1. pc'[c] # "resize"
      BY <1>2, <2>1, <2>3, <2>4, ZenonT(60) DEF OneSizeInv, TypeOK, SetupStep, Begin, ListConfig, PublishField,
         CompareSize, CompareNumber, PutNumber, Register, PutPart, NextCategory, Fail, NextKind, RunBenchmark
    <3> QED
      BY <2>2, <3>1 DEF Active
  <2>6. \A k \in Kinds : config'[<<k, "size">>] \in {config[<<k, "size">>], want[c][<<k, "size">>]}
    BY <1>2, <2>1, <2>3, <2>4, FieldOrderType DEF TypeOK, ClientOK, SetupStep, Begin, ListConfig, PublishField,
         CompareSize, CompareNumber, PutNumber, Register, PutPart, NextCategory, Fail, RunBenchmark
  <2>7. \A d \in Clients, k \in Kinds : config'[<<k, "size">>] \in {Absent, want[d][<<k, "size">>]}
    BY <2>6 DEF OneSizeInv, SameSizes
  <2>8. \A d \in Clients, p \in Parts : parts'[p] \in {Absent, want[d][<<p[1], "size">>]}
    <3>1. CASE PutPart(c)
      <4> SUFFICES ASSUME NEW d \in Clients, NEW p \in Parts
                   PROVE  parts'[p] \in {Absent, want[d][<<p[1], "size">>]}
        OBVIOUS
      <4>1. CASE p = <<kind[c], cat[c], index[c]>>
        <5>1. parts'[p] = want[c][<<kind[c], "size">>] /\ p[1] = kind[c]
          BY <3>1, <4>1 DEF PutPart, TypeOK
        <5> QED
          BY <2>3, <5>1 DEF SameSizes
      <4>2. CASE p # <<kind[c], cat[c], index[c]>>
        BY <3>1, <4>2 DEF PutPart, TypeOK, OneSizeInv
      <4> QED
        BY <4>1, <4>2
    <3>2. CASE ~PutPart(c)
      <4>1. parts' = parts
        BY <1>2, <3>2 DEF SetupStep, Begin, ListConfig, PublishField, CompareSize, PutSize,
           CompareNumber, PutNumber, Register, NextCategory, Fail, RunBenchmark
      <4> QED
        BY <4>1 DEF OneSizeInv
    <3> QED
      BY <3>1, <3>2
  <2>9. ASSUME NEW k \in Kinds, PastNumber(c, k)'
        PROVE  config'[<<k, "num">>] # Absent /\ config'[<<k, "num">>] >= want[c][<<k, "num">>]
    <3>1. want[c][<<k, "num">>] \in Nat /\ <<k, "num">> \in Fields
      BY <2>3
    <3>2. CASE PublishField(c)
      <4>1. pc[c] = "publish" /\ index[c] = 4
        BY <3>2, <2>9, FieldOrderType DEF PublishField, PastNumber, TypeOK
      <4>2. \A i \in 1..4 : config'[FieldOrder[i]] = want[c][FieldOrder[i]]
        BY <3>2, <4>1, <2>1, FieldOrderType, FieldsDiffer DEF PublishField, TurnOK, TypeOK
      <4>3. config'[<<k, "num">>] = want[c][<<k, "num">>]
        BY <3>1, <4>2, FieldsOrdered
      <4> QED
        BY <3>1, <4>3
    <3>3. CASE CompareNumber(c)
      <4>1. /\ config' = config /\ pc[c] = "number" /\ config[<<kind[c], "num">>] # Absent
            /\ \/ /\ pc'[c] = "extend" /\ kind' = kind
               \/ /\ pc'[c] = IF kind[c] = "entry" THEN "compare" ELSE "register"
                  /\ kind'[c] = "data"
                  /\ config[<<kind[c], "num">>] >= want[c][<<kind[c], "num">>]
        BY <3>3, <2>1 DEF CompareNumber, Fail, NextKind, TypeOK
      <4>2. k = kind[c] \/ PastNumber(c, k)
        BY <2>3, <2>9, <4>1 DEF PastNumber
      <4>3. k = kind[c] => PastNumber(c, k) \/ config[<<kind[c], "num">>] >= want[c][<<kind[c], "num">>]
        BY <2>3, <2>9, <4>1 DEF PastNumber
      <4> QED
        BY <4>1, <4>2, <4>3 DEF OneSizeInv
    <3>4. CASE PutNumber(c)
      <4>1. /\ pc[c] = "extend"
            /\ pc'[c] = IF kind[c] = "entry" THEN "compare" ELSE "register"
            /\ kind'[c] = "data"
            /\ config' = [config EXCEPT ![<<kind[c], "num">>] = want[c][<<kind[c], "num">>]]
        BY <3>4 DEF PutNumber, NextKind, TypeOK
      <4>2. k = kind[c] \/ PastNumber(c, k)
        BY <2>3, <2>9, <4>1 DEF PastNumber
      <4>3. CASE k = kind[c]
        <5>1. config'[<<k, "num">>] = want[c][<<k, "num">>]
          BY <4>1, <4>3, <2>3 DEF TypeOK
        <5> QED
          BY <3>1, <5>1
      <4>4. CASE k # kind[c]
        <5>1. config'[<<k, "num">>] = config[<<k, "num">>]
          BY <4>1, <4>4, <2>3 DEF TypeOK
        <5> QED
          BY <4>2, <4>4, <5>1 DEF OneSizeInv
      <4> QED
        BY <4>3, <4>4
    <3>5. CASE Begin(c) \/ ListConfig(c) \/ CompareSize(c)
      <4>1. config' = config /\ kind' = kind
        BY <3>5, <2>1 DEF Begin, ListConfig, CompareSize, Fail
      <4>2. PastNumber(c, k)
        BY <3>5, <2>1, <2>9, <4>1 DEF Begin, ListConfig, CompareSize, Fail, PastNumber, TurnOK, TypeOK
      <4> QED
        BY <4>1, <4>2 DEF OneSizeInv
    <3>6. CASE Register(c) \/ PutPart(c) \/ NextCategory(c) \/ RunBenchmark(c)
      <4>1. config' = config /\ PastNumber(c, k)
        BY <3>6 DEF Register, PutPart, NextCategory, RunBenchmark, PastNumber
      <4> QED
        BY <4>1 DEF OneSizeInv
    <3> QED
      BY <1>2, <2>4, <3>2, <3>3, <3>4, <3>5, <3>6 DEF SetupStep
  <2>10. \A d \in Clients, k \in Kinds : d # c => ~PastNumber(d, k)'
    BY <2>2 DEF PastNumber, Active
  <2> QED
    BY <2>2, <2>5, <2>7, <2>8, <2>9, <2>10 DEF OneSizeInv
<1>3. ASSUME NEW c \in Clients, Kill(c) PROVE FALSE
  BY <1>3, FS_EmptySet DEF Kill, ConfigInv
<1> QED
  BY <1>1, <1>2, <1>3 DEF Next

(* When they want the same sizes, each is served at least the parts that   *)
(* it wants, all of the size that it wants.                                *)
THEOREM TurnsOneSizeServed ==
  ASSUME Overlap = "never", MaxCrashes = 0
  PROVE  Spec => []OneSizeServed
<1>1. Init => ConfigInv /\ TurnInv /\ OneSizeInv
  BY FieldOrderType DEF Init, ConfigInv, PublishInv, TurnInv, OneAtATime, Active, TurnOK, PastSize,
     OneSizeInv, PastNumber
<1>2. TypeOK /\ ShapeInv /\ ConfigInv /\ [Next]_vars => ConfigInv'
  BY ConfiguredStep, PublishStep DEF ConfigInv
<1>3. TypeOK /\ ShapeInv /\ [Next]_vars => (TypeOK /\ ShapeInv)'
  BY NextShape
<1>4. TypeOK /\ ShapeInv /\ ConfigInv /\ ConfigInv' /\ TurnInv /\ [Next]_vars => TurnInv'
  BY TurnStep
<1>5. TypeOK /\ ShapeInv /\ ConfigInv /\ ConfigInv' /\ TurnInv /\ TurnInv' /\ OneSizeInv /\ [Next]_vars => OneSizeInv'
  BY OneSizeStep
<1>6. OneSizeInv /\ ReadyToServe => OneSizeServed
  <2> SUFFICES ASSUME OneSizeInv, ReadyToServe, SameSizes, NEW c \in Clients, pc[c] = "ready", NEW k \in Kinds
               PROVE  /\ config[<<k, "num">>] >= want[c][<<k, "num">>]
                      /\ \A p \in Parts : p[1] = k /\ Announced(p) => parts[p] = want[c][<<k, "size">>]
    BY DEF OneSizeServed
  <2>1. config[<<k, "num">>] >= want[c][<<k, "num">>]
    BY DEF OneSizeInv, PastNumber
  <2>2. \A p \in Parts : Announced(p) => parts[p] # Absent
    BY DEF ReadyToServe
  <2>3. \A p \in Parts : p[1] = k => parts[p] \in {Absent, want[c][<<k, "size">>]}
    BY DEF OneSizeInv
  <2> QED
    BY <2>1, <2>2, <2>3
<1>7. Spec => []ReadyToServe
  BY TurnsReadyToServe
<1> QED
  BY InitShape, <1>1, <1>2, <1>3, <1>4, <1>5, <1>6, <1>7, PTL DEF Spec

(* The numbers that the UDLs read never shrink.                            *)
THEOREM TurnsNumbersGrow ==
  ASSUME Overlap = "never", MaxCrashes = 0
  PROVE  Spec => NumbersGrow
<1>1. Init => ConfigInv /\ TurnInv
  BY FieldOrderType DEF Init, ConfigInv, PublishInv, TurnInv, OneAtATime, Active, TurnOK, PastSize
<1>2. TypeOK /\ ShapeInv /\ ConfigInv /\ [Next]_vars => ConfigInv'
  BY ConfiguredStep, PublishStep DEF ConfigInv
<1>3. TypeOK /\ ShapeInv /\ [Next]_vars => (TypeOK /\ ShapeInv)'
  BY NextShape
<1>4. TypeOK /\ ShapeInv /\ ConfigInv /\ ConfigInv' /\ TurnInv /\ [Next]_vars => TurnInv'
  BY TurnStep
<1> DEFINE Grow == \A k \in Kinds : config[<<k, "num">>] # Absent => config'[<<k, "num">>] >= config[<<k, "num">>]
<1>5. TypeOK /\ ShapeInv /\ TurnInv /\ [Next]_vars => [Grow]_vars
  <2> SUFFICES ASSUME TypeOK, ShapeInv, TurnInv, Next, NEW k \in Kinds, config[<<k, "num">>] # Absent
               PROVE  config'[<<k, "num">>] >= config[<<k, "num">>]
    OBVIOUS
  <2> USE DEF store, locals
  <2> DEFINE num == <<k, "num">>
  <2>1. num \in Fields /\ config[num] \in Nat
    BY DEF TypeOK
  <2>2. CASE config'[num] = config[num]
    BY <2>1, <2>2
  <2>3. CASE config'[num] # config[num]
    <3>1. PICK c \in Clients : PublishField(c) \/ PutSize(c) \/ PutNumber(c)
      BY <2>3 DEF vars, Next, SetupStep, Begin, ListConfig, CompareSize, CompareNumber, Register,
         PutPart, NextCategory, Fail, RunBenchmark, Kill
    <3>2. TurnOK(c) /\ ClientOK(c) /\ kind[c] \in Kinds /\ \A f \in Fields : want[c][f] \in Nat
      BY DEF TurnInv, ShapeInv, TypeOK
    <3>3. ~PutSize(c)
      BY <2>1, <2>3, <3>2 DEF PutSize, TypeOK
    <3>4. ~PublishField(c)
      <4> SUFFICES ASSUME PublishField(c) PROVE FALSE
        OBVIOUS
      <4>1. pc[c] = "publish" /\ index[c] \in 1..4
        BY <3>2 DEF PublishField, ClientOK
      <4>2. config[FieldOrder[index[c]]] = Absent
        BY <4>1, <3>2 DEF TurnOK
      <4>3. num = FieldOrder[index[c]]
        BY <2>1, <2>3, <4>1, FieldOrderType DEF PublishField, TypeOK
      <4> QED
        BY <4>2, <4>3
    <3>5. PutNumber(c)
      BY <3>1, <3>3, <3>4
    <3>6. num = <<kind[c], "num">> /\ config'[num] = want[c][num]
      BY <2>1, <2>3, <3>2, <3>5 DEF PutNumber, TypeOK
    <3>7. config[num] < want[c][num]
      BY <3>2, <3>5, <3>6 DEF PutNumber, TurnOK
    <3> QED
      BY <2>1, <3>2, <3>6, <3>7
  <2> QED
    BY <2>2, <2>3
<1>6. NumbersGrow <=> [][Grow]_vars
  BY DEF NumbersGrow
<1> HIDE DEF Grow
<1> QED
  BY InitShape, <1>1, <1>2, <1>3, <1>4, <1>5, <1>6, PTL DEF Spec
=============================================================================
