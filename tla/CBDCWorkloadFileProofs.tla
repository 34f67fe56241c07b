----------------------- MODULE CBDCWorkloadFileProofs -----------------------
(***************************************************************************)
(* Proofs that from_file() loads what to_file() wrote.                     *)
(*                                                                         *)
(* The two only agree because every transfer in the file has the number    *)
(* of senders and receivers that the header promises (LengthsInv): the     *)
(* file does not delimit them.  With that, each reading function has two   *)
(* lemmas: its effect on a reader (what it touches, and what it reads when *)
(* the text of the thing lies ahead of it), and the sequence of readers    *)
(* that repeating it goes through.  The texts are pieces put together, and *)
(* steps that each read a piece read the pieces one after the other        *)
(* (PiecesRead), as far as they lie in the file.  So what precedes a cut   *)
(* is read as it was written, and the frames of the reading functions say  *)
(* that what is read behind it leaves the rest alone.                      *)
(***************************************************************************)
EXTENDS CBDCWorkloadFile, CBDCMoneyProofs, SequenceTheorems

(***************************************************************************)
(* A step that is repeated                                                 *)
(***************************************************************************)
(* T goes from r through n applications of F.                              *)
Orbit(T, F, r, n) == T[0] = r /\ \A i \in 1..n : T[i] = F[T[i - 1]]

(* A function on states can be applied n times.                            *)
LEMMA Iterates ==
  ASSUME NEW S, NEW F \in [S -> S], NEW r \in S, NEW n \in Nat
  PROVE  \E T \in [0..n -> S] : Orbit(T, F, r, n)
<1> DEFINE Reaches(T, m) == T[0] = r /\ \A i \in 1..m : T[i] = F[T[i - 1]]
           Good == {m \in Nat : \E T \in [0..m -> S] : Reaches(T, m)}
<1>1. 0 \in Good
  <2>1. [i \in 0..0 |-> r] \in [0..0 -> S] /\ Reaches([i \in 0..0 |-> r], 0)
    OBVIOUS
  <2> QED
    BY <2>1
<1>2. ASSUME NEW m \in Nat, m \in Good PROVE m + 1 \in Good
  <2>1. PICK T \in [0..m -> S] : Reaches(T, m)
    BY <1>2
  <2> DEFINE U == [i \in 0..(m + 1) |-> IF i <= m THEN T[i] ELSE F[T[m]]]
  <2>2. m \in 0..m /\ T[m] \in S /\ F[T[m]] \in S
    OBVIOUS
  <2>3. \A i \in 0..m : T[i] \in S /\ U[i] = T[i]
    OBVIOUS
  <2>4. U \in [0..(m + 1) -> S]
    BY <2>2, <2>3
  <2>5. U[m + 1] = F[U[m]] /\ U[0] = r
    BY <2>1, <2>2
  <2>6. ASSUME NEW i \in 1..(m + 1) PROVE U[i] = F[U[i - 1]]
    <3>1. CASE i = m + 1
      BY <2>5, <3>1
    <3>2. CASE i \in 1..m
      <4>1. i \in 0..m /\ i - 1 \in 0..m
        BY <3>2
      <4> QED
        BY <2>1, <2>3, <3>2, <4>1
    <3> QED
      BY <3>1, <3>2
  <2> HIDE DEF U
  <2> QED
    BY <2>4, <2>5, <2>6
<1> HIDE DEF Good
<1>3. n \in Good
  BY <1>1, <1>2, NatInductionInSet
<1> QED
  BY <1>3 DEF Good, Orbit

(* A function that, like a fold, takes a value at a set from its value at  *)
(* the set without its greatest element.                                   *)
LEMMA FoldReaches ==
  ASSUME NEW n \in Nat, NEW T, NEW g, g[{}] = T[0],
         \A s \in SUBSET (1..n) :
           s # {} /\ g[s \ {Max(s)}] = T[Cardinality(s) - 1] => g[s] = T[Cardinality(s)]
  PROVE  g[1..n] = T[n]
<1> DEFINE Good == {m \in Nat : m <= n => g[1..m] = T[m]}
<1>1. 0 \in Good
  <2>1. 1..0 = {}
    OBVIOUS
  <2> QED
    BY <2>1
<1>2. ASSUME NEW m \in Nat, m \in Good PROVE m + 1 \in Good
  <2> SUFFICES ASSUME m + 1 <= n PROVE g[1..(m + 1)] = T[m + 1]
    OBVIOUS
  <2>1. g[1..m] = T[m]
    BY <1>2
  <2>2. Max(1..(m + 1)) = m + 1
    <3>1. \A x \in 1..(m + 1) : (\A y \in 1..(m + 1) : x >= y) <=> x = m + 1
      OBVIOUS
    <3> QED
      BY <3>1 DEF Max
  <2>3. /\ \A x : x \in (1..(m + 1)) \ {m + 1} <=> x \in 1..m
        /\ m + 1 \in 1..(m + 1)
        /\ \A x \in 1..(m + 1) : x \in 1..n
    OBVIOUS
  <2>5. (1..(m + 1)) \ {m + 1} = 1..m
    BY <2>3
  <2>4. Cardinality(1..(m + 1)) = m + 1 /\ (m + 1) - 1 = m
    BY FS_Interval
  <2> DEFINE s == 1..(m + 1)
  <2>6. s \in SUBSET (1..n) /\ s # {}
    BY <2>3
  <2>7. Max(s) = m + 1 /\ s \ {m + 1} = 1..m /\ Cardinality(s) = m + 1
    BY <2>2, <2>4, <2>5
  <2> HIDE DEF s
  <2>8. g[s \ {Max(s)}] = T[Cardinality(s) - 1]
    BY <2>1, <2>4, <2>7
  <2>9. g[s] = T[Cardinality(s)]
    BY <2>6, <2>8
  <2> QED
    BY <2>7, <2>9 DEF s
<1> HIDE DEF Good
<1>3. n \in Good
  BY <1>1, <1>2, NatInductionInSet
<1> QED
  BY <1>3 DEF Good

(* What a fold needs of the sets it takes elements from.                   *)
LEMMA FoldSets ==
  ASSUME NEW n \in Nat, NEW s \in SUBSET (1..n)
  PROVE  /\ Cardinality(s) \in 0..n
         /\ s = {} => Cardinality(s) = 0
         /\ s # {} => /\ s \ {Max(s)} \in SUBSET (1..n)
                     /\ Cardinality(s) \in 1..n
                     /\ Cardinality(s \ {Max(s)}) = Cardinality(s) - 1
<1>1. IsFiniteSet(1..n) /\ Cardinality(1..n) = n
  BY FS_Interval
<1>2. IsFiniteSet(s) /\ Cardinality(s) \in Nat /\ Cardinality(s) <= n
  BY <1>1, FS_Subset, FS_CardinalityType
<1>3. Cardinality(s) = 0 <=> s = {}
  BY <1>2, FS_EmptySet
<1>4. ASSUME s # {} PROVE Max(s) \in s
  <2> DEFINE Greatest(t, x) == x \in t /\ \A y \in t : x >= y
             Good == {m \in Nat : \A t \in SUBSET (1..m) : t # {} => \E x : Greatest(t, x)}
  <2>1. 0 \in Good
    OBVIOUS
  <2>2. ASSUME NEW m \in Nat, m \in Good PROVE m + 1 \in Good
    <3> SUFFICES ASSUME NEW t \in SUBSET (1..(m + 1)), t # {} PROVE \E x : Greatest(t, x)
      OBVIOUS
    <3>1. \A y \in t : y \in 1..(m + 1)
      OBVIOUS
    <3>2. CASE m + 1 \in t
      <4>1. Greatest(t, m + 1)
        BY <3>1, <3>2
      <4> QED
        BY <4>1
    <3>3. CASE m + 1 \notin t
      <4>1. \A y \in t : y \in 1..m
        BY <3>1, <3>3
      <4> QED
        BY <2>2, <4>1
    <3> QED
      BY <3>2, <3>3
  <2> HIDE DEF Good
  <2>3. n \in Good
    BY <2>1, <2>2, NatInductionInSet
  <2>4. \E x : Greatest(s, x)
    BY <1>4, <2>3 DEF Good
  <2> QED
    BY <2>4 DEF Max
<1>5. s # {} => Cardinality(s \ {Max(s)}) = Cardinality(s) - 1
  BY <1>2, <1>4, FS_RemoveElement
<1>6. s # {} => s \ {Max(s)} \in SUBSET (1..n)
  OBVIOUS
<1> HIDE DEF Max
<1>7. s # {} => Cardinality(s) # 0
  BY <1>3
<1> QED
  BY <1>2, <1>3, <1>5, <1>6, <1>7

(***************************************************************************)
(* from_file()                                                             *)
(***************************************************************************)
LoadedCoins   == Seq([coin : Nat, value : Nat])
LoadedParty   == [wallet : Nat, coins : LoadedCoins]
LoadedParties == Seq(LoadedParty)

LoadedWallets == UNION {[D -> LoadedCoins] : D \in SUBSET Nat}
LoadedValues  == UNION {[D -> Nat] : D \in SUBSET (Nat \X Nat)}

ReaderRecords ==
  [file : Seq(Nat), at : Nat,
   header : [1..10 -> Nat],
   entry : [1..3 -> Nat], party : [1..2 -> Nat], coin : [1..2 -> Nat],
   coins : LoadedCoins, parties : LoadedParties,
   wallets : LoadedWallets,
   transfers : Seq(LoadedParties),
   expected : LoadedValues]

(* The states of from_file().                                              *)
Readers == {r \in ReaderRecords : r.at <= Len(r.file)}

Slots == {"header", "entry", "party", "coin"}

SlotSize(slot) == IF slot = "header" THEN 10 ELSE IF slot = "entry" THEN 3 ELSE 2

(* Reading changes the variables it is for and the place in the file.      *)
LEMMA ReadEffect ==
  ASSUME NEW r \in Readers, NEW slot \in Slots
  PROVE  LET q == Read(r, slot)
             z == SlotSize(slot)
         IN  /\ q \in Readers /\ q.file = r.file
             /\ slot # "header" => q.header = r.header
             /\ slot # "entry" => q.entry = r.entry
             /\ slot # "party" => q.party = r.party
             /\ slot # "coin" => q.coin = r.coin
             /\ q.coins = r.coins /\ q.parties = r.parties /\ q.wallets = r.wallets
             /\ q.transfers = r.transfers /\ q.expected = r.expected
             /\ r.at + z <= Len(r.file) =>
                  /\ q.at = r.at + z
                  /\ \A k \in 1..z : q[slot][k] = r.file[r.at + k]
<1> DEFINE z == SlotSize(slot)
           new == [k \in DOMAIN r[slot] |->
                     IF k <= NumbersLeft(r) THEN r.file[r.at + k] ELSE r[slot][k]]
           to == IF NumbersLeft(r) < Len(r[slot]) THEN Len(r.file) ELSE r.at + Len(r[slot])
<1>1. r[slot] \in [1..z -> Nat] /\ z \in Nat
  BY DEF Readers, ReaderRecords, Slots, SlotSize
<1>2. r.file \in Seq(Nat) /\ r.at \in Nat /\ Len(r.file) \in Nat /\ r.at <= Len(r.file)
  BY DEF Readers, ReaderRecords
<1>3. Len(r[slot]) = z /\ DOMAIN r[slot] = 1..z
  BY <1>1
<1>4. NumbersLeft(r) = Len(r.file) - r.at
  BY DEF NumbersLeft
<1>5. new \in [1..z -> Nat]
  <2>1. ASSUME NEW k \in 1..z
        PROVE  (IF k <= NumbersLeft(r) THEN r.file[r.at + k] ELSE r[slot][k]) \in Nat
    <3>1. CASE k <= NumbersLeft(r)
      <4>1. r.at + k \in 1..Len(r.file)
        BY <1>2, <1>4, <3>1
      <4> QED
        BY <1>2, <3>1, <4>1
    <3>2. CASE ~(k <= NumbersLeft(r))
      BY <1>1, <3>2
    <3> QED
      BY <3>1, <3>2
  <2> QED
    BY <1>3, <2>1
<1>6. to \in Nat /\ to <= Len(r.file) /\ (r.at + z <= Len(r.file) => to = r.at + z)
  BY <1>1, <1>2, <1>3, <1>4
<1>7. r.at + z <= Len(r.file) => \A k \in 1..z : new[k] = r.file[r.at + k]
  BY <1>1, <1>2, <1>3, <1>4
<1>8. Read(r, slot) = [r EXCEPT ![slot] = new, !.at = to]
  BY DEF Read
<1> HIDE DEF new, to
<1> DEFINE q == Read(r, slot)
<1>9. r \in ReaderRecords
  BY DEF Readers
<1>10. /\ q \in ReaderRecords /\ q.file = r.file /\ q.at = to /\ q[slot] = new
       /\ slot # "header" => q.header = r.header
       /\ slot # "entry" => q.entry = r.entry
       /\ slot # "party" => q.party = r.party
       /\ slot # "coin" => q.coin = r.coin
       /\ q.coins = r.coins /\ q.parties = r.parties /\ q.wallets = r.wallets
       /\ q.transfers = r.transfers /\ q.expected = r.expected
  <2>1. CASE slot = "header"
    BY <1>5, <1>6, <1>8, <1>9, <2>1 DEF ReaderRecords, SlotSize
  <2>2. CASE slot = "entry"
    BY <1>5, <1>6, <1>8, <1>9, <2>2 DEF ReaderRecords, SlotSize
  <2>3. CASE slot = "party"
    BY <1>5, <1>6, <1>8, <1>9, <2>3 DEF ReaderRecords, SlotSize
  <2>4. CASE slot = "coin"
    BY <1>5, <1>6, <1>8, <1>9, <2>4 DEF ReaderRecords, SlotSize
  <2> QED
    BY <2>1, <2>2, <2>3, <2>4 DEF Slots
<1> HIDE DEF q
<1>11. q \in Readers
  BY <1>6, <1>10 DEF Readers
<1> QED
  BY <1>6, <1>7, <1>10, <1>11 DEF q

(* The parts of a reader, and what each of them is.                        *)
LEMMA ReaderTypes ==
  ASSUME NEW r \in Readers
  PROVE  /\ r.file \in Seq(Nat) /\ r.at \in Nat /\ Len(r.file) \in Nat /\ r.at <= Len(r.file)
         /\ r.header \in [1..10 -> Nat] /\ r.entry \in [1..3 -> Nat]
         /\ r.party \in [1..2 -> Nat] /\ r.coin \in [1..2 -> Nat]
         /\ r.coins \in LoadedCoins /\ r.parties \in LoadedParties
         /\ r.wallets \in LoadedWallets
         /\ r.transfers \in Seq(LoadedParties)
         /\ r.expected \in LoadedValues
BY DEF Readers, ReaderRecords

(* ReadCoin reads two numbers and touches nothing but the coins.           *)
CoinFrame(r, q) ==
  /\ q \in Readers /\ q.file = r.file /\ q.header = r.header /\ q.party = r.party
  /\ q.parties = r.parties /\ q.wallets = r.wallets
  /\ q.transfers = r.transfers /\ q.expected = r.expected

(* What a coin is loaded as.                                               *)
CoinAt(file, at) == [coin |-> file[at + 1], value |-> file[at + 2]]

(* A coin that the file still has the numbers for is read from them, and   *)
(* whatever the file has, nothing but the coins changes.                   *)
LEMMA ReadCoinEffect ==
  ASSUME NEW r \in Readers
  PROVE  /\ CoinFrame(r, ReadCoin(r))
         /\ r.at + 2 <= Len(r.file) =>
              /\ ReadCoin(r).at = r.at + 2
              /\ ReadCoin(r).coins = Append(r.coins, CoinAt(r.file, r.at))
<1> DEFINE m == Read(r, "coin")
           new == [coin |-> m.coin[1], value |-> m.coin[2]]
<1>1. "coin" \in Slots /\ SlotSize("coin") = 2
  BY DEF Slots, SlotSize
<1>2. /\ m \in Readers /\ m.file = r.file /\ m.header = r.header /\ m.entry = r.entry
      /\ m.party = r.party /\ m.coins = r.coins /\ m.parties = r.parties
      /\ m.wallets = r.wallets /\ m.transfers = r.transfers /\ m.expected = r.expected
      /\ r.at + 2 <= Len(r.file) =>
           m.at = r.at + 2 /\ m.coin[1] = r.file[r.at + 1] /\ m.coin[2] = r.file[r.at + 2]
  BY <1>1, ReadEffect
<1>3. ReadCoin(r) = [m EXCEPT !.coins = Append(m.coins, new)]
  BY DEF ReadCoin
<1> HIDE DEF m
<1>4. new \in [coin : Nat, value : Nat]
  <2>1. m.coin \in [1..2 -> Nat]
    BY <1>2, ReaderTypes
  <2> QED
    BY <2>1
<1>5. r.at + 2 <= Len(r.file) => new = CoinAt(r.file, r.at)
  BY <1>2 DEF CoinAt
<1> HIDE DEF new
<1>6. m.coins \in LoadedCoins /\ Append(m.coins, new) \in LoadedCoins
  BY <1>2, <1>4 DEF Readers, ReaderRecords, LoadedCoins
<1> QED
  BY <1>2, <1>3, <1>5, <1>6 DEF CoinFrame, Readers, ReaderRecords

(* ReadCoin, repeated, goes through the states it leads to one by one.     *)
LEMMA ReadCoinRepeated ==
  ASSUME NEW r \in Readers, NEW n \in Nat
  PROVE  \E T \in [0..n -> Readers] :
           /\ T[0] = r /\ \A i \in 1..n : T[i] = ReadCoin(T[i - 1])
           /\ T[n] = Repeat(ReadCoin, n, r)
<1> DEFINE F == [x \in Readers |-> ReadCoin(x)]
<1>1. F \in [Readers -> Readers]
  BY ReadCoinEffect DEF CoinFrame
<1> HIDE DEF F
<1>2. PICK T \in [0..n -> Readers] : Orbit(T, F, r, n)
  BY <1>1, Iterates
<1>3. ASSUME NEW i \in 1..n PROVE T[i] = ReadCoin(T[i - 1])
  <2>1. T[i - 1] \in Readers
    OBVIOUS
  <2> QED
    BY <1>2, <2>1 DEF F, Orbit
<1>0. T[0] = r
  BY <1>2 DEF Orbit
<1> DEFINE Folds(g) ==
             g = [s \in SUBSET (1..n) |-> IF s = {} THEN r ELSE ReadCoin(g[s \ {Max(s)}])]
           h == [s \in SUBSET (1..n) |-> T[Cardinality(s)]]
           g == CHOOSE g : Folds(g)
<1>4. Folds(h)
  <2>1. ASSUME NEW s \in SUBSET (1..n)
        PROVE  h[s] = IF s = {} THEN r ELSE ReadCoin(h[s \ {Max(s)}])
    BY <1>0, <1>3, FoldSets
  <2> QED
    BY <2>1
<1>5. Folds(g)
  BY <1>4
<1>6. Repeat(ReadCoin, n, r) = g[1..n]
  <2>1. DOMAIN [i \in 1..n |-> i] = 1..n
    OBVIOUS
  <2> QED
    BY <2>1 DEF Repeat, FoldLeft, MapThenFoldSet
<1> HIDE DEF g, h
<1>7. ASSUME NEW s \in SUBSET (1..n), s # {}, g[s \ {Max(s)}] = T[Cardinality(s) - 1]
      PROVE  g[s] = T[Cardinality(s)]
  BY <1>3, <1>5, <1>7, FoldSets
<1>8. g[{}] = T[0]
  BY <1>0, <1>5
<1>9. g[1..n] = T[n]
  BY <1>7, <1>8, FoldReaches
<1> QED
  BY <1>0, <1>3, <1>6, <1>9

(* n coins are read from 2 * n numbers.                                    *)
LEMMA CoinsRead ==
  ASSUME NEW r \in Readers, NEW n \in Nat
  PROVE  LET q == Repeat(ReadCoin, n, r)
         IN  /\ CoinFrame(r, q)
             /\ r.at + 2 * n <= Len(r.file) /\ r.coins = <<>> =>
                  /\ q.at = r.at + 2 * n
                  /\ q.coins = [i \in 1..n |-> CoinAt(r.file, r.at + 2 * (i - 1))]
<1>1. PICK T \in [0..n -> Readers] :
        /\ T[0] = r /\ \A i \in 1..n : T[i] = ReadCoin(T[i - 1])
        /\ T[n] = Repeat(ReadCoin, n, r)
  BY ReadCoinRepeated
<1> DEFINE Enough == r.at + 2 * n <= Len(r.file) /\ r.coins = <<>>
           Loaded(i) == [j \in 1..i |-> CoinAt(r.file, r.at + 2 * (j - 1))]
           Good == {i \in Nat : i <= n =>
                      /\ CoinFrame(r, T[i])
                      /\ Enough => T[i].at = r.at + 2 * i /\ T[i].coins = Loaded(i)}
<1>2. 0 \in Good
  <2>1. CoinFrame(r, T[0])
    BY <1>1 DEF CoinFrame
  <2>2. Loaded(0) = <<>> /\ r.at + 2 * 0 = r.at
    BY ReaderTypes
  <2> QED
    BY <1>1, <2>1, <2>2
<1>3. ASSUME NEW i \in Nat, i \in Good PROVE i + 1 \in Good
  <2> SUFFICES ASSUME i + 1 <= n
               PROVE  /\ CoinFrame(r, T[i + 1])
                      /\ Enough => T[i + 1].at = r.at + 2 * (i + 1)
                                   /\ T[i + 1].coins = Loaded(i + 1)
    OBVIOUS
  <2>1. /\ CoinFrame(r, T[i])
        /\ Enough => T[i].at = r.at + 2 * i /\ T[i].coins = Loaded(i)
    BY <1>3
  <2>2. T[i] \in Readers /\ T[i + 1] = ReadCoin(T[i])
    BY <1>1
  <2>3. CoinFrame(r, T[i + 1])
    BY <2>1, <2>2, ReadCoinEffect DEF CoinFrame
  <2>4. ASSUME Enough
        PROVE  T[i + 1].at = r.at + 2 * (i + 1) /\ T[i + 1].coins = Loaded(i + 1)
    <3>1. T[i].at = r.at + 2 * i /\ T[i].coins = Loaded(i) /\ T[i].file = r.file
      BY <2>1, <2>4 DEF CoinFrame
    <3>2. r.at \in Nat /\ Len(r.file) \in Nat
      BY DEF Readers, ReaderRecords
    <3>3. T[i].at + 2 <= Len(r.file)
      BY <2>4, <3>1, <3>2
    <3>4. /\ T[i + 1].at = T[i].at + 2
          /\ T[i + 1].coins = Append(Loaded(i), CoinAt(r.file, r.at + 2 * i))
      BY <2>2, <3>1, <3>3, ReadCoinEffect
    <3>5. Append(Loaded(i), CoinAt(r.file, r.at + 2 * i)) = Loaded(i + 1)
      OBVIOUS
    <3> QED
      BY <3>1, <3>2, <3>4, <3>5
  <2> QED
    BY <2>3, <2>4
<1> HIDE DEF Good
<1>4. n \in Good
  BY <1>2, <1>3, NatInductionInSet
<1> QED
  BY <1>1, <1>4 DEF Good

(***************************************************************************)
(* Texts that are put together of pieces                                   *)
(***************************************************************************)
Pieces(n, S)     == [1..n -> Seq(S)]
Beginnings(n, S) == [0..n -> Seq(S)]

(* H[k] is the first k of the n pieces of f, one after the other.          *)
Joins(H, f, n) == H[0] = <<>> /\ \A k \in 1..n : H[k] = H[k - 1] \o f[k]

FirstPieces(f, k) == [j \in 1..k |-> f[j]]

(* The text a is the beginning of the text c.                              *)
Begins(a, c) ==
  /\ Len(a) \in Nat /\ Len(c) \in Nat /\ Len(a) <= Len(c)
  /\ \A j \in 1..Len(a) : c[j] = a[j]

(* The text b is in the text c, behind at numbers.                         *)
LiesAt(c, at, b) ==
  /\ at \in Nat /\ Len(b) \in Nat /\ Len(c) \in Nat /\ at + Len(b) <= Len(c)
  /\ \A j \in 1..Len(b) : c[at + j] = b[j]

(* Where the elements of two sequences are when one follows the other.     *)
LEMMA Concatenation ==
  ASSUME NEW S, NEW a \in Seq(S), NEW b \in Seq(S)
  PROVE  /\ a \o b \in Seq(S)
         /\ Len(a \o b) = Len(a) + Len(b)
         /\ Begins(a, a \o b)
         /\ LiesAt(a \o b, Len(a), b)
BY DEF Begins, LiesAt

(* What begins a beginning of a sequence begins the sequence.              *)
LEMMA BeginsTransitive ==
  ASSUME NEW a, NEW b, NEW c, Begins(a, b), Begins(b, c)
  PROVE  Begins(a, c)
BY DEF Begins

(* A sequence begins itself.                                               *)
LEMMA BeginsReflexive ==
  ASSUME NEW S, NEW a \in Seq(S)
  PROVE  Begins(a, a)
BY DEF Begins

(* What is in the beginning of a sequence is at the same place in the      *)
(* sequence.                                                               *)
LEMMA LiesInLonger ==
  ASSUME NEW a, NEW b, NEW c, NEW at, LiesAt(a, at, b), Begins(a, c)
  PROVE  LiesAt(c, at, b)
BY DEF Begins, LiesAt

(* The pieces can be put together one by one.                              *)
LEMMA JoinsExist ==
  ASSUME NEW S, NEW N \in Nat, NEW f \in Pieces(N, S)
  PROVE  \E H \in Beginnings(N, S) : Joins(H, f, N)
<1> DEFINE Good == {m \in Nat : m <= N => \E H \in Beginnings(m, S) : Joins(H, f, m)}
<1>1. 0 \in Good
  <2> DEFINE H == [k \in 0..0 |-> <<>>]
  <2>1. <<>> \in Seq(S) /\ \A k \in 0..0 : H[k] = <<>>
    OBVIOUS
  <2>2. H \in Beginnings(0, S)
    BY <2>1 DEF Beginnings
  <2>3. H[0] = <<>> /\ 1..0 = {}
    OBVIOUS
  <2> HIDE DEF H
  <2>4. Joins(H, f, 0)
    BY <2>3 DEF Joins
  <2> QED
    BY <2>2, <2>4
<1>2. ASSUME NEW m \in Nat, m \in Good PROVE m + 1 \in Good
  <2> SUFFICES ASSUME m + 1 <= N PROVE \E U \in Beginnings(m + 1, S) : Joins(U, f, m + 1)
    OBVIOUS
  <2>0. m <= N /\ m + 1 \in 1..N
    OBVIOUS
  <2>1. PICK H \in Beginnings(m, S) : Joins(H, f, m)
    BY <1>2, <2>0
  <2> DEFINE last == H[m] \o f[m + 1]
             U == [k \in 0..(m + 1) |-> IF k <= m THEN H[k] ELSE last]
  <2>2. last \in Seq(S)
    <3>1. H[m] \in Seq(S)
      BY DEF Beginnings
    <3>2. f[m + 1] \in Seq(S)
      BY <2>0 DEF Pieces
    <3> QED
      BY <3>1, <3>2, Concatenation
  <2>3. \A k \in 0..m : H[k] \in Seq(S)
    BY DEF Beginnings
  <2> HIDE DEF last
  <2>4. \A k \in 0..m : U[k] = H[k]
    OBVIOUS
  <2>5. U[m + 1] = last
    OBVIOUS
  <2>6. U \in Beginnings(m + 1, S)
    BY <2>2, <2>3 DEF Beginnings
  <2> HIDE DEF U
  <2>7. ASSUME NEW k \in 1..(m + 1) PROVE U[k] = U[k - 1] \o f[k]
    <3>1. CASE k = m + 1
      <4>1. k - 1 = m /\ m \in 0..m
        BY <3>1
      <4> QED
        BY <2>4, <2>5, <3>1, <4>1 DEF last
    <3>2. CASE k \in 1..m
      <4>1. k \in 0..m /\ k - 1 \in 0..m
        BY <3>2
      <4>2. H[k] = H[k - 1] \o f[k]
        BY <2>1, <3>2 DEF Joins
      <4> QED
        BY <2>4, <4>1, <4>2
    <3>3. k = m + 1 \/ k \in 1..m
      OBVIOUS
    <3> QED
      BY <3>1, <3>2, <3>3
  <2>8. U[0] = <<>>
    <3>1. 0 \in 0..m
      OBVIOUS
    <3> QED
      BY <2>1, <2>4, <3>1 DEF Joins
  <2>9. Joins(U, f, m + 1)
    BY <2>7, <2>8 DEF Joins
  <2> QED
    BY <2>6, <2>9
<1> HIDE DEF Good
<1>3. N \in Good
  BY <1>1, <1>2, NatInductionInSet
<1>4. N <= N
  OBVIOUS
<1> QED
  BY <1>3, <1>4 DEF Good

(* FlattenSeq puts pieces together like that.                              *)
LEMMA FlattenJoins ==
  ASSUME NEW S, NEW N \in Nat, NEW f \in Pieces(N, S),
         NEW H \in Beginnings(N, S), Joins(H, f, N),
         NEW n \in Nat, n <= N
  PROVE  FlattenSeq(FirstPieces(f, n)) = H[n]
<1> DEFINE g == FirstPieces(f, n)
           Recurs(h) == h = [i \in 1..Len(g) |-> IF i = 1 THEN g[i] ELSE h[i - 1] \o g[i]]
           w == [i \in 1..n |-> H[i]]
           h == CHOOSE h : Recurs(h)
<1>1. Len(g) = n /\ \A i \in 1..n : g[i] = f[i]
  BY DEF FirstPieces
<1>2. ASSUME NEW i \in 1..n
      PROVE  H[i] = IF i = 1 THEN g[i] ELSE H[i - 1] \o g[i]
  <2>1. i \in 1..N
    OBVIOUS
  <2>2. H[i] = H[i - 1] \o f[i] /\ H[0] = <<>>
    BY <2>1 DEF Joins
  <2>3. CASE i = 1
    <3>1. f[i] \in Seq(S) /\ i - 1 = 0
      BY <2>1, <2>3 DEF Pieces
    <3>2. <<>> \o f[i] = f[i]
      BY <3>1
    <3>3. H[i] = <<>> \o f[i]
      BY <2>2, <3>1
    <3> QED
      BY <1>1, <2>3, <3>2, <3>3
  <2>4. CASE i # 1
    BY <1>1, <2>2, <2>4
  <2> QED
    BY <2>3, <2>4
<1> HIDE DEF g
<1>3. Recurs(w)
  <2>1. ASSUME NEW i \in 1..n
        PROVE  w[i] = IF i = 1 THEN g[i] ELSE w[i - 1] \o g[i]
    <3>1. i # 1 => i - 1 \in 1..n
      OBVIOUS
    <3>2. w[i] = H[i] /\ (i # 1 => w[i - 1] = H[i - 1])
      BY <3>1
    <3> QED
      BY <1>2, <3>2
  <2> HIDE DEF w
  <2>2. w = [i \in 1..n |-> w[i]]
    BY DEF w
  <2>3. w = [i \in 1..n |-> IF i = 1 THEN g[i] ELSE w[i - 1] \o g[i]]
    BY <2>1, <2>2
  <2> QED
    BY <1>1, <2>3
<1>4. Recurs(h)
  BY <1>3
<1> HIDE DEF h, w
<1>5. ASSUME NEW i \in 1..n PROVE h[i] = IF i = 1 THEN g[i] ELSE h[i - 1] \o g[i]
  BY <1>1, <1>4
<1> DEFINE Good == {m \in Nat : m \in 1..n => h[m] = H[m]}
<1>6. 0 \in Good
  OBVIOUS
<1>7. ASSUME NEW m \in Nat, m \in Good PROVE m + 1 \in Good
  <2> SUFFICES ASSUME m + 1 \in 1..n PROVE h[m + 1] = H[m + 1]
    OBVIOUS
  <2> DEFINE i == m + 1
  <2>1. i \in 1..n /\ i - 1 = m /\ (i # 1 => m \in 1..n)
    OBVIOUS
  <2>2. i # 1 => h[m] = H[m]
    BY <1>7, <2>1
  <2> HIDE DEF i
  <2>3. h[i] = IF i = 1 THEN g[i] ELSE h[m] \o g[i]
    BY <1>5, <2>1
  <2>4. H[i] = IF i = 1 THEN g[i] ELSE H[m] \o g[i]
    BY <1>2, <2>1
  <2>5. h[i] = H[i]
    BY <2>2, <2>3, <2>4
  <2> QED
    BY <2>5 DEF i
<1> HIDE DEF Good
<1>8. n # 0 => h[n] = H[n]
  <2>1. n \in Good /\ (n # 0 => n \in 1..n)
    BY <1>6, <1>7, NatInductionInSet
  <2> QED
    BY <2>1 DEF Good
<1>9. CASE n = 0
  <2>1. g = <<>>
    BY <1>9 DEF g, FirstPieces
  <2>2. FlattenSeq(g) = g
    BY <1>1, <1>9 DEF FlattenSeq
  <2> QED
    BY <1>9, <2>1, <2>2 DEF Joins, g
<1>10. CASE n # 0
  <2>1. FlattenSeq(g) = h[Len(g)]
    BY <1>1, <1>10 DEF FlattenSeq, h
  <2> QED
    BY <1>1, <1>8, <1>10, <2>1 DEF g
<1> QED
  BY <1>9, <1>10

(* A piece follows the beginning before it and stays where it is.          *)
LEMMA JoinedPieces ==
  ASSUME NEW S, NEW N \in Nat, NEW f \in Pieces(N, S),
         NEW H \in Beginnings(N, S), Joins(H, f, N),
         NEW n \in Nat, n <= N
  PROVE  /\ \A k \in 1..n : /\ Len(H[k]) = Len(H[k - 1]) + Len(f[k])
                            /\ LiesAt(H[n], Len(H[k - 1]), f[k])
         /\ \A k \in 0..n : Begins(H[k], H[n])
<1>1. ASSUME NEW m \in 1..N
      PROVE  /\ Len(H[m]) = Len(H[m - 1]) + Len(f[m])
             /\ LiesAt(H[m], Len(H[m - 1]), f[m])
             /\ Begins(H[m - 1], H[m])
  <2>1. H[m - 1] \in Seq(S) /\ f[m] \in Seq(S)
    BY DEF Pieces, Beginnings
  <2>2. H[m] = H[m - 1] \o f[m]
    BY DEF Joins
  <2> QED
    BY <2>1, <2>2, Concatenation
<1> DEFINE Good == {m \in Nat : m <= N => \A k \in 0..m : Begins(H[k], H[m])}
<1>2. 0 \in Good
  <2>1. \A k \in 0..0 : k = 0
    OBVIOUS
  <2>2. H[0] \in Seq(S)
    BY DEF Beginnings
  <2> QED
    BY <2>1, <2>2, BeginsReflexive
<1>3. ASSUME NEW m \in Nat, m \in Good PROVE m + 1 \in Good
  <2> SUFFICES ASSUME m + 1 <= N, NEW k \in 0..(m + 1) PROVE Begins(H[k], H[m + 1])
    OBVIOUS
  <2>1. m + 1 \in 1..N /\ (m + 1) - 1 = m /\ m <= N /\ m + 1 \in 0..N
    OBVIOUS
  <2>2. Begins(H[m], H[m + 1])
    BY <1>1, <2>1
  <2>3. CASE k = m + 1
    <3>1. H[k] \in Seq(S)
      BY <2>1, <2>3 DEF Beginnings
    <3> QED
      BY <2>3, <3>1, BeginsReflexive
  <2>4. CASE k \in 0..m
    <3>1. Begins(H[k], H[m])
      BY <1>3, <2>1, <2>4
    <3> QED
      BY <2>2, <3>1, BeginsTransitive
  <2> QED
    BY <2>3, <2>4
<1> HIDE DEF Good
<1>4. \A m \in Nat : m \in Good
  BY <1>2, <1>3, NatInductionInSet
<1>5. \A k \in 0..n : Begins(H[k], H[n])
  BY <1>4 DEF Good
<1>6. ASSUME NEW k \in 1..n
      PROVE  Len(H[k]) = Len(H[k - 1]) + Len(f[k]) /\ LiesAt(H[n], Len(H[k - 1]), f[k])
  <2>1. k \in 1..N /\ k \in 0..n
    OBVIOUS
  <2> QED
    BY <1>1, <1>5, <2>1, LiesInLonger
<1> QED
  BY <1>5, <1>6

OfSize(f, N, z) == \A k \in 1..N : Len(f[k]) = z

(* Pieces of one size.                                                     *)
LEMMA EvenPieces ==
  ASSUME NEW S, NEW N \in Nat, NEW f \in Pieces(N, S), NEW z \in Nat, OfSize(f, N, z)
  PROVE  /\ FlattenSeq(f) \in Seq(S)
         /\ Len(FlattenSeq(f)) = z * N
         /\ \A k \in 1..N : LiesAt(FlattenSeq(f), z * (k - 1), f[k])
<1>1. PICK H \in Beginnings(N, S) : Joins(H, f, N)
  BY JoinsExist
<1>2. f = FirstPieces(f, N)
  BY DEF FirstPieces, Pieces
<1>3. FlattenSeq(f) = H[N]
  BY <1>1, <1>2, FlattenJoins
<1>4. \A k \in 1..N : Len(H[k]) = Len(H[k - 1]) + z /\ LiesAt(H[N], Len(H[k - 1]), f[k])
  <2>1. N <= N
    OBVIOUS
  <2>2. \A k \in 1..N : Len(H[k]) = Len(H[k - 1]) + Len(f[k]) /\ LiesAt(H[N], Len(H[k - 1]), f[k])
    BY <1>1, <2>1, JoinedPieces
  <2> QED
    BY <2>2 DEF OfSize
<1> DEFINE Good == {m \in Nat : m <= N => Len(H[m]) = z * m}
<1>5. 0 \in Good
  BY <1>1 DEF Joins
<1>6. ASSUME NEW m \in Nat, m \in Good PROVE m + 1 \in Good
  <2> SUFFICES ASSUME m + 1 <= N PROVE Len(H[m + 1]) = z * (m + 1)
    OBVIOUS
  <2>1. m + 1 \in 1..N /\ (m + 1) - 1 = m /\ m <= N
    OBVIOUS
  <2>2. Len(H[m + 1]) = Len(H[m]) + z
    BY <1>4, <2>1
  <2>3. Len(H[m]) = z * m
    BY <1>6, <2>1
  <2>4. z * m + z = z * (m + 1)
    OBVIOUS
  <2> QED
    BY <2>2, <2>3, <2>4
<1> HIDE DEF Good
<1>7. \A m \in Nat : m \in Good
  BY <1>5, <1>6, NatInductionInSet
<1>8. \A m \in 0..N : Len(H[m]) = z * m
  BY <1>7 DEF Good
<1>9. H[N] \in Seq(S)
  BY DEF Beginnings
<1>10. ASSUME NEW k \in 1..N PROVE LiesAt(H[N], z * (k - 1), f[k])
  <2>1. k - 1 \in 0..N
    OBVIOUS
  <2> QED
    BY <1>4, <1>8, <2>1
<1> QED
  BY <1>3, <1>8, <1>9, <1>10

CoinList(list, n) ==
  /\ Len(list) = n /\ DOMAIN list = 1..n
  /\ \A i \in 1..n : list[i].coin \in Nat /\ list[i].value \in Nat

CoinsLie(text, list, n) ==
  \A i \in 1..n : /\ text[2 + 2 * (i - 1) + 1] = list[i].coin
                  /\ text[2 + 2 * (i - 1) + 2] = list[i].value

PartyLies(text, w, list, n) ==
  /\ text \in Seq(Nat) /\ Len(text) = 2 + 2 * n
  /\ text[1] = w /\ text[2] = Len(list) /\ CoinsLie(text, list, n)

(* A wallet and its coins are written as two numbers, then two per coin.   *)
LEMMA PartyTextIs ==
  ASSUME NEW w \in Nat, NEW n \in Nat, NEW list, CoinList(list, n)
  PROVE  PartyLies(PartyText(w, list), w, list, n)
<1> DEFINE f == [i \in 1..n |-> <<list[i].coin, list[i].value>>]
           start == <<w, n>>
           rest == FlattenSeq(f)
<1>1. \A i \in 1..n : <<list[i].coin, list[i].value>> \in Seq(Nat)
  BY DEF CoinList
<1>2. f \in Pieces(n, Nat) /\ \A i \in 1..n : Len(f[i]) = 2
  BY <1>1 DEF Pieces
<1>11. \A i \in 1..n : f[i][1] = list[i].coin /\ f[i][2] = list[i].value
  OBVIOUS
<1>4. PartyText(w, list) = start \o rest
  BY DEF PartyText, CoinList
<1> HIDE DEF f
<1>3. /\ rest \in Seq(Nat) /\ Len(rest) = 2 * n
      /\ \A i \in 1..n : LiesAt(rest, 2 * (i - 1), f[i])
  <2> DEFINE z == 2
  <2>1. z \in Nat /\ OfSize(f, n, z)
    BY <1>2 DEF OfSize
  <2> HIDE DEF z
  <2>2. /\ rest \in Seq(Nat) /\ Len(rest) = z * n
        /\ \A i \in 1..n : LiesAt(rest, z * (i - 1), f[i])
    BY <1>2, <2>1, EvenPieces
  <2> QED
    BY <2>2 DEF z
<1> HIDE DEF rest
<1>5. ASSUME NEW i \in 1..n
      PROVE  /\ rest[2 * (i - 1) + 1] = list[i].coin
             /\ rest[2 * (i - 1) + 2] = list[i].value
  <2>1. \A j \in 1..2 : rest[2 * (i - 1) + j] = f[i][j]
    BY <1>2, <1>3 DEF LiesAt
  <2>2. 1 \in 1..2 /\ 2 \in 1..2
    OBVIOUS
  <2> QED
    BY <1>11, <2>1, <2>2
<1>6. start \in Seq(Nat) /\ Len(start) = 2 /\ start[1] = w /\ start[2] = n
  OBVIOUS
<1> HIDE DEF start
<1> DEFINE text == start \o rest
<1>7. /\ text \in Seq(Nat) /\ Len(text) = 2 + 2 * n
      /\ Begins(start, text) /\ LiesAt(text, 2, rest)
  BY <1>3, <1>6, Concatenation
<1> HIDE DEF text
<1>8. text[1] = w /\ text[2] = n
  BY <1>6, <1>7 DEF Begins
<1>9. \A j \in 1..(2 * n) : text[2 + j] = rest[j]
  BY <1>3, <1>7 DEF LiesAt
<1>10. ASSUME NEW i \in 1..n
       PROVE  /\ text[2 + 2 * (i - 1) + 1] = list[i].coin
              /\ text[2 + 2 * (i - 1) + 2] = list[i].value
  <2>1. /\ 2 * (i - 1) + 1 \in 1..(2 * n) /\ 2 + 2 * (i - 1) + 1 = 2 + (2 * (i - 1) + 1)
        /\ 2 * (i - 1) + 2 \in 1..(2 * n) /\ 2 + 2 * (i - 1) + 2 = 2 + (2 * (i - 1) + 2)
    OBVIOUS
  <2> QED
    BY <1>5, <1>9, <2>1
<1> QED
  BY <1>4, <1>7, <1>8, <1>10 DEF text, CoinsLie, CoinList, PartyLies

(* What is in a text that is in a longer one.                              *)
LEMMA LiesInside ==
  ASSUME NEW a, NEW b, NEW c, NEW at, NEW p, LiesAt(c, at, a), LiesAt(a, p, b)
  PROVE  LiesAt(c, at + p, b)
<1>1. /\ at \in Nat /\ p \in Nat /\ Len(a) \in Nat /\ Len(b) \in Nat /\ Len(c) \in Nat
      /\ at + Len(a) <= Len(c) /\ p + Len(b) <= Len(a)
  BY DEF LiesAt
<1>2. ASSUME NEW j \in 1..Len(b) PROVE c[(at + p) + j] = b[j]
  <2>1. p + j \in 1..Len(a) /\ (at + p) + j = at + (p + j)
    BY <1>1
  <2>2. a[p + j] = b[j] /\ c[at + (p + j)] = a[p + j]
    BY <2>1 DEF LiesAt
  <2> QED
    BY <2>1, <2>2
<1> QED
  BY <1>1, <1>2 DEF LiesAt

(* The i-th of the steps to T reads the i-th of the pieces, if it is ahead.*)
AdvancesOver(T, f, n) ==
  \A i \in 1..n :
    /\ T[i].file = T[i - 1].file
    /\ LiesAt(T[i - 1].file, T[i - 1].at, f[i]) => T[i].at = T[i - 1].at + Len(f[i])

Ahead(r, text) == LiesAt(r.file, r.at, text)

(* Steps that read a piece each read the pieces one after the other, as    *)
(* far as they are there.                                                  *)
LEMMA PiecesRead ==
  ASSUME NEW n \in Nat, NEW f \in Pieces(n, Nat),
         NEW H \in Beginnings(n, Nat), Joins(H, f, n),
         NEW T \in [0..n -> Readers], AdvancesOver(T, f, n),
         NEW m \in Nat, m <= n, Ahead(T[0], H[m])
  PROVE  /\ T[m].at = T[0].at + Len(H[m])
         /\ \A i \in 1..m : Ahead(T[i - 1], f[i])
<1>1. ASSUME NEW k \in 1..m
      PROVE  /\ Len(H[k]) = Len(H[k - 1]) + Len(f[k])
             /\ LiesAt(T[0].file, T[0].at + Len(H[k - 1]), f[k])
  <2>1. LiesAt(H[m], Len(H[k - 1]), f[k]) /\ Len(H[k]) = Len(H[k - 1]) + Len(f[k])
    BY JoinedPieces
  <2> QED
    BY <2>1, LiesInside DEF Ahead
<1> DEFINE Good == {k \in Nat : k <= m => /\ T[k].file = T[0].file
                                          /\ T[k].at = T[0].at + Len(H[k])}
<1>2. 0 \in Good
  <2>1. Len(H[0]) = 0
    BY DEF Joins
  <2>2. T[0].at \in Nat
    BY ReaderTypes
  <2> QED
    BY <2>1, <2>2
<1>3. ASSUME NEW k \in Nat, k \in Good PROVE k + 1 \in Good
  <2> SUFFICES ASSUME k + 1 <= m
               PROVE  T[k + 1].file = T[0].file /\ T[k + 1].at = T[0].at + Len(H[k + 1])
    OBVIOUS
  <2>1. /\ k + 1 \in 1..n /\ k + 1 \in 1..m /\ (k + 1) - 1 = k /\ k <= m
        /\ k \in 0..n /\ 0 \in 0..n
    OBVIOUS
  <2>2. T[k].file = T[0].file /\ T[k].at = T[0].at + Len(H[k])
    BY <1>3, <2>1
  <2>3. LiesAt(T[k].file, T[k].at, f[k + 1]) /\ Len(H[k + 1]) = Len(H[k]) + Len(f[k + 1])
    BY <1>1, <2>1, <2>2
  <2>4. T[k + 1].file = T[k].file /\ T[k + 1].at = T[k].at + Len(f[k + 1])
    BY <2>1, <2>3 DEF AdvancesOver
  <2>5. T[0].at \in Nat /\ Len(H[k]) \in Nat /\ Len(f[k + 1]) \in Nat
    <3>1. H[k] \in Seq(Nat) /\ f[k + 1] \in Seq(Nat)
      BY <2>1 DEF Pieces, Beginnings
    <3> QED
      BY <2>1, <3>1, ReaderTypes
  <2> DEFINE a == T[0].at
             b == Len(H[k])
             c == Len(f[k + 1])
  <2>6. T[k + 1].at = (a + b) + c /\ Len(H[k + 1]) = b + c
    BY <2>2, <2>3, <2>4
  <2>7. a \in Nat /\ b \in Nat /\ c \in Nat
    BY <2>5
  <2> HIDE DEF b, c
  <2>8. (a + b) + c = a + (b + c)
    <3> HIDE DEF a
    <3> QED
      BY <2>7
  <2>9. T[k + 1].file = T[0].file
    BY <2>2, <2>4
  <2>10. T[k + 1].at = a + Len(H[k + 1])
    <3> HIDE DEF a
    <3> QED
      BY <2>6, <2>8
  <2> QED
    BY <2>9, <2>10
<1> HIDE DEF Good
<1>4. \A k \in Nat : k \in Good
  BY <1>2, <1>3, NatInductionInSet
<1>5. ASSUME NEW i \in 1..m PROVE Ahead(T[i - 1], f[i])
  <2>1. i - 1 \in Nat /\ i - 1 <= m
    OBVIOUS
  <2>2. T[i - 1].file = T[0].file /\ T[i - 1].at = T[0].at + Len(H[i - 1])
    BY <1>4, <2>1 DEF Good
  <2> QED
    BY <1>1, <2>2 DEF Ahead
<1>6. m \in Good
  BY <1>4
<1> QED
  BY <1>5, <1>6 DEF Good

(* A sequence that gets one element after the other.                       *)
Grows(q, x, n) == q[0] = <<>> /\ \A i \in 1..n : q[i] = Append(q[i - 1], x[i])

(* Such a sequence is in the end that of the elements it got.              *)
LEMMA GrownSequence ==
  ASSUME NEW S, NEW n \in Nat, NEW x \in [1..n -> S], NEW q, Grows(q, x, n)
  PROVE  q[n] = x
<1> DEFINE So(m) == [i \in 1..m |-> x[i]]
           Good == {m \in Nat : m <= n => q[m] = So(m)}
<1>1. 0 \in Good
  BY DEF Grows
<1>2. ASSUME NEW m \in Nat, m \in Good PROVE m + 1 \in Good
  <2> SUFFICES ASSUME m + 1 <= n PROVE q[m + 1] = So(m + 1)
    OBVIOUS
  <2>1. m + 1 \in 1..n /\ (m + 1) - 1 = m /\ m <= n
    OBVIOUS
  <2>2. q[m + 1] = Append(q[m], x[m + 1]) /\ q[m] = So(m)
    BY <1>2, <2>1 DEF Grows
  <2>3. Append(So(m), x[m + 1]) = So(m + 1)
    OBVIOUS
  <2> QED
    BY <2>2, <2>3
<1> HIDE DEF Good
<1>3. n \in Good
  BY <1>1, <1>2, NatInductionInSet
<1>4. So(n) = x /\ n <= n
  OBVIOUS
<1> QED
  BY <1>3, <1>4 DEF Good

(***************************************************************************)
(* Reading senders, receivers and transfers                                *)
(***************************************************************************)
(* ReadParty touches nothing but what it reads into and the parties.       *)
PartyFrame(r, q) ==
  /\ q \in Readers /\ q.file = r.file /\ q.header = r.header
  /\ q.wallets = r.wallets /\ q.transfers = r.transfers /\ q.expected = r.expected

TextOfParty(p) == PartyText(p.wallet, p.coins)

(* What a text says of a wallet and its coins.                             *)
Tells(text, w, coins) ==
  LET n == Len(coins)
  IN  /\ n \in Nat
      /\ text \in Seq(Nat) /\ Len(text) = 2 + 2 * n
      /\ text[1] = w /\ text[2] = n
      /\ \A i \in 1..n : CoinAt(text, 2 + 2 * (i - 1)) = coins[i]

(* The text of a party is a sequence of numbers.                           *)
LEMMA TextOfPartyIs ==
  ASSUME NEW p \in LoadedParty
  PROVE  Tells(TextOfParty(p), p.wallet, p.coins)
<1> DEFINE text == TextOfParty(p)
           n    == Len(p.coins)
           list == p.coins
           w    == p.wallet
<1>1. /\ w \in Nat /\ list \in Seq([coin : Nat, value : Nat])
      /\ n \in Nat /\ Len(list) = n /\ DOMAIN list = 1..n
  BY DEF LoadedParty, LoadedCoins
<1>2. text = PartyText(w, list)
  BY DEF TextOfParty
<1>7. \A C : \A s \in Seq(C) : \A i \in 1..Len(s) : s[i] \in C
  OBVIOUS
<1> HIDE DEF text, list, w
<1>3. \A i \in 1..n : list[i] \in [coin : Nat, value : Nat]
  BY <1>1, <1>7
<1> HIDE DEF n
<1>4. CoinList(list, n)
  BY <1>1, <1>3 DEF CoinList
<1>5. /\ text \in Seq(Nat) /\ Len(text) = 2 + 2 * n /\ text[1] = w /\ text[2] = n
      /\ CoinsLie(text, list, n)
  <2>1. w \in Nat /\ n \in Nat
    BY <1>1
  <2>2. PartyLies(PartyText(w, list), w, list, n)
    BY <1>4, <2>1, PartyTextIs
  <2> QED
    BY <1>2, <1>4, <2>2 DEF CoinList, PartyLies
<1>6. ASSUME NEW i \in 1..n PROVE CoinAt(text, 2 + 2 * (i - 1)) = list[i]
  <2>1. list[i] = [coin |-> list[i].coin, value |-> list[i].value]
    BY <1>3
  <2> QED
    BY <1>5, <2>1 DEF CoinAt, CoinsLie
<1>8. Tells(text, w, list)
  BY <1>1, <1>5, <1>6 DEF Tells
<1> QED
  BY <1>8 DEF text, list, w

(* A party whose text lies ahead is read as it was written, whatever the   *)
(* variables of the reader held before.                                    *)
LEMMA ReadPartyEffect ==
  ASSUME NEW r \in Readers
  PROVE  /\ PartyFrame(r, ReadParty(r))
         /\ \A p \in LoadedParty : Ahead(r, TextOfParty(p)) =>
              /\ ReadParty(r).at = r.at + Len(TextOfParty(p))
              /\ ReadParty(r).parties = Append(r.parties, p)
<1> DEFINE clear == [r EXCEPT !.coins = <<>>]
           head == Read(clear, "party")
           n    == head.party[2]
           q    == Repeat(ReadCoin, n, head)
           new  == [wallet |-> q.party[1], coins |-> q.coins]
<1>1. /\ clear \in Readers /\ clear.file = r.file /\ clear.at = r.at
      /\ clear.header = r.header /\ clear.coins = <<>> /\ clear.parties = r.parties
      /\ clear.wallets = r.wallets /\ clear.transfers = r.transfers
      /\ clear.expected = r.expected
  <2>1. <<>> \in LoadedCoins
    BY DEF LoadedCoins
  <2> QED
    BY <2>1 DEF Readers, ReaderRecords
<1> HIDE DEF clear
<1>2. "party" \in Slots /\ SlotSize("party") = 2 /\ "party" # "header"
  BY DEF Slots, SlotSize
<1>3. /\ head \in Readers /\ head.file = r.file /\ head.header = r.header
      /\ head.coins = <<>> /\ head.parties = r.parties /\ head.wallets = r.wallets
      /\ head.transfers = r.transfers /\ head.expected = r.expected
      /\ r.at + 2 <= Len(r.file) =>
           /\ head.at = r.at + 2
           /\ head.party[1] = r.file[r.at + 1] /\ head.party[2] = r.file[r.at + 2]
  BY <1>1, <1>2, ReadEffect
<1>4. ReadParty(r) = [q EXCEPT !.parties = Append(q.parties, new)]
  BY DEF ReadParty, clear
<1> HIDE DEF head
<1>5. n \in Nat
  <2>1. head.party \in [1..2 -> Nat]
    BY <1>3, ReaderTypes
  <2> QED
    BY <2>1
<1> HIDE DEF n
<1>6. /\ CoinFrame(head, q)
      /\ head.at + 2 * n <= Len(head.file) =>
           /\ q.at = head.at + 2 * n
           /\ q.coins = [i \in 1..n |-> CoinAt(head.file, head.at + 2 * (i - 1))]
  BY <1>3, <1>5, CoinsRead
<1> HIDE DEF q
<1>7. /\ q \in Readers /\ q.file = r.file /\ q.header = r.header /\ q.party = head.party
      /\ q.parties = r.parties /\ q.wallets = r.wallets
      /\ q.transfers = r.transfers /\ q.expected = r.expected
  BY <1>3, <1>6 DEF CoinFrame
<1>8. new \in LoadedParty
  <2>1. q.party \in [1..2 -> Nat] /\ q.coins \in LoadedCoins
    BY <1>7, ReaderTypes
  <2> QED
    BY <2>1 DEF LoadedParty
<1>9. ASSUME NEW p \in LoadedParty, Ahead(r, TextOfParty(p))
      PROVE  q.at = r.at + Len(TextOfParty(p)) /\ new = p
  <2> DEFINE text == TextOfParty(p)
             z == Len(p.coins)
  <2>1. /\ z \in Nat /\ text \in Seq(Nat) /\ Len(text) = 2 + 2 * z
        /\ text[1] = p.wallet /\ text[2] = z
        /\ \A i \in 1..z : CoinAt(text, 2 + 2 * (i - 1)) = p.coins[i]
    <3>1. Tells(text, p.wallet, p.coins)
      BY TextOfPartyIs
    <3> HIDE DEF text
    <3> QED
      BY <3>1 DEF Tells
  <2>2. p.coins = [i \in 1..z |-> p.coins[i]] /\ p = [wallet |-> p.wallet, coins |-> p.coins]
    BY DEF LoadedParty, LoadedCoins
  <2>3. LiesAt(r.file, r.at, text)
    BY <1>9 DEF Ahead
  <2> HIDE DEF text, z
  <2>4. /\ r.at \in Nat /\ Len(r.file) \in Nat /\ r.at + 2 + 2 * z <= Len(r.file)
        /\ \A j \in 1..(2 + 2 * z) : r.file[r.at + j] = text[j]
    BY <2>1, <2>3 DEF LiesAt
  <2>5. 1 \in 1..(2 + 2 * z) /\ 2 \in 1..(2 + 2 * z) /\ r.at + 2 <= Len(r.file)
    <3> DEFINE at == r.at
               size == Len(r.file)
    <3>1. z \in Nat /\ at \in Nat /\ size \in Nat /\ at + 2 + 2 * z <= size
      BY <2>1, <2>4
    <3> HIDE DEF at, size
    <3>2. 1 \in 1..(2 + 2 * z) /\ 2 \in 1..(2 + 2 * z) /\ at + 2 <= size
      BY <3>1
    <3> QED
      BY <3>2 DEF at, size
  <2>6. r.file[r.at + 1] = p.wallet /\ r.file[r.at + 2] = z
    BY <2>1, <2>4, <2>5
  <2>7. head.at = r.at + 2 /\ head.party[1] = p.wallet /\ n = z
    BY <1>3, <2>5, <2>6 DEF n
  <2>8. head.at + 2 * n <= Len(head.file)
    BY <1>3, <2>1, <2>4, <2>7
  <2>9. /\ q.at = r.at + 2 + 2 * z
        /\ q.coins = [i \in 1..z |-> CoinAt(r.file, (r.at + 2) + 2 * (i - 1))]
    BY <1>3, <1>6, <2>7, <2>8
  <2>10. ASSUME NEW i \in 1..z
         PROVE  CoinAt(r.file, (r.at + 2) + 2 * (i - 1)) = p.coins[i]
    <3> DEFINE j == 2 + 2 * (i - 1)
    <3>1. /\ j + 1 \in 1..(2 + 2 * z) /\ j + 2 \in 1..(2 + 2 * z)
          /\ (r.at + 2) + 2 * (i - 1) = r.at + j
          /\ (r.at + j) + 1 = r.at + (j + 1) /\ (r.at + j) + 2 = r.at + (j + 2)
      <4>1. z \in Nat /\ r.at \in Nat
        BY <2>1, <2>4
      <4> QED
        BY <4>1
    <3> HIDE DEF j
    <3>2. r.file[(r.at + j) + 1] = text[j + 1] /\ r.file[(r.at + j) + 2] = text[j + 2]
      <4>1. \A k \in 1..(2 + 2 * z) : r.file[r.at + k] = text[k]
        BY <2>4
      <4>2. r.file[r.at + (j + 1)] = text[j + 1]
        BY <3>1, <4>1
      <4>3. r.file[r.at + (j + 2)] = text[j + 2]
        BY <3>1, <4>1
      <4> QED
        BY <3>1, <4>2, <4>3
    <3>3. CoinAt(text, j) = p.coins[i]
      BY <2>1 DEF j
    <3> QED
      BY <3>1, <3>2, <3>3 DEF CoinAt
  <2>11. q.coins = p.coins
    BY <2>2, <2>9, <2>10
  <2>12. new = p
    BY <1>7, <2>2, <2>7, <2>11
  <2> QED
    BY <2>1, <2>4, <2>9, <2>12 DEF text
<1>10. /\ ReadParty(r).at = q.at /\ ReadParty(r).parties = Append(r.parties, new)
       /\ PartyFrame(r, ReadParty(r))
  <2> HIDE DEF new
  <2>1. q.parties \in LoadedParties /\ Append(q.parties, new) \in LoadedParties
    BY <1>7, <1>8, ReaderTypes DEF LoadedParties
  <2> QED
    BY <1>4, <1>7, <2>1 DEF PartyFrame, Readers, ReaderRecords
<1> QED
  BY <1>9, <1>10

(* ReadParty, repeated, goes through the states it leads to.               *)
LEMMA ReadPartyRepeated ==
  ASSUME NEW r \in Readers, NEW n \in Nat
  PROVE  \E T \in [0..n -> Readers] :
           /\ T[0] = r /\ \A i \in 1..n : T[i] = ReadParty(T[i - 1])
           /\ T[n] = Repeat(ReadParty, n, r)
<1> DEFINE F == [x \in Readers |-> ReadParty(x)]
<1>1. F \in [Readers -> Readers]
  BY ReadPartyEffect DEF PartyFrame
<1> HIDE DEF F
<1>2. PICK T \in [0..n -> Readers] : Orbit(T, F, r, n)
  BY <1>1, Iterates
<1>3. ASSUME NEW i \in 1..n PROVE T[i] = ReadParty(T[i - 1])
  <2>1. T[i - 1] \in Readers
    OBVIOUS
  <2> QED
    BY <1>2, <2>1 DEF F, Orbit
<1>4. T[0] = r
  BY <1>2 DEF Orbit
<1> DEFINE Folds(g) ==
             g = [s \in SUBSET (1..n) |-> IF s = {} THEN r ELSE ReadParty(g[s \ {Max(s)}])]
           h == [s \in SUBSET (1..n) |-> T[Cardinality(s)]]
           g == CHOOSE g : Folds(g)
<1>5. Folds(h)
  <2>1. ASSUME NEW s \in SUBSET (1..n)
        PROVE  h[s] = IF s = {} THEN r ELSE ReadParty(h[s \ {Max(s)}])
    BY <1>3, <1>4, FoldSets
  <2> QED
    BY <2>1
<1>6. Folds(g)
  BY <1>5
<1>7. Repeat(ReadParty, n, r) = g[1..n]
  <2>1. DOMAIN [i \in 1..n |-> i] = 1..n
    OBVIOUS
  <2> QED
    BY <2>1 DEF Repeat, FoldLeft, MapThenFoldSet
<1> HIDE DEF g, h
<1>8. ASSUME NEW s \in SUBSET (1..n), s # {}, g[s \ {Max(s)}] = T[Cardinality(s) - 1]
      PROVE  g[s] = T[Cardinality(s)]
  BY <1>3, <1>6, <1>8, FoldSets
<1>9. g[{}] = T[0]
  BY <1>4, <1>6
<1>10. g[1..n] = T[n]
  BY <1>8, <1>9, FoldReaches
<1> QED
  BY <1>3, <1>4, <1>7, <1>10

TextOfParties(ps) == FlattenSeq([i \in DOMAIN ps |-> TextOfParty(ps[i])])

(* The text of parties is made of a piece for each.                        *)
LEMMA PartyPieces ==
  ASSUME NEW n \in Nat, NEW ps \in [1..n -> LoadedParty]
  PROVE  LET f == [i \in 1..n |-> TextOfParty(ps[i])]
         IN  f \in Pieces(n, Nat) /\ TextOfParties(ps) = FlattenSeq(FirstPieces(f, n))
<1> DEFINE f == [i \in 1..n |-> TextOfParty(ps[i])]
<1>1. \A i \in 1..n : TextOfParty(ps[i]) \in Seq(Nat)
  BY TextOfPartyIs DEF Tells
<1>2. f \in Pieces(n, Nat)
  BY <1>1 DEF Pieces
<1>3. FirstPieces(f, n) = f
  BY DEF FirstPieces
<1>4. TextOfParties(ps) = FlattenSeq(f)
  BY DEF TextOfParties
<1> QED
  BY <1>2, <1>3, <1>4

(* Parties that lie ahead are read as they were written.                   *)
LEMMA PartiesRead ==
  ASSUME NEW r \in Readers, NEW n \in Nat, r.parties = <<>>
  PROVE  LET q == Repeat(ReadParty, n, r)
         IN  /\ PartyFrame(r, q)
             /\ \A ps \in [1..n -> LoadedParty] : Ahead(r, TextOfParties(ps)) =>
                  /\ q.at = r.at + Len(TextOfParties(ps))
                  /\ q.parties = ps
<1>1. PICK T \in [0..n -> Readers] :
        /\ T[0] = r /\ \A i \in 1..n : T[i] = ReadParty(T[i - 1])
        /\ T[n] = Repeat(ReadParty, n, r)
  BY ReadPartyRepeated
<1>2. ASSUME NEW i \in 1..n
      PROVE  /\ T[i - 1] \in Readers /\ PartyFrame(T[i - 1], T[i])
             /\ \A p \in LoadedParty : Ahead(T[i - 1], TextOfParty(p)) =>
                  /\ T[i].at = T[i - 1].at + Len(TextOfParty(p))
                  /\ T[i].parties = Append(T[i - 1].parties, p)
  <2>1. T[i - 1] \in Readers /\ T[i] = ReadParty(T[i - 1])
    BY <1>1
  <2> QED
    BY <2>1, ReadPartyEffect
<1> DEFINE Good == {i \in Nat : i <= n => PartyFrame(r, T[i])}
<1>3. 0 \in Good
  BY <1>1 DEF PartyFrame
<1>4. ASSUME NEW i \in Nat, i \in Good PROVE i + 1 \in Good
  <2> SUFFICES ASSUME i + 1 <= n PROVE PartyFrame(r, T[i + 1])
    OBVIOUS
  <2>1. i + 1 \in 1..n /\ (i + 1) - 1 = i /\ i <= n
    OBVIOUS
  <2>2. PartyFrame(r, T[i]) /\ PartyFrame(T[i], T[i + 1])
    BY <1>2, <1>4, <2>1
  <2> QED
    BY <2>2 DEF PartyFrame
<1> HIDE DEF Good
<1>5. PartyFrame(r, T[n])
  <2>1. n \in Good /\ n <= n
    BY <1>3, <1>4, NatInductionInSet
  <2> QED
    BY <2>1 DEF Good
<1>6. ASSUME NEW ps \in [1..n -> LoadedParty], Ahead(r, TextOfParties(ps))
      PROVE  T[n].at = r.at + Len(TextOfParties(ps)) /\ T[n].parties = ps
  <2> DEFINE f == [i \in 1..n |-> TextOfParty(ps[i])]
  <2>1. f \in Pieces(n, Nat) /\ TextOfParties(ps) = FlattenSeq(FirstPieces(f, n))
    BY PartyPieces
  <2>2. \A i \in 1..n : f[i] = TextOfParty(ps[i]) /\ ps[i] \in LoadedParty
    OBVIOUS
  <2> HIDE DEF f
  <2>3. PICK H \in Beginnings(n, Nat) : Joins(H, f, n)
    BY <2>1, JoinsExist
  <2>4. n <= n
    OBVIOUS
  <2>5. TextOfParties(ps) = H[n]
    BY <2>1, <2>3, <2>4, FlattenJoins
  <2>6. AdvancesOver(T, f, n)
    <3>1. ASSUME NEW i \in 1..n
          PROVE  /\ T[i].file = T[i - 1].file
                 /\ LiesAt(T[i - 1].file, T[i - 1].at, f[i]) =>
                      T[i].at = T[i - 1].at + Len(f[i])
      BY <1>2, <2>2 DEF Ahead, PartyFrame
    <3> QED
      BY <3>1 DEF AdvancesOver
  <2>7. T[n].at = T[0].at + Len(H[n]) /\ \A i \in 1..n : Ahead(T[i - 1], f[i])
    <3>1. Ahead(T[0], H[n])
      BY <1>1, <1>6, <2>5
    <3> QED
      BY <2>1, <2>3, <2>4, <2>6, <3>1, PiecesRead
  <2> DEFINE x == [i \in 0..n |-> T[i].parties]
  <2>8. Grows(x, ps, n)
    <3>1. x[0] = <<>>
      BY <1>1
    <3>2. ASSUME NEW i \in 1..n PROVE x[i] = Append(x[i - 1], ps[i])
      <4>1. i \in 0..n /\ i - 1 \in 0..n
        OBVIOUS
      <4>2. T[i].parties = Append(T[i - 1].parties, ps[i])
        BY <1>2, <2>2, <2>7
      <4> QED
        BY <4>1, <4>2
    <3> HIDE DEF x
    <3> QED
      BY <3>1, <3>2 DEF Grows
  <2>9. x[n] = T[n].parties
    OBVIOUS
  <2> HIDE DEF x
  <2>10. x[n] = ps
    BY <2>8, GrownSequence
  <2> QED
    BY <1>1, <2>5, <2>7, <2>9, <2>10
<1> QED
  BY <1>1, <1>5, <1>6

(* ReadTransfer touches nothing but what it reads into, the parties and    *)
(* the transfers.                                                          *)
TransferFrame(r, q) ==
  /\ q \in Readers /\ q.file = r.file /\ q.header = r.header
  /\ q.wallets = r.wallets /\ q.expected = r.expected

(* The parties of a transfer that lie ahead are read as they were written: *)
(* those of the transfer before are gone.                                  *)
LEMMA ReadTransferEffect ==
  ASSUME NEW r \in Readers
  PROVE  LET q == ReadTransfer(r)
         IN  /\ TransferFrame(r, q)
             /\ q.transfers = Append(r.transfers, q.parties)
             /\ \A ps \in [1..PartiesPerTransfer(r) -> LoadedParty] :
                  Ahead(r, TextOfParties(ps)) =>
                    q.at = r.at + Len(TextOfParties(ps)) /\ q.parties = ps
<1> DEFINE clear == [r EXCEPT !.parties = <<>>]
           n     == PartiesPerTransfer(r)
           q     == Repeat(ReadParty, n, clear)
<1>1. /\ clear \in Readers /\ clear.file = r.file /\ clear.at = r.at
      /\ clear.header = r.header /\ clear.parties = <<>>
      /\ clear.wallets = r.wallets /\ clear.transfers = r.transfers
      /\ clear.expected = r.expected
  <2>1. <<>> \in LoadedParties
    BY DEF LoadedParties
  <2> QED
    BY <2>1 DEF Readers, ReaderRecords
<1>2. n \in Nat
  <2>1. r.header \in [1..10 -> Nat]
    BY ReaderTypes
  <2>2. r.header[4] \in Nat /\ r.header[5] \in Nat
    BY <2>1
  <2> QED
    BY <2>2 DEF PartiesPerTransfer
<1>3. ReadTransfer(r) = [q EXCEPT !.transfers = Append(q.transfers, q.parties)]
  BY DEF ReadTransfer
<1> HIDE DEF clear, n
<1>4. /\ PartyFrame(clear, q)
      /\ \A ps \in [1..n -> LoadedParty] : Ahead(clear, TextOfParties(ps)) =>
           q.at = clear.at + Len(TextOfParties(ps)) /\ q.parties = ps
  BY <1>1, <1>2, PartiesRead
<1> HIDE DEF q
<1>5. /\ q \in Readers /\ q.file = r.file /\ q.header = r.header
      /\ q.wallets = r.wallets /\ q.transfers = r.transfers /\ q.expected = r.expected
  BY <1>1, <1>4 DEF PartyFrame
<1> DEFINE u == [q EXCEPT !.transfers = Append(q.transfers, q.parties)]
<1>6. /\ u \in Readers /\ u.file = q.file /\ u.header = q.header /\ u.at = q.at
      /\ u.wallets = q.wallets /\ u.expected = q.expected /\ u.parties = q.parties
      /\ u.transfers = Append(q.transfers, q.parties)
  <2>1. Append(q.transfers, q.parties) \in Seq(LoadedParties)
    <3>1. q.transfers \in Seq(LoadedParties) /\ q.parties \in LoadedParties
      BY <1>5, ReaderTypes
    <3> QED
      BY <3>1
  <2> QED
    BY <1>5, <2>1 DEF Readers, ReaderRecords
<1> HIDE DEF u
<1>7. TransferFrame(r, u)
  BY <1>5, <1>6 DEF TransferFrame
<1>8. ASSUME NEW ps \in [1..n -> LoadedParty], Ahead(r, TextOfParties(ps))
      PROVE  u.at = r.at + Len(TextOfParties(ps)) /\ u.parties = ps
  <2>1. Ahead(clear, TextOfParties(ps))
    BY <1>1, <1>8 DEF Ahead
  <2> QED
    BY <1>1, <1>4, <1>6, <2>1
<1> QED
  BY <1>3, <1>5, <1>6, <1>7, <1>8 DEF u, n

(* ReadTransfer, repeated, goes through the states it leads to.            *)
LEMMA ReadTransferRepeated ==
  ASSUME NEW r \in Readers, NEW n \in Nat
  PROVE  \E T \in [0..n -> Readers] :
           /\ T[0] = r /\ \A i \in 1..n : T[i] = ReadTransfer(T[i - 1])
           /\ T[n] = Repeat(ReadTransfer, n, r)
<1> DEFINE F == [x \in Readers |-> ReadTransfer(x)]
<1>1. F \in [Readers -> Readers]
  BY ReadTransferEffect DEF TransferFrame
<1> HIDE DEF F
<1>2. PICK T \in [0..n -> Readers] : Orbit(T, F, r, n)
  BY <1>1, Iterates
<1>3. ASSUME NEW i \in 1..n PROVE T[i] = ReadTransfer(T[i - 1])
  <2>1. T[i - 1] \in Readers
    OBVIOUS
  <2> QED
    BY <1>2, <2>1 DEF F, Orbit
<1>4. T[0] = r
  BY <1>2 DEF Orbit
<1> DEFINE Folds(g) ==
             g = [s \in SUBSET (1..n) |-> IF s = {} THEN r ELSE ReadTransfer(g[s \ {Max(s)}])]
           h == [s \in SUBSET (1..n) |-> T[Cardinality(s)]]
           g == CHOOSE g : Folds(g)
<1>5. Folds(h)
  <2>1. ASSUME NEW s \in SUBSET (1..n)
        PROVE  h[s] = IF s = {} THEN r ELSE ReadTransfer(h[s \ {Max(s)}])
    BY <1>3, <1>4, FoldSets
  <2> QED
    BY <2>1
<1>6. Folds(g)
  BY <1>5
<1>7. Repeat(ReadTransfer, n, r) = g[1..n]
  <2>1. DOMAIN [i \in 1..n |-> i] = 1..n
    OBVIOUS
  <2> QED
    BY <2>1 DEF Repeat, FoldLeft, MapThenFoldSet
<1> HIDE DEF g, h
<1>8. ASSUME NEW s \in SUBSET (1..n), s # {}, g[s \ {Max(s)}] = T[Cardinality(s) - 1]
      PROVE  g[s] = T[Cardinality(s)]
  BY <1>3, <1>6, <1>8, FoldSets
<1>9. g[{}] = T[0]
  BY <1>4, <1>6
<1>10. g[1..n] = T[n]
  BY <1>8, <1>9, FoldReaches
<1> QED
  BY <1>3, <1>4, <1>7, <1>10

(* The transfers of a workload, as parties with the number of them that    *)
(* the header promises.                                                    *)
LoadableTransfers(n, size) == [1..n -> [1..size -> LoadedParty]]

(* The pieces f are the texts of the transfers ts.                         *)
TransfersWritten(ts, f, n) == \A k \in 1..n : f[k] = TextOfParties(ts[k])

(* The reader q has what the first m transfers were written from, when     *)
(* their text lay ahead of the reader r.                                   *)
TransfersLoaded(r, q, n, size) ==
  \A ts \in LoadableTransfers(n, size), f \in Pieces(n, Nat),
     H \in Beginnings(n, Nat), m \in 0..n :
    TransfersWritten(ts, f, n) /\ Joins(H, f, n) /\ Ahead(r, H[m])
      => /\ \A k \in 1..m : q.transfers[k] = ts[k]
         /\ m = n => q.at = r.at + Len(H[n])

(* n transfers are read, whatever is in the file; those whose text lies    *)
(* ahead are read as they were written.                                    *)
LEMMA TransfersRead ==
  ASSUME NEW r \in Readers, NEW n \in Nat, r.transfers = <<>>
  PROVE  LET q == Repeat(ReadTransfer, n, r)
         IN  /\ TransferFrame(r, q)
             /\ q.transfers \in [1..n -> LoadedParties]
             /\ TransfersLoaded(r, q, n, PartiesPerTransfer(r))
<1>1. PICK T \in [0..n -> Readers] :
        /\ T[0] = r /\ \A i \in 1..n : T[i] = ReadTransfer(T[i - 1])
        /\ T[n] = Repeat(ReadTransfer, n, r)
  BY ReadTransferRepeated
<1>2. ASSUME NEW i \in 1..n
      PROVE  /\ T[i - 1] \in Readers /\ TransferFrame(T[i - 1], T[i])
             /\ T[i].transfers = Append(T[i - 1].transfers, T[i].parties)
             /\ \A ps \in [1..PartiesPerTransfer(T[i - 1]) -> LoadedParty] :
                  Ahead(T[i - 1], TextOfParties(ps)) =>
                    /\ T[i].at = T[i - 1].at + Len(TextOfParties(ps))
                    /\ T[i].parties = ps
  <2>1. T[i - 1] \in Readers /\ T[i] = ReadTransfer(T[i - 1])
    BY <1>1
  <2> QED
    BY <2>1, ReadTransferEffect
<1> DEFINE Good == {i \in Nat : i <= n => TransferFrame(r, T[i])}
<1>3. 0 \in Good
  BY <1>1 DEF TransferFrame
<1>4. ASSUME NEW i \in Nat, i \in Good PROVE i + 1 \in Good
  <2> SUFFICES ASSUME i + 1 <= n PROVE TransferFrame(r, T[i + 1])
    OBVIOUS
  <2>1. i + 1 \in 1..n /\ (i + 1) - 1 = i /\ i <= n
    OBVIOUS
  <2>2. TransferFrame(r, T[i]) /\ TransferFrame(T[i], T[i + 1])
    BY <1>2, <1>4, <2>1
  <2> QED
    BY <2>2 DEF TransferFrame
<1>5. \A i \in 0..n : TransferFrame(r, T[i])
  <2> HIDE DEF Good
  <2>1. \A i \in Nat : i \in Good
    BY <1>3, <1>4, NatInductionInSet
  <2> QED
    BY <2>1 DEF Good
<1> HIDE DEF Good
<1> DEFINE x == [i \in 0..n |-> T[i].transfers]
           y == [i \in 1..n |-> T[i].parties]
<1>6. y \in [1..n -> LoadedParties]
  <2>1. \A i \in 1..n : T[i].parties \in LoadedParties
    BY ReaderTypes
  <2> QED
    BY <2>1
<1>7. Grows(x, y, n)
  <2>1. x[0] = <<>>
    BY <1>1
  <2>2. ASSUME NEW i \in 1..n PROVE x[i] = Append(x[i - 1], y[i])
    <3>1. i \in 0..n /\ i - 1 \in 0..n
      OBVIOUS
    <3>2. T[i].transfers = Append(T[i - 1].transfers, T[i].parties)
      BY <1>2
    <3> QED
      BY <3>1, <3>2
  <2> HIDE DEF x, y
  <2> QED
    BY <2>1, <2>2 DEF Grows
<1>8. x[n] = T[n].transfers
  OBVIOUS
<1> HIDE DEF x
<1>9. T[n].transfers = y
  <2> HIDE DEF y
  <2>1. x[n] = y
    BY <1>6, <1>7, GrownSequence
  <2> QED
    BY <1>8, <2>1
<1>10. ASSUME NEW ts \in LoadableTransfers(n, PartiesPerTransfer(r)),
              NEW f \in Pieces(n, Nat), NEW H \in Beginnings(n, Nat), NEW m \in 0..n,
              TransfersWritten(ts, f, n), Joins(H, f, n), Ahead(r, H[m])
       PROVE  /\ \A k \in 1..m : T[n].transfers[k] = ts[k]
              /\ m = n => T[n].at = r.at + Len(H[n])
  <2>1. ASSUME NEW i \in 1..n, Ahead(T[i - 1], f[i])
        PROVE  T[i].at = T[i - 1].at + Len(f[i]) /\ T[i].parties = ts[i]
    <3>1. i - 1 \in 0..n
      OBVIOUS
    <3>2. PartiesPerTransfer(T[i - 1]) = PartiesPerTransfer(r)
      BY <1>5, <3>1 DEF TransferFrame, PartiesPerTransfer
    <3>3. ts[i] \in [1..PartiesPerTransfer(T[i - 1]) -> LoadedParty]
      BY <3>2 DEF LoadableTransfers
    <3>4. f[i] = TextOfParties(ts[i])
      BY <1>10 DEF TransfersWritten
    <3> QED
      BY <1>2, <2>1, <3>3, <3>4
  <2>2. AdvancesOver(T, f, n)
    <3>1. ASSUME NEW i \in 1..n
          PROVE  /\ T[i].file = T[i - 1].file
                 /\ LiesAt(T[i - 1].file, T[i - 1].at, f[i]) =>
                      T[i].at = T[i - 1].at + Len(f[i])
      BY <1>2, <2>1 DEF Ahead, TransferFrame
    <3> QED
      BY <3>1 DEF AdvancesOver
  <2>3. m \in Nat /\ m <= n /\ Ahead(T[0], H[m])
    BY <1>1, <1>10
  <2>4. T[m].at = T[0].at + Len(H[m]) /\ \A i \in 1..m : Ahead(T[i - 1], f[i])
    BY <1>10, <2>2, <2>3, PiecesRead
  <2>5. ASSUME NEW k \in 1..m PROVE T[n].transfers[k] = ts[k]
    <3>1. k \in 1..n
      OBVIOUS
    <3> QED
      BY <1>9, <2>1, <2>4, <3>1
  <2> QED
    BY <1>1, <2>4, <2>5
<1>11. n \in 0..n
  OBVIOUS
<1> HIDE DEF y
<1>12. TransferFrame(r, T[n]) /\ T[n].transfers \in [1..n -> LoadedParties]
  BY <1>5, <1>6, <1>9, <1>11
<1>13. TransfersLoaded(r, T[n], n, PartiesPerTransfer(r))
  BY <1>10 DEF TransfersLoaded
<1> QED
  BY <1>1, <1>12, <1>13

(***************************************************************************)
(* Reading wallets                                                         *)
(***************************************************************************)
(* ReadWallet touches nothing but what it reads into and the wallets.      *)
WalletFrame(r, q) ==
  /\ q \in Readers /\ q.file = r.file /\ q.header = r.header
  /\ q.transfers = r.transfers /\ q.expected = r.expected

(* What giving a wallet a coin does to the wallets.                        *)
GivenTo(wallets, w, coin) ==
  Put(wallets, w, Append(IF w \in DOMAIN wallets THEN wallets[w] ELSE <<>>, coin))

(* Giving a coin to a wallet leaves the wallets lists of coins.            *)
LEMMA GivenToIs ==
  ASSUME NEW wallets \in LoadedWallets, NEW w \in Nat, NEW coin \in [coin : Nat, value : Nat]
  PROVE  GivenTo(wallets, w, coin) \in LoadedWallets
<1> DEFINE held == IF w \in DOMAIN wallets THEN wallets[w] ELSE <<>>
           new  == Append(held, coin)
           all  == [v \in (DOMAIN wallets) \cup {w} |-> IF v = w THEN new ELSE wallets[v]]
<1>1. PICK D \in SUBSET Nat : wallets \in [D -> LoadedCoins]
  BY DEF LoadedWallets
<1>2. held \in LoadedCoins
  <2>1. <<>> \in LoadedCoins
    BY DEF LoadedCoins
  <2> QED
    BY <1>1, <2>1
<1>3. new \in LoadedCoins
  <2> HIDE DEF held
  <2> QED
    BY <1>2 DEF LoadedCoins
<1>4. GivenTo(wallets, w, coin) = all
  BY DEF GivenTo, Put
<1> HIDE DEF new
<1>5. all \in [D \cup {w} -> LoadedCoins] /\ D \cup {w} \in SUBSET Nat
  BY <1>1, <1>3
<1> HIDE DEF all
<1>6. all \in LoadedWallets
  BY <1>5 DEF LoadedWallets
<1> QED
  BY <1>4, <1>6

(* An entry of the file.                                                   *)
Triple(a, b, c) == <<a, b, c>>

(* An entry that lies ahead is read as it was written.                     *)
LEMMA ReadEntry ==
  ASSUME NEW r \in Readers
  PROVE  LET m == Read(r, "entry")
         IN  /\ m \in Readers /\ m.file = r.file /\ m.header = r.header
             /\ m.wallets = r.wallets /\ m.transfers = r.transfers /\ m.expected = r.expected
             /\ m.entry[1] \in Nat /\ m.entry[2] \in Nat /\ m.entry[3] \in Nat
             /\ \A a, b, c \in Nat : Ahead(r, Triple(a, b, c)) =>
                  /\ m.at = r.at + 3
                  /\ m.entry[1] = a /\ m.entry[2] = b /\ m.entry[3] = c
<1> DEFINE m == Read(r, "entry")
<1>1. "entry" \in Slots /\ SlotSize("entry") = 3 /\ "entry" # "header"
  BY DEF Slots, SlotSize
<1>2. /\ m \in Readers /\ m.file = r.file /\ m.header = r.header
      /\ m.wallets = r.wallets /\ m.transfers = r.transfers /\ m.expected = r.expected
      /\ r.at + 3 <= Len(r.file) =>
           m.at = r.at + 3 /\ \A k \in 1..3 : m.entry[k] = r.file[r.at + k]
  BY <1>1, ReadEffect
<1> HIDE DEF m
<1>3. m.entry[1] \in Nat /\ m.entry[2] \in Nat /\ m.entry[3] \in Nat
  <2>1. m.entry \in [1..3 -> Nat]
    BY <1>2, ReaderTypes
  <2> QED
    BY <2>1
<1>4. ASSUME NEW a \in Nat, NEW b \in Nat, NEW c \in Nat, Ahead(r, Triple(a, b, c))
      PROVE  /\ m.at = r.at + 3
             /\ m.entry[1] = a /\ m.entry[2] = b /\ m.entry[3] = c
  <2> DEFINE t == <<a, b, c>>
  <2>1. Len(t) = 3 /\ t[1] = a /\ t[2] = b /\ t[3] = c
    OBVIOUS
  <2>2. LiesAt(r.file, r.at, t)
    BY <1>4 DEF Ahead, Triple
  <2> HIDE DEF t
  <2>3. r.at + 3 <= Len(r.file) /\ \A j \in 1..3 : r.file[r.at + j] = t[j]
    BY <2>1, <2>2 DEF LiesAt
  <2>4. 1 \in 1..3 /\ 2 \in 1..3 /\ 3 \in 1..3
    OBVIOUS
  <2> QED
    BY <1>2, <2>1, <2>3, <2>4
<1> QED
  BY <1>2, <1>3, <1>4 DEF m

(* The coin in an entry that lies ahead is given to the wallet in it.      *)
LEMMA ReadWalletEffect ==
  ASSUME NEW r \in Readers
  PROVE  LET q == ReadWallet(r)
         IN  /\ WalletFrame(r, q)
             /\ \A w, c, v \in Nat : Ahead(r, Triple(w, c, v)) =>
                  /\ q.at = r.at + 3
                  /\ q.wallets = GivenTo(r.wallets, w, [coin |-> c, value |-> v])
<1> DEFINE m == Read(r, "entry")
           coin == [coin |-> m.entry[2], value |-> m.entry[3]]
           new == GivenTo(m.wallets, m.entry[1], coin)
           q == [m EXCEPT !.wallets = new]
<1>1. /\ m \in Readers /\ m.file = r.file /\ m.header = r.header
      /\ m.wallets = r.wallets /\ m.transfers = r.transfers /\ m.expected = r.expected
      /\ m.entry[1] \in Nat /\ m.entry[2] \in Nat /\ m.entry[3] \in Nat
      /\ \A a, b, c \in Nat : Ahead(r, Triple(a, b, c)) =>
           m.at = r.at + 3 /\ m.entry[1] = a /\ m.entry[2] = b /\ m.entry[3] = c
  BY ReadEntry
<1>2. ReadWallet(r) = q
  BY DEF ReadWallet, GivenTo
<1> HIDE DEF m
<1>3. new \in LoadedWallets
  <2>1. coin \in [coin : Nat, value : Nat] /\ m.wallets \in LoadedWallets
    BY <1>1, ReaderTypes
  <2> HIDE DEF coin
  <2> QED
    BY <1>1, <2>1, GivenToIs
<1>4. ASSUME NEW w \in Nat, NEW c \in Nat, NEW v \in Nat, Ahead(r, Triple(w, c, v))
      PROVE  m.at = r.at + 3 /\ new = GivenTo(r.wallets, w, [coin |-> c, value |-> v])
  BY <1>1, <1>4
<1> HIDE DEF new
<1>5. /\ q \in Readers /\ q.file = m.file /\ q.header = m.header /\ q.at = m.at
      /\ q.transfers = m.transfers /\ q.expected = m.expected /\ q.wallets = new
  BY <1>1, <1>3 DEF Readers, ReaderRecords
<1> QED
  BY <1>1, <1>2, <1>4, <1>5 DEF WalletFrame

(* ReadWallet, repeated, goes through the states it leads to.              *)
LEMMA ReadWalletRepeated ==
  ASSUME NEW r \in Readers, NEW n \in Nat
  PROVE  \E T \in [0..n -> Readers] :
           /\ T[0] = r /\ \A i \in 1..n : T[i] = ReadWallet(T[i - 1])
           /\ T[n] = Repeat(ReadWallet, n, r)
<1> DEFINE F == [x \in Readers |-> ReadWallet(x)]
<1>1. F \in [Readers -> Readers]
  BY ReadWalletEffect DEF WalletFrame
<1> HIDE DEF F
<1>2. PICK T \in [0..n -> Readers] : Orbit(T, F, r, n)
  BY <1>1, Iterates
<1>3. ASSUME NEW i \in 1..n PROVE T[i] = ReadWallet(T[i - 1])
  <2>1. T[i - 1] \in Readers
    OBVIOUS
  <2> QED
    BY <1>2, <2>1 DEF F, Orbit
<1>4. T[0] = r
  BY <1>2 DEF Orbit
<1> DEFINE Folds(g) ==
             g = [s \in SUBSET (1..n) |-> IF s = {} THEN r ELSE ReadWallet(g[s \ {Max(s)}])]
           h == [s \in SUBSET (1..n) |-> T[Cardinality(s)]]
           g == CHOOSE g : Folds(g)
<1>5. Folds(h)
  <2>1. ASSUME NEW s \in SUBSET (1..n)
        PROVE  h[s] = IF s = {} THEN r ELSE ReadWallet(h[s \ {Max(s)}])
    BY <1>3, <1>4, FoldSets
  <2> QED
    BY <2>1
<1>6. Folds(g)
  BY <1>5
<1>7. Repeat(ReadWallet, n, r) = g[1..n]
  <2>1. DOMAIN [i \in 1..n |-> i] = 1..n
    OBVIOUS
  <2> QED
    BY <2>1 DEF Repeat, FoldLeft, MapThenFoldSet
<1> HIDE DEF g, h
<1>8. ASSUME NEW s \in SUBSET (1..n), s # {}, g[s \ {Max(s)}] = T[Cardinality(s) - 1]
      PROVE  g[s] = T[Cardinality(s)]
  BY <1>3, <1>6, <1>8, FoldSets
<1>9. g[{}] = T[0]
  BY <1>4, <1>6
<1>10. g[1..n] = T[n]
  BY <1>8, <1>9, FoldReaches
<1> QED
  BY <1>3, <1>4, <1>7, <1>10

(***************************************************************************)
(* Reading the expected values                                             *)
(***************************************************************************)
(* ReadExpected touches nothing but what it reads into and the values.     *)
ExpectedFrame(r, q) ==
  /\ q \in Readers /\ q.file = r.file /\ q.header = r.header
  /\ q.wallets = r.wallets /\ q.transfers = r.transfers

(* The value in an entry that lies ahead becomes that of the account in    *)
(* it.                                                                     *)
LEMMA ReadExpectedEffect ==
  ASSUME NEW r \in Readers
  PROVE  LET q == ReadExpected(r)
         IN  /\ ExpectedFrame(r, q)
             /\ \A a, b, c \in Nat : Ahead(r, Triple(a, b, c)) =>
                  /\ q.at = r.at + 3
                  /\ q.expected = Put(r.expected, <<a, b>>, c)
<1> DEFINE m == Read(r, "entry")
           key == <<m.entry[1], m.entry[2]>>
           new == Put(m.expected, key, m.entry[3])
           q == [m EXCEPT !.expected = new]
<1>1. /\ m \in Readers /\ m.file = r.file /\ m.header = r.header
      /\ m.wallets = r.wallets /\ m.transfers = r.transfers /\ m.expected = r.expected
      /\ m.entry[1] \in Nat /\ m.entry[2] \in Nat /\ m.entry[3] \in Nat
      /\ \A a, b, c \in Nat : Ahead(r, Triple(a, b, c)) =>
           m.at = r.at + 3 /\ m.entry[1] = a /\ m.entry[2] = b /\ m.entry[3] = c
  BY ReadEntry
<1>2. ReadExpected(r) = q
  BY DEF ReadExpected
<1> HIDE DEF m
<1>3. new \in LoadedValues
  <2>1. PICK D \in SUBSET (Nat \X Nat) : m.expected \in [D -> Nat]
    <3>1. m.expected \in LoadedValues
      BY <1>1, ReaderTypes
    <3> QED
      BY <3>1 DEF LoadedValues
  <2>2. key \in Nat \X Nat
    BY <1>1
  <2> HIDE DEF key
  <2> DEFINE all == [x \in D \cup {key} |-> IF x = key THEN m.entry[3] ELSE m.expected[x]]
  <2>3. new = all
    BY <2>1 DEF Put
  <2>4. all \in [D \cup {key} -> Nat] /\ D \cup {key} \in SUBSET (Nat \X Nat)
    BY <1>1, <2>1, <2>2
  <2> HIDE DEF all
  <2>5. all \in LoadedValues
    BY <2>4 DEF LoadedValues
  <2> HIDE DEF new
  <2> QED
    BY <2>3, <2>5
<1>4. ASSUME NEW a \in Nat, NEW b \in Nat, NEW c \in Nat, Ahead(r, Triple(a, b, c))
      PROVE  m.at = r.at + 3 /\ new = Put(r.expected, <<a, b>>, c)
  BY <1>1, <1>4
<1> HIDE DEF new
<1>5. /\ q \in Readers /\ q.file = m.file /\ q.header = m.header /\ q.at = m.at
      /\ q.transfers = m.transfers /\ q.wallets = m.wallets /\ q.expected = new
  BY <1>1, <1>3 DEF Readers, ReaderRecords
<1> QED
  BY <1>1, <1>2, <1>4, <1>5 DEF ExpectedFrame

(* ReadExpected, repeated, goes through the states it leads to.            *)
LEMMA ReadExpectedRepeated ==
  ASSUME NEW r \in Readers, NEW n \in Nat
  PROVE  \E T \in [0..n -> Readers] :
           /\ T[0] = r /\ \A i \in 1..n : T[i] = ReadExpected(T[i - 1])
           /\ T[n] = Repeat(ReadExpected, n, r)
<1> DEFINE F == [x \in Readers |-> ReadExpected(x)]
<1>1. F \in [Readers -> Readers]
  BY ReadExpectedEffect DEF ExpectedFrame
<1> HIDE DEF F
<1>2. PICK T \in [0..n -> Readers] : Orbit(T, F, r, n)
  BY <1>1, Iterates
<1>3. ASSUME NEW i \in 1..n PROVE T[i] = ReadExpected(T[i - 1])
  <2>1. T[i - 1] \in Readers
    OBVIOUS
  <2> QED
    BY <1>2, <2>1 DEF F, Orbit
<1>4. T[0] = r
  BY <1>2 DEF Orbit
<1> DEFINE Folds(g) ==
             g = [s \in SUBSET (1..n) |-> IF s = {} THEN r ELSE ReadExpected(g[s \ {Max(s)}])]
           h == [s \in SUBSET (1..n) |-> T[Cardinality(s)]]
           g == CHOOSE g : Folds(g)
<1>5. Folds(h)
  <2>1. ASSUME NEW s \in SUBSET (1..n)
        PROVE  h[s] = IF s = {} THEN r ELSE ReadExpected(h[s \ {Max(s)}])
    BY <1>3, <1>4, FoldSets
  <2> QED
    BY <2>1
<1>6. Folds(g)
  BY <1>5
<1>7. Repeat(ReadExpected, n, r) = g[1..n]
  <2>1. DOMAIN [i \in 1..n |-> i] = 1..n
    OBVIOUS
  <2> QED
    BY <2>1 DEF Repeat, FoldLeft, MapThenFoldSet
<1> HIDE DEF g, h
<1>8. ASSUME NEW s \in SUBSET (1..n), s # {}, g[s \ {Max(s)}] = T[Cardinality(s) - 1]
      PROVE  g[s] = T[Cardinality(s)]
  BY <1>3, <1>6, <1>8, FoldSets
<1>9. g[{}] = T[0]
  BY <1>4, <1>6
<1>10. g[1..n] = T[n]
  BY <1>8, <1>9, FoldReaches
<1> QED
  BY <1>3, <1>4, <1>7, <1>10

(* What is loaded from the entries for the first m of some keys.           *)
LoadedFor(keys, values, m) == [a \in {keys[i] : i \in 1..m} |-> values[a]]

(* The pieces f are the entries for the values of the keys.                *)
EntriesWritten(keys, values, f, n) ==
  \A i \in 1..n : /\ values[keys[i]] \in Nat
                  /\ f[i] = Triple(keys[i][1], keys[i][2], values[keys[i]])

(* The reader q has the values that were written, when their entries lay   *)
(* ahead of the reader r.                                                  *)
ExpectedLoaded(r, q, n, values) ==
  \A keys \in [1..n -> Nat \X Nat], f \in Pieces(n, Nat), H \in Beginnings(n, Nat) :
    /\ EntriesWritten(keys, values, f, n) /\ Joins(H, f, n)
    /\ Ahead(r, H[n]) /\ r.expected = <<>>
    => /\ q.at = r.at + Len(H[n])
       /\ q.expected = LoadedFor(keys, values, n)

(* Entries that lie ahead are read as they were written.                   *)
LEMMA ExpectedRead ==
  ASSUME NEW r \in Readers, NEW n \in Nat, NEW values
  PROVE  LET q == Repeat(ReadExpected, n, r)
         IN  ExpectedFrame(r, q) /\ ExpectedLoaded(r, q, n, values)
<1>1. PICK T \in [0..n -> Readers] :
        /\ T[0] = r /\ \A i \in 1..n : T[i] = ReadExpected(T[i - 1])
        /\ T[n] = Repeat(ReadExpected, n, r)
  BY ReadExpectedRepeated
<1>2. ASSUME NEW i \in 1..n
      PROVE  /\ T[i - 1] \in Readers /\ ExpectedFrame(T[i - 1], T[i])
             /\ \A a, b, c \in Nat : Ahead(T[i - 1], Triple(a, b, c)) =>
                  /\ T[i].at = T[i - 1].at + 3
                  /\ T[i].expected = Put(T[i - 1].expected, <<a, b>>, c)
  <2>1. T[i - 1] \in Readers /\ T[i] = ReadExpected(T[i - 1])
    BY <1>1
  <2> QED
    BY <2>1, ReadExpectedEffect
<1> DEFINE Good == {i \in Nat : i <= n => ExpectedFrame(r, T[i])}
<1>3. 0 \in Good
  BY <1>1 DEF ExpectedFrame
<1>4. ASSUME NEW i \in Nat, i \in Good PROVE i + 1 \in Good
  <2> SUFFICES ASSUME i + 1 <= n PROVE ExpectedFrame(r, T[i + 1])
    OBVIOUS
  <2>1. i + 1 \in 1..n /\ (i + 1) - 1 = i /\ i <= n
    OBVIOUS
  <2>2. ExpectedFrame(r, T[i]) /\ ExpectedFrame(T[i], T[i + 1])
    BY <1>2, <1>4, <2>1
  <2> QED
    BY <2>2 DEF ExpectedFrame
<1> HIDE DEF Good
<1>5. ExpectedFrame(r, T[n])
  <2>1. n \in Good /\ n <= n
    BY <1>3, <1>4, NatInductionInSet
  <2> QED
    BY <2>1 DEF Good
<1>6. ASSUME NEW keys \in [1..n -> Nat \X Nat], NEW f \in Pieces(n, Nat),
             NEW H \in Beginnings(n, Nat), EntriesWritten(keys, values, f, n),
             Joins(H, f, n), Ahead(r, H[n]), r.expected = <<>>
      PROVE  /\ T[n].at = r.at + Len(H[n])
             /\ T[n].expected = LoadedFor(keys, values, n)
  <2>1. ASSUME NEW i \in 1..n, Ahead(T[i - 1], f[i])
        PROVE  /\ T[i].at = T[i - 1].at + Len(f[i])
               /\ T[i].expected = Put(T[i - 1].expected, keys[i], values[keys[i]])
    <3> DEFINE a == keys[i][1]
               b == keys[i][2]
               c == values[keys[i]]
    <3>1. a \in Nat /\ b \in Nat /\ keys[i] = <<a, b>>
      <4>1. keys[i] \in Nat \X Nat
        OBVIOUS
      <4> QED
        BY <4>1
    <3>2. c \in Nat /\ f[i] = Triple(a, b, c)
      BY <1>6 DEF EntriesWritten
    <3> HIDE DEF a, b, c
    <3>3. Len(f[i]) = 3
      BY <3>2 DEF Triple
    <3>4. T[i].at = T[i - 1].at + 3 /\ T[i].expected = Put(T[i - 1].expected, <<a, b>>, c)
      BY <1>2, <2>1, <3>1, <3>2
    <3> QED
      BY <3>1, <3>3, <3>4 DEF c
  <2>2. AdvancesOver(T, f, n)
    <3>1. ASSUME NEW i \in 1..n
          PROVE  /\ T[i].file = T[i - 1].file
                 /\ LiesAt(T[i - 1].file, T[i - 1].at, f[i]) =>
                      T[i].at = T[i - 1].at + Len(f[i])
      BY <1>2, <2>1 DEF Ahead, ExpectedFrame
    <3> QED
      BY <3>1 DEF AdvancesOver
  <2>3. T[n].at = r.at + Len(H[n]) /\ \A i \in 1..n : Ahead(T[i - 1], f[i])
    <3>1. n <= n /\ Ahead(T[0], H[n])
      BY <1>1, <1>6
    <3> QED
      BY <1>1, <1>6, <2>2, <3>1, PiecesRead
  <2> DEFINE So == {m \in Nat : m <= n => T[m].expected = LoadedFor(keys, values, m)}
  <2>4. 0 \in So
    <3>1. LoadedFor(keys, values, 0) = <<>>
      BY DEF LoadedFor
    <3> QED
      BY <1>1, <1>6, <3>1
  <2>5. ASSUME NEW m \in Nat, m \in So PROVE m + 1 \in So
    <3> SUFFICES ASSUME m + 1 <= n
                 PROVE  T[m + 1].expected = LoadedFor(keys, values, m + 1)
      OBVIOUS
    <3>1. m + 1 \in 1..n /\ (m + 1) - 1 = m /\ m <= n
      OBVIOUS
    <3>2. /\ T[m + 1].expected = Put(T[m].expected, keys[m + 1], values[keys[m + 1]])
          /\ T[m].expected = LoadedFor(keys, values, m)
      BY <2>1, <2>3, <2>5, <3>1
    <3> DEFINE K(j) == {keys[i] : i \in 1..j}
    <3>3. K(m + 1) = K(m) \cup {keys[m + 1]}
      <4>1. \A i : i \in 1..(m + 1) <=> i \in 1..m \/ i = m + 1
        OBVIOUS
      <4> QED
        BY <4>1
    <3>4. Put(LoadedFor(keys, values, m), keys[m + 1], values[keys[m + 1]])
            = [a \in K(m) \cup {keys[m + 1]} |-> values[a]]
      <4> HIDE DEF K
      <4>1. LoadedFor(keys, values, m) = [a \in K(m) |-> values[a]]
        BY DEF K, LoadedFor
      <4> QED
        BY <4>1 DEF Put
    <3>5. LoadedFor(keys, values, m + 1) = [a \in K(m + 1) |-> values[a]]
      BY DEF LoadedFor
    <3> HIDE DEF K
    <3> QED
      BY <3>2, <3>3, <3>4, <3>5
  <2> HIDE DEF So
  <2>6. n \in So
    BY <2>4, <2>5, NatInductionInSet
  <2>7. n <= n
    OBVIOUS
  <2> QED
    BY <2>3, <2>6, <2>7 DEF So
<1>7. ExpectedLoaded(r, T[n], n, values)
  BY <1>6 DEF ExpectedLoaded
<1> QED
  BY <1>1, <1>5, <1>7

(***************************************************************************)
(* The coins of the wallets                                                *)
(***************************************************************************)
(* Division with a remainder.                                              *)
LEMMA DivMod ==
  ASSUME NEW m \in Nat, NEW c \in Nat \ {0}
  PROVE  /\ m \div c \in Nat /\ m % c \in 0..(c - 1)
         /\ m = (m \div c) * c + (m % c)
OBVIOUS

(* Products with the same factor are ordered like the other factors.       *)
LEMMA ProductOrder ==
  ASSUME NEW x \in Nat, NEW y \in Nat, NEW c \in Nat
  PROVE  /\ x * c \in Nat
         /\ x < y => x * c + c <= y * c
<1>1. \A n \in Nat : n * c \in Nat
  OBVIOUS
<1>2. ASSUME x < y PROVE x * c + c <= y * c
  <2>1. PICK d \in Nat : y = x + 1 + d
    <3>1. y - (x + 1) \in Nat /\ y = x + 1 + (y - (x + 1))
      BY <1>2
    <3> QED
      BY <3>1
  <2>2. y * c = x * c + c + d * c
    BY <2>1
  <2>3. d * c \in Nat /\ x * c \in Nat
    BY <1>1
  <2> QED
    BY <2>2, <2>3
<1> QED
  BY <1>1, <1>2

CoinOf(w, i) == [coin |-> w * CoinsPerWallet + i - 1, value |-> CoinInitialValue]

(* How many of the first m coins are the wallet w's.                       *)
DealtTo(w, m) == IF m - w * CoinsPerWallet < CoinsPerWallet
                 THEN m - w * CoinsPerWallet ELSE CoinsPerWallet

(* The wallets when the first m coins have been dealt.                     *)
Dealt(m) == [w \in {v \in Nat : v * CoinsPerWallet < m} |->
               [i \in 1..DealtTo(w, m) |-> CoinOf(w, i)]]

(* One coin more: either its wallet is new, or it follows the wallet's     *)
(* other coins.                                                            *)
LEMMA OneMoreCoin ==
  ASSUME NEW m \in Nat, CoinsPerWallet # 0
  PROVE  Dealt(m + 1) = GivenTo(Dealt(m), m \div CoinsPerWallet,
                                [coin |-> m, value |-> CoinInitialValue])
<1> DEFINE c   == CoinsPerWallet
           w   == m \div c
           new == [coin |-> m, value |-> CoinInitialValue]
           D(k) == {v \in Nat : v * c < k}
           held == IF w \in D(m) THEN Dealt(m)[w] ELSE <<>>
<1>1. c \in Nat \ {0}
  BY SizesAssumption
<1> HIDE DEF c
<1>2. w \in Nat /\ m % c \in 0..(c - 1) /\ m = w * c + (m % c)
  BY <1>1, DivMod
<1> DEFINE rest == m % c
<1> HIDE DEF w, rest
<1>3. /\ rest \in Nat /\ rest < c /\ w * c \in Nat /\ m = w * c + rest
  <2>1. w * c \in Nat
    BY <1>1, <1>2, ProductOrder
  <2> QED
    BY <1>1, <1>2, <2>1 DEF rest
<1>4. ASSUME NEW v \in Nat
      PROVE  /\ v * c \in Nat
             /\ v < w => v * c + c <= w * c
             /\ w < v => w * c + c <= v * c
  BY <1>1, <1>2, ProductOrder
<1>5. ASSUME NEW v \in Nat
      PROVE  /\ v * c < m + 1 <=> v * c < m \/ v = w
             /\ v # w /\ v * c < m => m - v * c >= c
  <2>1. CASE v = w
    BY <1>3, <2>1
  <2>2. CASE v < w
    BY <1>1, <1>3, <1>4, <2>2
  <2>3. CASE w < v
    BY <1>1, <1>3, <1>4, <2>3
  <2> QED
    BY <1>2, <2>1, <2>2, <2>3
<1>6. D(m + 1) = D(m) \cup {w}
  BY <1>2, <1>5
<1>7. ASSUME NEW v \in D(m), v # w
      PROVE  DealtTo(v, m + 1) = DealtTo(v, m)
  <2>1. v \in Nat /\ v * c \in Nat /\ m - v * c >= c
    BY <1>4, <1>5, <1>7
  <2>2. (m + 1) - v * c >= c
    BY <1>1, <2>1
  <2> QED
    BY <1>1, <2>1, <2>2 DEF DealtTo, c
<1>8. DealtTo(w, m + 1) = rest + 1
  BY <1>1, <1>3 DEF DealtTo, c
<1>9. w \in D(m) => DealtTo(w, m) = rest
  BY <1>1, <1>3 DEF DealtTo, c
<1>10. w \notin D(m) => rest = 0
  BY <1>2, <1>3
<1>11. CoinOf(w, rest + 1) = new
  <2>1. w * c + (rest + 1) - 1 = m
    BY <1>3
  <2> QED
    BY <2>1 DEF CoinOf, c
<1>12. held = [i \in 1..rest |-> CoinOf(w, i)]
  <2>1. CASE w \in D(m)
    <3>1. Dealt(m)[w] = [i \in 1..DealtTo(w, m) |-> CoinOf(w, i)]
      BY <2>1 DEF Dealt, c
    <3> QED
      BY <1>9, <2>1, <3>1
  <2>2. CASE w \notin D(m)
    BY <1>10, <2>2
  <2> QED
    BY <2>1, <2>2
<1>13. Append(held, new) = [i \in 1..(rest + 1) |-> CoinOf(w, i)]
  <2> DEFINE s == [i \in 1..rest |-> CoinOf(w, i)]
  <2>1. Append(s, CoinOf(w, rest + 1)) = [i \in 1..(rest + 1) |-> CoinOf(w, i)]
    BY <1>3
  <2> HIDE DEF held
  <2> QED
    BY <1>11, <1>12, <2>1
<1> DEFINE all == [v \in D(m) \cup {w} |-> IF v = w THEN Append(held, new) ELSE Dealt(m)[v]]
<1>14. GivenTo(Dealt(m), w, new) = all
  <2>1. DOMAIN Dealt(m) = D(m)
    BY DEF Dealt, c
  <2> HIDE DEF D
  <2> QED
    BY <2>1 DEF GivenTo, Put
<1>15. ASSUME NEW v \in D(m + 1)
       PROVE  all[v] = [i \in 1..DealtTo(v, m + 1) |-> CoinOf(v, i)]
  <2>1. CASE v = w
    BY <1>6, <1>8, <1>13, <2>1
  <2>2. CASE v # w
    <3>1. v \in D(m)
      BY <1>6, <2>2
    <3>2. all[v] = Dealt(m)[v]
      BY <2>2, <3>1
    <3>3. Dealt(m)[v] = [i \in 1..DealtTo(v, m) |-> CoinOf(v, i)]
      BY <3>1 DEF Dealt, c
    <3> QED
      BY <1>7, <2>2, <3>1, <3>2, <3>3
  <2> QED
    BY <2>1, <2>2
<1>16. Dealt(m + 1) = [v \in D(m + 1) |-> [i \in 1..DealtTo(v, m + 1) |-> CoinOf(v, i)]]
  BY DEF Dealt, c
<1>17. all = [v \in D(m + 1) |-> all[v]]
  BY <1>6
<1> HIDE DEF all, D
<1>18. Dealt(m + 1) = all
  BY <1>15, <1>16, <1>17
<1> QED
  BY <1>14, <1>18 DEF w, c

(* When all the coins have been dealt, every wallet has those minted in it.*)
LEMMA AllCoinsDealt ==
  Dealt(NumWallets * CoinsPerWallet) =
    [w \in {v \in Wallets : CoinsPerWallet > 0} |-> MintedIn(w)]
<1> DEFINE c == CoinsPerWallet
           m == NumWallets * c
<1>1. c \in Nat /\ NumWallets \in Nat /\ m \in Nat
  BY SizesAssumption, ProductOrder
<1>2. ASSUME NEW v \in Nat
      PROVE  /\ v * c < m <=> v \in Wallets /\ c > 0
             /\ v \in Wallets /\ c > 0 => DealtTo(v, m) = c
  <2>1. v \in Wallets <=> v < NumWallets
    BY <1>1 DEF Wallets
  <2>2. /\ v * c \in Nat
        /\ v < NumWallets => v * c + c <= m
        /\ NumWallets < v => m + c <= v * c
    BY <1>1, ProductOrder
  <2>3. v = NumWallets => v * c = m
    OBVIOUS
  <2> HIDE DEF m
  <2>4. v * c < m => c > 0 /\ v < NumWallets
    <3>1. c = 0 => v * c = 0 /\ m = 0
      BY <1>1 DEF m
    <3> QED
      BY <1>1, <2>2, <2>3, <3>1
  <2>5. v < NumWallets /\ c > 0 => v * c < m /\ m - v * c >= c
    BY <1>1, <2>2
  <2> QED
    BY <1>1, <2>1, <2>2, <2>4, <2>5 DEF DealtTo
<1> DEFINE D == {v \in Nat : v * c < m}
           E == {v \in Wallets : c > 0}
<1>3. D = E
  <2>1. Wallets \subseteq Nat
    BY DEF Wallets
  <2> QED
    BY <1>2, <2>1
<1>4. \A v \in D : DealtTo(v, m) = c
  BY <1>2
<1>5. Dealt(m) = [w \in D |-> [i \in 1..DealtTo(w, m) |-> CoinOf(w, i)]]
  BY DEF Dealt
<1>6. \A w \in D : [i \in 1..DealtTo(w, m) |-> CoinOf(w, i)] = MintedIn(w)
  BY <1>4 DEF CoinOf, MintedIn
<1> HIDE DEF D, E
<1>7. Dealt(m) = [w \in D |-> MintedIn(w)]
  BY <1>5, <1>6
<1> QED
  BY <1>3, <1>7 DEF E

CoinCount == NumWallets * CoinsPerWallet

WalletPieces ==
  [k \in 1..CoinCount |-> Triple((k - 1) \div CoinsPerWallet, k - 1, CoinInitialValue)]

(* The text of the wallets is made of an entry for each coin.              *)
LEMMA WalletPiecesAre ==
  /\ CoinCount \in Nat /\ CoinInitialValue \in Nat
  /\ WalletPieces \in Pieces(CoinCount, Nat)
  /\ WalletText = FlattenSeq(FirstPieces(WalletPieces, CoinCount))
  /\ WalletText \in Seq(Nat)
  /\ \A k \in 1..CoinCount : /\ CoinsPerWallet # 0
                             /\ (k - 1) \div CoinsPerWallet \in Nat
<1>1. CoinCount \in Nat /\ CoinInitialValue \in Nat
  BY SizesAssumption, ValuesAssumption, ProductOrder DEF CoinCount
<1>2. ASSUME NEW k \in 1..CoinCount
      PROVE  CoinsPerWallet # 0 /\ (k - 1) \div CoinsPerWallet \in Nat
  <2>1. CoinsPerWallet # 0
    BY SizesAssumption DEF CoinCount
  <2>2. k - 1 \in Nat /\ CoinsPerWallet \in Nat \ {0}
    BY <2>1, SizesAssumption
  <2> QED
    BY <2>1, <2>2, DivMod
<1>3. \A k \in 1..CoinCount :
        Triple((k - 1) \div CoinsPerWallet, k - 1, CoinInitialValue) \in Seq(Nat)
  <2>1. ASSUME NEW a \in Nat, NEW b \in Nat, NEW c \in Nat PROVE Triple(a, b, c) \in Seq(Nat)
    BY DEF Triple
  <2>2. \A k \in 1..CoinCount : k - 1 \in Nat
    OBVIOUS
  <2> QED
    BY <1>1, <1>2, <2>1, <2>2
<1>4. WalletPieces \in Pieces(CoinCount, Nat)
  BY <1>3 DEF Pieces, WalletPieces
<1>5. WalletText = FlattenSeq(WalletPieces)
  BY DEF WalletText, WalletPieces, Triple, CoinCount
<1>6. WalletPieces = FirstPieces(WalletPieces, CoinCount)
  BY <1>4 DEF Pieces, FirstPieces
<1>7. WalletText \in Seq(Nat)
  <2> DEFINE z == 3
  <2>1. z \in Nat /\ OfSize(WalletPieces, CoinCount, z)
    BY DEF OfSize, WalletPieces, Triple
  <2> HIDE DEF z
  <2> QED
    BY <1>1, <1>4, <1>5, <2>1, EvenPieces
<1> QED
  BY <1>1, <1>2, <1>4, <1>5, <1>6, <1>7

(* The wallets are read as they were written.                              *)
LEMMA WalletsRead ==
  ASSUME NEW r \in Readers, r.wallets = <<>>
  PROVE  LET q == Repeat(ReadWallet, CoinCount, r)
         IN  /\ WalletFrame(r, q)
             /\ Ahead(r, WalletText) =>
                  /\ q.at = r.at + Len(WalletText)
                  /\ q.wallets = Dealt(CoinCount)
<1> DEFINE n == CoinCount
           f == WalletPieces
<1>0. /\ n \in Nat /\ CoinInitialValue \in Nat /\ f \in Pieces(n, Nat)
      /\ WalletText = FlattenSeq(FirstPieces(f, n))
      /\ \A k \in 1..n : CoinsPerWallet # 0 /\ (k - 1) \div CoinsPerWallet \in Nat
  BY WalletPiecesAre
<1>1. PICK T \in [0..n -> Readers] :
        /\ T[0] = r /\ \A i \in 1..n : T[i] = ReadWallet(T[i - 1])
        /\ T[n] = Repeat(ReadWallet, n, r)
  BY <1>0, ReadWalletRepeated
<1>2. \A k \in 1..n : f[k] = Triple((k - 1) \div CoinsPerWallet, k - 1, CoinInitialValue)
  BY DEF WalletPieces
<1> HIDE DEF n, f
<1>3. ASSUME NEW i \in 1..n
      PROVE  /\ T[i - 1] \in Readers /\ WalletFrame(T[i - 1], T[i])
             /\ \A w, c, v \in Nat : Ahead(T[i - 1], Triple(w, c, v)) =>
                  /\ T[i].at = T[i - 1].at + 3
                  /\ T[i].wallets = GivenTo(T[i - 1].wallets, w, [coin |-> c, value |-> v])
  <2>1. i - 1 \in 0..n
    <3>1. n \in Nat
      BY <1>0
    <3> QED
      BY <3>1
  <2>2. T[i - 1] \in Readers /\ T[i] = ReadWallet(T[i - 1])
    BY <1>1, <2>1
  <2> QED
    BY <2>2, ReadWalletEffect
<1> DEFINE Good == {i \in Nat : i <= n => WalletFrame(r, T[i])}
<1>4. 0 \in Good
  BY <1>1 DEF WalletFrame
<1>5. ASSUME NEW i \in Nat, i \in Good PROVE i + 1 \in Good
  <2> SUFFICES ASSUME i + 1 <= n PROVE WalletFrame(r, T[i + 1])
    OBVIOUS
  <2>1. i + 1 \in 1..n /\ (i + 1) - 1 = i /\ i <= n
    BY <1>0
  <2>2. WalletFrame(r, T[i]) /\ WalletFrame(T[i], T[i + 1])
    BY <1>3, <1>5, <2>1
  <2> QED
    BY <2>2 DEF WalletFrame
<1> HIDE DEF Good
<1>6. n <= n
  BY <1>0
<1>7. WalletFrame(r, T[n])
  <2>1. n \in Good
    BY <1>0, <1>4, <1>5, NatInductionInSet
  <2> QED
    BY <1>6, <2>1 DEF Good
<1>8. ASSUME Ahead(r, WalletText)
      PROVE  T[n].at = r.at + Len(WalletText) /\ T[n].wallets = Dealt(n)
  <2>1. PICK H \in Beginnings(n, Nat) : Joins(H, f, n)
    BY <1>0, JoinsExist
  <2>2. WalletText = H[n]
    BY <1>0, <1>6, <2>1, FlattenJoins
  <2>3. ASSUME NEW i \in 1..n, Ahead(T[i - 1], f[i])
        PROVE  /\ T[i].at = T[i - 1].at + Len(f[i])
               /\ T[i].wallets = GivenTo(T[i - 1].wallets, (i - 1) \div CoinsPerWallet,
                                         [coin |-> i - 1, value |-> CoinInitialValue])
    <3> DEFINE w == (i - 1) \div CoinsPerWallet
               c == i - 1
               v == CoinInitialValue
    <3>1. w \in Nat /\ v \in Nat /\ f[i] = Triple(w, c, v)
      BY <1>0, <1>2
    <3>2. c \in Nat
      BY <1>0
    <3> HIDE DEF w, c, v
    <3>3. Len(f[i]) = 3
      BY <3>1 DEF Triple
    <3>4. /\ T[i].at = T[i - 1].at + 3
          /\ T[i].wallets = GivenTo(T[i - 1].wallets, w, [coin |-> c, value |-> v])
      BY <1>3, <2>3, <3>1, <3>2
    <3> QED
      BY <3>3, <3>4 DEF w, c, v
  <2>4. AdvancesOver(T, f, n)
    <3>1. ASSUME NEW i \in 1..n
          PROVE  /\ T[i].file = T[i - 1].file
                 /\ LiesAt(T[i - 1].file, T[i - 1].at, f[i]) =>
                      T[i].at = T[i - 1].at + Len(f[i])
      BY <1>3, <2>3 DEF Ahead, WalletFrame
    <3> QED
      BY <3>1 DEF AdvancesOver
  <2>5. T[n].at = r.at + Len(H[n]) /\ \A i \in 1..n : Ahead(T[i - 1], f[i])
    <3>1. Ahead(T[0], H[n])
      BY <1>1, <1>8, <2>2
    <3> QED
      BY <1>0, <1>1, <1>6, <2>1, <2>4, <3>1, PiecesRead
  <2> DEFINE So == {m \in Nat : m <= n => T[m].wallets = Dealt(m)}
  <2>6. 0 \in So
    <3>1. Dealt(0) = <<>>
      <4>1. {v \in Nat : v * CoinsPerWallet < 0} = {}
        BY SizesAssumption, ProductOrder
      <4> DEFINE none == {v \in Nat : v * CoinsPerWallet < 0}
      <4>2. Dealt(0) = [w \in none |-> [i \in 1..DealtTo(w, 0) |-> CoinOf(w, i)]]
        BY DEF Dealt
      <4>3. none = {}
        BY <4>1
      <4> HIDE DEF none
      <4> QED
        BY <4>2, <4>3
    <3> QED
      BY <1>1, <3>1
  <2>7. ASSUME NEW m \in Nat, m \in So PROVE m + 1 \in So
    <3> SUFFICES ASSUME m + 1 <= n PROVE T[m + 1].wallets = Dealt(m + 1)
      OBVIOUS
    <3>1. m + 1 \in 1..n /\ (m + 1) - 1 = m /\ m <= n
      BY <1>0
    <3>2. /\ T[m + 1].wallets = GivenTo(T[m].wallets, m \div CoinsPerWallet,
                                        [coin |-> m, value |-> CoinInitialValue])
          /\ T[m].wallets = Dealt(m)
      BY <2>3, <2>5, <2>7, <3>1
    <3>3. CoinsPerWallet # 0
      BY <1>0, <3>1
    <3> QED
      BY <3>2, <3>3, OneMoreCoin
  <2> HIDE DEF So
  <2>8. n \in So
    BY <1>0, <2>6, <2>7, NatInductionInSet
  <2> QED
    BY <1>6, <2>2, <2>5, <2>8 DEF So
<1> QED
  BY <1>1, <1>7, <1>8 DEF n

(***************************************************************************)
(* What to_file() writes                                                   *)
(***************************************************************************)
(* A transfer has the senders and receivers asked for.                     *)
FullSize(t) ==
  Len(t.senders) = SendersPerTransfer /\ Len(t.receivers) = ReceiversPerTransfer

(* The file does not delimit the parties of a transfer: it can be read     *)
(* back because every transfer has as many as the header promises.         *)
LengthsInv == \A k \in DOMAIN transfers : FullSize(transfers[k])

(* A transfer is pushed when it has all its parts.                         *)
LEMMA NextLengths == IInv /\ PartsInv /\ LengthsInv /\ [Next]_vars => LengthsInv'
<1> SUFFICES ASSUME IInv, PartsInv, LengthsInv, [Next]_vars PROVE LengthsInv'
  OBVIOUS
<1>1. CASE PushTransfer
  <2>1. transfers' = Append(transfers, Current)
    BY <1>1 DEF PushTransfer, Current
  <2>2. /\ DOMAIN transfers' = DOMAIN transfers \cup {Len(transfers) + 1}
        /\ transfers'[Len(transfers) + 1] = Current
        /\ \A k \in DOMAIN transfers : transfers'[k] = transfers[k]
    BY <2>1, AppendDomain DEF IInv, TypeOK
  <2>3. Len(senders) = SendersPerTransfer /\ Len(receivers) = ReceiversPerTransfer
    <3>1. Len(receivers) \in Nat /\ Len(receivers) <= ReceiversPerTransfer
      BY <1>1 DEF PushTransfer, IInv, TypeOK, ListInv
    <3> QED
      BY <1>1, <3>1, SizesAssumption DEF PushTransfer, PartsInv
  <2>4. FullSize(Current)
    BY <2>3 DEF FullSize, Current
  <2> QED
    BY <2>2, <2>4 DEF LengthsInv, FullSize
<1>2. CASE UNCHANGED transfers
  BY <1>2 DEF LengthsInv, FullSize
<1>3. PushTransfer \/ UNCHANGED transfers
  BY DEF Next, Prepare, StartTransfer, SkipPicked, GiveUp, PickSender, NotEnoughFunds,
         SendersPicked, PickReceiver, Finish, Returned, vars
<1> QED
  BY <1>1, <1>2, <1>3

(* Every transfer of a workload has as many senders and receivers as the   *)
(* parameters say.                                                         *)
LEMMA LengthsHold == Spec => [](TypeOK /\ LengthsInv)
<1>1. Init => PartsInv /\ LengthsInv
  BY DEF Init, PartsInv, LengthsInv
<1>2. IInv => TypeOK
  BY DEF IInv
<1> QED
  BY <1>1, <1>2, NextParts, NextLengths, InvariantHolds, PTL DEF Spec

(* The pieces g are those of f behind the first s.                         *)
Behind(f, g, s, n) == \A i \in 1..n : g[i] = f[s + i]

(* The first N pieces together are the first s and n that follow.          *)
Together(H, N, s, G, n) == H[N] = H[s] \o G[n]

(* Pieces behind the first s are put together like pieces of their own.    *)
LEMMA JoinsBehind ==
  ASSUME NEW S, NEW s \in Nat, NEW n \in Nat, NEW N \in Nat, N = s + n,
         NEW f \in Pieces(N, S), NEW H \in Beginnings(N, S), Joins(H, f, N),
         NEW g \in Pieces(n, S), NEW G \in Beginnings(n, S), Joins(G, g, n),
         Behind(f, g, s, n)
  PROVE  Together(H, N, s, G, n)
<1> DEFINE X(m) == H[s + m]
           Good == {m \in Nat : m <= n => X(m) = H[s] \o G[m]}
<1>1. H[s] \in Seq(S)
  BY DEF Beginnings
<1>2. X(0) = H[s] \o G[0]
  <2>1. G[0] = <<>> /\ H[s] \o <<>> = H[s] /\ s + 0 = s
    BY <1>1 DEF Joins
  <2> QED
    BY <2>1
<1>0. \A a, b, c \in Seq(S) : (a \o b) \o c = a \o (b \o c)
  BY ConcatAssociative, SMTT(30)
<1>3. ASSUME NEW m \in Nat, m + 1 <= n, X(m) = H[s] \o G[m]
      PROVE  X(m + 1) = H[s] \o G[m + 1]
  <2>1. /\ m + 1 \in 1..n /\ (m + 1) - 1 = m /\ m \in 0..n
        /\ s + (m + 1) \in 1..N /\ (s + (m + 1)) - 1 = s + m
    BY <1>3
  <2> DEFINE b == G[m]
             c == g[m + 1]
             a == H[s]
  <2>2. X(m + 1) = X(m) \o f[s + (m + 1)]
    BY <2>1 DEF Joins
  <2>3. f[s + (m + 1)] = c
    BY <2>1 DEF Behind
  <2>4. G[m + 1] = b \o c
    BY <2>1 DEF Joins
  <2>5. a \in Seq(S) /\ b \in Seq(S) /\ c \in Seq(S)
    BY <1>1, <2>1 DEF Beginnings, Pieces
  <2>6. X(m) = a \o b
    BY <1>3
  <2> HIDE DEF X, a, b, c
  <2>7. (a \o b) \o c = a \o (b \o c)
    BY <1>0, <2>5, Zenon
  <2>8. X(m + 1) = a \o G[m + 1]
    BY <2>2, <2>3, <2>4, <2>6, <2>7
  <2> QED
    BY <2>8 DEF a
<1>6. X(n) = H[N]
  OBVIOUS
<1> HIDE DEF X
<1>4. 0 \in Good
  BY <1>2
<1>5. ASSUME NEW m \in Nat, m \in Good PROVE m + 1 \in Good
  <2>1. m + 1 <= n => m <= n
    OBVIOUS
  <2>2. m + 1 <= n => X(m + 1) = H[s] \o G[m + 1]
    BY <1>3, <1>5, <2>1
  <2>3. m + 1 \in Nat
    OBVIOUS
  <2> QED
    BY <2>2, <2>3
<1> HIDE DEF Good
<1>7. n \in Good
  BY <1>4, <1>5, NatInductionInSet
<1>8. n <= n
  OBVIOUS
<1> QED
  BY <1>6, <1>7, <1>8 DEF Good, Together

(* A sequence of elements of a set is one of elements of a larger set.     *)
LEMMA SeqOfMore ==
  ASSUME NEW A, NEW B, A \subseteq B, NEW q \in Seq(A)
  PROVE  q \in Seq(B)
OBVIOUS

(* What is loaded of a sender, and written of it.                          *)
LoadedSender(p) == [wallet |-> p.wallet, coins |-> <<[coin |-> p.coin, value |-> p.value]>>]

(* A sender is written as a party with its one coin.                       *)
LEMMA SenderText ==
  ASSUME NEW p \in Payments
  PROVE  /\ LoadedSender(p) \in LoadedParty
         /\ PartyText(p.wallet, <<p>>) = TextOfParty(LoadedSender(p))
<1>1. p.wallet \in Nat /\ p.coin \in Nat /\ p.value \in Nat
  BY DEF Payments, Wallets, Coins, Values
<1> DEFINE c == [coin |-> p.coin, value |-> p.value]
<1>2. c \in [coin : Nat, value : Nat] /\ c.coin = p.coin /\ c.value = p.value
  BY <1>1
<1> HIDE DEF c
<1>3. <<c>> \in LoadedCoins
  BY <1>2 DEF LoadedCoins
<1>4. LoadedSender(p) = [wallet |-> p.wallet, coins |-> <<c>>]
  BY DEF LoadedSender, c
<1>5. LoadedSender(p) \in LoadedParty
  BY <1>1, <1>3, <1>4 DEF LoadedParty
<1>6. TextOfParty(LoadedSender(p)) = PartyText(p.wallet, <<c>>)
  BY <1>4 DEF TextOfParty
<1>7. [i \in DOMAIN <<p>> |-> <<(<<p>>)[i].coin, (<<p>>)[i].value>>]
        = [i \in DOMAIN <<c>> |-> <<(<<c>>)[i].coin, (<<c>>)[i].value>>]
  BY <1>2
<1>8. Len(<<p>>) = Len(<<c>>)
  OBVIOUS
<1>9. PartyText(p.wallet, <<p>>) = PartyText(p.wallet, <<c>>)
  BY <1>7, <1>8 DEF PartyText
<1> QED
  BY <1>5, <1>6, <1>9

(* A receiver is a party with its coins, and written as one.               *)
LEMMA ReceiverText ==
  ASSUME NEW p \in Receipts
  PROVE  p \in LoadedParty /\ PartyText(p.wallet, p.coins) = TextOfParty(p)
<1>1. Wallets \subseteq Nat /\ Coins \subseteq Nat /\ Values \subseteq Nat
  BY DEF Wallets, Coins, Values
<1>2. [coin : Coins, value : Values] \subseteq [coin : Nat, value : Nat]
  BY <1>1
<1>3. \A q \in Seq([coin : Coins, value : Values]) : q \in LoadedCoins
  BY <1>2, SeqOfMore DEF LoadedCoins
<1>4. p \in LoadedParty
  BY <1>1, <1>3 DEF Receipts, LoadedParty
<1> QED
  BY <1>4 DEF TextOfParty

(* A transfer is written as its senders and receivers, one after the other.*)
LEMMA TransferTextIs ==
  ASSUME NEW t \in Transfers, FullSize(t)
  PROVE  /\ PartiesOf(t) \in [1..WalletsPerTransfer -> LoadedParty]
         /\ TransferText(t) = TextOfParties(PartiesOf(t))
         /\ TransferText(t) \in Seq(Nat)
<1> DEFINE s  == SendersPerTransfer
           r  == ReceiversPerTransfer
           N  == s + r
           ps == PartiesOf(t)
           fs == [i \in 1..s |-> PartyText(t.senders[i].wallet, <<t.senders[i]>>)]
           fr == [i \in 1..r |-> PartyText(t.receivers[i].wallet, t.receivers[i].coins)]
           f  == [i \in 1..N |-> TextOfParty(ps[i])]
<1>1. s \in Nat /\ r \in Nat /\ N \in Nat /\ N = s + r /\ WalletsPerTransfer = N
  BY SizesAssumption DEF WalletsPerTransfer
<1>2. /\ t.senders \in Seq(Payments) /\ t.receivers \in Seq(Receipts)
      /\ Len(t.senders) = s /\ Len(t.receivers) = r
  BY DEF Transfers, FullSize
<1>3. DOMAIN t.senders = 1..s /\ DOMAIN t.receivers = 1..r
  BY <1>2
<1>4. /\ \A i \in 1..s : t.senders[i] \in Payments
      /\ \A i \in 1..r : t.receivers[i] \in Receipts
  BY <1>2
<1>5. SendersText(t) = FlattenSeq(fs)
  BY <1>3 DEF SendersText
<1>6. TransferText(t) = SendersText(t) \o FlattenSeq(fr)
  BY <1>3 DEF TransferText
<1> DEFINE a == [i \in 1..s |-> LoadedSender(t.senders[i])]
<1>7. ps = a \o t.receivers
  BY <1>3 DEF PartiesOf, LoadedSender
<1> HIDE DEF s, r, ps, N
<1>8. a \in Seq(LoadedParty) /\ Len(a) = s /\ \A i \in 1..s : a[i] = LoadedSender(t.senders[i])
  <2>1. \A i \in 1..s : LoadedSender(t.senders[i]) \in LoadedParty
    BY <1>4, SenderText
  <2> QED
    BY <1>1, <2>1
<1> HIDE DEF a
<1>9. t.receivers \in Seq(LoadedParty)
  <2>1. \A i \in 1..r : t.receivers[i] \in LoadedParty
    BY <1>4, ReceiverText
  <2> QED
    BY <1>2, <2>1
<1>10. ps \in Seq(LoadedParty) /\ Len(ps) = N
  <2>1. ps \in Seq(LoadedParty) /\ Len(ps) = Len(a) + Len(t.receivers)
    BY <1>7, <1>8, <1>9, Concatenation
  <2> QED
    BY <1>1, <1>2, <1>8, <2>1
<1>11. ps \in [1..N -> LoadedParty]
  BY <1>1, <1>10
<1>26. Begins(a, ps) /\ LiesAt(ps, s, t.receivers)
  BY <1>7, <1>8, <1>9, Concatenation
<1>12. \A i \in 1..s : ps[i] = LoadedSender(t.senders[i])
  BY <1>8, <1>26 DEF Begins
<1>13. \A i \in 1..r : ps[s + i] = t.receivers[i]
  BY <1>2, <1>26 DEF LiesAt
<1>14. f \in Pieces(N, Nat) /\ TextOfParties(ps) = FlattenSeq(FirstPieces(f, N))
  BY <1>1, <1>11, PartyPieces
<1>15. fs = FirstPieces(f, s)
  <2>1. ASSUME NEW i \in 1..s
        PROVE  f[i] = PartyText(t.senders[i].wallet, <<t.senders[i]>>)
    <3>1. i \in 1..N
      BY <1>1
    <3>2. PartyText(t.senders[i].wallet, <<t.senders[i]>>) = TextOfParty(LoadedSender(t.senders[i]))
      BY <1>4, SenderText
    <3> QED
      BY <1>12, <3>1, <3>2
  <2> HIDE DEF f
  <2> QED
    BY <2>1 DEF FirstPieces
<1>16. Behind(f, fr, s, r)
  <2>1. ASSUME NEW i \in 1..r PROVE fr[i] = f[s + i]
    <3>1. s + i \in 1..N
      BY <1>1
    <3>2. fr[i] = TextOfParty(t.receivers[i])
      BY <1>4, ReceiverText
    <3> QED
      BY <1>13, <3>1, <3>2
  <2> QED
    BY <2>1 DEF Behind
<1>17. fr \in Pieces(r, Nat)
  <2>1. \A i \in 1..r : PartyText(t.receivers[i].wallet, t.receivers[i].coins) \in Seq(Nat)
    <3>1. ASSUME NEW i \in 1..r
          PROVE  PartyText(t.receivers[i].wallet, t.receivers[i].coins) \in Seq(Nat)
      <4> DEFINE p == t.receivers[i]
      <4>1. p \in LoadedParty /\ PartyText(p.wallet, p.coins) = TextOfParty(p)
        BY <1>4, ReceiverText
      <4> HIDE DEF p
      <4>2. Tells(TextOfParty(p), p.wallet, p.coins)
        BY <4>1, TextOfPartyIs
      <4>3. PartyText(p.wallet, p.coins) \in Seq(Nat)
        BY <4>1, <4>2 DEF Tells
      <4> QED
        BY <4>3 DEF p
    <3> QED
      BY <3>1
  <2> QED
    BY <2>1 DEF Pieces
<1>18. fr = FirstPieces(fr, r)
  BY DEF FirstPieces
<1> HIDE DEF f, fs, fr
<1>19. s <= N /\ N <= N /\ r <= r
  BY <1>1
<1>20. PICK H \in Beginnings(N, Nat) : Joins(H, f, N)
  BY <1>1, <1>14, JoinsExist
<1>21. PICK G \in Beginnings(r, Nat) : Joins(G, fr, r)
  BY <1>1, <1>17, JoinsExist
<1>22. FlattenSeq(fs) = H[s] /\ TextOfParties(ps) = H[N]
  BY <1>1, <1>14, <1>15, <1>19, <1>20, FlattenJoins
<1>23. FlattenSeq(fr) = G[r]
  BY <1>1, <1>17, <1>18, <1>19, <1>21, FlattenJoins
<1>24. H[N] = H[s] \o G[r]
  <2>1. s \in Nat /\ r \in Nat /\ N \in Nat
    BY <1>1
  <2>2. N = s + r
    BY <1>1
  <2>3. f \in Pieces(N, Nat)
    BY <1>14
  <2>4. Together(H, N, s, G, r)
    BY <1>16, <1>17, <1>20, <1>21, <2>1, <2>2, <2>3, JoinsBehind
  <2> QED
    BY <2>4 DEF Together
<1>25. H[N] \in Seq(Nat)
  <2>1. N \in 0..N
    BY <1>1
  <2> QED
    BY <2>1 DEF Beginnings
<1> QED
  BY <1>1, <1>5, <1>6, <1>11, <1>22, <1>23, <1>24, <1>25 DEF ps

TransferPieces == [k \in 1..Len(transfers) |-> TransferText(transfers[k])]

Loadable == [k \in 1..Len(transfers) |-> PartiesOf(transfers[k])]

(* The pieces that the text of the transfers is put together from, which   *)
(* are the texts of the parties that will be loaded.                       *)
TransferPiecesRight ==
  /\ Len(transfers) \in Nat /\ DOMAIN transfers = 1..Len(transfers)
  /\ TransferPieces \in Pieces(Len(transfers), Nat)
  /\ Loadable \in LoadableTransfers(Len(transfers), WalletsPerTransfer)
  /\ \A k \in 1..Len(transfers) : TransferPieces[k] = TextOfParties(Loadable[k])
  /\ TransfersText = FlattenSeq(FirstPieces(TransferPieces, Len(transfers)))
  /\ \A k \in 1..Len(transfers) :
       FlattenSeq([j \in 1..k |-> TransferText(transfers[j])])
         = FlattenSeq(FirstPieces(TransferPieces, k))

(* The text of the transfers is made of a piece for each.                  *)
LEMMA TransferPiecesAre ==
  ASSUME TypeOK, LengthsInv
  PROVE  TransferPiecesRight
<1> DEFINE n == Len(transfers)
<1>1. n \in Nat /\ DOMAIN transfers = 1..n /\ transfers \in Seq(Transfers)
  BY DEF TypeOK
<1>2. ASSUME NEW k \in 1..n
      PROVE  /\ PartiesOf(transfers[k]) \in [1..WalletsPerTransfer -> LoadedParty]
             /\ TransferText(transfers[k]) = TextOfParties(PartiesOf(transfers[k]))
             /\ TransferText(transfers[k]) \in Seq(Nat)
  <2>1. transfers[k] \in Transfers /\ FullSize(transfers[k])
    BY <1>1 DEF LengthsInv
  <2> QED
    BY <2>1, TransferTextIs
<1>3. TransferPieces \in Pieces(n, Nat)
  BY <1>2 DEF TransferPieces, Pieces
<1>4. Loadable \in LoadableTransfers(n, WalletsPerTransfer)
  BY <1>2 DEF Loadable, LoadableTransfers
<1>5. \A k \in 1..n : TransferPieces[k] = TextOfParties(Loadable[k])
  BY <1>2 DEF TransferPieces, Loadable
<1>6. FirstPieces(TransferPieces, n) = TransferPieces
  BY DEF FirstPieces, TransferPieces
<1>7. TransfersText = FlattenSeq(TransferPieces)
  BY <1>1 DEF TransfersText, TransferPieces
<1>8. ASSUME NEW k \in 1..n
      PROVE  FirstPieces(TransferPieces, k) = [j \in 1..k |-> TransferText(transfers[j])]
  <2>1. \A j \in 1..k : TransferPieces[j] = TransferText(transfers[j])
    BY <1>1 DEF TransferPieces
  <2> QED
    BY <2>1 DEF FirstPieces
<1> QED
  BY <1>1, <1>3, <1>4, <1>5, <1>6, <1>7, <1>8 DEF TransferPiecesRight

(* The accounts listed are accounts.                                       *)
LEMMA AccountsType ==
  ASSUME TypeOK
  PROVE  Accounts \in Seq(Wallets \X Coins)
<1> DEFINE size == CoinCount
           N == NumWallets * size
           account(n) == <<(n - 1) \div size, (n - 1) % size>>
           f == [n \in 1..N |-> IF \/ expected[account(n)] > 0
                                   \/ account(n)[2] \in CoinsOf(account(n)[1])
                                THEN <<account(n)>> ELSE <<>>]
<1>1. size \in Nat /\ NumWallets \in Nat /\ N \in Nat
  BY WalletPiecesAre, SizesAssumption, ProductOrder
<1>2. Wallets = 0..(NumWallets - 1) /\ Coins = 0..(size - 1)
  BY DEF Wallets, Coins, CoinCount
<1>3. Accounts = FlattenSeq(f)
  BY DEF Accounts, CoinCount
<1> HIDE DEF size
<1>4. ASSUME NEW n \in 1..N PROVE account(n) \in Wallets \X Coins
  <2> DEFINE w == (n - 1) \div size
  <2>1. size # 0
    BY <1>1
  <2>2. n - 1 \in Nat /\ n - 1 < N /\ size \in Nat \ {0}
    BY <1>1, <2>1
  <2>3. w \in Nat /\ (n - 1) % size \in 0..(size - 1) /\ n - 1 = w * size + ((n - 1) % size)
    BY <2>2, DivMod
  <2>4. w < NumWallets
    <3> HIDE DEF w
    <3>1. /\ w * size \in Nat
          /\ NumWallets < w => N + size <= w * size
      BY <1>1, <2>3, ProductOrder
    <3>2. NumWallets = w => N = w * size
      OBVIOUS
    <3> HIDE DEF N
    <3> QED
      BY <1>1, <2>2, <2>3, <3>1, <3>2
  <2> DEFINE x == (n - 1) % size
  <2>5. account(n) = <<w, x>>
    OBVIOUS
  <2>6. x \in Coins
    BY <1>2, <2>3
  <2> HIDE DEF account, w, x
  <2>7. w \in Wallets
    BY <1>1, <1>2, <2>3, <2>4
  <2> QED
    BY <2>5, <2>6, <2>7
<1> HIDE DEF account, N
<1>5. f \in Pieces(N, Wallets \X Coins)
  <2>1. \A n \in 1..N : <<account(n)>> \in Seq(Wallets \X Coins)
    BY <1>4
  <2>2. <<>> \in Seq(Wallets \X Coins)
    OBVIOUS
  <2> QED
    BY <2>1, <2>2 DEF Pieces
<1> HIDE DEF f
<1>6. f = FirstPieces(f, N)
  BY <1>5 DEF FirstPieces, Pieces
<1>7. PICK H \in Beginnings(N, Wallets \X Coins) : Joins(H, f, N)
  BY <1>1, <1>5, JoinsExist
<1>8. N <= N /\ N \in 0..N
  BY <1>1
<1>9. FlattenSeq(f) = H[N]
  BY <1>1, <1>5, <1>6, <1>7, <1>8, FlattenJoins
<1>10. H[N] \in Seq(Wallets \X Coins)
  BY <1>8 DEF Beginnings
<1> QED
  BY <1>3, <1>9, <1>10

ExpectedPieces ==
  [n \in 1..Len(Accounts) |-> Triple(Accounts[n][1], Accounts[n][2], expected[Accounts[n]])]

(* The same of the expected values.                                        *)
ExpectedPiecesRight ==
  /\ Len(Accounts) \in Nat
  /\ Accounts \in [1..Len(Accounts) -> Nat \X Nat]
  /\ ExpectedPieces \in Pieces(Len(Accounts), Nat)
  /\ \A i \in 1..Len(Accounts) :
       /\ expected[Accounts[i]] \in Nat
       /\ ExpectedPieces[i] = Triple(Accounts[i][1], Accounts[i][2], expected[Accounts[i]])
  /\ ExpectedText = FlattenSeq(FirstPieces(ExpectedPieces, Len(Accounts)))
  /\ ExpectedText \in Seq(Nat)

(* The text of the expected values is made of an entry for each account.   *)
LEMMA ExpectedPiecesAre ==
  ASSUME TypeOK
  PROVE  ExpectedPiecesRight
<1> DEFINE n == Len(Accounts)
           f == ExpectedPieces
<1>1. Accounts \in Seq(Wallets \X Coins)
  BY AccountsType
<1>2. n \in Nat /\ DOMAIN Accounts = 1..n /\ \A i \in 1..n : Accounts[i] \in Wallets \X Coins
  BY <1>1
<1>3. Wallets \subseteq Nat /\ Coins \subseteq Nat /\ Values \subseteq Nat
  BY DEF Wallets, Coins, Values
<1>4. expected \in [Wallets \X Coins -> Values]
  BY DEF TypeOK
<1>5. ExpectedText = FlattenSeq(f)
  BY <1>2 DEF ExpectedText, ExpectedPieces, Triple
<1>6. \A i \in 1..n : f[i] = Triple(Accounts[i][1], Accounts[i][2], expected[Accounts[i]])
  BY DEF ExpectedPieces
<1>7. f = [i \in 1..n |-> f[i]]
  BY DEF ExpectedPieces
<1> HIDE DEF n, f
<1>8. ASSUME NEW i \in 1..n
      PROVE  /\ Accounts[i] \in Nat \X Nat
             /\ Accounts[i][1] \in Nat /\ Accounts[i][2] \in Nat
             /\ expected[Accounts[i]] \in Nat
  <2> DEFINE a == Accounts[i]
  <2>1. a \in Wallets \X Coins
    BY <1>2
  <2> HIDE DEF a
  <2>2. a \in Nat \X Nat /\ a[1] \in Nat /\ a[2] \in Nat
    BY <1>3, <2>1
  <2>3. expected[a] \in Values
    BY <1>4, <2>1
  <2> QED
    BY <1>3, <2>2, <2>3 DEF a
<1>9. \A i \in 1..n : f[i] \in Seq(Nat) /\ Len(f[i]) = 3
  <2>1. ASSUME NEW a \in Nat, NEW b \in Nat, NEW c \in Nat
        PROVE  Triple(a, b, c) \in Seq(Nat) /\ Len(Triple(a, b, c)) = 3
    BY DEF Triple
  <2>2. ASSUME NEW i \in 1..n
        PROVE  f[i] \in Seq(Nat) /\ Len(f[i]) = 3
    <3> DEFINE a == Accounts[i][1]
               b == Accounts[i][2]
               c == expected[Accounts[i]]
    <3>1. a \in Nat /\ b \in Nat /\ c \in Nat /\ f[i] = Triple(a, b, c)
      BY <1>6, <1>8
    <3> HIDE DEF a, b, c
    <3> QED
      BY <2>1, <3>1
  <2> QED
    BY <2>2
<1>10. f \in Pieces(n, Nat)
  BY <1>7, <1>9 DEF Pieces
<1>11. FirstPieces(f, n) = f
  BY <1>7 DEF FirstPieces
<1>12. ExpectedText \in Seq(Nat)
  <2> DEFINE z == 3
  <2>1. z \in Nat /\ OfSize(f, n, z)
    BY <1>9 DEF OfSize
  <2> HIDE DEF z
  <2> QED
    BY <1>2, <1>5, <1>10, <2>1, EvenPieces
<1>13. Accounts \in [1..n -> Nat \X Nat]
  <2>1. Accounts = [i \in 1..n |-> Accounts[i]]
    BY <1>1, <1>2
  <2> QED
    BY <1>8, <2>1
<1> QED
  BY <1>2, <1>5, <1>6, <1>8, <1>10, <1>11, <1>12, <1>13 DEF n, f, ExpectedPiecesRight

(* Four texts that follow each other.                                      *)
LEMMA FourTexts ==
  ASSUME NEW S, NEW a \in Seq(S), NEW b \in Seq(S), NEW c \in Seq(S), NEW d \in Seq(S)
  PROVE  LET text == a \o b \o c \o d
         IN  /\ text \in Seq(S)
             /\ Len(text) = Len(a) + Len(b) + Len(c) + Len(d)
             /\ LiesAt(text, 0, a)
             /\ LiesAt(text, Len(a), b)
             /\ LiesAt(text, Len(a) + Len(b), c)
             /\ LiesAt(text, Len(a) + Len(b) + Len(c), d)
<1> DEFINE ab   == a \o b
           abc  == ab \o c
           text == abc \o d
<1>1. /\ ab \in Seq(S) /\ Len(ab) = Len(a) + Len(b)
      /\ Begins(a, ab) /\ LiesAt(ab, Len(a), b)
  BY Concatenation
<1> HIDE DEF ab
<1>2. /\ abc \in Seq(S) /\ Len(abc) = Len(ab) + Len(c)
      /\ Begins(ab, abc) /\ LiesAt(abc, Len(ab), c)
  BY <1>1, Concatenation
<1> HIDE DEF abc
<1>3. /\ text \in Seq(S) /\ Len(text) = Len(abc) + Len(d)
      /\ Begins(abc, text) /\ LiesAt(text, Len(abc), d)
  BY <1>2, Concatenation
<1>4. text = a \o b \o c \o d
  BY DEF ab, abc
<1> HIDE DEF text
<1>5. Begins(ab, text) /\ Begins(a, text)
  BY <1>1, <1>2, <1>3, BeginsTransitive
<1>6. LiesAt(text, Len(a), b) /\ LiesAt(text, Len(ab), c)
  BY <1>1, <1>2, <1>3, <1>5, LiesInLonger
<1>7. LiesAt(text, 0, a)
  BY <1>5 DEF Begins, LiesAt
<1> QED
  BY <1>1, <1>2, <1>3, <1>4, <1>6, <1>7

(* What from_file() takes from the header.                                 *)
HeaderRight ==
  /\ HeaderText \in Seq(Nat) /\ Len(HeaderText) = 10
  /\ SubSeq(HeaderText, 1, 8) = Parameters
  /\ HeaderText[1] * HeaderText[2] = CoinCount
  /\ HeaderText[4] + HeaderText[5] = WalletsPerTransfer
  /\ HeaderText[9] = Len(transfers) /\ HeaderText[10] = Len(Accounts)

(* The header has the parameters and the two counts.                       *)
LEMMA HeaderIs ==
  ASSUME TypeOK
  PROVE  HeaderRight
<1> DEFINE a == Parameters
           b == <<Len(transfers), Len(Accounts)>>
<1>1. Len(transfers) \in Nat /\ Len(Accounts) \in Nat
  <2>1. transfers \in Seq(Transfers)
    BY DEF TypeOK
  <2> QED
    BY <2>1, ExpectedPiecesAre DEF ExpectedPiecesRight
<1>2. b \in Seq(Nat) /\ Len(b) = 2 /\ b[1] = Len(transfers) /\ b[2] = Len(Accounts)
  BY <1>1
<1>3. /\ NumWallets \in Nat /\ CoinsPerWallet \in Nat /\ TransfersPerWallet \in Nat
      /\ SendersPerTransfer \in Nat /\ ReceiversPerTransfer \in Nat
      /\ CoinInitialValue \in Nat /\ TransferValue \in Nat /\ RandomSeed \in Nat
  BY SizesAssumption, ValuesAssumption, FileAssumption
<1>4. /\ a \in Seq(Nat) /\ Len(a) = 8 /\ a[1] = NumWallets /\ a[2] = CoinsPerWallet
      /\ a[4] = SendersPerTransfer /\ a[5] = ReceiversPerTransfer
  BY <1>3 DEF Parameters
<1>5. HeaderText = a \o b
  BY DEF HeaderText
<1> HIDE DEF a, b
<1>11. /\ HeaderText \in Seq(Nat) /\ Len(HeaderText) = Len(a) + Len(b)
       /\ Begins(a, HeaderText) /\ LiesAt(HeaderText, Len(a), b)
  BY <1>2, <1>4, <1>5, Concatenation
<1>6. HeaderText \in Seq(Nat) /\ Len(HeaderText) = 10
  BY <1>2, <1>4, <1>11
<1>7. \A i \in 1..8 : HeaderText[i] = a[i]
  BY <1>4, <1>11 DEF Begins
<1>8. HeaderText[8 + 1] = b[1] /\ HeaderText[8 + 2] = b[2]
  <2>1. \A j \in 1..2 : HeaderText[8 + j] = b[j]
    BY <1>2, <1>4, <1>11 DEF LiesAt
  <2>2. 1 \in 1..2 /\ 2 \in 1..2
    OBVIOUS
  <2> QED
    BY <2>1, <2>2
<1>9. SubSeq(HeaderText, 1, 8) = a
  <2>1. a = [i \in 1..8 |-> a[i]]
    BY <1>4
  <2>2. SubSeq(HeaderText, 1, 8) = [i \in 1..8 |-> HeaderText[i]]
    BY <1>6
  <2> QED
    BY <1>7, <2>1, <2>2
<1>10. 1 \in 1..8 /\ 2 \in 1..8 /\ 4 \in 1..8 /\ 5 \in 1..8 /\ 8 + 1 = 9 /\ 8 + 2 = 10
  OBVIOUS
<1> QED
  BY <1>2, <1>4, <1>6, <1>7, <1>8, <1>9, <1>10 DEF a, CoinCount, WalletsPerTransfer, HeaderRight

(* Where the four parts of the file start.                                 *)
WalletsAt   == 10
TransfersAt == WalletsAt + Len(WalletText)
ExpectedAt  == TransfersAt + Len(TransfersText)

(* Each part of the file is where the reader gets to it.                   *)
TextRight ==
  /\ Text \in Seq(Nat)
  /\ Len(Text) = ExpectedAt + Len(ExpectedText)
  /\ Len(WalletText) \in Nat /\ Len(TransfersText) \in Nat /\ Len(ExpectedText) \in Nat
  /\ LiesAt(Text, 0, HeaderText)
  /\ LiesAt(Text, WalletsAt, WalletText)
  /\ LiesAt(Text, TransfersAt, TransfersText)
  /\ LiesAt(Text, ExpectedAt, ExpectedText)

(* The file has its four parts where they start.                           *)
LEMMA TextIs ==
  ASSUME TypeOK, LengthsInv
  PROVE  TextRight
<1>1. HeaderText \in Seq(Nat) /\ Len(HeaderText) = WalletsAt
  BY HeaderIs DEF HeaderRight, WalletsAt
<1>2. WalletText \in Seq(Nat)
  BY WalletPiecesAre
<1>3. TransfersText \in Seq(Nat)
  <2> DEFINE n == Len(transfers)
             f == TransferPieces
  <2>1. /\ n \in Nat /\ f \in Pieces(n, Nat)
        /\ TransfersText = FlattenSeq(FirstPieces(f, n))
    BY TransferPiecesAre DEF TransferPiecesRight
  <2> HIDE DEF n, f
  <2>2. PICK H \in Beginnings(n, Nat) : Joins(H, f, n)
    BY <2>1, JoinsExist
  <2>3. n <= n /\ n \in 0..n
    BY <2>1
  <2>4. TransfersText = H[n]
    BY <2>1, <2>2, <2>3, FlattenJoins
  <2> QED
    BY <2>3, <2>4 DEF Beginnings
<1>4. ExpectedText \in Seq(Nat)
  BY ExpectedPiecesAre DEF ExpectedPiecesRight
<1> DEFINE a == HeaderText
           b == WalletText
           c == TransfersText
           d == ExpectedText
<1>5. Text = a \o b \o c \o d
  BY DEF Text
<1>6. a \in Seq(Nat) /\ b \in Seq(Nat) /\ c \in Seq(Nat) /\ d \in Seq(Nat)
  BY <1>1, <1>2, <1>3, <1>4
<1> HIDE DEF a, b, c, d
<1>7. /\ Text \in Seq(Nat)
      /\ Len(Text) = Len(a) + Len(b) + Len(c) + Len(d)
      /\ LiesAt(Text, 0, a)
      /\ LiesAt(Text, Len(a), b)
      /\ LiesAt(Text, Len(a) + Len(b), c)
      /\ LiesAt(Text, Len(a) + Len(b) + Len(c), d)
  BY <1>5, <1>6, FourTexts
<1>8. Len(b) \in Nat /\ Len(c) \in Nat /\ Len(d) \in Nat
  BY <1>6
<1> QED
  BY <1>1, <1>7, <1>8 DEF a, b, c, d, TextRight, TransfersAt, ExpectedAt

(* The first m numbers of a file are those of a text.                      *)
Agrees(file, text, m) ==
  /\ m \in Nat /\ Len(file) \in Nat /\ Len(text) \in Nat
  /\ m <= Len(file) /\ m <= Len(text)
  /\ \A j \in 1..m : file[j] = text[j]

(* What lies in the text before the cut lies in the file.                  *)
LEMMA LiesInFile ==
  ASSUME NEW file, NEW text, NEW m, Agrees(file, text, m),
         NEW at, NEW b, LiesAt(text, at, b), at + Len(b) <= m
  PROVE  LiesAt(file, at, b)
<1>1. /\ m \in Nat /\ at \in Nat /\ Len(b) \in Nat /\ Len(file) \in Nat
      /\ at + Len(b) <= m /\ m <= Len(file)
  BY DEF Agrees, LiesAt
<1>2. ASSUME NEW j \in 1..Len(b) PROVE file[at + j] = b[j]
  <2>1. at + j \in 1..m
    BY <1>1
  <2>2. file[at + j] = text[at + j]
    BY <2>1 DEF Agrees
  <2> QED
    BY <2>2 DEF LiesAt
<1> QED
  BY <1>1, <1>2 DEF LiesAt

Start(file, left) == Read(Opened(file, left), "header")

(* The reader behind the header.                                           *)
StartRight(r, file) ==
  /\ r \in Readers /\ r.file = file /\ r.at = WalletsAt /\ r.header = HeaderText
  /\ r.wallets = <<>> /\ r.transfers = <<>> /\ r.expected = <<>>

(* The header is read as it was written.                                   *)
LEMMA HeaderRead ==
  ASSUME TypeOK, LengthsInv, NEW file \in Seq(Nat), NEW left \in Nat,
         NEW m, Agrees(file, Text, m), WalletsAt <= m
  PROVE  StartRight(Start(file, left), file)
<1> DEFINE o == Opened(file, left)
           q == Start(file, left)
<1>1. /\ o \in Readers /\ o.file = file /\ o.at = 0
      /\ o.wallets = <<>> /\ o.transfers = <<>> /\ o.expected = <<>>
  <2>1. <<>> \in LoadedCoins /\ <<>> \in LoadedParties /\ <<>> \in Seq(LoadedParties)
    BY DEF LoadedCoins, LoadedParties
  <2>2. <<>> \in LoadedWallets
    <3>1. <<>> \in [{} -> LoadedCoins] /\ {} \in SUBSET Nat
      OBVIOUS
    <3> QED
      BY <3>1 DEF LoadedWallets
  <2>3. <<>> \in LoadedValues
    <3>1. <<>> \in [{} -> Nat] /\ {} \in SUBSET (Nat \X Nat)
      OBVIOUS
    <3> QED
      BY <3>1 DEF LoadedValues
  <2>4. /\ [k \in 1..10 |-> left] \in [1..10 -> Nat]
        /\ <<left, left, left>> \in [1..3 -> Nat]
        /\ <<left, left>> \in [1..2 -> Nat]
    OBVIOUS
  <2>5. Len(file) \in Nat /\ 0 <= Len(file)
    OBVIOUS
  <2> QED
    BY <2>1, <2>2, <2>3, <2>4, <2>5 DEF Opened, Readers, ReaderRecords
<1>2. "header" \in Slots /\ SlotSize("header") = 10
      /\ "header" # "entry" /\ "header" # "party" /\ "header" # "coin"
  BY DEF Slots, SlotSize
<1> HIDE DEF o
<1>3. q = Read(o, "header")
  BY DEF Start, o
<1> HIDE DEF q
<1>4. 0 + 10 <= Len(file) /\ m \in Nat /\ Len(file) \in Nat
  BY DEF Agrees, WalletsAt
<1>5. /\ q \in Readers /\ q.file = o.file /\ q.wallets = o.wallets
      /\ q.transfers = o.transfers /\ q.expected = o.expected
      /\ o.at + 10 <= Len(o.file) =>
           q.at = o.at + 10 /\ \A k \in 1..10 : q.header[k] = o.file[o.at + k]
  <2> DEFINE z == SlotSize("header")
             p == Read(o, "header")
  <2>1. /\ p \in Readers /\ p.file = o.file /\ p.wallets = o.wallets
        /\ p.transfers = o.transfers /\ p.expected = o.expected
        /\ o.at + z <= Len(o.file) =>
             p.at = o.at + z /\ \A k \in 1..z : p.header[k] = o.file[o.at + k]
    BY <1>1, <1>2, ReadEffect
  <2> QED
    BY <1>2, <1>3, <2>1
<1>6. q.at = WalletsAt /\ \A k \in 1..10 : q.header[k] = file[k]
  BY <1>1, <1>4, <1>5 DEF WalletsAt
<1>7. HeaderText \in Seq(Nat) /\ Len(HeaderText) = 10
  BY HeaderIs DEF HeaderRight
<1>8. \A k \in 1..10 : file[k] = HeaderText[k]
  <2>1. LiesAt(Text, 0, HeaderText)
    BY TextIs DEF TextRight
  <2>2. LiesAt(file, 0, HeaderText)
    <3>1. 0 + Len(HeaderText) <= m
      BY <1>7 DEF WalletsAt
    <3> QED
      BY <2>1, <3>1, LiesInFile
  <2>3. \A k \in 1..10 : file[0 + k] = HeaderText[k]
    BY <1>7, <2>2 DEF LiesAt
  <2>4. \A k \in 1..10 : 0 + k = k
    OBVIOUS
  <2> QED
    BY <2>3, <2>4
<1>9. q.header = HeaderText
  <2>1. q.header \in [1..10 -> Nat]
    BY <1>5, ReaderTypes
  <2>2. HeaderText \in [1..10 -> Nat]
    <3>1. \A s \in Seq(Nat) : s \in [1..Len(s) -> Nat]
      OBVIOUS
    <3> QED
      BY <1>7, <3>1
  <2>3. \A k \in 1..10 : q.header[k] = HeaderText[k]
    BY <1>6, <1>8
  <2> DEFINE D == 1..10
             x == q.header
             y == HeaderText
  <2>4. x \in [D -> Nat] /\ y \in [D -> Nat] /\ \A k \in D : x[k] = y[k]
    BY <2>1, <2>2, <2>3
  <2> HIDE DEF D, x, y
  <2>5. x = y
    BY <2>4
  <2> QED
    BY <2>5 DEF x, y
<1> QED
  BY <1>1, <1>5, <1>6, <1>9 DEF StartRight, q

(***************************************************************************)
(* What from_file() gets                                                   *)
(***************************************************************************)
Filled(r) == Repeat(ReadWallet, CoinCount, r)
Pushed(r) == Repeat(ReadTransfer, Len(transfers), r)
Loaded(r) == Repeat(ReadExpected, Len(Accounts), r)

(* from_file() reads as many wallets, transfers and values as were written.*)
LEMMA FromFileReads ==
  ASSUME TypeOK, NEW file, NEW left, StartRight(Start(file, left), file)
  PROVE  FromFile(file, left) = Loaded(Pushed(Filled(Start(file, left))))
<1> DEFINE start == Start(file, left)
<1>1. start.header = HeaderText
  BY DEF StartRight
<1>2. /\ start.header[1] * start.header[2] = CoinCount
      /\ start.header[9] = Len(transfers) /\ start.header[10] = Len(Accounts)
  BY <1>1, HeaderIs DEF HeaderRight
<1>3. FromFile(file, left) =
        Repeat(ReadExpected, start.header[10],
               Repeat(ReadTransfer, start.header[9],
                      Repeat(ReadWallet, start.header[1] * start.header[2], start)))
  BY DEF FromFile, Start
<1> QED
  BY <1>2, <1>3 DEF Loaded, Pushed, Filled

(* A transfer that ends before the file stops being what was written, and  *)
(* everything when it never does, is loaded as it was generated.           *)
LoadedRight(got, file, m) ==
  /\ got.header = HeaderText /\ got.file = file
  /\ Len(got.transfers) = Len(transfers)
  /\ \A k \in 1..Len(transfers) :
       EndOfTransfer(k) <= m => got.transfers[k] = PartiesOf(transfers[k])
  /\ m = Len(Text) =>
       /\ got.at = m
       /\ got.wallets = Dealt(CoinCount)
       /\ got.transfers = Loadable
       /\ got.expected = LoadedFor(Accounts, expected, Len(Accounts))

(* What from_file() makes of a file that is the text up to the cut: the    *)
(* reader goes through the transfers before the cut as through the text    *)
(* that was written, whatever its variables held before, and behind the    *)
(* cut what it has read is never touched again.                            *)
LEMMA FileIsLoaded ==
  ASSUME TypeOK, LengthsInv, NEW file \in Seq(Nat), NEW left \in Nat,
         NEW m, Agrees(file, Text, m), WalletsAt <= m
  PROVE  LoadedRight(FromFile(file, left), file, m)
<1> DEFINE r0 == Start(file, left)
           r1 == Filled(r0)
           r2 == Pushed(r1)
           r3 == Loaded(r2)
           n  == Len(transfers)
           f  == TransferPieces
           WT == WalletText
<1>1. StartRight(r0, file)
  BY HeaderRead
<1>2. FromFile(file, left) = r3
  BY <1>1, FromFileReads
<1> HIDE DEF r0
<1>3. /\ r0 \in Readers /\ r0.file = file /\ r0.at = WalletsAt /\ r0.header = HeaderText
      /\ r0.wallets = <<>> /\ r0.transfers = <<>> /\ r0.expected = <<>>
  BY <1>1 DEF StartRight
<1>4. /\ WalletFrame(r0, r1)
      /\ Ahead(r0, WT) => r1.at = r0.at + Len(WT) /\ r1.wallets = Dealt(CoinCount)
  BY <1>3, WalletsRead DEF Filled
<1> HIDE DEF r1
<1>5. /\ r1 \in Readers /\ r1.file = file /\ r1.header = HeaderText
      /\ r1.transfers = <<>> /\ r1.expected = <<>>
  BY <1>3, <1>4 DEF WalletFrame
<1>6. /\ n \in Nat /\ f \in Pieces(n, Nat)
      /\ Loadable \in LoadableTransfers(n, WalletsPerTransfer)
      /\ TransfersWritten(Loadable, f, n)
      /\ TransfersText = FlattenSeq(FirstPieces(f, n))
      /\ \A k \in 1..n : FlattenSeq([j \in 1..k |-> TransferText(transfers[j])])
                           = FlattenSeq(FirstPieces(f, k))
  BY TransferPiecesAre DEF TransferPiecesRight, TransfersWritten
<1>7. PartiesPerTransfer(r1) = WalletsPerTransfer
  BY <1>5, HeaderIs DEF HeaderRight, PartiesPerTransfer
<1> HIDE DEF n, f
<1>8. /\ TransferFrame(r1, r2)
      /\ r2.transfers \in [1..n -> LoadedParties]
      /\ TransfersLoaded(r1, r2, n, WalletsPerTransfer)
  <2>1. r2 = Repeat(ReadTransfer, n, r1)
    BY DEF n, Pushed
  <2> QED
    BY <1>5, <1>6, <1>7, <2>1, TransfersRead
<1> HIDE DEF r2
<1>9. r2 \in Readers /\ r2.file = file /\ r2.header = HeaderText /\ r2.expected = <<>>
      /\ r2.wallets = r1.wallets
  BY <1>5, <1>8 DEF TransferFrame
<1>10. PICK H \in Beginnings(n, Nat) : Joins(H, f, n)
  BY <1>6, JoinsExist
<1>11. n <= n /\ n \in 0..n
  BY <1>6
<1>12. TransfersText = H[n]
  BY <1>6, <1>10, <1>11, FlattenJoins
<1>13. \A k \in 0..n : /\ H[k] \in Seq(Nat) /\ Len(H[k]) \in Nat
                       /\ Begins(H[k], H[n])
  <2>1. \A k \in 0..n : H[k] \in Seq(Nat)
    BY DEF Beginnings
  <2>2. \A k \in 0..n : Begins(H[k], H[n])
    BY <1>6, <1>10, <1>11, JoinedPieces
  <2> QED
    BY <2>1, <2>2
<1>14. /\ Len(WT) \in Nat /\ Len(Text) \in Nat
       /\ LiesAt(Text, WalletsAt, WT) /\ LiesAt(Text, TransfersAt, TransfersText)
       /\ LiesAt(Text, ExpectedAt, ExpectedText)
       /\ Len(Text) = ExpectedAt + Len(ExpectedText)
       /\ Len(TransfersText) \in Nat /\ Len(ExpectedText) \in Nat
  BY TextIs DEF TextRight
<1>15. TransfersAt = WalletsAt + Len(WT) /\ TransfersAt \in Nat /\ WalletsAt \in Nat
  BY <1>14 DEF TransfersAt, WalletsAt
<1>16. ExpectedAt = TransfersAt + Len(TransfersText) /\ ExpectedAt \in Nat
  BY <1>14, <1>15 DEF ExpectedAt
<1> HIDE DEF WT
<1>17. m \in Nat
  BY DEF Agrees
<1>18. ASSUME TransfersAt <= m
       PROVE  r1.at = TransfersAt /\ r1.wallets = Dealt(CoinCount)
  <2>1. LiesAt(file, WalletsAt, WT)
    BY <1>14, <1>15, <1>18, LiesInFile
  <2>2. Ahead(r0, WT)
    BY <1>3, <2>1 DEF Ahead
  <2> QED
    BY <1>3, <1>4, <1>15, <2>2
<1>19. ASSUME NEW k \in 0..n, TransfersAt + Len(H[k]) <= m
       PROVE  /\ \A i \in 1..k : r2.transfers[i] = Loadable[i]
              /\ k = n => r2.at = ExpectedAt
  <2>1. Len(H[k]) \in Nat /\ Begins(H[k], H[n])
    BY <1>13
  <2>2. TransfersAt <= m
    <3> DEFINE a == TransfersAt
               b == Len(H[k])
    <3>1. a \in Nat /\ b \in Nat /\ m \in Nat /\ a + b <= m
      BY <1>15, <1>17, <1>19, <2>1
    <3> HIDE DEF a, b
    <3>2. a <= m
      BY <3>1
    <3> QED
      BY <3>2 DEF a
  <2>3. r1.at = TransfersAt
    BY <1>18, <2>2
  <2>4. LiesAt(Text, TransfersAt, H[k])
    <3>1. LiesAt(H[n], 0, H[k])
      BY <2>1 DEF Begins, LiesAt
    <3>2. LiesAt(Text, TransfersAt + 0, H[k])
      BY <1>12, <1>14, <3>1, LiesInside
    <3>3. TransfersAt + 0 = TransfersAt
      BY <1>15
    <3> QED
      BY <3>2, <3>3
  <2>5. LiesAt(file, TransfersAt, H[k])
    BY <1>19, <2>4, LiesInFile
  <2>6. Ahead(r1, H[k])
    BY <1>5, <2>3, <2>5 DEF Ahead
  <2>7. /\ \A i \in 1..k : r2.transfers[i] = Loadable[i]
        /\ k = n => r2.at = r1.at + Len(H[n])
    BY <1>6, <1>8, <1>10, <2>6 DEF TransfersLoaded
  <2> QED
    BY <1>12, <1>16, <2>3, <2>7
<1>20. ASSUME NEW k \in 1..n, EndOfTransfer(k) <= m
       PROVE  r2.transfers[k] = PartiesOf(transfers[k])
  <2>1. k \in 0..n /\ k \in Nat /\ k <= n /\ k \in 1..k
    BY <1>6
  <2>2. FlattenSeq(FirstPieces(f, k)) = H[k]
    BY <1>6, <1>10, <2>1, FlattenJoins
  <2>3. EndOfTransfer(k) = TransfersAt + Len(H[k])
    <3>1. Len(HeaderText) = WalletsAt
      BY HeaderIs DEF HeaderRight, WalletsAt
    <3>2. FlattenSeq([j \in 1..k |-> TransferText(transfers[j])]) = H[k]
      BY <1>6, <2>2
    <3> QED
      BY <1>15, <3>1, <3>2 DEF EndOfTransfer, WT
  <2>4. r2.transfers[k] = Loadable[k]
    BY <1>19, <1>20, <2>1, <2>3
  <2>5. Loadable[k] = PartiesOf(transfers[k])
    BY DEF Loadable, n
  <2> QED
    BY <2>4, <2>5
<1>21. Len(r2.transfers) = n
  BY <1>6, <1>8
<1> DEFINE e == ExpectedPieces
           N == Len(Accounts)
<1>22. /\ N \in Nat /\ Accounts \in [1..N -> Nat \X Nat] /\ e \in Pieces(N, Nat)
       /\ EntriesWritten(Accounts, expected, e, N)
       /\ ExpectedText = FlattenSeq(FirstPieces(e, N))
  BY ExpectedPiecesAre DEF ExpectedPiecesRight, EntriesWritten
<1> HIDE DEF N, e
<1>23. ExpectedFrame(r2, r3) /\ ExpectedLoaded(r2, r3, N, expected)
  <2>1. r3 = Repeat(ReadExpected, N, r2)
    BY DEF N, Loaded
  <2> QED
    BY <1>9, <1>22, <2>1, ExpectedRead
<1> HIDE DEF r3
<1>24. /\ r3.file = file /\ r3.header = HeaderText /\ r3.transfers = r2.transfers
       /\ r3.wallets = r1.wallets
  BY <1>9, <1>23 DEF ExpectedFrame
<1>25. ASSUME m = Len(Text)
       PROVE  /\ r3.at = m /\ r3.wallets = Dealt(CoinCount) /\ r3.transfers = Loadable
              /\ r3.expected = LoadedFor(Accounts, expected, N)
  <2>1. TransfersAt + Len(H[n]) <= m /\ TransfersAt <= m
    <3> DEFINE a == TransfersAt
               b == Len(TransfersText)
               c == Len(ExpectedText)
    <3>1. /\ a \in Nat /\ b \in Nat /\ c \in Nat /\ ExpectedAt = a + b
          /\ Len(Text) = ExpectedAt + c
      BY <1>14, <1>15, <1>16
    <3>2. m = (a + b) + c /\ b = Len(H[n])
      BY <1>12, <1>25, <3>1
    <3> HIDE DEF a, b, c
    <3>3. a + b <= m /\ a <= m
      BY <3>1, <3>2
    <3> QED
      BY <3>2, <3>3 DEF a
  <2>2. r1.wallets = Dealt(CoinCount)
    BY <1>18, <2>1
  <2>3. r2.at = ExpectedAt /\ \A i \in 1..n : r2.transfers[i] = Loadable[i]
    BY <1>11, <1>19, <2>1
  <2>4. r2.transfers = Loadable
    <3>1. Loadable = [k \in 1..n |-> Loadable[k]]
      BY DEF Loadable, n
    <3>2. r2.transfers = [k \in 1..n |-> r2.transfers[k]]
      BY <1>8
    <3> HIDE DEF n
    <3> QED
      BY <2>3, <3>1, <3>2
  <2>5. PICK G \in Beginnings(N, Nat) : Joins(G, e, N)
    BY <1>22, JoinsExist
  <2>6. ExpectedText = G[N]
    <3>1. N <= N
      BY <1>22
    <3> QED
      BY <1>22, <2>5, <3>1, FlattenJoins
  <2>7. Ahead(r2, G[N])
    <3>1. LiesAt(file, ExpectedAt, ExpectedText)
      <4>1. ExpectedAt + Len(ExpectedText) <= m
        BY <1>14, <1>16, <1>17, <1>25
      <4> QED
        BY <1>14, <4>1, LiesInFile
    <3> QED
      BY <1>9, <2>3, <2>6, <3>1 DEF Ahead
  <2>8. /\ r3.at = r2.at + Len(G[N])
        /\ r3.expected = LoadedFor(Accounts, expected, N)
    BY <1>9, <1>22, <1>23, <2>5, <2>7 DEF ExpectedLoaded
  <2> QED
    BY <1>14, <1>24, <1>25, <2>2, <2>3, <2>4, <2>6, <2>8
<1> QED
  BY <1>2, <1>20, <1>21, <1>24, <1>25 DEF LoadedRight, n, N

(* What a file that was cut short still is: up to some m the text, with at *)
(* most one number, that was cut itself, behind that.                      *)
CutAt(file, m) ==
  file \in Seq(Nat) /\ Agrees(file, Text, m) /\ WalletsAt <= m /\ Len(file) <= m + 1

(* However much of the text the disk takes, the numbers before the cut are *)
(* those of the text.                                                      *)
LEMMA FileAgrees ==
  ASSUME TypeOK, LengthsInv, NEW file \in ToFile, Len(file) > Len(HeaderText)
  PROVE  \E m \in Nat : CutAt(file, m)
<1> DEFINE text == Text
           size == Len(text)
<1>1. /\ text \in Seq(Nat) /\ size \in Nat
      /\ Len(HeaderText) = WalletsAt
  BY TextIs, HeaderIs DEF TextRight, HeaderRight, WalletsAt
<1>2. WalletsAt < Len(file) /\ WalletsAt \in Nat
  BY <1>1 DEF WalletsAt
<1>3. PICK n \in FullAt \cup {size} : file \in Fitting(text, n)
  BY DEF ToFile
<1> HIDE DEF text
<1>4. n \in Nat
  BY <1>1, FileAssumption
<1>5. CASE n >= size
  <2>1. file = text
    BY <1>3, <1>5 DEF Fitting
  <2>2. Agrees(file, text, size)
    BY <1>1, <2>1 DEF Agrees
  <2>3. WalletsAt <= size /\ Len(file) <= size + 1
    BY <1>1, <1>2, <2>1
  <2>4. CutAt(file, size)
    BY <1>1, <2>1, <2>2, <2>3 DEF CutAt, text
  <2> QED
    BY <1>1, <2>4
<1>6. CASE n < size
  <2> DEFINE cut == SubSeq(text, 1, n)
             d   == text[n + 1] \div Radix
  <2>1. file = cut \/ file = Append(cut, d)
    <3>1. ~ (n >= size)
      BY <1>1, <1>4, <1>6
    <3> QED
      BY <1>3, <3>1 DEF Fitting
  <2>2. cut \in Seq(Nat) /\ Len(cut) = n /\ \A j \in 1..n : cut[j] = text[j]
    BY <1>1, <1>4, <1>6
  <2>3. d \in Nat
    <3>1. text[n + 1] \in Nat
      <4>1. n + 1 \in 1..size
        BY <1>1, <1>4, <1>6
      <4> QED
        BY <1>1, <4>1
    <3>2. Radix \in Nat \ {0} /\ Radix \in Nat /\ Radix > 0
      BY FileAssumption
    <3> DEFINE x == text[n + 1]
    <3> HIDE DEF x
    <3>3. x \in Nat => x \div Radix \in Nat
      BY <3>2, DivMod
    <3> QED
      BY <3>1, <3>3 DEF x
  <2> HIDE DEF cut, d
  <2>4. /\ file \in Seq(Nat) /\ Len(file) \in n..(n + 1)
        /\ \A j \in 1..n : file[j] = text[j]
    <3>1. CASE file = cut
      BY <1>4, <2>2, <3>1
    <3>2. CASE file = Append(cut, d)
      <4>1. /\ file \in Seq(Nat) /\ Len(file) = Len(cut) + 1
            /\ \A j \in 1..Len(cut) : file[j] = cut[j]
        BY <2>2, <2>3, <3>2, AppendProperties
      <4> QED
        BY <1>4, <2>2, <4>1
    <3> QED
      BY <2>1, <3>1, <3>2
  <2>5. Agrees(file, text, n)
    BY <1>1, <1>4, <1>6, <2>4 DEF Agrees
  <2>6. WalletsAt <= n /\ Len(file) <= n + 1
    BY <1>2, <1>4, <2>4
  <2>7. CutAt(file, n)
    BY <2>4, <2>5, <2>6 DEF CutAt, text
  <2> QED
    BY <1>4, <2>7
<1> QED
  BY <1>1, <1>4, <1>5, <1>6

(* A file that was written completely is the text, which has a header.     *)
LEMMA WholeFile ==
  ASSUME TypeOK, LengthsInv
  PROVE  CutAt(Text, Len(Text))
<1>1. /\ Text \in Seq(Nat) /\ Len(Text) = ExpectedAt + Len(ExpectedText)
      /\ Len(WalletText) \in Nat /\ Len(TransfersText) \in Nat /\ Len(ExpectedText) \in Nat
  BY TextIs DEF TextRight
<1>2. WalletsAt <= Len(Text) /\ Len(Text) \in Nat
  BY <1>1 DEF WalletsAt, TransfersAt, ExpectedAt
<1>3. Agrees(Text, Text, Len(Text))
  BY <1>2 DEF Agrees
<1> QED
  BY <1>1, <1>2, <1>3 DEF CutAt

(* A state that the program can be in has the first property.              *)
LEMMA WorkloadLoads ==
  TypeOK /\ LengthsInv => LoadsWhatWasGenerated
<1> SUFFICES ASSUME TypeOK, LengthsInv, NEW left \in Leftovers
             PROVE  /\ SubSeq(FromFile(Text, left).header, 1, 8) = Parameters
                    /\ FromFile(Text, left).wallets
                         = [w \in {v \in Wallets : CoinsPerWallet > 0} |-> MintedIn(w)]
                    /\ FromFile(Text, left).transfers
                         = [k \in DOMAIN transfers |-> PartiesOf(transfers[k])]
                    /\ FromFile(Text, left).expected = [a \in ToSet(Accounts) |-> expected[a]]
                    /\ NumbersLeft(FromFile(Text, left)) = 0
  BY DEF LoadsWhatWasGenerated
<1> DEFINE got == FromFile(Text, left)
<1>1. left \in Nat
  BY FileAssumption
<1>2. LoadedRight(got, Text, Len(Text))
  <2>1. CutAt(Text, Len(Text))
    BY WholeFile
  <2> QED
    BY <1>1, <2>1, FileIsLoaded DEF CutAt
<1> HIDE DEF got
<1>3. /\ got.header = HeaderText /\ got.file = Text /\ got.at = Len(Text)
      /\ got.wallets = Dealt(CoinCount) /\ got.transfers = Loadable
      /\ got.expected = LoadedFor(Accounts, expected, Len(Accounts))
  BY <1>2 DEF LoadedRight
<1>4. SubSeq(got.header, 1, 8) = Parameters
  BY <1>3, HeaderIs DEF HeaderRight
<1>5. got.wallets = [w \in {v \in Wallets : CoinsPerWallet > 0} |-> MintedIn(w)]
  BY <1>3, AllCoinsDealt DEF CoinCount
<1>6. got.transfers = [k \in DOMAIN transfers |-> PartiesOf(transfers[k])]
  <2>1. transfers \in Seq(Transfers)
    BY DEF TypeOK
  <2>2. DOMAIN transfers = 1..Len(transfers)
    BY <2>1
  <2> QED
    BY <1>3, <2>2 DEF Loadable
<1>7. got.expected = [a \in ToSet(Accounts) |-> expected[a]]
  <2>1. Accounts \in [1..Len(Accounts) -> Nat \X Nat]
    BY ExpectedPiecesAre DEF ExpectedPiecesRight
  <2>2. ToSet(Accounts) = {Accounts[i] : i \in 1..Len(Accounts)}
    BY <2>1 DEF ToSet
  <2> QED
    BY <1>3, <2>2 DEF LoadedFor
<1>8. NumbersLeft(got) = 0
  <2>1. Len(Text) \in Nat
    BY TextIs DEF TextRight
  <2> QED
    BY <1>3, <2>1 DEF NumbersLeft
<1> QED
  BY <1>4, <1>5, <1>6, <1>7, <1>8 DEF got

(* The end of a transfer is a place in the file.                           *)
LEMMA EndsSomewhere ==
  ASSUME TypeOK, LengthsInv, NEW k \in 1..Len(transfers)
  PROVE  EndOfTransfer(k) \in Nat
<1> DEFINE n == Len(transfers)
           f == TransferPieces
<1>1. /\ n \in Nat /\ f \in Pieces(n, Nat)
      /\ \A i \in 1..n : FlattenSeq([j \in 1..i |-> TransferText(transfers[j])])
                           = FlattenSeq(FirstPieces(f, i))
  BY TransferPiecesAre DEF TransferPiecesRight
<1>2. k \in 1..n
  OBVIOUS
<1> HIDE DEF n, f
<1>3. PICK H \in Beginnings(n, Nat) : Joins(H, f, n)
  BY <1>1, JoinsExist
<1>4. k \in 0..n /\ k \in Nat /\ k <= n
  BY <1>1, <1>2
<1>5. FlattenSeq(FirstPieces(f, k)) = H[k]
  BY <1>1, <1>3, <1>4, FlattenJoins
<1>6. H[k] \in Seq(Nat)
  BY <1>4 DEF Beginnings
<1>7. Len(FlattenSeq([j \in 1..k |-> TransferText(transfers[j])])) \in Nat
  BY <1>1, <1>2, <1>5, <1>6
<1>8. Len(HeaderText) \in Nat /\ Len(WalletText) \in Nat
  BY HeaderIs, TextIs DEF HeaderRight, TextRight
<1> QED
  BY <1>7, <1>8 DEF EndOfTransfer

(* And the second one.                                                     *)
LEMMA CutWorkloadLoads ==
  TypeOK /\ LengthsInv => BeforeTheCutAsGenerated
<1> SUFFICES ASSUME TypeOK, LengthsInv, NEW file \in ToFile, Len(file) > Len(HeaderText),
                    NEW left \in Leftovers
             PROVE  /\ Len(FromFile(file, left).transfers) = Len(transfers)
                    /\ \A k \in DOMAIN transfers :
                         EndOfTransfer(k) < Len(file) =>
                           FromFile(file, left).transfers[k] = PartiesOf(transfers[k])
  BY DEF BeforeTheCutAsGenerated
<1> DEFINE got == FromFile(file, left)
<1>1. left \in Nat
  BY FileAssumption
<1>2. PICK m \in Nat : CutAt(file, m)
  BY FileAgrees
<1>3. LoadedRight(got, file, m)
  BY <1>1, <1>2, FileIsLoaded DEF CutAt
<1> HIDE DEF got
<1>4. Len(got.transfers) = Len(transfers)
  BY <1>3 DEF LoadedRight
<1>5. ASSUME NEW k \in DOMAIN transfers, EndOfTransfer(k) < Len(file)
      PROVE  got.transfers[k] = PartiesOf(transfers[k])
  <2>1. k \in 1..Len(transfers)
    <3>1. transfers \in Seq(Transfers)
      BY DEF TypeOK
    <3> QED
      BY <3>1
  <2>2. EndOfTransfer(k) \in Nat
    BY <2>1, EndsSomewhere
  <2>3. Len(file) \in Nat /\ Len(file) <= m + 1
    BY <1>2 DEF CutAt, Agrees
  <2>4. EndOfTransfer(k) <= m
    BY <1>2, <1>5, <2>2, <2>3
  <2> QED
    BY <1>3, <2>1, <2>4 DEF LoadedRight
<1> QED
  BY <1>4, <1>5 DEF got

(* For every size of the workload, every random choice and whatever the    *)
(* variables of from_file() held before: what generate_workload saved on a *)
(* disk with room for it is loaded as it was generated, parameters,        *)
(* wallets, transfers and final values, and no number of the file is left  *)
(* over.                                                                   *)
THEOREM WorkloadIsLoaded == Spec => []LoadsWhatWasGenerated
<1>1. TypeOK /\ LengthsInv => LoadsWhatWasGenerated
  BY WorkloadLoads
<1> QED
  BY <1>1, LengthsHold, PTL

(* Wherever the disk was full, inside a number too, behind the header:     *)
(* as many transfers are loaded as were generated, and those that were     *)
(* written before the last number of the file are the generated ones.      *)
THEOREM CutWorkloadIsLoaded == Spec => []BeforeTheCutAsGenerated
<1>1. TypeOK /\ LengthsInv => BeforeTheCutAsGenerated
  BY CutWorkloadLoads
<1> QED
  BY <1>1, LengthsHold, PTL
=============================================================================
