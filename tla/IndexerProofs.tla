--------------------------- MODULE IndexerProofs ---------------------------
(***************************************************************************)
(* Proofs about the indexers that follow contracts and channels: CosmWasm  *)
(* codes, their passes and verifications first, then IBC documents,        *)
(* packets and the relayer's numbers.                                      *)
(***************************************************************************)
EXTENDS WasmVerifier, IbcPackets, SumTheorems, FiniteSetTheorems, TLAPS

\* What a worker has of its code in the database, when it is past saving it.
Busy == {"fetch", "page", "inc", "count", "write"}
Taken == {"find", "save"}

\* A code that no pass will miss, and all below n.
Known(j) ==
    \/ code[j].stored \/ j \in lost
    \/ \E p \in Passes : j \in Ahead(p) \cup InHand(p)
KnownBelow(n) == \A j \in 1..(n - 1) : Known(j)

WorkerOK(p, k) ==
    LET w == worker[p][k] IN
    /\ w.at # "idle" => k <= latest
    /\ w.at \in Busy => code[k].stored
    /\ w.at # "page" => \A c \in Contracts : w.hand[c] = "no"
    /\ w.at = "write" => w.read <= Cardinality(ContractsOf(k))

PassOK(p) ==
    /\ started = "no" => pass[p].at = "rest"
    /\ pass[p].at \notin {"work", "new", "list"} => \A k \in Codes : worker[p][k].at = "idle"
    /\ \A k \in pass[p].left : code[k].stored

\* Codes are taken in an order in which nothing below them is forgotten.
InOrder ==
    /\ \A k \in Codes : code[k].stored => k <= latest /\ KnownBelow(k)
    /\ \A p \in Passes : \A k \in InHand(p) : KnownBelow(k)
    /\ \A p \in Passes : pass[p].at = "new" => KnownBelow(pass[p].next)

PlacesOK == \A p \in Passes : PassOK(p) /\ \A k \in Codes : WorkerOK(p, k)

WasmInv == IndexTypeOK /\ PlacesOK /\ InOrder /\ CountHolds

-----------------------------------------------------------------------------
(* The shape of a step: one pass moves, or the worker of one code.           *)

AheadOf(r) == CASE r.at = "page" -> IF r.below = 0 THEN Codes ELSE 1..(r.below - 1)
                [] r.at = "work" -> 1..(r.below - 1)
                [] r.at = "new" -> r.next..r.upto
                [] OTHER -> {}

LEMMA AheadIs == \A p : Ahead(p) = AheadOf(pass[p])
  BY DEF Ahead, AheadOf

CodeType == [stored : BOOLEAN, count : Nat]
ContractType == [code : 0..latest, migration : 0..latest]

\* What a worker counts as added and not yet replaced by a count.
Added(w) == IF w.at \in {"count", "write"} THEN w.news ELSE 0

\* Worker k of pass p goes to w.
WorkerMoves(p, k, w) ==
    LET u == worker[p][k] IN
    /\ w \in WorkerType /\ worker' = [worker EXCEPT ![p][k] = w]
    /\ UNCHANGED <<wasmScene, migrations, latest, home, migrated, state, started, pass>>
    /\ failures' \in 0..wasmScene.faults
    /\ code' \in [Codes -> CodeType] /\ contract' \in [Contracts -> ContractType]
    /\ lost' \subseteq Codes /\ cut' \subseteq Codes
    /\ u.at # "idle"
    /\ w.at \in Busy => code'[k].stored
    /\ w.at # "page" => \A c \in Contracts : w.hand[c] = "no"
    /\ \A j \in Codes : code[j].stored => code'[j].stored
    /\ \A j \in Codes : code'[j].stored => code[j].stored \/ (j = k /\ u.at = "save")
    /\ \A c \in Contracts : contract[c].code # None => contract'[c].code = contract[c].code
    /\ w.at = "write" => w.read <= Cardinality(ContractsOf(k)')
    /\ u.at \in Taken => w.at \in Taken \/ code'[k].stored \/ k \in lost'
    /\ w.at \in Taken => u.at \in Taken
    /\ \A j \in lost : j \in lost' \/ code'[j].stored
    /\ \A j \in Codes \ {k} : code'[j].count = code[j].count /\ (j \in cut => j \in cut')
    /\ \/ k \in cut'
       \/ code'[k].count <= Cardinality(ContractsOf(k))
       \/ k \notin cut /\ code'[k].count + Added(u) <= code[k].count + Added(w)

\* Pass p goes to r, its workers to ws.
PassMoves(p, r, ws) ==
    /\ r \in PassType /\ ws \in [Codes -> WorkerType]
    /\ pass' = [pass EXCEPT ![p] = r] /\ worker' = [worker EXCEPT ![p] = ws]
    /\ UNCHANGED <<wasmScene, migrations, latest, home, migrated, code, contract, cut>>
    /\ failures' \in 0..wasmScene.faults
    /\ state' \in [full : BOOLEAN, codes : 0..latest, contracts : 0..Cardinality(Contracts)]
    /\ started' \in {"first", "timers"}
    /\ lost' \subseteq Codes /\ lost \subseteq lost'
    /\ \A k \in Codes : \/ ws[k] = worker[p][k]
                        \/ /\ worker[p][k].at = "idle" /\ ws[k].at \in {"idle", "find", "fetch"}
                           /\ ws[k].at # "idle" => k <= latest
                           /\ ws[k].at = "fetch" => code[k].stored
                           /\ \A c \in Contracts : ws[k].hand[c] = "no"
    /\ r.at \notin {"work", "new", "list"} => \A k \in Codes : ws[k].at = "idle"
    /\ \A k \in r.left : code[k].stored
    /\ \A j \in 1..latest : j \in AheadOf(pass[p]) \cup InHand(p) =>
          j \in lost' \/ code[j].stored \/ j \in AheadOf(r) \/ ws[j].at \in Taken
    /\ \A k \in Codes : ws[k].at \in Taken => worker[p][k].at \in Taken \/ KnownBelow(k)
    /\ r.at = "new" => KnownBelow(r.next)

-----------------------------------------------------------------------------
(* Counting.                                                                 *)

LEMMA FewCodes == IsFiniteSet(Codes)
  BY WasmAssumption, FS_Interval DEF WasmAssumption, Codes

LEMMA SomeContracts ==
    ASSUME NEW S \in SUBSET Contracts
    PROVE  IsFiniteSet(S) /\ Cardinality(S) \in Nat /\ Cardinality(S) <= Cardinality(Contracts)
  BY WasmAssumption, FS_Subset, FS_CardinalityType DEF WasmAssumption

\* The greatest of some codes is the greatest.
LEMMA GreatestIs ==
    ASSUME IndexTypeOK, \A k \in Codes : code[k].stored => k <= latest
    PROVE  /\ Greatest \in 0..latest
           /\ Greatest # 0 => code[Greatest].stored
           /\ \A k \in Codes : code[k].stored => k <= Greatest
  <1> DEFINE S == StoredCodes
             N == {n \in Nat : \A k \in S : k <= n}
  <1>1. latest \in Nat /\ latest \in 0..MaxCode /\ MaxCode \in Nat
    BY WasmAssumption DEF IndexTypeOK, WasmAssumption
  <1>2. S \subseteq 1..latest /\ S = {k \in Codes : code[k].stored}
    BY <1>1 DEF StoredCodes, Codes
  <1> HIDE DEF S
  <1>3. CASE S = {}
    BY <1>1, <1>2, <1>3 DEF Greatest, S
  <1>4. CASE S # {}
    <2>1. latest \in N
      BY <1>1, <1>2
    <2>2. N \subseteq Nat /\ N # {}
      BY <2>1
    <2>3. PICK n \in N : \A m \in N : n <= m
      <3> HIDE DEF N
      <3> QED BY <2>2, LeastNumber
    <2>4. n \in S
      <3> SUFFICES ASSUME n \notin S PROVE FALSE
        OBVIOUS
      <3>1. PICK k \in S : TRUE
        BY <1>4
      <3>2. \A j \in S : j <= n - 1
        BY <1>1, <1>2, <2>2, <2>3
      <3>3. n - 1 \in Nat
        BY <1>1, <1>2, <2>2, <2>3, <3>1, <3>2
      <3>4. n - 1 \in N
        BY <3>2, <3>3
      <3> QED BY <2>2, <2>3, <3>3, <3>4
    <2>5. \A k \in S : k <= n
      BY <2>3
    <2>6. Max(S) = n
      <3>1. \A x \in S : (\A y \in S : x >= y) => x = n
        BY <1>1, <1>2, <2>4, <2>5
      <3>2. \A y \in S : n >= y
        BY <1>1, <1>2, <2>4, <2>5
      <3> QED BY <2>4, <3>1, <3>2 DEF Max
    <2>7. Greatest = n
      BY <1>4, <2>6 DEF Greatest, S
    <2> QED BY <1>1, <1>2, <2>4, <2>5, <2>7
  <1> QED BY <1>3, <1>4

-----------------------------------------------------------------------------
(* A step of a worker keeps the invariant.                                   *)

LEMMA Moved ==
    ASSUME IndexTypeOK, NEW p \in Passes, NEW k \in Codes, NEW w, WorkerMoves(p, k, w)
    PROVE  /\ worker' \in [Passes -> [Codes -> WorkerType]]
           /\ worker'[p][k] = w
           /\ \A q \in Passes, j \in Codes : q # p \/ j # k => worker'[q][j] = worker[q][j]
  <1>1. worker \in [Passes -> [Codes -> WorkerType]] /\ w \in WorkerType
        /\ worker' = [worker EXCEPT ![p][k] = w]
    BY DEF IndexTypeOK, WorkerMoves
  <1> QED BY <1>1

LEMMA MovedTypes ==
    ASSUME IndexTypeOK, NEW p \in Passes, NEW k \in Codes, NEW w, WorkerMoves(p, k, w)
    PROVE  IndexTypeOK'
  <1>1. worker' \in [Passes -> [Codes -> WorkerType]]
    BY Moved
  <1>2. /\ wasmScene' \in WasmScenes /\ failures' \in 0..wasmScene'.faults
        /\ migrations' \in 0..wasmScene'.migrations /\ latest' \in 0..wasmScene'.codes
        /\ home' \in [Contracts -> 0..latest'] /\ migrated' \subseteq Contracts
        /\ code' \in [Codes -> CodeType] /\ contract' \in [Contracts -> ContractType']
        /\ started' \in {"no", "first", "timers"}
        /\ lost' \subseteq Codes /\ cut' \subseteq Codes
    BY DEF IndexTypeOK, WorkerMoves, ContractType
  <1>3. latest' = latest /\ PassType' = PassType /\ pass' = pass /\ WorkerType' = WorkerType /\ state' = state
    BY DEF WorkerMoves, PassType, WorkerType
  <1> QED BY <1>1, <1>2, <1>3 DEF IndexTypeOK, CodeType, ContractType

LEMMA ContractsStay ==
    ASSUME IndexTypeOK, NEW p \in Passes, NEW k \in Codes, NEW w, WorkerMoves(p, k, w), NEW j \in Codes
    PROVE  /\ ContractsOf(j) \subseteq ContractsOf(j)'
           /\ Cardinality(ContractsOf(j)) \in Nat /\ Cardinality(ContractsOf(j)') \in Nat
           /\ Cardinality(ContractsOf(j)) <= Cardinality(ContractsOf(j)')
  <1>1. j # 0 /\ ContractsOf(j) \subseteq ContractsOf(j)' /\ ContractsOf(j)' \in SUBSET Contracts
    BY WasmAssumption DEF WorkerMoves, ContractsOf, Codes, None, WasmAssumption
  <1>2. IsFiniteSet(ContractsOf(j)') /\ ContractsOf(j) \in SUBSET Contracts
    BY <1>1, SomeContracts DEF ContractsOf
  <1> HIDE DEF ContractsOf
  <1> QED BY <1>1, <1>2, SomeContracts, FS_Subset

LEMMA MovedPlaces ==
    ASSUME IndexTypeOK, PlacesOK, NEW p \in Passes, NEW k \in Codes, NEW w, WorkerMoves(p, k, w)
    PROVE  PlacesOK'
  <1>0. /\ worker[p][k].at # "idle" /\ latest' = latest /\ pass' = pass /\ started' = started
        /\ w.at \in Busy => code'[k].stored
        /\ w.at # "page" => \A c \in Contracts : w.hand[c] = "no"
        /\ w.at = "write" => w.read <= Cardinality(ContractsOf(k)')
    BY DEF WorkerMoves
  <1>1. \A j \in Codes : code[j].stored => code'[j].stored
    BY DEF WorkerMoves
  <1>2. ASSUME NEW q \in Passes, NEW j \in Codes PROVE WorkerOK(q, j)'
    <2>1. CASE q = p /\ j = k
      <3>1. worker'[q][j] = w /\ k <= latest /\ latest' = latest
        BY <1>0, <2>1, Moved DEF PlacesOK, WorkerOK
      <3> QED BY <1>0, <2>1, <3>1 DEF WorkerOK
    <2>2. CASE ~(q = p /\ j = k)
      <3>1. worker'[q][j] = worker[q][j] /\ latest' = latest /\ WorkerOK(q, j)
        BY <1>0, <2>2, Moved DEF PlacesOK
      <3>2. worker[q][j].at = "write" => worker[q][j].read <= Cardinality(ContractsOf(j)')
        <4>1. /\ Cardinality(ContractsOf(j)) \in Nat /\ Cardinality(ContractsOf(j)') \in Nat
              /\ Cardinality(ContractsOf(j)) <= Cardinality(ContractsOf(j)')
          BY ContractsStay
        <4>2. worker[q][j].read \in Nat
          BY DEF IndexTypeOK, WorkerType
        <4> QED BY <3>1, <4>1, <4>2 DEF WorkerOK
      <3> QED BY <1>1, <3>1, <3>2 DEF WorkerOK
    <2> QED BY <2>1, <2>2
  <1>3. ASSUME NEW q \in Passes PROVE PassOK(q)'
    <2>1. PassOK(q) /\ pass' = pass /\ started' = started
      BY <1>0 DEF PlacesOK
    <2>2. pass[q].at \notin {"work", "new", "list"} => \A j \in Codes : worker'[q][j].at = "idle"
      <3> SUFFICES ASSUME pass[q].at \notin {"work", "new", "list"}, NEW j \in Codes
                   PROVE  worker'[q][j].at = "idle"
        OBVIOUS
      <3>1. worker[q][j].at = "idle"
        BY <2>1 DEF PassOK
      <3>2. q # p \/ j # k
        BY <1>0, <3>1
      <3> QED BY <3>1, <3>2, Moved
    <2>3. pass[q].left \in SUBSET Codes
      BY DEF IndexTypeOK, PassType
    <2> QED BY <1>1, <2>1, <2>2, <2>3 DEF PassOK
  <1> QED BY <1>2, <1>3 DEF PlacesOK

LEMMA MovedKnown ==
    ASSUME IndexTypeOK, NEW p \in Passes, NEW k \in Codes, NEW w, WorkerMoves(p, k, w),
           NEW j \in Codes, Known(j)
    PROVE  Known(j)'
  <1> USE DEF WorkerMoves
  <1>1. CASE code[j].stored \/ j \in lost
    BY <1>1 DEF Known
  <1>2. CASE \E q \in Passes : j \in Ahead(q)
    <2>1. \A q : Ahead(q)' = Ahead(q)
      BY DEF Ahead
    <2> QED BY <1>2, <2>1 DEF Known
  <1>3. ASSUME NEW q \in Passes, j \in InHand(q) PROVE Known(j)'
    <2>1. worker[q][j].at \in Taken
      BY <1>3 DEF InHand, Taken
    <2>2. worker'[q][j].at \in Taken \/ code'[j].stored \/ j \in lost'
      BY <2>1, Moved
    <2>3. worker'[q][j].at \in Taken => j \in InHand(q)'
      BY DEF InHand, Taken
    <2> QED BY <2>2, <2>3 DEF Known
  <1> QED BY <1>1, <1>2, <1>3 DEF Known

LEMMA MovedInOrder ==
    ASSUME IndexTypeOK, PlacesOK, InOrder, NEW p \in Passes, NEW k \in Codes, NEW w, WorkerMoves(p, k, w)
    PROVE  InOrder'
  <1>0. latest \in 0..MaxCode /\ MaxCode \in Nat
    BY WasmAssumption DEF IndexTypeOK, WasmAssumption
  <1>1. ASSUME NEW n \in 0..(latest + 1), KnownBelow(n) PROVE KnownBelow(n)'
    <2>1. \A j \in 1..(n - 1) : j \in Codes
      BY <1>0 DEF Codes
    <2> QED BY <1>1, <2>1, MovedKnown DEF KnownBelow
  <1> USE DEF WorkerMoves
  <1>2. \A q \in Passes : \A j \in InHand(q)' : j \in InHand(q)
    BY Moved DEF InHand, Taken
  <1>3. \A q \in Passes : \A j \in InHand(q) : j \in Codes /\ j <= latest
    BY DEF InHand, PlacesOK, WorkerOK
  <1>4. ASSUME NEW j \in Codes, code'[j].stored PROVE j <= latest /\ KnownBelow(j)'
    <2>1. code[j].stored \/ j \in InHand(p)
      BY <1>4 DEF InHand
    <2>2. j <= latest /\ KnownBelow(j)
      BY <1>3, <2>1 DEF InOrder
    <2>3. j \in 0..(latest + 1)
      BY <1>0, <2>2 DEF Codes
    <2> QED BY <1>1, <2>2, <2>3
  <1>5. ASSUME NEW q \in Passes, NEW j \in InHand(q)' PROVE KnownBelow(j)'
    <2>1. j \in InHand(q) /\ KnownBelow(j)
      BY <1>2, <1>5 DEF InOrder
    <2>2. j \in 0..(latest + 1)
      BY <1>0, <1>3, <2>1 DEF Codes
    <2> QED BY <1>1, <2>1, <2>2
  <1>6. ASSUME NEW q \in Passes, pass'[q].at = "new" PROVE KnownBelow(pass[q].next)'
    <2>1. PICK n : n = pass[q].next /\ n = pass'[q].next
      OBVIOUS
    <2>2. KnownBelow(n) /\ n \in 0..(latest + 1)
      BY <1>6, <2>1 DEF InOrder, IndexTypeOK, PassType
    <2>3. KnownBelow(n)'
      BY <1>1, <2>2
    <2> QED BY <2>1, <2>3 DEF KnownBelow
  <1> QED BY <1>4, <1>5, <1>6 DEF InOrder

-----------------------------------------------------------------------------
\* The sum of CountHolds, taken over all passes; W are their workers.
AddedTo(W, k) == [p \in Passes |-> Added(W[p][k])]
Pending(W, k) == SumFunctionOnSet(AddedTo(W, k), Passes)
CountOK(k) == k \notin cut => code[k].count <= Cardinality(ContractsOf(k)) + Pending(worker, k)
Workers == [Passes -> [Codes -> WorkerType]]

LEMMA AddedTyped ==
    ASSUME NEW W \in Workers, NEW k \in Codes
    PROVE  /\ \A p \in Passes : AddedTo(W, k)[p] = Added(W[p][k]) /\ AddedTo(W, k)[p] \in Nat
           /\ IsFiniteSet(Passes) /\ Pending(W, k) \in Nat
  <1>1. \A p \in Passes : AddedTo(W, k)[p] = Added(W[p][k]) /\ AddedTo(W, k)[p] \in Nat
    BY DEF AddedTo, Added, Workers, WorkerType
  <1>2. IsFiniteSet(Passes)
    BY WasmAssumption DEF WasmAssumption
  <1> HIDE DEF AddedTo
  <1>3. Pending(W, k) \in Nat
    BY <1>1, <1>2, SumNat DEF Pending
  <1> QED BY <1>1, <1>2, <1>3

LEMMA PendingIs ==
    ASSUME NEW W \in Workers, NEW k \in Codes
    PROVE  SumFunctionOnSet([p \in Passes |-> W[p][k].news],
                            {p \in Passes : W[p][k].at \in {"count", "write"} /\ W[p][k].news > 0})
             = Pending(W, k)
  <1> DEFINE f == [p \in Passes |-> W[p][k].news]
             g == AddedTo(W, k)
             S == {p \in Passes : W[p][k].at \in {"count", "write"} /\ W[p][k].news > 0}
             Q == Passes \ S
  <1>1. S \in SUBSET Passes
    OBVIOUS
  <1>2. \A p \in S : f[p] = g[p]
    BY DEF AddedTo, Added
  <1>3. \A p \in Q : g[p] = 0
    <2> SUFFICES ASSUME NEW p \in Q PROVE Added(W[p][k]) = 0
      BY DEF AddedTo
    <2>1. W[p][k].news \in Nat
      BY DEF Workers, WorkerType
    <2> QED BY <2>1 DEF Added
  <1>4. IsFiniteSet(S) /\ IsFiniteSet(Q)
    BY <1>1, AddedTyped, FS_Subset
  <1>0. \A p \in Passes : g[p] \in Nat
    BY AddedTyped
  <1> HIDE DEF f, g, S
  <1>5. SumFunctionOnSet(g, Passes) = SumFunctionOnSet(g, S) + SumFunctionOnSet(g, Q)
    BY <1>0, <1>1, AddedTyped, SumSubset
  <1>6. SumFunctionOnSet(g, Q) = 0
    <2> HIDE DEF Q
    <2> QED BY <1>3, <1>4, SumZero
  <1>7. SumFunctionOnSet(f, S) = SumFunctionOnSet(g, S)
    BY <1>2, <1>4, SumSame
  <1>8. \A p \in S : g[p] \in Nat
    BY <1>0, <1>1
  <1>9. SumFunctionOnSet(g, S) \in Nat
    BY <1>4, <1>8, SumNat
  <1>10. SumFunctionOnSet(f, S) = SumFunctionOnSet(g, Passes)
    BY <1>5, <1>6, <1>7, <1>9
  <1> QED BY <1>10 DEF f, g, S, Pending

LEMMA CountsAre ==
    ASSUME IndexTypeOK
    PROVE  worker \in Workers /\ (CountHolds <=> \A k \in Codes : CountOK(k))
  <1>1. worker \in Workers
    BY DEF IndexTypeOK, Workers
  <1>2. ASSUME NEW k \in Codes
        PROVE  {p \in Passes : k \in Recounting(p)}
                 = {p \in Passes : worker[p][k].at \in {"count", "write"} /\ worker[p][k].news > 0}
    BY DEF Recounting
  <1> QED BY <1>1, <1>2, PendingIs DEF CountHolds, CountOK

LEMMA CountsNext ==
    ASSUME IndexTypeOK', \A k \in Codes : CountOK(k)'
    PROVE  CountHolds'
  <1>1. worker' \in Workers
    BY DEF IndexTypeOK, Workers, WorkerType
  <1>2. ASSUME NEW k \in Codes
        PROVE  {p \in Passes : k \in Recounting(p)'}
                 = {p \in Passes : worker'[p][k].at \in {"count", "write"} /\ worker'[p][k].news > 0}
    BY DEF Recounting
  <1>3. PICK W : W = worker'
    OBVIOUS
  <1>4. ASSUME NEW k \in Codes
        PROVE  SumFunctionOnSet([p \in Passes |-> W[p][k].news], {p \in Passes : k \in Recounting(p)'})
                 = Pending(W, k)
    BY <1>1, <1>2, <1>3, PendingIs
  <1> QED BY <1>3, <1>4 DEF CountHolds, CountOK

LEMMA MovedCounts ==
    ASSUME IndexTypeOK, CountHolds, NEW p \in Passes, NEW k \in Codes, NEW w, WorkerMoves(p, k, w)
    PROVE  CountHolds'
  <1>0. IndexTypeOK' /\ worker \in Workers
    BY MovedTypes, CountsAre
  <1>a. PICK V : V = worker'
    OBVIOUS
  <1>b. V \in Workers
    BY <1>0, <1>a DEF IndexTypeOK, Workers, WorkerType
  <1>1. ASSUME NEW j \in Codes, j # k PROVE CountOK(j)'
    <2>1. AddedTo(V, j) = AddedTo(worker, j)
      BY <1>a, <1>1, Moved DEF AddedTo
    <2>2. Pending(V, j) = Pending(worker, j)
      BY <2>1 DEF Pending
    <2>3. code'[j].count = code[j].count /\ (j \in cut => j \in cut')
      BY <1>1 DEF WorkerMoves
    <2>4. CountOK(j) /\ code[j].count \in Nat
      BY CountsAre DEF IndexTypeOK
    <2>5. Pending(worker, j) \in Nat
      BY <1>0, AddedTyped
    <2> QED BY <1>a, <2>2, <2>3, <2>4, <2>5, ContractsStay DEF CountOK
  <1>2. CountOK(k)'
    <2> DEFINE a == Added(worker[p][k])
               b == Added(w)
    <2>1. \A q \in Passes : AddedTo(V, k)[q] = Added(V[q][k]) /\ AddedTo(V, k)[q] \in Nat
      BY <1>b, AddedTyped
    <2>2. \A q \in Passes : AddedTo(worker, k)[q] = Added(worker[q][k]) /\ AddedTo(worker, k)[q] \in Nat
      BY <1>0, AddedTyped
    <2>3. AddedTo(V, k)[p] = b /\ AddedTo(worker, k)[p] = a /\ a \in Nat /\ b \in Nat
      BY <1>a, <2>1, <2>2, Moved
    <2>4. \A q \in Passes \ {p} : AddedTo(worker, k)[q] = AddedTo(V, k)[q]
      BY <1>a, <2>1, <2>2, Moved
    <2>5. Pending(V, k) = Pending(worker, k) + (b - a)
      <3>1. PICK f : f = AddedTo(worker, k)
        OBVIOUS
      <3>2. PICK g : g = AddedTo(V, k)
        OBVIOUS
      <3>3. \A q \in Passes : f[q] \in Int /\ g[q] \in Int
        BY <2>1, <2>2, <3>1, <3>2
      <3>4. SumFunctionOnSet(g, Passes) = SumFunctionOnSet(f, Passes) + (g[p] - f[p])
        <4>1. \A q \in Passes \ {p} : f[q] = g[q]
          BY <2>4, <3>1, <3>2
        <4> QED BY <3>3, <4>1, <1>0, AddedTyped, SumChange
      <3>5. SumFunctionOnSet(f, Passes) = Pending(worker, k) /\ SumFunctionOnSet(g, Passes) = Pending(V, k)
        BY <3>1, <3>2 DEF Pending
      <3> QED BY <2>3, <3>1, <3>2, <3>4, <3>5
    <2>6. Pending(worker, k) \in Nat /\ Pending(V, k) \in Nat
      BY <1>0, <1>b, AddedTyped
    <2>7. (k \notin cut => code[k].count <= Cardinality(ContractsOf(k)) + Pending(worker, k))
          /\ code[k].count \in Nat /\ code'[k].count \in Nat
      BY CountsAre DEF CountOK, IndexTypeOK, WorkerMoves, CodeType
    <2>8. \/ k \in cut'
          \/ code'[k].count <= Cardinality(ContractsOf(k))
          \/ k \notin cut /\ code'[k].count + a <= code[k].count + b
      BY DEF WorkerMoves
    <2>9. /\ Cardinality(ContractsOf(k)) \in Nat /\ Cardinality(ContractsOf(k)') \in Nat
          /\ Cardinality(ContractsOf(k)) <= Cardinality(ContractsOf(k)')
      BY ContractsStay
    <2> HIDE DEF a, b
    <2>10. k \notin cut' => code'[k].count <= Cardinality(ContractsOf(k)') + Pending(V, k)
      BY <2>3, <2>5, <2>6, <2>7, <2>8, <2>9
    <2> QED BY <1>a, <2>10 DEF CountOK
  <1>3. \A j \in Codes : CountOK(j)'
    BY <1>1, <1>2
  <1> QED BY <1>0, <1>3, CountsNext

LEMMA MovedInv ==
    ASSUME WasmInv, NEW p \in Passes, NEW k \in Codes, NEW w, WorkerMoves(p, k, w)
    PROVE  WasmInv'
  BY MovedTypes, MovedPlaces, MovedInOrder, MovedCounts DEF WasmInv

-----------------------------------------------------------------------------
(* Each step of a worker has that shape.                                     *)

\* What stays when a step does not write the database.
Unwritten ==
    /\ UNCHANGED <<wasmScene, migrations, latest, home, migrated, state, started, pass>>
    /\ UNCHANGED <<code, contract>>
    /\ failures' \in 0..wasmScene.faults

LEMMA SomeWorker ==
    ASSUME WasmInv, NEW p \in Passes, NEW k \in Codes
    PROVE  /\ worker[p][k] \in WorkerType /\ Idle \in WorkerType
           /\ WorkerOK(p, k)
           /\ failures \in 0..wasmScene.faults /\ wasmScene.faults \in Nat
           /\ lost \subseteq Codes /\ cut \subseteq Codes /\ code \in [Codes -> CodeType]
           /\ contract \in [Contracts -> ContractType]
           /\ latest \in Nat /\ MaxCode \in Nat
  <1>1. Idle \in WorkerType
    BY DEF Idle, WorkerType
  <1>2. latest \in 0..wasmScene.codes /\ wasmScene \in WasmScenes
    BY DEF WasmInv, IndexTypeOK
  <1>3. latest \in Nat /\ MaxCode \in Nat /\ wasmScene.faults \in Nat
    BY <1>2, WasmAssumption DEF WasmAssumption
  <1> QED BY <1>1, <1>3 DEF WasmInv, IndexTypeOK, PlacesOK, CodeType, ContractType

\* A step that writes nothing and does not count.
LEMMA ReadingStep ==
    ASSUME WasmInv, NEW p \in Passes, NEW k \in Codes, NEW w \in WorkerType,
           worker' = [worker EXCEPT ![p][k] = w], Unwritten, cut' = cut, lost' = lost,
           worker[p][k].at # "idle",
           w.at \in Busy => code[k].stored,
           w.at # "page" => \A c \in Contracts : w.hand[c] = "no",
           w.at = "write" => w.read <= Cardinality(ContractsOf(k)),
           worker[p][k].at \in Taken => w.at \in Taken \/ code[k].stored,
           w.at \in Taken => worker[p][k].at \in Taken,
           Added(w) = Added(worker[p][k])
    PROVE  WorkerMoves(p, k, w)
  <1> USE DEF Unwritten
  <1>1. /\ lost \subseteq Codes /\ cut \subseteq Codes /\ code \in [Codes -> CodeType]
        /\ contract \in [Contracts -> ContractType]
    BY SomeWorker
  <1>2. ContractsOf(k)' = ContractsOf(k)
    BY DEF ContractsOf
  <1>3. code[k].count \in Nat /\ Added(w) \in Nat
    BY <1>1 DEF CodeType, Added, WorkerType
  <1>4. k \in cut' \/ (k \notin cut /\ code'[k].count + Added(worker[p][k]) <= code[k].count + Added(w))
    BY <1>3
  <1>5. w.at = "write" => w.read <= Cardinality(ContractsOf(k)')
    BY <1>2
  <1>6. \A j \in Codes \ {k} : code'[j].count = code[j].count /\ (j \in cut => j \in cut')
    OBVIOUS
  <1>7. /\ UNCHANGED <<wasmScene, migrations, latest, home, migrated, state, started, pass>>
        /\ failures' \in 0..wasmScene.faults
        /\ code' \in [Codes -> CodeType] /\ contract' \in [Contracts -> ContractType]
        /\ lost' \subseteq Codes /\ cut' \subseteq Codes
    BY <1>1
  <1>8. code' = code /\ contract' = contract /\ lost' = lost
    OBVIOUS
  <1>11. \A j \in Codes : code[j].stored => code'[j].stored
    BY <1>8, Zenon
  <1>12. \A j \in Codes : code'[j].stored => code[j].stored \/ (j = k /\ worker[p][k].at = "save")
    BY <1>8, Zenon
  <1>13. \A c \in Contracts : contract[c].code # None => contract'[c].code = contract[c].code
    BY <1>8
  <1>14. \A j \in lost : j \in lost' \/ code'[j].stored
    BY <1>8
  <1>9. /\ w.at \in Busy => code'[k].stored
        /\ worker[p][k].at \in Taken => w.at \in Taken \/ code'[k].stored \/ k \in lost'
    OBVIOUS
  <1>10. \/ k \in cut'
         \/ code'[k].count <= Cardinality(ContractsOf(k))
         \/ k \notin cut /\ code'[k].count + Added(worker[p][k]) <= code[k].count + Added(w)
    BY <1>4
  <1> HIDE DEF Unwritten
  <1> QED BY <1>5, <1>6, <1>7, <1>11, <1>12, <1>13, <1>14, <1>9, <1>10, Zenon DEF WorkerMoves

LEMMA FindCodeMoves ==
    ASSUME WasmInv, NEW p \in Passes, NEW k \in Codes, FindCode(p, k)
    PROVE  \E w : WorkerMoves(p, k, w)
  <1> DEFINE u == worker[p][k]
             w == [u EXCEPT !.at = IF code[k].stored THEN "fetch" ELSE "save"]
  <1>1. u \in WorkerType /\ u.at = "find" /\ WorkerOK(p, k)
    BY SomeWorker DEF FindCode
  <1>2. w \in WorkerType /\ w.at \in {"fetch", "save"} /\ w.hand = u.hand
        /\ (w.at = "fetch" => code[k].stored)
    BY <1>1 DEF WorkerType
  <1>3. worker' = [worker EXCEPT ![p][k] = w] /\ Unwritten /\ cut' = cut /\ lost' = lost
    BY SomeWorker DEF FindCode, Unwritten, boundVars, chainVars, dbVars, historyVars
  <1>4. Added(w) = Added(u)
    BY <1>1, <1>2 DEF Added
  <1> HIDE DEF w
  <1>5. WorkerMoves(p, k, w)
    BY <1>1, <1>2, <1>3, <1>4, ReadingStep DEF WorkerOK, Busy, Taken
  <1> QED BY <1>5

LEMMA FetchContractsMoves ==
    ASSUME WasmInv, NEW p \in Passes, NEW k \in Codes, FetchContracts(p, k)
    PROVE  \E w : WorkerMoves(p, k, w)
  <1> DEFINE u == worker[p][k]
             rest == Listed(k) \ u.passed
             n == IF Cardinality(rest) < PageLimit THEN Cardinality(rest) ELSE PageLimit
             w(some) == [u EXCEPT !.at = IF some = {} THEN Counting(u) ELSE "page",
                                 !.hand = [c \in Contracts |-> IF c \in some THEN "look" ELSE "no"],
                                 !.passed = @ \cup some,
                                 !.more = some # rest]
  <1>1. u \in WorkerType /\ u.at = "fetch" /\ WorkerOK(p, k)
    BY SomeWorker DEF FetchContracts
  <1>2. PICK some \in kSubset(n, rest) : Goes(p, k, w(some))
    BY DEF FetchContracts
  <1>3. some \subseteq Contracts
    BY <1>2 DEF kSubset, Listed
  <1>4. w(some) \in WorkerType /\ w(some).at \in {"inc", "count", "page"} /\ w(some).news = u.news
        /\ (w(some).at = "count" => ~(u.news > 0))
        /\ (w(some).at # "page" => \A c \in Contracts : w(some).hand[c] = "no")
    BY <1>1, <1>3 DEF WorkerType, Counting
  <1>5. worker' = [worker EXCEPT ![p][k] = w(some)] /\ Unwritten /\ cut' = cut /\ lost' = lost
    BY <1>2, SomeWorker DEF Goes, FetchContracts, Unwritten, boundVars, chainVars, dbVars, historyVars
  <1> HIDE DEF w
  <1>6. Added(w(some)) = Added(u)
    BY <1>1, <1>4 DEF Added, WorkerType
  <1>7. WorkerMoves(p, k, w(some))
    BY <1>1, <1>4, <1>5, <1>6, ReadingStep DEF WorkerOK, Busy, Taken
  <1> QED BY <1>7

LEMMA ListingMoves ==
    ASSUME WasmInv, NEW p \in Passes, NEW k \in Codes,
           FetchContractsFails(p, k) \/ ContractsDone(p, k)
    PROVE  \E w : WorkerMoves(p, k, w)
  <1> DEFINE u == worker[p][k]
             w == [u EXCEPT !.at = IF u.at = "page" /\ u.more THEN "fetch" ELSE Counting(u)]
  <1>1. u \in WorkerType /\ u.at \in {"fetch", "page"} /\ WorkerOK(p, k)
        /\ (u.at = "page" => \A c \in Contracts : u.hand[c] = "no")
    BY SomeWorker DEF FetchContractsFails, ContractsDone
  <1>2. w \in WorkerType /\ w.at \in {"fetch", "inc", "count"} /\ w.hand = u.hand /\ w.news = u.news
        /\ (w.at = "count" => ~(u.news > 0))
    BY <1>1 DEF WorkerType, Counting
  <1>3. worker' = [worker EXCEPT ![p][k] = w]
    <2>1. CASE FetchContractsFails(p, k)
      BY <2>1 DEF FetchContractsFails
    <2>2. CASE ContractsDone(p, k)
      BY <2>2 DEF ContractsDone
    <2> QED BY <2>1, <2>2
  <1>4. Unwritten /\ cut' = cut /\ lost' = lost
    BY SomeWorker DEF FetchContractsFails, ContractsDone, Unwritten, boundVars, chainVars, dbVars, historyVars
  <1> HIDE DEF w
  <1>5. Added(w) = Added(u)
    BY <1>1, <1>2 DEF Added, WorkerType
  <1>6. WorkerMoves(p, k, w)
    BY <1>1, <1>2, <1>3, <1>4, <1>5, ReadingStep DEF WorkerOK, Busy, Taken
  <1> QED BY <1>6

LEMMA LookUpMoves ==
    ASSUME WasmInv, NEW p \in Passes, NEW k \in Codes, NEW c \in Contracts,
           LookUp(p, k, c) \/ ContractFails(p, k, c)
    PROVE  \E w : WorkerMoves(p, k, w)
  <1> DEFINE u == worker[p][k]
  <1>1. u \in WorkerType /\ u.at = "page" /\ WorkerOK(p, k)
    BY SomeWorker DEF LookUp, ContractFails, WorkerOK
  <1>2. PICK x \in {"no", "new", "note"} : worker' = [worker EXCEPT ![p][k].hand[c] = x]
    BY DEF LookUp, ContractFails
  <1> DEFINE w == [u EXCEPT !.hand[c] = x]
  <1>3. w \in WorkerType /\ w.at = "page"
    BY <1>1 DEF WorkerType
  <1>4. worker' = [worker EXCEPT ![p][k] = w]
    BY <1>2
  <1>5. Unwritten /\ cut' = cut /\ lost' = lost
    BY SomeWorker DEF LookUp, ContractFails, Unwritten, boundVars, chainVars, dbVars, historyVars
  <1> HIDE DEF w
  <1>6. Added(w) = Added(u)
    BY <1>1, <1>3 DEF Added
  <1>7. WorkerMoves(p, k, w)
    BY <1>1, <1>3, <1>4, <1>5, <1>6, ReadingStep DEF WorkerOK, Busy, Taken
  <1> QED BY <1>7

LEMMA CountContractsMoves ==
    ASSUME WasmInv, NEW p \in Passes, NEW k \in Codes, CountContracts(p, k)
    PROVE  \E w : WorkerMoves(p, k, w)
  <1> DEFINE u == worker[p][k]
             n == Cardinality(ContractsOf(k))
             w == [u EXCEPT !.at = "write", !.read = n]
  <1>1. u \in WorkerType /\ u.at = "count" /\ WorkerOK(p, k) /\ n \in Nat
    BY SomeWorker, SomeContracts DEF CountContracts, ContractsOf
  <1> HIDE DEF n
  <1>2. w \in WorkerType /\ w.at = "write" /\ w.read = n /\ w.hand = u.hand /\ w.news = u.news
    BY <1>1 DEF WorkerType
  <1>3. worker' = [worker EXCEPT ![p][k] = w] /\ Unwritten /\ cut' = cut /\ lost' = lost
    BY SomeWorker DEF CountContracts, n, Unwritten, boundVars, chainVars, dbVars, historyVars
  <1> HIDE DEF w
  <1>4. Added(w) = Added(u) /\ n <= n
    BY <1>1, <1>2 DEF Added
  <1>5. WorkerMoves(p, k, w)
    BY <1>1, <1>2, <1>3, <1>4, ReadingStep DEF WorkerOK, Busy, Taken, n
  <1> QED BY <1>5

\* A step that may change the count of the code and its history.
LEMMA CountingStep ==
    ASSUME WasmInv, NEW p \in Passes, NEW k \in Codes, NEW w \in WorkerType, NEW n \in Nat,
           worker' = [worker EXCEPT ![p][k] = w], worker[p][k].at # "idle",
           UNCHANGED <<wasmScene, migrations, latest, home, migrated, state, started, pass, contract>>,
           failures' \in 0..wasmScene.faults,
           code' = [code EXCEPT ![k].count = n],
           lost' \subseteq Codes, lost \subseteq lost', cut' \subseteq Codes, cut \ {k} \subseteq cut',
           w.at \in {"idle", "count"}, w.at = "count" => code[k].stored,
           \A c \in Contracts : w.hand[c] = "no",
           worker[p][k].at \in Taken => code[k].stored \/ k \in lost',
           \/ k \in cut'
           \/ n <= Cardinality(ContractsOf(k))
           \/ k \notin cut /\ n + Added(worker[p][k]) <= code[k].count + Added(w)
    PROVE  WorkerMoves(p, k, w)
  <1>1. code \in [Codes -> CodeType] /\ contract \in [Contracts -> ContractType]
    BY SomeWorker
  <1>2. /\ code' \in [Codes -> CodeType] /\ code'[k].count = n
        /\ \A j \in Codes : code'[j].stored = code[j].stored
        /\ \A j \in Codes \ {k} : code'[j].count = code[j].count
    BY <1>1 DEF CodeType
  <1>3. /\ UNCHANGED <<wasmScene, migrations, latest, home, migrated, state, started, pass>>
        /\ contract' = contract /\ contract' \in [Contracts -> ContractType]
    BY <1>1
  <1>4. /\ \A j \in Codes : code[j].stored => code'[j].stored
        /\ \A j \in Codes : code'[j].stored => code[j].stored \/ (j = k /\ worker[p][k].at = "save")
        /\ \A j \in lost : j \in lost' \/ code'[j].stored
        /\ w.at \in Busy => code'[k].stored
        /\ worker[p][k].at \in Taken => w.at \in Taken \/ code'[k].stored \/ k \in lost'
    BY <1>2 DEF Busy
  <1>5. \A c \in Contracts : contract[c].code # None => contract'[c].code = contract[c].code
    BY <1>3
  <1>6. \A j \in Codes \ {k} : code'[j].count = code[j].count /\ (j \in cut => j \in cut')
    BY <1>2
  <1>7. /\ w.at = "write" => w.read <= Cardinality(ContractsOf(k)')
        /\ w.at \in Taken => worker[p][k].at \in Taken
    BY DEF Taken
  <1>8. \/ k \in cut'
        \/ code'[k].count <= Cardinality(ContractsOf(k))
        \/ k \notin cut /\ code'[k].count + Added(worker[p][k]) <= code[k].count + Added(w)
    BY <1>2
  <1> QED BY <1>2, <1>3, <1>4, <1>5, <1>6, <1>7, <1>8, Zenon DEF WorkerMoves

LEMMA AddNewsMoves ==
    ASSUME WasmInv, NEW p \in Passes, NEW k \in Codes, AddNews(p, k)
    PROVE  \E w : WorkerMoves(p, k, w)
  <1> DEFINE u == worker[p][k]
             n == code[k].count + u.news
             w == [u EXCEPT !.at = "count"]
  <1>1. u \in WorkerType /\ u.at = "inc" /\ WorkerOK(p, k)
    BY SomeWorker DEF AddNews
  <1>2. code[k].stored /\ \A c \in Contracts : u.hand[c] = "no"
    BY <1>1 DEF WorkerOK, Busy
  <1>3. w \in WorkerType /\ w.at = "count" /\ w.hand = u.hand /\ w.news = u.news
    BY <1>1 DEF WorkerType
  <1>4. n \in Nat /\ u.news \in Nat /\ code[k].count \in Nat
    BY <1>1, SomeWorker DEF WorkerType, CodeType
  <1>5. worker' = [worker EXCEPT ![p][k] = w]
    BY DEF AddNews
  <1>6. code' = [code EXCEPT ![k].count = n]
    BY <1>2 DEF AddNews
  <1>7. /\ UNCHANGED <<wasmScene, migrations, latest, home, migrated, state, started, pass, contract>>
        /\ failures' \in 0..wasmScene.faults
        /\ lost' = lost /\ cut' = cut /\ lost \subseteq Codes /\ cut \subseteq Codes
    BY SomeWorker DEF AddNews, boundVars, chainVars, historyVars
  <1>8. n + Added(u) <= code[k].count + Added(w)
    <2>1. Added(u) = 0 /\ Added(w) = u.news
      BY <1>1, <1>3 DEF Added
    <2> QED BY <1>4, <2>1
  <1> HIDE DEF w, n
  <1>9. WorkerMoves(p, k, w)
    BY <1>1, <1>2, <1>3, <1>4, <1>5, <1>6, <1>7, <1>8, CountingStep DEF Taken
  <1> QED BY <1>9

LEMMA WriteCountMoves ==
    ASSUME WasmInv, NEW p \in Passes, NEW k \in Codes, WriteCount(p, k)
    PROVE  \E w : WorkerMoves(p, k, w)
  <1> DEFINE u == worker[p][k]
             n == u.read
  <1>1. u \in WorkerType /\ u.at = "write" /\ WorkerOK(p, k)
    BY SomeWorker DEF WriteCount
  <1>2. code[k].stored /\ n \in Nat /\ n <= Cardinality(ContractsOf(k))
    BY <1>1 DEF WorkerOK, Busy, WorkerType
  <1>3. Idle \in WorkerType /\ Idle.at = "idle" /\ \A c \in Contracts : Idle.hand[c] = "no"
    BY SomeWorker DEF Idle
  <1>4. worker' = [worker EXCEPT ![p][k] = Idle]
    BY DEF WriteCount, Goes
  <1>5. code' = [code EXCEPT ![k].count = n]
    BY <1>2 DEF WriteCount
  <1>6. /\ UNCHANGED <<wasmScene, migrations, latest, home, migrated, state, started, pass, contract>>
        /\ failures' \in 0..wasmScene.faults
        /\ lost' = lost /\ cut' = cut \ {k} /\ lost \subseteq Codes /\ cut \subseteq Codes
    BY SomeWorker DEF WriteCount, boundVars, chainVars
  <1> HIDE DEF n
  <1>7. WorkerMoves(p, k, Idle)
    BY <1>1, <1>2, <1>3, <1>4, <1>5, <1>6, CountingStep DEF Taken
  <1> QED BY <1>7

LEMMA CodeFailsMoves ==
    ASSUME WasmInv, NEW p \in Passes, NEW k \in Codes, CodeFails(p, k)
    PROVE  \E w : WorkerMoves(p, k, w)
  <1> DEFINE u == worker[p][k]
             n == code[k].count
  <1>1. u \in WorkerType /\ u.at \in {"find", "save", "inc", "count", "write"} /\ WorkerOK(p, k)
        /\ k \in 1..MaxCode /\ latest \in Nat /\ MaxCode \in Nat
    BY SomeWorker DEF CodeFails, Codes
  <1>2. n \in Nat /\ code = [code EXCEPT ![k].count = n]
    BY SomeWorker DEF CodeType
  <1>3. Idle \in WorkerType /\ Idle.at = "idle" /\ \A c \in Contracts : Idle.hand[c] = "no"
    BY SomeWorker DEF Idle
  <1>4. /\ worker' = [worker EXCEPT ![p][k] = Idle] /\ code' = [code EXCEPT ![k].count = n]
        /\ UNCHANGED <<wasmScene, migrations, latest, home, migrated, state, started, pass, contract>>
    BY <1>2 DEF CodeFails, Goes, chainVars, dbVars
  <1>5. failures' \in 0..wasmScene.faults
    BY SomeWorker DEF CodeFails
  <1>6. k \in 1..latest
    BY <1>1 DEF WorkerOK
  <1>7. u.at \in Taken => code[k].stored \/ k \in lost'
    BY <1>6 DEF CodeFails, InHand, Unstored, Taken
  <1>8. /\ lost' \subseteq Codes /\ lost \subseteq lost' /\ cut' \subseteq Codes /\ cut \ {k} \subseteq cut'
        /\ cut \subseteq cut'
    <2>1. lost \subseteq Codes /\ cut \subseteq Codes /\ Unstored({k}) \subseteq {k}
      BY SomeWorker DEF Unstored
    <2> QED BY <2>1 DEF CodeFails
  <1>9. \/ k \in cut'
        \/ n <= Cardinality(ContractsOf(k))
        \/ k \notin cut /\ n + Added(u) <= code[k].count + Added(Idle)
    <2>1. Added(Idle) = 0
      BY <1>3 DEF Added
    <2>2. k \notin Recounting(p) => Added(u) = 0
      <3>1. u.news \in Nat
        BY <1>1 DEF WorkerType
      <3> QED BY <3>1 DEF Recounting, Added
    <2>3. k \in Recounting(p) => k \in cut'
      BY DEF CodeFails
    <2> QED BY <1>2, <1>8, <2>1, <2>2, <2>3
  <1> HIDE DEF n
  <1>10. u.at # "idle"
    BY <1>1
  <1>11. WorkerMoves(p, k, Idle)
    BY <1>2, <1>3, <1>4, <1>5, <1>7, <1>8, <1>9, <1>10, CountingStep
  <1> QED BY <1>11

LEMMA SaveCodeMoves ==
    ASSUME WasmInv, NEW p \in Passes, NEW k \in Codes, SaveCode(p, k)
    PROVE  \E w : WorkerMoves(p, k, w)
  <1> DEFINE u == worker[p][k]
             w == IF code[k].stored THEN Idle ELSE [u EXCEPT !.at = "fetch"]
  <1>1. u \in WorkerType /\ u.at = "save" /\ WorkerOK(p, k) /\ Idle \in WorkerType
    BY SomeWorker DEF SaveCode
  <1>2. w \in WorkerType /\ w.at \in {"idle", "fetch"}
    BY <1>1 DEF WorkerType, Idle
  <1>3. \A c \in Contracts : w.hand[c] = "no"
    <2>1. \A c \in Contracts : u.hand[c] = "no"
      BY <1>1 DEF WorkerOK
    <2> QED BY <1>1, <2>1 DEF WorkerType, Idle
  <1>4. worker' = [worker EXCEPT ![p][k] = w]
    BY DEF SaveCode, Goes
  <1>5. /\ code \in [Codes -> CodeType] /\ contract \in [Contracts -> ContractType]
        /\ lost \subseteq Codes /\ cut \subseteq Codes
    BY SomeWorker
  <1>6. code' = IF code[k].stored THEN code ELSE [code EXCEPT ![k].stored = TRUE]
    BY DEF SaveCode
  <1>7. /\ code' \in [Codes -> CodeType] /\ code'[k].stored
        /\ \A j \in Codes : code'[j].count = code[j].count
    BY <1>5, <1>6 DEF CodeType
  <1>8. /\ \A j \in Codes : code[j].stored => code'[j].stored
        /\ \A j \in Codes : code'[j].stored => code[j].stored \/ (j = k /\ u.at = "save")
    BY <1>1, <1>5, <1>6 DEF CodeType
  <1>9. /\ UNCHANGED <<wasmScene, migrations, latest, home, migrated, state, started, pass>>
        /\ contract' = contract /\ cut' = cut /\ lost' = lost \ {k}
        /\ contract' \in [Contracts -> ContractType] /\ lost' \subseteq Codes /\ cut' \subseteq Codes
        /\ failures' \in 0..wasmScene.faults
    BY <1>5, SomeWorker DEF SaveCode, boundVars, chainVars
  <1>10. /\ Added(u) = 0 /\ Added(w) = 0 /\ code[k].count \in Nat
    BY <1>1, <1>2, <1>5 DEF Added, CodeType
  <1> HIDE DEF w
  <1>11. /\ w.at \in Busy => code'[k].stored
         /\ w.at # "page" => \A c \in Contracts : w.hand[c] = "no"
         /\ w.at = "write" => w.read <= Cardinality(ContractsOf(k)')
         /\ u.at \in Taken => w.at \in Taken \/ code'[k].stored \/ k \in lost'
         /\ w.at \in Taken => u.at \in Taken
         /\ u.at # "idle"
    BY <1>1, <1>2, <1>3, <1>7 DEF Busy, Taken
  <1>12. /\ \A c \in Contracts : contract[c].code # None => contract'[c].code = contract[c].code
         /\ \A j \in lost : j \in lost' \/ code'[j].stored
         /\ \A j \in Codes \ {k} : code'[j].count = code[j].count /\ (j \in cut => j \in cut')
    BY <1>7, <1>9
  <1>13. \/ k \in cut'
         \/ code'[k].count <= Cardinality(ContractsOf(k))
         \/ k \notin cut /\ code'[k].count + Added(u) <= code[k].count + Added(w)
    BY <1>7, <1>9, <1>10
  <1>14. WorkerMoves(p, k, w)
    BY <1>2, <1>4, <1>7, <1>8, <1>9, <1>11, <1>12, <1>13, Zenon DEF WorkerMoves
  <1> QED BY <1>14

\* A contract of the page is saved, or its migration noted.
LEMMA ContractMoves ==
    ASSUME WasmInv, NEW p \in Passes, NEW k \in Codes, NEW c \in Contracts,
           NoteMigration(p, k, c) \/ SaveContract(p, k, c)
    PROVE  \E w : WorkerMoves(p, k, w)
  <1> DEFINE u == worker[p][k]
  <1>1. u \in WorkerType /\ u.at = "page" /\ WorkerOK(p, k) /\ k <= latest /\ k \in 1..MaxCode
    BY SomeWorker DEF NoteMigration, SaveContract, WorkerOK, Codes
  <1>2. /\ code \in [Codes -> CodeType] /\ contract \in [Contracts -> ContractType]
        /\ lost \subseteq Codes /\ cut \subseteq Codes /\ latest \in Nat /\ MaxCode \in Nat
        /\ home \in [Contracts -> 0..latest]
    BY SomeWorker DEF WasmInv, IndexTypeOK
  <1>3. PICK n \in Nat : worker' = [worker EXCEPT ![p][k].hand[c] = "no", ![p][k].news = n]
    <2>1. CASE NoteMigration(p, k, c)
      <3>1. u.news \in Nat /\ worker \in [Passes -> [Codes -> WorkerType]]
        BY <1>1 DEF WorkerType, WasmInv, IndexTypeOK
      <3>2. worker' = [worker EXCEPT ![p][k].hand[c] = "no", ![p][k].news = u.news]
        BY <2>1, <3>1 DEF NoteMigration, WorkerType
      <3> QED BY <3>1, <3>2
    <2>2. CASE SaveContract(p, k, c)
      <3>1. u.news \in Nat /\ u.news + 1 \in Nat
        BY <1>1 DEF WorkerType
      <3>2. CASE contract[c].code = None
        <4>1. worker' = [worker EXCEPT ![p][k].hand[c] = "no", ![p][k].news = u.news + 1]
          BY <2>2, <3>2 DEF SaveContract
        <4> QED BY <3>1, <4>1
      <3>3. CASE contract[c].code # None
        <4>1. worker' = [worker EXCEPT ![p][k].hand[c] = "no", ![p][k].news = u.news]
          BY <2>2, <3>3 DEF SaveContract
        <4> QED BY <3>1, <4>1
      <3> QED BY <3>2, <3>3
    <2> QED BY <2>1, <2>2
  <1> DEFINE w == [u EXCEPT !.hand[c] = "no", !.news = n]
  <1>4. w \in WorkerType /\ w.at = "page"
    BY <1>1 DEF WorkerType
  <1>5. worker' = [worker EXCEPT ![p][k] = w]
    BY <1>3
  <1>6. contract' \in [Contracts -> ContractType]
    BY <1>1, <1>2 DEF NoteMigration, SaveContract, ContractType, None
  <1>7. \A d \in Contracts : contract[d].code # None => contract'[d].code = contract[d].code
    BY <1>2 DEF NoteMigration, SaveContract, ContractType
  <1>8. /\ UNCHANGED <<wasmScene, migrations, latest, home, migrated, state, started, pass>>
        /\ code' = code /\ cut' = cut /\ lost' = lost
        /\ failures' \in 0..wasmScene.faults
        /\ code' \in [Codes -> CodeType] /\ lost' \subseteq Codes /\ cut' \subseteq Codes
    BY <1>2, SomeWorker DEF NoteMigration, SaveContract, boundVars, chainVars, historyVars
  <1>9. Added(u) = 0 /\ Added(w) = 0 /\ code[k].count \in Nat
    BY <1>1, <1>2, <1>4 DEF Added, CodeType
  <1> HIDE DEF w
  <1>10. code[k].stored /\ u.at # "idle" /\ u.at \notin Taken
    BY <1>1 DEF WorkerOK, Busy, Taken
  <1>11. /\ w.at \in Busy => code'[k].stored
         /\ w.at # "page" => \A d \in Contracts : w.hand[d] = "no"
         /\ w.at = "write" => w.read <= Cardinality(ContractsOf(k)')
         /\ w.at \in Taken => u.at \in Taken
    BY <1>4, <1>8, <1>10 DEF Taken
  <1>12. /\ \A j \in Codes : code[j].stored => code'[j].stored
         /\ \A j \in Codes : code'[j].stored => code[j].stored \/ (j = k /\ u.at = "save")
         /\ \A j \in lost : j \in lost' \/ code'[j].stored
         /\ \A j \in Codes \ {k} : code'[j].count = code[j].count /\ (j \in cut => j \in cut')
    BY <1>8, Zenon
  <1>13. \/ k \in cut'
         \/ code'[k].count <= Cardinality(ContractsOf(k))
         \/ k \notin cut /\ code'[k].count + Added(u) <= code[k].count + Added(w)
    BY <1>8, <1>9
  <1>14. WorkerMoves(p, k, w)
    BY <1>4, <1>5, <1>6, <1>7, <1>8, <1>10, <1>11, <1>12, <1>13, Zenon DEF WorkerMoves
  <1> QED BY <1>14

LEMMA CodeStepKeeps ==
    ASSUME WasmInv, NEW p \in Passes, NEW k \in Codes,
           CodeStep(p, k) \/ CodeFails(p, k) \/ FetchContractsFails(p, k)
             \/ (\E c \in Contracts : ContractFails(p, k, c))
    PROVE  WasmInv'
  <1>1. \E w : WorkerMoves(p, k, w)
    <2>1. CASE \E c \in Contracts : LookUp(p, k, c) \/ ContractFails(p, k, c)
      BY <2>1, LookUpMoves
    <2>2. CASE \E c \in Contracts : NoteMigration(p, k, c) \/ SaveContract(p, k, c)
      BY <2>2, ContractMoves
    <2> QED BY <2>1, <2>2, FindCodeMoves, SaveCodeMoves, FetchContractsMoves, ListingMoves,
               AddNewsMoves, CountContractsMoves, WriteCountMoves, CodeFailsMoves DEF CodeStep
  <1> QED BY <1>1, MovedInv

-----------------------------------------------------------------------------
(* A step of a pass keeps the invariant.                                     *)

LEMMA PassMoved ==
    ASSUME IndexTypeOK, NEW p \in Passes, NEW r, NEW ws, PassMoves(p, r, ws)
    PROVE  /\ pass' \in [Passes -> PassType] /\ worker' \in [Passes -> [Codes -> WorkerType]]
           /\ pass'[p] = r /\ worker'[p] = ws
           /\ \A q \in Passes : q # p => pass'[q] = pass[q] /\ worker'[q] = worker[q]
  <1>1. /\ r \in PassType /\ ws \in [Codes -> WorkerType]
        /\ pass' = [pass EXCEPT ![p] = r] /\ worker' = [worker EXCEPT ![p] = ws]
        /\ pass \in [Passes -> PassType] /\ worker \in [Passes -> [Codes -> WorkerType]]
    BY DEF IndexTypeOK, PassMoves
  <1> QED BY <1>1

LEMMA PassTypes ==
    ASSUME IndexTypeOK, NEW p \in Passes, NEW r, NEW ws, PassMoves(p, r, ws)
    PROVE  IndexTypeOK'
  <1>1. /\ wasmScene' \in WasmScenes /\ failures' \in 0..wasmScene'.faults
        /\ migrations' \in 0..wasmScene'.migrations /\ latest' \in 0..wasmScene'.codes
        /\ home' \in [Contracts -> 0..latest'] /\ migrated' \subseteq Contracts
        /\ code' \in [Codes -> CodeType] /\ contract' \in [Contracts -> ContractType]
        /\ state' \in [full : BOOLEAN, codes : 0..latest, contracts : 0..Cardinality(Contracts)]
        /\ started' \in {"no", "first", "timers"}
        /\ lost' \subseteq Codes /\ cut' \subseteq Codes
    BY DEF IndexTypeOK, PassMoves, CodeType, ContractType
  <1>2. latest' = latest /\ PassType' = PassType /\ WorkerType' = WorkerType
    BY DEF PassMoves, PassType, WorkerType
  <1> QED BY <1>1, <1>2, PassMoved DEF IndexTypeOK, CodeType, ContractType

LEMMA PassPlaces ==
    ASSUME IndexTypeOK, PlacesOK, NEW p \in Passes, NEW r, NEW ws, PassMoves(p, r, ws)
    PROVE  PlacesOK'
  <1>1. code' = code /\ contract' = contract /\ latest' = latest /\ started' # "no"
    BY DEF PassMoves
  <1>2. \A k \in Codes : ContractsOf(k)' = ContractsOf(k)
    BY <1>1 DEF ContractsOf
  <1>3. ASSUME NEW q \in Passes, NEW k \in Codes PROVE WorkerOK(q, k)'
    <2>1. WorkerOK(q, k)
      BY DEF PlacesOK
    <2>2. CASE worker'[q][k] = worker[q][k]
      BY <1>1, <1>2, <2>1, <2>2 DEF WorkerOK
    <2>3. CASE worker'[q][k] # worker[q][k]
      <3>1. q = p /\ worker'[p] = ws
        BY <2>3, PassMoved
      <3>2. /\ ws[k].at \in {"idle", "find", "fetch"}
            /\ ws[k].at # "idle" => k <= latest
            /\ ws[k].at = "fetch" => code[k].stored
            /\ \A c \in Contracts : ws[k].hand[c] = "no"
        BY <2>3, <3>1 DEF PassMoves
      <3> QED BY <1>1, <3>1, <3>2 DEF WorkerOK, Busy
    <2> QED BY <2>2, <2>3
  <1>4. ASSUME NEW q \in Passes PROVE PassOK(q)'
    <2>1. CASE q = p
      <3>1. pass'[q] = r /\ worker'[q] = ws
        BY <2>1, PassMoved
      <3>2. /\ r.at \notin {"work", "new", "list"} => \A k \in Codes : ws[k].at = "idle"
            /\ \A k \in r.left : code[k].stored
        BY DEF PassMoves
      <3> QED BY <1>1, <3>1, <3>2 DEF PassOK
    <2>2. CASE q # p
      <3>1. PassOK(q) /\ pass'[q] = pass[q] /\ worker'[q] = worker[q]
        BY <2>2, PassMoved DEF PlacesOK
      <3> QED BY <1>1, <3>1 DEF PassOK
    <2> QED BY <2>1, <2>2
  <1> QED BY <1>3, <1>4 DEF PlacesOK

LEMMA PassKnown ==
    ASSUME IndexTypeOK, NEW p \in Passes, NEW r, NEW ws, PassMoves(p, r, ws),
           NEW j \in 1..latest, Known(j)
    PROVE  Known(j)'
  <1>0. code' = code /\ lost \subseteq lost' /\ pass'[p] = r /\ worker'[p] = ws
    <2>1. code' = code /\ lost \subseteq lost'
      BY DEF PassMoves
    <2> QED BY <2>1, PassMoved
  <1>1. CASE code[j].stored \/ j \in lost
    BY <1>0, <1>1 DEF Known
  <1>2. ASSUME NEW q \in Passes, j \in Ahead(q) \cup InHand(q) PROVE Known(j)'
    <2>1. CASE q = p
      <3>1. j \in AheadOf(pass[p]) \cup InHand(p)
        BY <1>2, <2>1, AheadIs
      <3>2. j \in lost' \/ code[j].stored \/ j \in AheadOf(r) \/ ws[j].at \in Taken
        BY <3>1 DEF PassMoves
      <3>3. j \in AheadOf(r) => j \in Ahead(p)'
        BY <1>0 DEF Ahead, AheadOf
      <3>4. j \in Codes
        <4>1. latest \in 0..MaxCode /\ MaxCode \in Nat
          BY WasmAssumption DEF IndexTypeOK, WasmAssumption
        <4> QED BY <4>1 DEF Codes
      <3>5. ws[j].at \in Taken => j \in InHand(p)'
        BY <1>0, <3>4 DEF InHand, Taken
      <3> QED BY <1>0, <3>2, <3>3, <3>5 DEF Known
    <2>2. CASE q # p
      <3>1. pass'[q] = pass[q] /\ worker'[q] = worker[q]
        BY <2>2, PassMoved
      <3>2. Ahead(q)' = Ahead(q) /\ InHand(q)' = InHand(q)
        BY <3>1 DEF Ahead, InHand
      <3> QED BY <1>2, <3>2 DEF Known
    <2> QED BY <2>1, <2>2
  <1> QED BY <1>1, <1>2 DEF Known

LEMMA PassInOrder ==
    ASSUME IndexTypeOK, PlacesOK, InOrder, NEW p \in Passes, NEW r, NEW ws, PassMoves(p, r, ws)
    PROVE  InOrder'
  <1>0. latest \in 0..MaxCode /\ MaxCode \in Nat /\ code' = code /\ latest' = latest
    BY WasmAssumption DEF IndexTypeOK, WasmAssumption, PassMoves
  <1>1. ASSUME NEW n \in 0..(latest + 1), KnownBelow(n) PROVE KnownBelow(n)'
    <2>1. \A j \in 1..(n - 1) : j \in 1..latest
      BY <1>0
    <2> QED BY <1>1, <2>1, PassKnown DEF KnownBelow
  <1>2. ASSUME NEW j \in Codes, code'[j].stored PROVE j <= latest /\ KnownBelow(j)'
    <2>1. j <= latest /\ KnownBelow(j)
      BY <1>0, <1>2 DEF InOrder
    <2>2. j \in 0..(latest + 1)
      BY <1>0, <2>1 DEF Codes
    <2> QED BY <1>1, <2>1, <2>2
  <1>3. ASSUME NEW q \in Passes, NEW j \in InHand(q)' PROVE KnownBelow(j)'
    <2>1. j \in Codes /\ worker'[q][j].at \in Taken
      BY <1>3 DEF InHand, Taken
    <2>2. WorkerOK(q, j)'
      BY <2>1, PassPlaces DEF PlacesOK
    <2>3. j <= latest
      BY <1>0, <2>1, <2>2 DEF WorkerOK, Taken
    <2>4. KnownBelow(j)
      <3>1. CASE worker[q][j].at \in Taken
        <4>1. j \in InHand(q)
          BY <2>1, <3>1 DEF InHand, Taken
        <4> QED BY <4>1 DEF InOrder
      <3>2. CASE worker[q][j].at \notin Taken
        <4>1. q = p /\ worker'[p] = ws
          BY <2>1, <3>2, PassMoved
        <4> QED BY <2>1, <3>2, <4>1 DEF PassMoves
      <3> QED BY <3>1, <3>2
    <2>5. j \in 0..(latest + 1)
      BY <1>0, <2>1, <2>3 DEF Codes
    <2> QED BY <1>1, <2>4, <2>5
  <1>4. ASSUME NEW q \in Passes, pass'[q].at = "new" PROVE KnownBelow(pass[q].next)'
    <2>1. PICK n : n = pass'[q].next
      OBVIOUS
    <2>2. n \in 0..(latest + 1)
      BY <2>1, PassMoved DEF PassType
    <2>3. KnownBelow(n)
      <3>1. CASE q = p
        <4>1. n = r.next /\ r.at = "new"
          BY <1>4, <2>1, <3>1, PassMoved
        <4> QED BY <4>1 DEF PassMoves
      <3>2. CASE q # p
        <4>1. n = pass[q].next /\ pass[q].at = "new"
          BY <1>4, <2>1, <3>2, PassMoved
        <4> QED BY <4>1 DEF InOrder
      <3> QED BY <3>1, <3>2
    <2>4. KnownBelow(n)'
      BY <1>1, <2>2, <2>3
    <2> QED BY <2>1, <2>4 DEF KnownBelow
  <1> QED BY <1>0, <1>2, <1>3, <1>4 DEF InOrder

LEMMA PassCounts ==
    ASSUME IndexTypeOK, CountHolds, NEW p \in Passes, NEW r, NEW ws, PassMoves(p, r, ws)
    PROVE  CountHolds'
  <1>1. code' = code /\ contract' = contract /\ cut' = cut
    BY DEF PassMoves
  <1>2. PICK V : V = worker'
    OBVIOUS
  <1>3. ASSUME NEW k \in Codes PROVE CountOK(k)'
    <2>1. \A q \in Passes : Added(V[q][k]) = Added(worker[q][k])
      <3> SUFFICES ASSUME NEW q \in Passes, V[q][k] # worker[q][k]
                   PROVE  Added(V[q][k]) = Added(worker[q][k])
        OBVIOUS
      <3>1. q = p /\ V[p] = ws
        BY <1>2, PassMoved
      <3>2. worker[p][k].at = "idle" /\ ws[k].at \in {"idle", "find", "fetch"}
        BY <3>1 DEF PassMoves
      <3> QED BY <3>1, <3>2 DEF Added
    <2>2. AddedTo(V, k) = AddedTo(worker, k)
      BY <2>1 DEF AddedTo
    <2>3. Pending(V, k) = Pending(worker, k)
      BY <2>2 DEF Pending
    <2>4. ContractsOf(k)' = ContractsOf(k)
      BY <1>1 DEF ContractsOf
    <2>5. CountOK(k)
      BY CountsAre
    <2> QED BY <1>1, <1>2, <2>3, <2>4, <2>5 DEF CountOK
  <1> QED BY <1>3, PassTypes, CountsNext

LEMMA PassMovesKeeps ==
    ASSUME WasmInv, NEW p \in Passes, NEW r, NEW ws, PassMoves(p, r, ws)
    PROVE  WasmInv'
  BY PassTypes, PassPlaces, PassInOrder, PassCounts DEF WasmInv

-----------------------------------------------------------------------------
(* Each step of a pass has that shape.                                       *)

\* What no step of a pass changes.
Apart ==
    /\ UNCHANGED <<wasmScene, migrations, latest, home, migrated, code, contract, cut>>
    /\ failures' \in 0..wasmScene.faults

LEMMA SomePass ==
    ASSUME WasmInv, NEW p \in Passes
    PROVE  /\ pass[p] \in PassType /\ pass \in [Passes -> PassType] /\ PassOK(p)
           /\ AtRest \in PassType
           /\ worker \in [Passes -> [Codes -> WorkerType]] /\ worker[p] \in [Codes -> WorkerType]
           /\ latest \in 0..MaxCode /\ MaxCode \in Nat /\ PageLimit \in Nat \ {0}
           /\ failures \in 0..wasmScene.faults /\ wasmScene.faults \in Nat
           /\ wasmScene.passes \subseteq Passes
           /\ lost \subseteq Codes
           /\ state \in [full : BOOLEAN, codes : 0..latest, contracts : 0..Cardinality(Contracts)]
           /\ \A k \in Codes : worker[p][k].at = "idle" => \A c \in Contracts : worker[p][k].hand[c] = "no"
  <1>1. /\ pass[p] \in PassType /\ pass \in [Passes -> PassType] /\ PassOK(p)
        /\ worker \in [Passes -> [Codes -> WorkerType]] /\ worker[p] \in [Codes -> WorkerType]
        /\ failures \in 0..wasmScene.faults /\ lost \subseteq Codes
        /\ state \in [full : BOOLEAN, codes : 0..latest, contracts : 0..Cardinality(Contracts)]
    BY DEF WasmInv, IndexTypeOK, PlacesOK
  <1>2. latest \in 0..wasmScene.codes /\ wasmScene \in WasmScenes
    BY DEF WasmInv, IndexTypeOK
  <1>3. /\ latest \in 0..MaxCode /\ MaxCode \in Nat /\ PageLimit \in Nat \ {0} /\ wasmScene.faults \in Nat
        /\ wasmScene.passes \subseteq Passes
    BY <1>2, WasmAssumption DEF WasmAssumption
  <1>4. \A k \in Codes : worker[p][k].at = "idle" => \A c \in Contracts : worker[p][k].hand[c] = "no"
    BY DEF WasmInv, PlacesOK, WorkerOK
  <1>5. AtRest \in PassType
    <2>1. Cardinality(Contracts) \in Nat
      BY SomeContracts
    <2> QED BY <1>3, <2>1 DEF AtRest, PassType
  <1> QED BY <1>1, <1>3, <1>4, <1>5

LEMMA PassRecord ==
    ASSUME WasmInv, NEW p \in Passes
    PROVE  /\ pass[p] \in PassType /\ pass \in [Passes -> PassType] /\ latest \in Nat
           /\ latest \in 0..latest /\ 1 \in 0..(latest + 1)
  <1>1. latest \in 0..MaxCode /\ MaxCode \in Nat
    BY SomePass
  <1>2. latest \in Nat /\ latest \in 0..latest /\ 1 \in 0..(latest + 1)
    BY <1>1
  <1> QED BY <1>2, SomePass

\* The worker of a pass at work keeps to its place.
LEMMA StayingPass ==
    ASSUME WasmInv, NEW p \in Passes, NEW r \in PassType, Apart,
           pass' = [pass EXCEPT ![p] = r], worker' = worker,
           state' \in [full : BOOLEAN, codes : 0..latest, contracts : 0..Cardinality(Contracts)],
           started' \in {"first", "timers"},
           lost' \subseteq Codes, lost \subseteq lost',
           \A k \in Codes : worker[p][k].at = "idle",
           \A k \in r.left : code[k].stored,
           \A j \in 1..latest : j \in AheadOf(pass[p]) => j \in lost' \/ code[j].stored \/ j \in AheadOf(r),
           r.at = "new" => KnownBelow(r.next)
    PROVE  WasmInv'
  <1>1. worker' = [worker EXCEPT ![p] = worker[p]] /\ worker[p] \in [Codes -> WorkerType]
    BY SomePass
  <1>2. \A k \in Codes : worker[p][k].at \in Taken => worker[p][k].at \in Taken \/ KnownBelow(k)
    OBVIOUS
  <1>3. \A j \in 1..latest : j \in AheadOf(pass[p]) \cup InHand(p) =>
          j \in lost' \/ code[j].stored \/ j \in AheadOf(r) \/ worker[p][j].at \in Taken
    BY DEF InHand
  <1>4. PassMoves(p, r, worker[p])
    BY <1>1, <1>2, <1>3 DEF PassMoves, Apart
  <1> QED BY <1>4, PassMovesKeeps

LEMMA BeginKeeps ==
    ASSUME WasmInv, NEW p \in Passes, NEW full \in BOOLEAN, Begin(p, full), pass[p].at = "rest",
           UNCHANGED <<boundVars, chainVars, dbVars, worker, historyVars>>, started' \in {"first", "timers"}
    PROVE  WasmInv'
  <1> DEFINE r == [AtRest EXCEPT !.full = full, !.at = IF full THEN "page" ELSE "latest"]
  <1>1. r \in PassType /\ r.at \in {"page", "latest"} /\ r.left = {} /\ pass' = [pass EXCEPT ![p] = r]
    BY SomePass DEF Begin, AtRest, PassType
  <1>2. Apart /\ lost' = lost /\ state' = state /\ worker' = worker
    BY SomePass DEF Apart, boundVars, chainVars, dbVars, historyVars
  <1>3. \A k \in Codes : worker[p][k].at = "idle"
    BY SomePass DEF PassOK
  <1>4. AheadOf(pass[p]) = {}
    BY DEF AheadOf
  <1> HIDE DEF r
  <1> QED BY <1>1, <1>2, <1>3, <1>4, SomePass, StayingPass

LEMMA StartKeeps ==
    ASSUME WasmInv, NEW p \in Passes, Start(p)
    PROVE  WasmInv'
  <1>1. PICK full \in BOOLEAN : Begin(p, full)
    BY DEF Start
  <1>2. pass[p].at = "rest" /\ started' = "first"
        /\ UNCHANGED <<boundVars, chainVars, dbVars, worker, historyVars>>
    BY SomePass DEF Start, PassOK
  <1> QED BY <1>1, <1>2, BeginKeeps

LEMMA TickKeeps ==
    ASSUME WasmInv, NEW p \in Passes, NEW full \in BOOLEAN, Tick(p, full)
    PROVE  WasmInv'
  BY BeginKeeps DEF Tick, Resting

LEMMA FetchCodesFailsKeeps ==
    ASSUME WasmInv, NEW p \in Passes, FetchCodesFails(p)
    PROVE  WasmInv'
  <1> DEFINE r == [pass[p] EXCEPT !.at = "codes", !.below = 1]
  <1>1. r \in PassType /\ r.at = "codes" /\ r.left = pass[p].left /\ pass' = [pass EXCEPT ![p] = r]
    BY PassRecord DEF FetchCodesFails, PassType
  <1>2. Apart /\ state' = state /\ worker' = worker /\ started' = started /\ pass[p].at = "page"
        /\ lost' = lost \cup Unstored(Ahead(p)) /\ lost \subseteq Codes
    BY SomePass DEF FetchCodesFails, Apart, chainVars, dbVars
  <1>3. /\ \A k \in Codes : worker[p][k].at = "idle"
        /\ started' \in {"first", "timers"}
        /\ \A k \in r.left : code[k].stored
    <2>1. started \in {"no", "first", "timers"}
      BY DEF WasmInv, IndexTypeOK
    <2> QED BY <1>1, <1>2, <2>1, SomePass DEF PassOK
  <1>4. \A j \in 1..latest : j \in AheadOf(pass[p]) => j \in lost' \/ code[j].stored
    BY <1>2, AheadIs DEF Unstored
  <1>5. lost' \subseteq Codes
    <2>1. Unstored(Ahead(p)) \subseteq Codes
      <3>1. latest \in 0..MaxCode /\ MaxCode \in Nat
        BY SomePass
      <3> QED BY <3>1 DEF Unstored, Codes
    <2> QED BY <1>2, <2>1
  <1> HIDE DEF r
  <1> QED BY <1>1, <1>2, <1>3, <1>4, <1>5, SomePass, StayingPass

LEMMA PageDoneKeeps ==
    ASSUME WasmInv, NEW p \in Passes, PageDone(p)
    PROVE  WasmInv'
  <1> DEFINE r == [pass[p] EXCEPT !.at = IF pass[p].below > 1 THEN "page" ELSE "codes"]
  <1>1. r \in PassType /\ r.at \in {"page", "codes"} /\ r.left = pass[p].left /\ r.below = pass[p].below
        /\ pass' = [pass EXCEPT ![p] = r] /\ pass[p].below \in Nat
        /\ (pass[p].below > 1 => r.at = "page")
    BY PassRecord DEF PageDone, PassType
  <1>2. Apart /\ state' = state /\ worker' = worker /\ started' = started /\ lost' = lost
        /\ pass[p].at = "work" /\ \A k \in Codes : worker[p][k].at = "idle"
    BY SomePass DEF PageDone, Apart, boundVars, chainVars, dbVars, historyVars
  <1>3. /\ started' \in {"first", "timers"}
        /\ \A k \in r.left : code[k].stored
    <2>1. started \in {"no", "first", "timers"}
      BY DEF WasmInv, IndexTypeOK
    <2> QED BY <1>1, <1>2, <2>1, SomePass DEF PassOK
  <1> HIDE DEF r
  <1>4. \A j \in 1..latest : j \in AheadOf(pass[p]) => j \in AheadOf(r)
    BY <1>1, <1>2 DEF AheadOf
  <1> QED BY <1>1, <1>2, <1>3, <1>4, SomePass, StayingPass

\* A step of a pass between its loops.
LEMMA BetweenLoops ==
    ASSUME WasmInv, NEW p \in Passes, NEW r \in PassType,
           pass[p].at \in {"latest", "greatest", "existing", "codes", "contracts", "state"},
           pass' = [pass EXCEPT ![p] = r], Apart, worker' = worker, lost' = lost,
           state' \in [full : BOOLEAN, codes : 0..latest, contracts : 0..Cardinality(Contracts)],
           started' \in {started, "timers"},
           \A k \in r.left : code[k].stored,
           r.at = "new" => KnownBelow(r.next)
    PROVE  WasmInv'
  <1>1. \A k \in Codes : worker[p][k].at = "idle"
    BY SomePass DEF PassOK
  <1>2. started' \in {"first", "timers"}
    <2>1. started \in {"no", "first", "timers"}
      BY DEF WasmInv, IndexTypeOK
    <2> QED BY <2>1, SomePass DEF PassOK
  <1>3. AheadOf(pass[p]) = {}
    BY DEF AheadOf
  <1> QED BY <1>1, <1>2, <1>3, SomePass, StayingPass

LEMMA FetchLatestKeeps ==
    ASSUME WasmInv, NEW p \in Passes, FetchLatest(p)
    PROVE  WasmInv'
  <1> DEFINE r == [pass[p] EXCEPT !.at = IF latest = 0 THEN "existing" ELSE "greatest", !.upto = latest]
  <1>1. r \in PassType /\ r.at \in {"existing", "greatest"} /\ r.left = pass[p].left
        /\ pass' = [pass EXCEPT ![p] = r]
    BY PassRecord DEF FetchLatest, PassType
  <1>2. Apart /\ state' = state /\ worker' = worker /\ started' = started /\ lost' = lost
        /\ pass[p].at = "latest"
    BY SomePass DEF FetchLatest, Apart, boundVars, chainVars, dbVars, historyVars
  <1>3. \A k \in r.left : code[k].stored
    BY <1>1, SomePass DEF PassOK
  <1> HIDE DEF r
  <1> QED BY <1>1, <1>2, <1>3, SomePass, BetweenLoops

\* All codes up to the greatest stored one are stored or in the way of a pass.
LEMMA KnownToGreatest ==
    ASSUME WasmInv
    PROVE  Greatest \in 0..latest /\ KnownBelow(Greatest + 1)
  <1>1. latest \in 0..MaxCode /\ MaxCode \in Nat
    BY WasmAssumption DEF WasmInv, IndexTypeOK, WasmAssumption
  <1>2. \A k \in Codes : code[k].stored => k <= latest
    BY DEF WasmInv, InOrder
  <1>3. /\ Greatest \in 0..latest
        /\ Greatest # 0 => code[Greatest].stored
    BY <1>2, GreatestIs DEF WasmInv
  <1>4. ASSUME NEW j \in 1..Greatest PROVE Known(j)
    <2>1. Greatest \in Codes /\ code[Greatest].stored
      BY <1>1, <1>3 DEF Codes
    <2>2. CASE j = Greatest
      BY <2>1, <2>2 DEF Known
    <2>3. CASE j # Greatest
      <3>1. j \in 1..(Greatest - 1)
        BY <1>1, <1>3, <2>3
      <3> QED BY <2>1, <3>1 DEF WasmInv, InOrder, KnownBelow
    <2> QED BY <2>2, <2>3
  <1>5. 1..((Greatest + 1) - 1) = 1..Greatest
    BY <1>1, <1>3
  <1> QED BY <1>3, <1>4, <1>5 DEF KnownBelow

LEMMA ReadGreatestKeeps ==
    ASSUME WasmInv, NEW p \in Passes, ReadGreatest(p)
    PROVE  WasmInv'
  <1> DEFINE r == [pass[p] EXCEPT !.at = "new", !.next = Greatest + 1]
  <1>1. Greatest + 1 \in 0..(latest + 1)
    BY SomePass, KnownToGreatest
  <1>2. r \in PassType /\ r.at = "new" /\ r.next = Greatest + 1 /\ r.left = pass[p].left
        /\ pass' = [pass EXCEPT ![p] = r]
    BY PassRecord, <1>1 DEF ReadGreatest, PassType
  <1>3. Apart /\ state' = state /\ worker' = worker /\ started' = started /\ lost' = lost
        /\ pass[p].at = "greatest"
    BY SomePass DEF ReadGreatest, Apart, boundVars, chainVars, dbVars, historyVars
  <1>4. \A k \in r.left : code[k].stored
    BY <1>2, SomePass DEF PassOK
  <1>5. KnownBelow(r.next)
    BY <1>2, KnownToGreatest
  <1> HIDE DEF r
  <1> QED BY <1>2, <1>3, <1>4, <1>5, SomePass, BetweenLoops

LEMMA ReadExistingKeeps ==
    ASSUME WasmInv, NEW p \in Passes, ReadExisting(p)
    PROVE  WasmInv'
  <1> DEFINE r == [pass[p] EXCEPT !.at = "list", !.left = StoredCodes]
  <1>1. r \in PassType /\ r.at = "list" /\ r.left = StoredCodes /\ pass' = [pass EXCEPT ![p] = r]
    BY PassRecord DEF ReadExisting, PassType, StoredCodes
  <1>2. Apart /\ state' = state /\ worker' = worker /\ started' = started /\ lost' = lost
        /\ pass[p].at = "existing"
    BY SomePass DEF ReadExisting, Apart, boundVars, chainVars, dbVars, historyVars
  <1>3. \A k \in r.left : code[k].stored
    BY <1>1 DEF StoredCodes
  <1> HIDE DEF r
  <1> QED BY <1>1, <1>2, <1>3, SomePass, BetweenLoops

LEMMA FewStored ==
    ASSUME WasmInv
    PROVE  Cardinality(StoredCodes) \in 0..latest /\ Cardinality(Indexed) \in 0..Cardinality(Contracts)
  <1>1. latest \in Nat
    BY SomePass, WasmAssumption DEF WasmInv, IndexTypeOK, WasmAssumption
  <1>2. StoredCodes \subseteq 1..latest
    BY DEF StoredCodes, Codes, WasmInv, InOrder
  <1>3. IsFiniteSet(1..latest) /\ Cardinality(1..latest) = latest
    BY <1>1, FS_Interval
  <1>4. IsFiniteSet(StoredCodes) /\ Cardinality(StoredCodes) <= latest
    BY <1>2, <1>3, FS_Subset
  <1>5. Cardinality(StoredCodes) \in Nat
    BY <1>4, FS_CardinalityType
  <1>6. Indexed \in SUBSET Contracts /\ Contracts \in SUBSET Contracts
    BY DEF Indexed
  <1> QED BY <1>1, <1>4, <1>5, <1>6, SomeContracts

LEMMA CountTotalsKeeps ==
    ASSUME WasmInv, NEW p \in Passes, CountTotals(p)
    PROVE  WasmInv'
  <1> DEFINE r == IF pass[p].at = "codes"
                  THEN [pass[p] EXCEPT !.at = "contracts", !.codes = Cardinality(StoredCodes)]
                  ELSE [pass[p] EXCEPT !.at = "state", !.contracts = Cardinality(Indexed)]
  <1>1. r \in PassType /\ r.at \in {"contracts", "state"} /\ r.left = pass[p].left
    BY PassRecord, FewStored DEF PassType
  <1>2. pass' = [pass EXCEPT ![p] = r]
    BY DEF CountTotals
  <1>3. Apart /\ state' = state /\ worker' = worker /\ started' = started /\ lost' = lost
        /\ pass[p].at \in {"codes", "contracts"}
    BY SomePass DEF CountTotals, Apart, boundVars, chainVars, dbVars, historyVars
  <1>4. \A k \in r.left : code[k].stored
    BY <1>1, SomePass DEF PassOK
  <1> HIDE DEF r
  <1> QED BY <1>1, <1>2, <1>3, <1>4, SomePass, BetweenLoops

LEMMA EndingKeeps ==
    ASSUME WasmInv, NEW p \in Passes, UpdateWasmState(p) \/ PassFails(p)
    PROVE  WasmInv'
  <1>1. /\ pass' = [pass EXCEPT ![p] = AtRest] /\ started' = "timers"
        /\ pass[p].at \in {"latest", "greatest", "existing", "codes", "contracts", "state"}
        /\ Apart /\ worker' = worker /\ lost' = lost
    BY SomePass DEF UpdateWasmState, PassFails, EndPass, Apart, boundVars, chainVars, dbVars, historyVars
  <1>2. state' \in [full : BOOLEAN, codes : 0..latest, contracts : 0..Cardinality(Contracts)]
    BY SomePass DEF UpdateWasmState, PassFails, dbVars, PassType
  <1>3. AtRest \in PassType /\ AtRest.at = "rest" /\ AtRest.left = {}
    BY SomePass DEF AtRest
  <1> QED BY <1>1, <1>2, <1>3, BetweenLoops

-----------------------------------------------------------------------------
(* The steps that give work to workers.                                      *)

LEMMA FetchCodesKeeps ==
    ASSUME WasmInv, NEW p \in Passes, FetchCodes(p)
    PROVE  WasmInv'
  <1> DEFINE n == IF pass[p].below = 0 THEN latest ELSE pass[p].below - 1
             page == PageOf(n)
             b == IF n > PageLimit THEN n - PageLimit + 1 ELSE 1
             a == IF page = {} THEN "codes" ELSE "work"
             r == [pass[p] EXCEPT !.at = a, !.below = b]
             ws == [k \in Codes |-> IF k \in page THEN [Idle EXCEPT !.at = "find"] ELSE Idle]
  <1>1. /\ pass' = [pass EXCEPT ![p].at = a, ![p].below = b] /\ worker' = [worker EXCEPT ![p] = ws]
        /\ pass[p].at = "page"
    BY DEF FetchCodes
  <1>2. /\ pass[p] \in PassType /\ latest \in 0..MaxCode /\ MaxCode \in Nat /\ PageLimit \in Nat \ {0}
        /\ pass[p].below \in 0..(latest + 1)
    <2>1. pass[p] \in PassType /\ latest \in 0..MaxCode /\ MaxCode \in Nat /\ PageLimit \in Nat \ {0}
      BY SomePass
    <2> QED BY <2>1 DEF PassType
  <1>3. n \in 0..latest
    BY <1>2
  <1> HIDE DEF n
  <1>4. page = {k \in 1..n : k > n - PageLimit}
    BY DEF PageOf
  <1>5. page = {} => n = 0
    <2> SUFFICES ASSUME n # 0 PROVE n \in page
      OBVIOUS
    <2> QED BY <1>2, <1>3, <1>4
  <1>6. b \in 0..(latest + 1) /\ b # 0 /\ (b > 1 => b - 1 = n - PageLimit) /\ b \in Nat
    BY <1>2, <1>3
  <1>7. \A j \in 1..n : j \in page \/ (page # {} /\ j \in 1..(b - 1))
    <2> SUFFICES ASSUME NEW j \in 1..n, j \notin page PROVE page # {} /\ j \in 1..(b - 1)
      OBVIOUS
    <2>1. j <= n - PageLimit
      BY <1>2, <1>3, <1>4
    <2>2. n > PageLimit /\ b = n - PageLimit + 1
      BY <1>2, <1>3, <2>1
    <2> QED BY <1>2, <1>3, <1>5, <2>1, <2>2
  <1> HIDE DEF page, b
  <1>8. /\ r \in PassType /\ r.at = a /\ r.below = b /\ r.left = pass[p].left
        /\ pass' = [pass EXCEPT ![p] = r]
    BY <1>1, <1>2, <1>6 DEF PassType
  <1>9. /\ ws \in [Codes -> WorkerType]
        /\ \A k \in Codes : IF k \in page THEN ws[k].at = "find" ELSE ws[k].at = "idle"
        /\ \A k \in Codes : \A c \in Contracts : ws[k].hand[c] = "no"
    BY DEF Idle, WorkerType
  <1>10. /\ PassOK(p)
         /\ \A k \in Codes : worker[p][k].at = "idle"
         /\ \A k \in r.left : code[k].stored
    <2>1. PassOK(p)
      BY SomePass
    <2> QED BY <1>1, <1>8, <2>1 DEF PassOK
  <1>11. Apart /\ state' = state /\ started' = started /\ lost' = lost
    BY SomePass DEF FetchCodes, Apart, boundVars, chainVars, dbVars, historyVars
  <1>12. started' \in {"first", "timers"}
    <2>1. started \in {"no", "first", "timers"}
      BY DEF WasmInv, IndexTypeOK
    <2> QED BY <1>1, <1>10, <1>11, <2>1 DEF PassOK
  <1>13. \A j \in 1..latest : j \in AheadOf(pass[p]) => j \in 1..n
    BY <1>1, <1>2 DEF AheadOf, n
  <1>14. 1..n \subseteq Codes /\ 1..latest \subseteq Codes
    BY <1>2, <1>3 DEF Codes
  <1>15. page \subseteq 1..n /\ \A k \in page : k <= latest /\ KnownBelow(k)
    <2> SUFFICES ASSUME NEW k \in page PROVE k \in 1..n /\ k <= latest /\ KnownBelow(k)
      OBVIOUS
    <2>1. k \in 1..n
      BY <1>4
    <2>2. \A j \in 1..(k - 1) : j \in AheadOf(pass[p])
      BY <1>1, <1>2, <1>3, <2>1 DEF AheadOf, n, Codes
    <2>3. KnownBelow(k)
      BY <2>2, AheadIs DEF KnownBelow, Known
    <2> QED BY <1>2, <1>3, <2>1, <2>3
  <1> HIDE DEF ws, r
  <1>16. \A j \in 1..latest : j \in AheadOf(pass[p]) \cup InHand(p) =>
            j \in lost' \/ code[j].stored \/ j \in AheadOf(r) \/ ws[j].at \in Taken
    <2> SUFFICES ASSUME NEW j \in 1..latest, j \in AheadOf(pass[p]) \cup InHand(p)
                 PROVE  j \in AheadOf(r) \/ ws[j].at \in Taken
      OBVIOUS
    <2>1. j \in AheadOf(pass[p])
      BY <1>10 DEF InHand
    <2>2. CASE j \in page
      BY <1>9, <1>14, <2>2 DEF Taken
    <2>3. CASE j \notin page
      <3>1. page # {} /\ j \in 1..(b - 1)
        BY <1>7, <1>13, <2>1, <2>3
      <3>2. r.at = "work"
        BY <1>8, <3>1
      <3> QED BY <1>8, <3>1, <3>2 DEF AheadOf
    <2> QED BY <2>2, <2>3
  <1>17. \A k \in Codes : \/ ws[k] = worker[p][k]
                          \/ /\ worker[p][k].at = "idle" /\ ws[k].at \in {"idle", "find", "fetch"}
                             /\ ws[k].at # "idle" => k <= latest
                             /\ ws[k].at = "fetch" => code[k].stored
                             /\ \A c \in Contracts : ws[k].hand[c] = "no"
    BY <1>9, <1>10, <1>15
  <1>18. \A k \in Codes : ws[k].at \in Taken => worker[p][k].at \in Taken \/ KnownBelow(k)
    BY <1>9, <1>15 DEF Taken
  <1>19. r.at \notin {"work", "new", "list"} => \A k \in Codes : ws[k].at = "idle"
    BY <1>8, <1>9
  <1>20. state' \in [full : BOOLEAN, codes : 0..latest, contracts : 0..Cardinality(Contracts)]
         /\ lost' \subseteq Codes /\ r.at # "new"
    BY <1>8, <1>11, SomePass
  <1>21. PassMoves(p, r, ws)
    BY <1>1, <1>8, <1>9, <1>10, <1>11, <1>12, <1>16, <1>17, <1>18, <1>19, <1>20 DEF PassMoves, Apart
  <1> QED BY <1>21, PassMovesKeeps

\* A pass gives code k to its worker, all others being idle.
LEMMA GivenOne ==
    ASSUME WasmInv, NEW p \in Passes, NEW r \in PassType, NEW k \in Codes, NEW a \in {"find", "fetch"},
           pass' = [pass EXCEPT ![p] = r], worker' = [worker EXCEPT ![p][k].at = a],
           Apart, state' = state, started' = started, lost' = lost,
           pass[p].at = r.at, r.at \in {"new", "list"},
           \A j \in Codes : worker[p][j].at = "idle",
           k <= latest, a = "fetch" => code[k].stored, a = "find" => KnownBelow(k),
           r.left \subseteq pass[p].left,
           \A j \in AheadOf(pass[p]) : j \in AheadOf(r) \/ (j = k /\ a = "find"),
           r.at = "new" => KnownBelow(r.next)
    PROVE  WasmInv'
  <1> DEFINE ws == [worker[p] EXCEPT ![k].at = a]
  <1>1. /\ worker \in [Passes -> [Codes -> WorkerType]] /\ worker[p] \in [Codes -> WorkerType]
        /\ pass[p] \in PassType /\ PassOK(p) /\ lost \subseteq Codes
        /\ state \in [full : BOOLEAN, codes : 0..latest, contracts : 0..Cardinality(Contracts)]
    BY SomePass
  <1>2. /\ ws \in [Codes -> WorkerType] /\ worker' = [worker EXCEPT ![p] = ws]
    <2>1. PICK w : w = [worker[p][k] EXCEPT !.at = a]
      OBVIOUS
    <2>2. w \in WorkerType
      <3>1. worker[p][k] \in WorkerType
        BY <1>1
      <3> QED BY <2>1, <3>1 DEF WorkerType
    <2>3. ws = [worker[p] EXCEPT ![k] = w] /\ worker' = [worker EXCEPT ![p] = ws]
      BY <1>1, <2>1
    <2> QED BY <1>1, <2>2, <2>3
  <1>3. /\ ws[k].at = a /\ ws[k].hand = worker[p][k].hand
        /\ \A j \in Codes : j # k => ws[j] = worker[p][j]
    BY <1>1 DEF WorkerType
  <1> HIDE DEF ws
  <1>4. \A c \in Contracts : worker[p][k].hand[c] = "no"
    BY SomePass
  <1>5. started' \in {"first", "timers"}
    <2>1. started \in {"no", "first", "timers"}
      BY DEF WasmInv, IndexTypeOK
    <2> QED BY <1>1, <2>1 DEF PassOK
  <1>6. \A j \in Codes : \/ ws[j] = worker[p][j]
                         \/ /\ worker[p][j].at = "idle" /\ ws[j].at \in {"idle", "find", "fetch"}
                            /\ ws[j].at # "idle" => j <= latest
                            /\ ws[j].at = "fetch" => code[j].stored
                            /\ \A c \in Contracts : ws[j].hand[c] = "no"
    <2> SUFFICES ASSUME NEW j \in Codes, ws[j] # worker[p][j]
                 PROVE  /\ worker[p][j].at = "idle" /\ ws[j].at \in {"idle", "find", "fetch"}
                        /\ ws[j].at # "idle" => j <= latest
                        /\ ws[j].at = "fetch" => code[j].stored
                        /\ \A c \in Contracts : ws[j].hand[c] = "no"
      OBVIOUS
    <2>1. j = k
      BY <1>3
    <2> QED BY <1>3, <1>4, <2>1
  <1>7. \A j \in Codes : ws[j].at \in Taken => worker[p][j].at \in Taken \/ KnownBelow(j)
    BY <1>3 DEF Taken
  <1>8. \A j \in 1..latest : j \in AheadOf(pass[p]) \cup InHand(p) =>
            j \in lost' \/ code[j].stored \/ j \in AheadOf(r) \/ ws[j].at \in Taken
    BY <1>3 DEF InHand, Taken
  <1>9. \A j \in r.left : code[j].stored
    BY <1>1 DEF PassOK
  <1>10. PassMoves(p, r, ws)
    BY <1>1, <1>2, <1>5, <1>6, <1>7, <1>8, <1>9 DEF PassMoves, Apart
  <1> QED BY <1>10, PassMovesKeeps

LEMMA NextNewKeeps ==
    ASSUME WasmInv, NEW p \in Passes, NextNew(p)
    PROVE  WasmInv'
  <1> DEFINE k == pass[p].next
  <1>1. /\ pass[p] \in PassType /\ pass[p].next \in Nat /\ pass[p].upto \in Nat
        /\ pass[p].next <= pass[p].upto => pass[p].next + 1 \in 0..(latest + 1) /\ pass[p].next <= latest
        /\ latest \in 0..MaxCode /\ MaxCode \in Nat
    <2>1. pass[p] \in PassType /\ latest \in 0..MaxCode /\ MaxCode \in Nat
      BY SomePass
    <2> QED BY <2>1 DEF PassType
  <1>2. Apart /\ state' = state /\ started' = started /\ lost' = lost /\ pass[p].at = "new"
        /\ \A j \in Codes : worker[p][j].at = "idle"
    BY SomePass DEF NextNew, Apart, boundVars, chainVars, dbVars, historyVars
  <1>3. KnownBelow(k)
    BY <1>2 DEF WasmInv, InOrder
  <1>4. CASE k <= pass[p].upto
    <2> DEFINE r == [pass[p] EXCEPT !.next = k + 1]
    <2>1. /\ r \in PassType /\ r.next = k + 1 /\ r.upto = pass[p].upto /\ r.at = pass[p].at
          /\ r.left = pass[p].left
      BY <1>1, <1>4 DEF PassType
    <2>2. pass' = [pass EXCEPT ![p] = r] /\ worker' = [worker EXCEPT ![p][k].at = "find"]
      BY <1>4 DEF NextNew
    <2>3. \A j \in AheadOf(pass[p]) : j \in k..pass[p].upto
      BY <1>2 DEF AheadOf
    <2>4. k \in AheadOf(pass[p])
      BY <1>1, <1>2, <1>4 DEF AheadOf
    <2>5. Known(k)
      BY <2>4, AheadIs DEF Known
    <2>6. KnownBelow(k + 1)
      BY <1>1, <1>3, <2>5 DEF KnownBelow
    <2> HIDE DEF r
    <2>7. \A j \in AheadOf(pass[p]) : j \in AheadOf(r) \/ (j = k /\ "find" = "find")
      BY <1>1, <1>2, <2>1, <2>3 DEF AheadOf
    <2>8. CASE k \in Codes
      BY <1>1, <1>2, <1>3, <1>4, <2>1, <2>2, <2>6, <2>7, <2>8, GivenOne
    <2>9. CASE k \notin Codes
      <3>1. worker' = worker
        BY <2>2, <2>9, SomePass
      <3>2. \A j \in 1..latest : j \in AheadOf(pass[p]) => j \in AheadOf(r)
        <4>1. 1..latest \subseteq Codes
          BY <1>1 DEF Codes
        <4> QED BY <2>7, <2>9, <4>1
      <3>3. \A j \in r.left : code[j].stored
        BY <2>1, SomePass DEF PassOK
      <3>4. started' \in {"first", "timers"}
        <4>1. started \in {"no", "first", "timers"}
          BY DEF WasmInv, IndexTypeOK
        <4> QED BY <1>2, <4>1, SomePass DEF PassOK
      <3> QED BY <1>2, <2>1, <2>2, <2>6, <3>1, <3>2, <3>3, <3>4, SomePass, StayingPass
    <2> QED BY <2>8, <2>9
  <1>5. CASE ~(k <= pass[p].upto)
    <2> DEFINE r == [pass[p] EXCEPT !.at = "existing"]
    <2>1. r \in PassType /\ r.at = "existing" /\ r.left = pass[p].left
      BY <1>1 DEF PassType
    <2>2. pass' = [pass EXCEPT ![p] = r] /\ worker' = worker
      BY <1>5 DEF NextNew
    <2>3. \A j \in 1..latest : j \notin AheadOf(pass[p])
      BY <1>1, <1>2, <1>5 DEF AheadOf
    <2>4. \A j \in r.left : code[j].stored
      BY <2>1, SomePass DEF PassOK
    <2>5. started' \in {"first", "timers"}
      <3>1. started \in {"no", "first", "timers"}
        BY DEF WasmInv, IndexTypeOK
      <3> QED BY <1>2, <3>1, SomePass DEF PassOK
    <2> HIDE DEF r
    <2> QED BY <1>2, <2>1, <2>2, <2>3, <2>4, <2>5, SomePass, StayingPass
  <1> QED BY <1>4, <1>5

LEMMA NextExistingKeeps ==
    ASSUME WasmInv, NEW p \in Passes, NextExisting(p)
    PROVE  WasmInv'
  <1>1. pass[p] \in PassType /\ PassOK(p) /\ pass[p].left \in SUBSET Codes
    <2>1. pass[p] \in PassType /\ PassOK(p)
      BY SomePass
    <2> QED BY <2>1 DEF PassType
  <1>2. Apart /\ state' = state /\ started' = started /\ lost' = lost /\ pass[p].at = "list"
        /\ \A j \in Codes : worker[p][j].at = "idle"
    BY SomePass DEF NextExisting, Apart, boundVars, chainVars, dbVars, historyVars
  <1>3. AheadOf(pass[p]) = {}
    BY <1>2 DEF AheadOf
  <1>4. ASSUME NEW k \in pass[p].left, pass' = [pass EXCEPT ![p].left = @ \ {k}],
               worker' = [worker EXCEPT ![p][k].at = "fetch"]
        PROVE  WasmInv'
    <2> DEFINE r == [pass[p] EXCEPT !.left = @ \ {k}]
    <2>1. r \in PassType /\ r.at = "list" /\ r.left \subseteq pass[p].left /\ pass' = [pass EXCEPT ![p] = r]
      BY <1>1, <1>2, <1>4 DEF PassType
    <2>2. k \in Codes /\ code[k].stored /\ k <= latest
      BY <1>1 DEF PassOK, WasmInv, InOrder
    <2> HIDE DEF r
    <2>3. /\ "fetch" \in {"find", "fetch"}
          /\ "fetch" = "find" => KnownBelow(k)
          /\ \A j \in AheadOf(pass[p]) : j \in AheadOf(r) \/ (j = k /\ "fetch" = "find")
          /\ r.at = "new" => KnownBelow(r.next)
          /\ pass[p].at = r.at /\ r.at \in {"new", "list"}
      BY <1>2, <1>3, <2>1
    <2> QED BY <1>2, <1>4, <2>1, <2>2, <2>3, GivenOne
  <1>5. ASSUME pass' = [pass EXCEPT ![p].at = "codes"], worker' = worker PROVE WasmInv'
    <2> DEFINE r == [pass[p] EXCEPT !.at = "codes"]
    <2>1. r \in PassType /\ r.at = "codes" /\ r.left = pass[p].left /\ pass' = [pass EXCEPT ![p] = r]
      BY <1>1, <1>5 DEF PassType
    <2>2. \A j \in r.left : code[j].stored
      BY <1>1, <2>1 DEF PassOK
    <2>3. started' \in {"first", "timers"}
      <3>1. started \in {"no", "first", "timers"}
        BY DEF WasmInv, IndexTypeOK
      <3> QED BY <1>1, <1>2, <3>1 DEF PassOK
    <2> HIDE DEF r
    <2> QED BY <1>2, <1>3, <1>5, <2>1, <2>2, <2>3, SomePass, StayingPass
  <1> QED BY <1>4, <1>5 DEF NextExisting

-----------------------------------------------------------------------------
(* The chain, a restart, the beginning.                                      *)

LEMMA ChainKeeps ==
    ASSUME WasmInv, WasmMoves
    PROVE  WasmInv'
  <1>1. /\ latest \in Nat /\ MaxCode \in Nat /\ latest' \in Nat /\ latest <= latest'
        /\ latest' \in 0..wasmScene'.codes /\ wasmScene' \in WasmScenes
        /\ migrations' \in 0..wasmScene'.migrations /\ failures' \in 0..wasmScene'.faults
        /\ latest' \in 0..MaxCode
    <2>1. /\ wasmScene \in WasmScenes /\ failures \in 0..wasmScene.faults
          /\ migrations \in 0..wasmScene.migrations /\ latest \in 0..wasmScene.codes
      BY DEF WasmInv, IndexTypeOK
    <2>2. wasmScene.codes \in 0..MaxCode /\ MaxCode \in Nat /\ wasmScene.migrations \in Nat
      BY <2>1, WasmAssumption DEF WasmAssumption
    <2>3. wasmScene' = wasmScene /\ failures' = failures
      BY DEF WasmMoves, StoreCode, Instantiate, Migrate, boundVars
    <2>4. migrations' \in 0..wasmScene.migrations
      BY <2>1, <2>2 DEF WasmMoves, StoreCode, Instantiate, Migrate, boundVars
    <2>5. latest' \in 0..wasmScene.codes /\ (latest' = latest \/ latest' = latest + 1)
      BY <2>1, <2>2 DEF WasmMoves, StoreCode, Instantiate, Migrate
    <2> QED BY <2>1, <2>2, <2>3, <2>4, <2>5
  <1>2. UNCHANGED <<code, contract, state, started, pass, worker, lost, cut>>
    BY DEF WasmMoves, StoreCode, Instantiate, Migrate, dbVars, historyVars
  <1>3. home' \in [Contracts -> 0..latest'] /\ migrated' \subseteq Contracts
    <2>1. home \in [Contracts -> 0..latest] /\ migrated \subseteq Contracts
      BY DEF WasmInv, IndexTypeOK
    <2>2. CASE StoreCode
      BY <1>1, <2>1, <2>2 DEF StoreCode
    <2>3. CASE \E c \in Contracts, k \in Codes : Instantiate(c, k) \/ Migrate(c, k)
      <3>1. PICK c \in Contracts, k \in Codes : Instantiate(c, k) \/ Migrate(c, k)
        BY <2>3
      <3>2. latest' = latest /\ home' = [home EXCEPT ![c] = k] /\ migrated' \in {migrated, migrated \cup {c}}
        BY <3>1 DEF Instantiate, Migrate
      <3>3. k \in 0..latest
        <4>1. CASE Instantiate(c, k)
          BY <1>1, <4>1 DEF Instantiate
        <4>2. CASE Migrate(c, k)
          BY <1>1, <2>1, <4>2 DEF Migrate
        <4> QED BY <3>1, <4>1, <4>2
      <3> QED BY <2>1, <3>2, <3>3
    <2> QED BY <2>2, <2>3 DEF WasmMoves
  <1>4. IndexTypeOK'
    <2>1. /\ code' \in [Codes -> [stored : BOOLEAN, count : Nat]]
          /\ started' \in {"no", "first", "timers"}
          /\ worker' \in [Passes -> [Codes -> WorkerType]]
          /\ lost' \subseteq Codes /\ cut' \subseteq Codes /\ WorkerType' = WorkerType
      BY <1>2 DEF WasmInv, IndexTypeOK, WorkerType
    <2>2. contract' \in [Contracts -> [code : 0..latest', migration : 0..latest']]
      BY <1>1, <1>2 DEF WasmInv, IndexTypeOK
    <2>3. state' \in [full : BOOLEAN, codes : 0..latest', contracts : 0..Cardinality(Contracts)]
      BY <1>1, <1>2 DEF WasmInv, IndexTypeOK
    <2>4. pass' \in [Passes -> PassType']
      <3>1. \A p \in Passes : pass[p] \in PassType => pass[p] \in PassType'
        BY <1>1 DEF PassType
      <3> QED BY <1>2, <3>1 DEF WasmInv, IndexTypeOK
    <2> QED BY <1>1, <1>3, <2>1, <2>2, <2>3, <2>4 DEF IndexTypeOK
  <1>5. PlacesOK'
    <2>1. ASSUME NEW p \in Passes, NEW k \in Codes PROVE WorkerOK(p, k)'
      <3>1. WorkerOK(p, k) /\ ContractsOf(k)' = ContractsOf(k)
        BY <1>2 DEF WasmInv, PlacesOK, ContractsOf
      <3>2. k \in Nat
        BY <1>1 DEF Codes
      <3> QED BY <1>1, <1>2, <3>1, <3>2 DEF WorkerOK
    <2>2. ASSUME NEW p \in Passes PROVE PassOK(p)'
      <3>1. PassOK(p)
        BY DEF WasmInv, PlacesOK
      <3> QED BY <1>2, <3>1 DEF PassOK
    <2> QED BY <2>1, <2>2 DEF PlacesOK
  <1>6. InOrder'
    <2>1. \A j : Known(j)' = Known(j)
      BY <1>2 DEF Known, Ahead, InHand
    <2>2. \A n : KnownBelow(n)' = KnownBelow(n)
      BY <2>1 DEF KnownBelow
    <2>3. \A p \in Passes : InHand(p)' = InHand(p)
      BY <1>2 DEF InHand
    <2>4. \A k \in Codes : code'[k].stored => k <= latest' /\ KnownBelow(k)'
      <3> SUFFICES ASSUME NEW k \in Codes, code[k].stored PROVE k <= latest' /\ KnownBelow(k)'
        BY <1>2
      <3>1. k <= latest /\ KnownBelow(k) /\ k \in Nat
        BY <1>1 DEF WasmInv, InOrder, Codes
      <3> QED BY <1>1, <2>2, <3>1
    <2>5. \A p \in Passes : \A k \in InHand(p)' : KnownBelow(k)'
      BY <2>2, <2>3 DEF WasmInv, InOrder
    <2>6. ASSUME NEW p \in Passes, pass'[p].at = "new" PROVE KnownBelow(pass[p].next)'
      <3>1. PICK n : n = pass[p].next /\ n = pass'[p].next
        BY <1>2
      <3>2. KnownBelow(n)'
        BY <1>2, <2>2, <2>6, <3>1 DEF WasmInv, InOrder
      <3> QED BY <3>1, <3>2 DEF KnownBelow
    <2> QED BY <2>4, <2>5, <2>6 DEF InOrder
  <1>7. CountHolds'
    BY <1>2 DEF WasmInv, CountHolds, ContractsOf, Recounting
  <1> QED BY <1>4, <1>5, <1>6, <1>7 DEF WasmInv

\* What a stop leaves: every pass at rest, every worker idle.
LEMMA AtRestKeeps ==
    ASSUME WasmInv, Restart
    PROVE  WasmInv'
  <1>1. /\ UNCHANGED <<wasmScene, migrations, latest, home, migrated, code, contract, state>>
        /\ started' = "no" /\ pass' = [p \in Passes |-> AtRest]
        /\ worker' = [p \in Passes |-> [k \in Codes |-> Idle]]
        /\ lost' = lost \cup Unstored(UNION {Ahead(p) \cup InHand(p) : p \in Passes})
        /\ cut' = cut \cup UNION {Recounting(p) : p \in Passes}
        /\ failures' = failures - 1 /\ failures > 0
    BY DEF Restart, chainVars, dbVars
  <1>2. /\ latest \in 0..MaxCode /\ MaxCode \in Nat /\ failures \in 0..wasmScene.faults
        /\ wasmScene.faults \in Nat /\ wasmScene \in WasmScenes
    <2>1. wasmScene \in WasmScenes /\ failures \in 0..wasmScene.faults /\ latest \in 0..wasmScene.codes
      BY DEF WasmInv, IndexTypeOK
    <2> QED BY <2>1, WasmAssumption DEF WasmAssumption
  <1>3. AtRest \in PassType /\ Idle \in WorkerType
    <2>1. 0 \in 0..latest /\ 0 \in 0..(latest + 1)
      BY <1>2
    <2>2. 0 \in 0..Cardinality(Contracts)
      <3>1. Contracts \in SUBSET Contracts
        OBVIOUS
      <3> QED BY <3>1, SomeContracts
    <2> QED BY <2>1, <2>2 DEF AtRest, PassType, Idle, WorkerType
  <1>4. 1..latest \subseteq Codes
    BY <1>2 DEF Codes
  <1>5. lost' \subseteq Codes /\ cut' \subseteq Codes
    <2>1. lost \subseteq Codes /\ cut \subseteq Codes
      BY DEF WasmInv, IndexTypeOK
    <2> QED BY <1>1, <1>4, <2>1 DEF Unstored, Recounting
  <1>6. IndexTypeOK'
    <2>1. PassType' = PassType /\ WorkerType' = WorkerType
      BY <1>1 DEF PassType, WorkerType
    <2>2. failures' \in 0..wasmScene.faults
      BY <1>1, <1>2
    <2>3. pass' \in [Passes -> PassType] /\ worker' \in [Passes -> [Codes -> WorkerType]]
      BY <1>1, <1>3
    <2> QED BY <1>1, <1>5, <2>1, <2>2, <2>3 DEF WasmInv, IndexTypeOK
  <1>7. PlacesOK'
    <2>1. \A p \in Passes : pass'[p].at = "rest" /\ pass'[p].left = {}
      BY <1>1 DEF AtRest
    <2>2. \A p \in Passes, k \in Codes :
            worker'[p][k].at = "idle" /\ \A c \in Contracts : worker'[p][k].hand[c] = "no"
      BY <1>1 DEF Idle
    <2> QED BY <2>1, <2>2 DEF PlacesOK, PassOK, WorkerOK, Busy
  <1>8. InOrder'
    <2>1. \A p \in Passes : pass'[p].at = "rest" /\ InHand(p)' = {}
      BY <1>1 DEF AtRest, Idle, InHand
    <2>2. ASSUME NEW j \in 1..latest, Known(j) PROVE Known(j)'
      <3>1. code[j].stored \/ j \in lost \/ j \in UNION {Ahead(p) \cup InHand(p) : p \in Passes}
        BY <2>2 DEF Known
      <3>2. code'[j].stored \/ j \in lost'
        BY <1>1, <3>1 DEF Unstored
      <3> QED BY <3>2 DEF Known
    <2>3. ASSUME NEW k \in Codes, code'[k].stored PROVE k <= latest' /\ KnownBelow(k)'
      <3>1. k <= latest /\ KnownBelow(k) /\ k \in Nat
        BY <1>1, <1>2, <2>3 DEF WasmInv, InOrder, Codes
      <3>2. \A j \in 1..(k - 1) : j \in 1..latest
        BY <1>2, <3>1
      <3> QED BY <1>1, <2>2, <3>1, <3>2 DEF KnownBelow
    <2> QED BY <2>1, <2>3 DEF InOrder
  <1>9. CountHolds'
    <2>1. ASSUME NEW k \in Codes PROVE CountOK(k)'
      <3> SUFFICES ASSUME k \notin cut'
                   PROVE  code'[k].count <= Cardinality(ContractsOf(k)') + Pending(worker, k)'
        BY DEF CountOK
      <3>1. PICK V : V = worker'
        OBVIOUS
      <3>2. worker \in Workers /\ V \in Workers
        BY <1>1, <1>3, <3>1, CountsAre DEF Workers, WasmInv
      <3>3. Pending(worker, k) = 0
        <4>1. \A p \in Passes : AddedTo(worker, k)[p] = 0
          <5> SUFFICES ASSUME NEW p \in Passes PROVE AddedTo(worker, k)[p] = 0
            OBVIOUS
          <5>1. k \notin Recounting(p)
            BY <1>1
          <5>2. worker[p][k].news \in Nat
            BY <3>2 DEF Workers, WorkerType
          <5>3. Added(worker[p][k]) = 0
            BY <5>1, <5>2 DEF Recounting, Added
          <5> QED BY <3>2, <5>3, AddedTyped
        <4> HIDE DEF AddedTo
        <4>2. IsFiniteSet(Passes)
          BY WasmAssumption DEF WasmAssumption
        <4> QED BY <4>1, <4>2, SumZero DEF Pending
      <3>4. CountOK(k) /\ k \notin cut
        BY <1>1, CountsAre DEF WasmInv
      <3>5. Cardinality(ContractsOf(k)') \in Nat /\ ContractsOf(k)' = ContractsOf(k)
        <4>1. ContractsOf(k)' = ContractsOf(k) /\ ContractsOf(k) \in SUBSET Contracts
          BY <1>1 DEF ContractsOf
        <4> QED BY <4>1, SomeContracts
      <3>6. code[k].count \in Nat
        BY DEF WasmInv, IndexTypeOK
      <3>7. Pending(V, k) \in Nat
        BY <3>2, AddedTyped
      <3> QED BY <1>1, <3>1, <3>3, <3>4, <3>5, <3>6, <3>7 DEF CountOK
    <2> QED BY <1>6, <2>1, CountsNext
  <1> QED BY <1>6, <1>7, <1>8, <1>9 DEF WasmInv

LEMMA IndexBegins ==
    ASSUME IndexInit
    PROVE  WasmInv
  <1>1. /\ wasmScene \in WasmScenes /\ failures = wasmScene.faults /\ migrations = wasmScene.migrations
        /\ latest = 0 /\ migrated = {} /\ home = [c \in Contracts |-> None]
        /\ code = [k \in Codes |-> [stored |-> FALSE, count |-> 0]]
        /\ contract = [c \in Contracts |-> [code |-> None, migration |-> None]]
        /\ state = [full |-> FALSE, codes |-> 0, contracts |-> 0]
        /\ started = "no" /\ pass = [p \in Passes |-> AtRest]
        /\ worker = [p \in Passes |-> [k \in Codes |-> Idle]]
        /\ lost = {} /\ cut = {}
    BY DEF IndexInit
  <1>2. wasmScene.codes \in 0..MaxCode /\ MaxCode \in Nat /\ wasmScene.migrations \in Nat /\ wasmScene.faults \in Nat
    BY <1>1, WasmAssumption DEF WasmAssumption
  <1>3. 0 \in 0..Cardinality(Contracts)
    <2>1. Contracts \in SUBSET Contracts
      OBVIOUS
    <2> QED BY <2>1, SomeContracts
  <1>4. 0 \in 0..latest /\ 0 \in 0..(latest + 1) /\ 0 \in 0..wasmScene.codes
    BY <1>1, <1>2
  <1>5. AtRest \in PassType /\ Idle \in WorkerType
    BY <1>3, <1>4 DEF AtRest, PassType, Idle, WorkerType
  <1>6. IndexTypeOK
    <2>1. failures \in 0..wasmScene.faults /\ migrations \in 0..wasmScene.migrations
      BY <1>1, <1>2
    <2> QED BY <1>1, <1>3, <1>4, <1>5, <2>1 DEF IndexTypeOK, None
  <1>7. PlacesOK
    <2>1. \A p \in Passes : pass[p].at = "rest" /\ pass[p].left = {}
      BY <1>1 DEF AtRest
    <2>2. \A p \in Passes, k \in Codes :
            worker[p][k].at = "idle" /\ \A c \in Contracts : worker[p][k].hand[c] = "no"
      BY <1>1 DEF Idle
    <2> QED BY <2>1, <2>2 DEF PlacesOK, PassOK, WorkerOK, Busy
  <1>8. InOrder
    BY <1>1 DEF InOrder, InHand, AtRest, Idle
  <1>9. CountHolds
    <2> SUFFICES ASSUME NEW k \in Codes PROVE CountOK(k)
      BY <1>6, CountsAre
    <2>1. Cardinality(ContractsOf(k)) \in Nat
      <3>1. ContractsOf(k) \in SUBSET Contracts
        BY DEF ContractsOf
      <3> QED BY <3>1, SomeContracts
    <2>2. Pending(worker, k) \in Nat
      BY <1>6, CountsAre, AddedTyped
    <2>3. code[k].count = 0
      BY <1>1
    <2> QED BY <2>1, <2>2, <2>3 DEF CountOK
  <1> QED BY <1>6, <1>7, <1>8, <1>9 DEF WasmInv

LEMMA BesideKeeps ==
    ASSUME WasmInv, UNCHANGED <<wasmScene, migrations, chainVars, dbVars, started, pass, worker, historyVars>>,
           failures' \in 0..wasmScene.faults
    PROVE  WasmInv'
  <1>1. UNCHANGED <<wasmScene, migrations, latest, home, migrated, code, contract, state,
                    started, pass, worker, lost, cut>>
    BY DEF chainVars, dbVars, historyVars
  <1>2. IndexTypeOK'
    BY <1>1 DEF WasmInv, IndexTypeOK, PassType, WorkerType
  <1>3. PlacesOK'
    BY <1>1 DEF WasmInv, PlacesOK, PassOK, WorkerOK, ContractsOf
  <1>4. InOrder'
    BY <1>1 DEF WasmInv, InOrder, KnownBelow, Known, InHand, Ahead
  <1>5. CountHolds'
    BY <1>1 DEF WasmInv, CountHolds, ContractsOf, Recounting
  <1> QED BY <1>2, <1>3, <1>4, <1>5 DEF WasmInv

LEMMA PassStepKeeps ==
    ASSUME WasmInv, NEW p \in Passes, PassStep(p) \/ FetchCodesFails(p) \/ PassFails(p)
    PROVE  WasmInv'
  BY FetchCodesKeeps, PageDoneKeeps, FetchLatestKeeps, ReadGreatestKeeps, NextNewKeeps, ReadExistingKeeps,
     NextExistingKeeps, CountTotalsKeeps, EndingKeeps, FetchCodesFailsKeeps DEF PassStep

LEMMA InvGivesPasses ==
    ASSUME WasmInv
    PROVE  PassesHold
  <1>1. CodesKnown
    <2> SUFFICES ASSUME NEW k \in Unstored(1..Greatest)
                 PROVE  k \in lost \cup UNION {Ahead(p) \cup InHand(p) : p \in Passes}
      BY DEF CodesKnown
    <2>1. k \in 1..Greatest /\ ~code[k].stored
      BY DEF Unstored
    <2>2. latest \in Nat /\ Greatest \in 0..latest /\ KnownBelow(Greatest + 1)
      BY PassRecord, KnownToGreatest, SomePass, WasmAssumption DEF WasmInv, IndexTypeOK, WasmAssumption
    <2>3. k \in 1..((Greatest + 1) - 1)
      BY <2>1, <2>2
    <2>4. Known(k)
      BY <2>2, <2>3 DEF KnownBelow
    <2> QED BY <2>1, <2>4 DEF Known
  <1> QED BY <1>1 DEF PassesHold, WasmInv

-----------------------------------------------------------------------------
(* Verification: submissions beside the passes.                              *)

JobType == [at : Storing \cup Ended \cup {"build", "mark", "methods", "fail"}, code : 0..latest]
Beside(i, j) == i # j /\ job[i].code = job[j].code /\ job[i].at \in Storing /\ job[j].at \in Storing

\* Where a submission is tells what its record says.
RecordsOK ==
    \A j \in Jobs :
        /\ job[j].at # "none" => job[j].code \in Codes
        /\ j \notin broken =>
             /\ record[j] = "success" => job[j].code \in verified \/ job[j].at \in {"mark", "fail"}
             /\ record[j] = "pending" => job[j].at \in {"build", "fail"}

\* What is stored for code k, by submissions that stored theirs alone.
StoredAlone(j, k) ==
    /\ job[j].at = "end" => files[k] = {j}
    /\ \A i \in Jobs : i # j /\ job[i].code = k => job[i].at \notin {"purgeFiles", "source", "files"}

StoringOK ==
    /\ \A i, j \in Jobs : Beside(i, j) => i \in crossed /\ j \in crossed
    /\ \A k \in Codes : \A i, j \in source[k] : i = j
    /\ \A k \in Codes : \A j \in source[k] : job[j].code = k /\ job[j].at \in {"files", "end"}
    /\ \A j \in Jobs : j \notin crossed /\ job[j].at \in {"source", "files"} => files[job[j].code] = {}
    /\ \A k \in Codes : \A j \in source[k] : j \notin broken \cup crossed => StoredAlone(j, k)

VerifierInv == WasmInv /\ VerifierTypeOK /\ RecordsOK /\ StoringOK

LEMMA JobMoved ==
    ASSUME VerifierTypeOK, NEW j \in Jobs, NEW u, job' = [job EXCEPT ![j] = u]
    PROVE  /\ job'[j] = u
           /\ \A i \in Jobs : i # j => job'[i] = job[i]
  BY DEF VerifierTypeOK

\* A step of j that leaves what is stored alone: it may end, but having
\* stored its source only as broken off.
LEMMA QuietJob ==
    ASSUME VerifierTypeOK, StoringOK, NEW j \in Jobs, NEW u, job' = [job EXCEPT ![j] = u],
           UNCHANGED <<source, files, crossed>>, broken \subseteq broken',
           u.at \notin Storing, job[j].at # "end",
           job[j].at = "none" \/ u.code = job[j].code,
           job[j].at = "files" => u.at = "end" /\ j \in broken'
    PROVE  StoringOK'
  <1>1. job'[j] = u /\ \A i \in Jobs : i # j => job'[i] = job[i]
    BY JobMoved
  <1>2. source' = source /\ files' = files /\ crossed' = crossed
    OBVIOUS
  <1>3. source \in [Codes -> SUBSET Jobs]
    BY DEF VerifierTypeOK
  <1>4. \A i, h \in Jobs : Beside(i, h)' => i \in crossed' /\ h \in crossed'
    BY <1>1, <1>2 DEF StoringOK, Beside
  <1>5. \A k \in Codes : \A i, h \in source'[k] : i = h
    BY <1>2 DEF StoringOK
  <1>6. ASSUME NEW k \in Codes, NEW i \in source'[k]
        PROVE  job'[i].code = k /\ job'[i].at \in {"files", "end"}
    <2>1. i \in Jobs /\ job[i].code = k /\ job[i].at \in {"files", "end"}
      BY <1>2, <1>3, <1>6 DEF StoringOK
    <2> QED BY <1>1, <2>1
  <1>7. \A i \in Jobs : i \notin crossed' /\ job'[i].at \in {"source", "files"} => files'[job'[i].code] = {}
    BY <1>1, <1>2 DEF StoringOK, Storing
  <1>8. ASSUME NEW k \in Codes, NEW i \in source'[k], i \notin broken' \cup crossed' PROVE StoredAlone(i, k)'
    <2>1. i \in Jobs /\ job[i].at \in {"files", "end"} /\ StoredAlone(i, k) /\ i # j
      BY <1>2, <1>3, <1>8 DEF StoringOK
    <2> QED BY <1>1, <1>2, <2>1 DEF StoredAlone, Storing
  <1> QED BY <1>4, <1>5, <1>6, <1>7, <1>8 DEF StoringOK

LEMMA SetMethodsStores ==
    ASSUME VerifierTypeOK, StoringOK, NEW j \in Jobs, SetMethods(j)
    PROVE  StoringOK'
  <1> DEFINE u == [job[j] EXCEPT !.at = "purgeSource"]
  <1>1. job[j].at = "methods" /\ u.at = "purgeSource" /\ u.code = job[j].code /\ job' = [job EXCEPT ![j] = u]
    BY DEF VerifierTypeOK, SetMethods, AtStep, JobGoes
  <1> HIDE DEF u
  <1>2. job'[j] = u /\ \A i \in Jobs : i # j => job'[i] = job[i]
    BY <1>1, JobMoved
  <1>3. source' = source /\ files' = files /\ broken' = broken
    BY DEF SetMethods
  <1>4. source \in [Codes -> SUBSET Jobs]
    BY DEF VerifierTypeOK
  <1>5. /\ crossed \subseteq crossed'
        /\ \A i \in Jobs : i # j /\ job[i].code = job[j].code /\ job[i].at \in Storing =>
              i \in crossed' /\ j \in crossed'
    BY DEF SetMethods
  <1>6. \A i, h \in Jobs : Beside(i, h)' => i \in crossed' /\ h \in crossed'
    BY <1>1, <1>2, <1>5 DEF StoringOK, Beside
  <1>7. \A k \in Codes : \A i, h \in source'[k] : i = h
    BY <1>3 DEF StoringOK
  <1>8. ASSUME NEW k \in Codes, NEW i \in source'[k]
        PROVE  i \in Jobs /\ i # j /\ job'[i] = job[i] /\ job'[i].code = k /\ job'[i].at \in {"files", "end"}
    <2>1. i \in Jobs /\ job[i].code = k /\ job[i].at \in {"files", "end"}
      BY <1>3, <1>4, <1>8 DEF StoringOK
    <2> QED BY <1>1, <1>2, <2>1
  <1>9. \A i \in Jobs : i \notin crossed' /\ job'[i].at \in {"source", "files"} => files'[job'[i].code] = {}
    BY <1>1, <1>2, <1>3, <1>5 DEF StoringOK
  <1>10. ASSUME NEW k \in Codes, NEW i \in source'[k], i \notin broken' \cup crossed' PROVE StoredAlone(i, k)'
    <2>1. StoredAlone(i, k)
      BY <1>3, <1>5, <1>10 DEF StoringOK
    <2> QED BY <1>1, <1>2, <1>3, <1>8, <1>10, <2>1 DEF StoredAlone
  <1> QED BY <1>6, <1>7, <1>8, <1>9, <1>10 DEF StoringOK

\* The two deletions, the source and the files are written one by one.
LEMMA PurgeSourceStores ==
    ASSUME VerifierTypeOK, RecordsOK, StoringOK, NEW j \in Jobs, PurgeSource(j)
    PROVE  StoringOK'
  <1> DEFINE u == [job[j] EXCEPT !.at = "purgeFiles"]
             c == job[j].code
  <1>1. job[j].at = "purgeSource" /\ u.at = "purgeFiles" /\ u.code = c /\ job' = [job EXCEPT ![j] = u]
    BY DEF VerifierTypeOK, PurgeSource, AtStep, JobGoes
  <1>2. c \in Codes
    BY <1>1 DEF RecordsOK
  <1> HIDE DEF u, c
  <1>3. job'[j] = u /\ \A i \in Jobs : i # j => job'[i] = job[i]
    BY <1>1, JobMoved
  <1>4. files' = files /\ broken' = broken /\ crossed' = crossed /\ source' = [source EXCEPT ![c] = {}]
    BY DEF PurgeSource, c
  <1>5. source \in [Codes -> SUBSET Jobs]
    BY DEF VerifierTypeOK
  <1>6. /\ source'[c] = {}
        /\ \A k \in Codes : k # c => source'[k] = source[k]
    BY <1>2, <1>4, <1>5
  <1>7. \A i, h \in Jobs : Beside(i, h)' => i \in crossed' /\ h \in crossed'
    BY <1>1, <1>3, <1>4 DEF StoringOK, Beside, Storing, c
  <1>8. \A k \in Codes : \A i, h \in source'[k] : i = h
    BY <1>6 DEF StoringOK
  <1>9. ASSUME NEW k \in Codes, NEW i \in source'[k]
        PROVE  i \in Jobs /\ i # j /\ job'[i] = job[i] /\ job'[i].code = k /\ job'[i].at \in {"files", "end"}
               /\ k # c /\ i \in source[k]
    <2>1. k # c /\ i \in source[k]
      BY <1>6, <1>9
    <2>2. i \in Jobs /\ job[i].code = k /\ job[i].at \in {"files", "end"}
      BY <1>5, <2>1 DEF StoringOK
    <2> QED BY <1>1, <1>3, <2>1, <2>2
  <1>10. \A i \in Jobs : i \notin crossed' /\ job'[i].at \in {"source", "files"} => files'[job'[i].code] = {}
    BY <1>1, <1>3, <1>4 DEF StoringOK
  <1>11. ASSUME NEW k \in Codes, NEW i \in source'[k], i \notin broken' \cup crossed' PROVE StoredAlone(i, k)'
    <2>1. StoredAlone(i, k)
      BY <1>4, <1>9, <1>11 DEF StoringOK
    <2> QED BY <1>1, <1>3, <1>4, <1>9, <1>11, <2>1 DEF StoredAlone, c
  <1> QED BY <1>7, <1>8, <1>9, <1>10, <1>11 DEF StoringOK

LEMMA PurgeFilesStores ==
    ASSUME VerifierTypeOK, RecordsOK, StoringOK, NEW j \in Jobs, PurgeFiles(j)
    PROVE  StoringOK'
  <1> DEFINE u == [job[j] EXCEPT !.at = "source"]
             c == job[j].code
  <1>1. job[j].at = "purgeFiles" /\ u.at = "source" /\ u.code = c /\ job' = [job EXCEPT ![j] = u]
    BY DEF VerifierTypeOK, PurgeFiles, AtStep, JobGoes
  <1>2. c \in Codes
    BY <1>1 DEF RecordsOK
  <1> HIDE DEF u, c
  <1>3. job'[j] = u /\ \A i \in Jobs : i # j => job'[i] = job[i]
    BY <1>1, JobMoved
  <1>4. source' = source /\ broken' = broken /\ crossed' = crossed /\ files' = [files EXCEPT ![c] = {}]
    BY DEF PurgeFiles, c
  <1>5. source \in [Codes -> SUBSET Jobs] /\ files \in [Codes -> SUBSET Jobs]
    BY DEF VerifierTypeOK
  <1>6. /\ files'[c] = {}
        /\ \A k \in Codes : k # c => files'[k] = files[k]
    BY <1>2, <1>4, <1>5
  <1>7. \A i, h \in Jobs : Beside(i, h)' => i \in crossed' /\ h \in crossed'
    BY <1>1, <1>3, <1>4 DEF StoringOK, Beside, Storing, c
  <1>8. \A k \in Codes : \A i, h \in source'[k] : i = h
    BY <1>4 DEF StoringOK
  <1>9. ASSUME NEW k \in Codes, NEW i \in source'[k]
        PROVE  i \in Jobs /\ i # j /\ job'[i] = job[i] /\ job'[i].code = k /\ job'[i].at \in {"files", "end"}
    <2>1. i \in Jobs /\ job[i].code = k /\ job[i].at \in {"files", "end"}
      BY <1>4, <1>5, <1>9 DEF StoringOK
    <2> QED BY <1>1, <1>3, <2>1
  <1>10. ASSUME NEW i \in Jobs, i \notin crossed', job'[i].at \in {"source", "files"}
         PROVE  files'[job'[i].code] = {}
    <2>1. job'[i].code \in Codes
      BY <1>1, <1>2, <1>3, <1>10 DEF RecordsOK
    <2>2. i = j \/ files[job[i].code] = {}
      BY <1>3, <1>4, <1>10 DEF StoringOK
    <2> QED BY <1>1, <1>3, <1>6, <2>1, <2>2
  <1>11. ASSUME NEW k \in Codes, NEW i \in source'[k], i \notin broken' \cup crossed' PROVE StoredAlone(i, k)'
    <2>1. StoredAlone(i, k)
      BY <1>4, <1>9, <1>11 DEF StoringOK
    <2>2. k # c
      BY <1>1, <1>9, <2>1 DEF StoredAlone, c
    <2> QED BY <1>1, <1>3, <1>6, <1>9, <1>11, <2>1, <2>2 DEF StoredAlone
  <1> QED BY <1>7, <1>8, <1>9, <1>10, <1>11 DEF StoringOK

LEMMA StoreSourceStores ==
    ASSUME VerifierTypeOK, RecordsOK, StoringOK, NEW j \in Jobs, StoreSource(j)
    PROVE  StoringOK'
  <1> DEFINE c == job[j].code
             a == IF source[c] = {} THEN "files" ELSE "end"
             u == [job[j] EXCEPT !.at = a]
  <1>1. job[j].at = "source" /\ u.at = a /\ u.code = c /\ job' = [job EXCEPT ![j] = u]
    BY DEF VerifierTypeOK, StoreSource, AtStep, JobGoes
  <1>2. c \in Codes
    BY <1>1 DEF RecordsOK
  <1>3. /\ files' = files /\ broken' = broken /\ crossed' = crossed
        /\ source' = IF source[c] = {} THEN [source EXCEPT ![c] = {j}] ELSE source
    BY DEF StoreSource
  <1>4. source \in [Codes -> SUBSET Jobs] /\ a \in {"files", "end"}
    BY DEF VerifierTypeOK
  <1>5. /\ \A k \in Codes : k # c => source'[k] = source[k]
        /\ source[c] = {} => source'[c] = {j} /\ a = "files"
        /\ source[c] # {} => source'[c] = source[c]
    BY <1>2, <1>3, <1>4
  <1> HIDE DEF u, a, c
  <1>6. job'[j] = u /\ \A i \in Jobs : i # j => job'[i] = job[i]
    BY <1>1, JobMoved
  <1>7. ASSUME NEW i \in Jobs, NEW h \in Jobs, Beside(i, h)' PROVE i \in crossed' /\ h \in crossed'
    <2>1. Beside(i, h)
      BY <1>1, <1>6, <1>7 DEF Beside, Storing, c
    <2> QED BY <1>3, <2>1 DEF StoringOK
  <1>8. \A k \in Codes : \A i, h \in source'[k] : i = h
    BY <1>5 DEF StoringOK
  <1>9. ASSUME NEW k \in Codes, NEW i \in source'[k]
        PROVE  /\ i \in Jobs /\ job'[i].code = k /\ job'[i].at \in {"files", "end"}
               /\ \/ i # j /\ i \in source[k]
                  \/ i = j /\ k = c /\ a = "files"
    <2>1. i \in source[k] => i \in Jobs /\ job[i].code = k /\ job[i].at \in {"files", "end"}
      BY <1>4 DEF StoringOK
    <2>2. i \in source[k] \/ (i = j /\ k = c /\ a = "files")
      BY <1>5, <1>9
    <2> QED BY <1>1, <1>6, <2>1, <2>2
  <1>10. \A i \in Jobs : i \notin crossed' /\ job'[i].at \in {"source", "files"} => files'[job'[i].code] = {}
    BY <1>1, <1>3, <1>6 DEF StoringOK, c
  <1>11. ASSUME NEW k \in Codes, NEW i \in source'[k], i \notin broken' \cup crossed' PROVE StoredAlone(i, k)'
    <2>1. CASE i # j /\ i \in source[k]
      <3>1. StoredAlone(i, k)
        BY <1>3, <1>11, <2>1 DEF StoringOK
      <3>2. k # c
        BY <1>1, <2>1, <3>1 DEF StoredAlone, c
      <3> QED BY <1>1, <1>3, <1>6, <1>9, <1>11, <2>1, <3>1, <3>2 DEF StoredAlone
    <2>2. CASE i = j /\ k = c /\ a = "files"
      <3>1. \A h \in Jobs : h # j /\ job[h].code = c => job[h].at \notin Storing
        BY <1>1, <1>3, <1>11, <2>2 DEF StoringOK, Beside, Storing, c
      <3> QED BY <1>1, <1>6, <2>2, <3>1 DEF StoredAlone, Storing
    <2> QED BY <1>9, <1>11, <2>1, <2>2
  <1> QED BY <1>7, <1>8, <1>9, <1>10, <1>11 DEF StoringOK

LEMMA StoreFilesStores ==
    ASSUME VerifierTypeOK, RecordsOK, StoringOK, NEW j \in Jobs, StoreFiles(j)
    PROVE  StoringOK'
  <1> DEFINE c == job[j].code
             u == [job[j] EXCEPT !.at = "end"]
  <1>1. job[j].at = "files" /\ u.at = "end" /\ u.code = c /\ job' = [job EXCEPT ![j] = u]
    BY DEF VerifierTypeOK, StoreFiles, AtStep, JobGoes
  <1>2. c \in Codes
    BY <1>1 DEF RecordsOK
  <1>3. PICK all \in {files[c], files[c] \cup {j}} :
            (files[c] = {} => j \in all) /\ files' = [files EXCEPT ![c] = all]
    BY DEF StoreFiles
  <1>4. source' = source /\ broken' = broken /\ crossed' = crossed
    BY DEF StoreFiles
  <1>5. source \in [Codes -> SUBSET Jobs] /\ files \in [Codes -> SUBSET Jobs]
    BY DEF VerifierTypeOK
  <1>6. files'[c] = all /\ \A k \in Codes : k # c => files'[k] = files[k]
    BY <1>2, <1>3, <1>5
  <1> HIDE DEF u, c
  <1>7. job'[j] = u /\ \A i \in Jobs : i # j => job'[i] = job[i]
    BY <1>1, JobMoved
  <1>8. \A i, h \in Jobs : Beside(i, h)' => i \in crossed' /\ h \in crossed'
    BY <1>1, <1>4, <1>7 DEF StoringOK, Beside, Storing
  <1>9. \A k \in Codes : \A i, h \in source'[k] : i = h
    BY <1>4 DEF StoringOK
  <1>10. ASSUME NEW k \in Codes, NEW i \in source'[k]
         PROVE  i \in Jobs /\ i \in source[k] /\ job'[i].code = k /\ job'[i].at \in {"files", "end"}
                /\ (i = j => k = c)
    <2>1. i \in Jobs /\ i \in source[k] /\ job[i].code = k /\ job[i].at \in {"files", "end"}
      BY <1>4, <1>5, <1>10 DEF StoringOK
    <2> QED BY <1>1, <1>7, <2>1 DEF c
  <1>11. ASSUME NEW i \in Jobs, i \notin crossed', job'[i].at \in {"source", "files"}
         PROVE  files'[job'[i].code] = {}
    <2>1. i # j /\ job'[i] = job[i] /\ job[i].code \in Codes
      BY <1>1, <1>7, <1>11 DEF RecordsOK
    <2>2. job[i].code # c
      BY <1>1, <1>4, <1>11, <2>1 DEF StoringOK, Beside, Storing, c
    <2>3. files[job[i].code] = {}
      BY <1>4, <1>11, <2>1 DEF StoringOK
    <2> QED BY <1>6, <2>1, <2>2, <2>3
  <1>12. ASSUME NEW k \in Codes, NEW i \in source'[k], i \notin broken' \cup crossed' PROVE StoredAlone(i, k)'
    <2>1. StoredAlone(i, k) /\ i \in Jobs
      BY <1>4, <1>10, <1>12 DEF StoringOK
    <2>2. CASE i # j
      <3>1. k # c
        BY <1>1, <2>1, <2>2 DEF StoredAlone, c
      <3> QED BY <1>1, <1>6, <1>7, <2>1, <2>2, <3>1 DEF StoredAlone
    <2>3. CASE i = j
      <3>1. k = c /\ files[c] = {}
        BY <1>1, <1>4, <1>10, <1>12, <2>3 DEF StoringOK, c
      <3>2. all = {j}
        BY <1>3, <3>1
      <3> QED BY <1>1, <1>6, <1>7, <2>1, <2>3, <3>1, <3>2 DEF StoredAlone
    <2> QED BY <2>2, <2>3
  <1> QED BY <1>8, <1>9, <1>10, <1>11, <1>12 DEF StoringOK

LEMMA SomeJob ==
    ASSUME VerifierInv, NEW j \in Jobs
    PROVE  /\ job \in [Jobs -> JobType] /\ job[j] \in JobType
           /\ record \in [Jobs -> {"none", "pending", "success", "failed"}]
           /\ verified \subseteq Codes /\ schema \subseteq Contracts /\ broken \subseteq Jobs
           /\ crossed \subseteq Jobs
           /\ source \in [Codes -> SUBSET Jobs] /\ files \in [Codes -> SUBSET Jobs]
           /\ VerifierTypeOK /\ RecordsOK /\ StoringOK /\ WasmInv /\ IndexTypeOK
  BY DEF VerifierInv, VerifierTypeOK, JobType

LEMMA GoesTo ==
    ASSUME VerifierInv, NEW j \in Jobs, NEW place, JobGoes(j, place)
    PROVE  job'[j].at = place
  BY SomeJob DEF JobGoes, JobType

\* A step of j that leaves the index alone, but for the failures left.
JobApart ==
    /\ UNCHANGED <<wasmScene, migrations, chainVars, dbVars, started, pass, worker, historyVars>>
    /\ failures' \in 0..wasmScene.faults

LEMMA StillApart ==
    ASSUME VerifierInv, UNCHANGED indexVars
    PROVE  JobApart
  BY DEF JobApart, indexVars, boundVars, VerifierInv, VerifierTypeOK, IndexTypeOK

\* What is left to show of a step of one submission.
LEMMA JobKeeps ==
    ASSUME VerifierInv, NEW j \in Jobs, NEW u \in JobType, JobApart, job' = [job EXCEPT ![j] = u],
           record' \in [Jobs -> {"none", "pending", "success", "failed"}],
           \A i \in Jobs : i # j => record'[i] = record[i],
           verified \subseteq verified', verified' \subseteq Codes, schema' \subseteq Contracts,
           broken \subseteq broken', broken' \subseteq Jobs, crossed' \subseteq Jobs,
           source' \in [Codes -> SUBSET Jobs], files' \in [Codes -> SUBSET Jobs],
           u.at # "none" => u.code \in Codes,
           j \notin broken' /\ record'[j] = "success" => u.code \in verified' \/ u.at \in {"mark", "fail"},
           j \notin broken' /\ record'[j] = "pending" => u.at \in {"build", "fail"},
           StoringOK'
    PROVE  VerifierInv'
  <1>1. WasmInv'
    BY BesideKeeps DEF JobApart, VerifierInv
  <1>2. job'[j] = u /\ \A i \in Jobs : i # j => job'[i] = job[i]
    BY JobMoved DEF VerifierInv
  <1>3. job' \in [Jobs -> JobType]
    BY SomeJob
  <1>4. VerifierTypeOK'
    <2>1. latest' = latest
      BY DEF JobApart, chainVars
    <2> QED BY <1>1, <1>3, <2>1 DEF VerifierTypeOK, WasmInv, JobType
  <1>5. RecordsOK'
    <2> SUFFICES ASSUME NEW i \in Jobs
                 PROVE  /\ job'[i].at # "none" => job'[i].code \in Codes
                        /\ i \notin broken' =>
                             /\ record'[i] = "success" => job'[i].code \in verified' \/ job'[i].at \in {"mark", "fail"}
                             /\ record'[i] = "pending" => job'[i].at \in {"build", "fail"}
      BY DEF RecordsOK
    <2>1. CASE i = j
      BY <1>2, <2>1
    <2>2. CASE i # j
      BY <1>2, <2>2 DEF VerifierInv, RecordsOK
    <2> QED BY <2>1, <2>2
  <1> QED BY <1>1, <1>4, <1>5 DEF VerifierInv

LEMMA SubmitKeeps ==
    ASSUME VerifierInv, NEW j \in Jobs, NEW k \in Codes, Submit(j, k)
    PROVE  VerifierInv'
  <1> DEFINE u == [at |-> "build", code |-> k]
  <1>1. /\ job' = [job EXCEPT ![j] = u] /\ record' = [record EXCEPT ![j] = "pending"]
        /\ UNCHANGED <<verified, schema, source, files, broken, crossed>>
        /\ UNCHANGED indexVars /\ job[j].at = "none" /\ k \in StoredCodes
    BY DEF Submit, AtStep
  <1>2. JobApart
    BY <1>1, StillApart
  <1>3. k \in 0..latest
    <2>1. k <= latest /\ latest \in Nat /\ MaxCode \in Nat
      BY <1>1, SomePass, SomeJob, WasmAssumption DEF StoredCodes, WasmInv, InOrder, IndexTypeOK, WasmAssumption
    <2> QED BY <2>1 DEF Codes
  <1>4. u \in JobType /\ u.at = "build" /\ u.code = k
    BY <1>3 DEF JobType
  <1> HIDE DEF u
  <1>5. StoringOK'
    BY <1>1, <1>4, SomeJob, QuietJob DEF Storing
  <1>6. record' \in [Jobs -> {"none", "pending", "success", "failed"}] /\ record'[j] = "pending"
        /\ \A i \in Jobs : i # j => record'[i] = record[i]
    BY <1>1, SomeJob
  <1> QED BY <1>1, <1>2, <1>4, <1>5, <1>6, SomeJob, JobKeeps

\* The steps before the source is stored, and the errors.
LEMMA VerdictKeeps ==
    ASSUME VerifierInv, NEW j \in Jobs, Build(j) \/ MarkCode(j) \/ RecordFailure(j) \/ JobFails(j)
    PROVE  VerifierInv'
  <1> DEFINE places == {"mark", "end", "fail", "methods"}
  <1>0. /\ job \in [Jobs -> JobType] /\ job[j] \in JobType
        /\ record \in [Jobs -> {"none", "pending", "success", "failed"}]
        /\ verified \subseteq Codes /\ schema \subseteq Contracts /\ broken \subseteq Jobs
        /\ crossed \subseteq Jobs
        /\ source \in [Codes -> SUBSET Jobs] /\ files \in [Codes -> SUBSET Jobs]
        /\ RecordsOK
    BY SomeJob
  <1>1. PICK a \in places : job' = [job EXCEPT ![j].at = a]
    BY DEF Build, BuildResults, MarkCode, RecordFailure, JobFails, JobGoes, Storing
  <1> DEFINE u == [job[j] EXCEPT !.at = a]
  <1>2. u \in JobType /\ u.at = a /\ u.code = job[j].code /\ job' = [job EXCEPT ![j] = u]
    BY <1>0, <1>1 DEF JobType, Ended
  <1> HIDE DEF u
  <1>3. job'[j].at = a
    BY <1>0, <1>2
  <1>4. JobApart
    <2>1. CASE JobFails(j)
      <3>1. failures \in 0..wasmScene.faults /\ wasmScene.faults \in Nat
        BY SomeWorker, WasmAssumption DEF VerifierInv, VerifierTypeOK, IndexTypeOK, WasmAssumption
      <3> QED BY <2>1, <3>1 DEF JobFails, JobApart
    <2>2. CASE ~JobFails(j)
      BY <2>2, StillApart DEF Build, MarkCode, RecordFailure, AtStep
    <2> QED BY <2>1, <2>2
  <1>5. /\ UNCHANGED <<schema, source, files, crossed>>
        /\ verified \subseteq verified' /\ broken \subseteq broken' /\ broken' \subseteq Jobs
        /\ job[j].at \notin Ended
    BY <1>0 DEF Build, MarkCode, RecordFailure, JobFails, AtStep, Ended
  <1>6. job[j].code \in Codes
    BY <1>0, <1>5 DEF RecordsOK, Ended
  <1>7. verified' \subseteq Codes
    BY <1>0, <1>6 DEF Build, MarkCode, RecordFailure, JobFails
  <1>8. job[j].at = "files" => a = "end" /\ j \in broken'
    <2> SUFFICES ASSUME job[j].at = "files" PROVE a = "end" /\ j \in broken'
      OBVIOUS
    <2>1. JobFails(j)
      BY DEF Build, MarkCode, RecordFailure, AtStep
    <2>2. JobGoes(j, "end") /\ j \in broken'
      BY <2>1 DEF JobFails, Storing
    <2> QED BY <1>3, <2>2, GoesTo
  <1>9. StoringOK'
    <2>1. u.at \notin Storing /\ job[j].at # "end"
      BY <1>1, <1>2, <1>5 DEF Storing, Ended
    <2> QED BY <1>2, <1>5, <1>8, <2>1, SomeJob, QuietJob
  <1>10. /\ record' \in [Jobs -> {"none", "pending", "success", "failed"}]
         /\ \A i \in Jobs : i # j => record'[i] = record[i]
    BY <1>0 DEF Build, BuildResults, MarkCode, RecordFailure, JobFails
  <1>11. /\ j \notin broken' /\ record'[j] = "success" => u.code \in verified' \/ u.at \in {"mark", "fail"}
         /\ j \notin broken' /\ record'[j] = "pending" => u.at \in {"build", "fail"}
    <2>1. CASE Build(j)
      <3>1. PICK result \in BuildResults :
              /\ JobGoes(j, CASE result = "same" -> "mark"
                              [] result = "other" -> "end"
                              [] result = "error" -> "fail")
              /\ record' = CASE result = "same" -> [record EXCEPT ![j] = "success"]
                             [] result = "other" -> [record EXCEPT ![j] = "failed"]
                             [] result = "error" -> record
        BY <2>1 DEF Build
      <3>2. CASE result = "same"
        <4>1. JobGoes(j, "mark")
          BY <3>1, <3>2
        <4>2. record'[j] = "success"
          BY <1>0, <3>1, <3>2
        <4> QED BY <1>2, <1>3, <4>1, <4>2, GoesTo
      <3>3. CASE result = "other"
        BY <1>0, <3>1, <3>3
      <3>4. CASE result = "error"
        <4>1. JobGoes(j, "fail")
          BY <3>1, <3>4
        <4> QED BY <1>2, <1>3, <4>1, GoesTo
      <3> QED BY <3>2, <3>3, <3>4 DEF BuildResults
    <2>2. CASE MarkCode(j)
      <3>1. record' = record /\ broken' = broken /\ job[j].at = "mark" /\ job[j].code \in verified'
        BY <2>2 DEF MarkCode, AtStep
      <3> QED BY <1>0, <1>2, <3>1 DEF RecordsOK
    <2>3. CASE RecordFailure(j)
      BY <1>0, <2>3 DEF RecordFailure
    <2>4. CASE JobFails(j)
      <3>1. record' = record /\ verified' = verified
        BY <2>4 DEF JobFails
      <3>2. a = IF job[j].at \in Storing \cup {"fail"} THEN "end" ELSE "fail"
        BY <1>0, <1>3, <2>4 DEF JobFails, JobGoes
      <3>3. CASE a = "fail"
        BY <1>2, <3>3
      <3>4. CASE a # "fail"
        <4>1. a = "end" /\ job[j].at \in Storing \cup {"fail"} /\ (job[j].at = "fail" => j \in broken')
          BY <2>4, <3>2, <3>4 DEF JobFails
        <4> QED BY <1>0, <1>2, <1>5, <3>1, <4>1 DEF RecordsOK, Storing
      <3> QED BY <3>3, <3>4
    <2> QED BY <2>1, <2>2, <2>3, <2>4
  <1> QED BY <1>0, <1>2, <1>4, <1>5, <1>6, <1>7, <1>9, <1>10, <1>11, JobKeeps

\* The steps that set the methods and store the source.
LEMMA StoringKeeps ==
    ASSUME VerifierInv, NEW j \in Jobs,
           SetMethods(j) \/ PurgeSource(j) \/ PurgeFiles(j) \/ StoreSource(j) \/ StoreFiles(j)
    PROVE  VerifierInv'
  <1>0. /\ job \in [Jobs -> JobType] /\ job[j] \in JobType
        /\ record \in [Jobs -> {"none", "pending", "success", "failed"}]
        /\ verified \subseteq Codes /\ schema \subseteq Contracts /\ broken \subseteq Jobs
        /\ crossed \subseteq Jobs
        /\ source \in [Codes -> SUBSET Jobs] /\ files \in [Codes -> SUBSET Jobs]
        /\ RecordsOK
    BY SomeJob
  <1>1. PICK a \in {"purgeSource", "purgeFiles", "source", "files", "end"} : job' = [job EXCEPT ![j].at = a]
    BY DEF SetMethods, PurgeSource, PurgeFiles, StoreSource, StoreFiles, JobGoes
  <1> DEFINE u == [job[j] EXCEPT !.at = a]
  <1>2. u \in JobType /\ u.at = a /\ u.code = job[j].code /\ job' = [job EXCEPT ![j] = u]
    BY <1>0, <1>1 DEF JobType, Storing, Ended
  <1> HIDE DEF u
  <1>3. JobApart
    BY StillApart DEF SetMethods, PurgeSource, PurgeFiles, StoreSource, StoreFiles, AtStep
  <1>4. /\ record' = record /\ verified' = verified /\ broken' = broken
        /\ job[j].at \in {"methods", "purgeSource", "purgeFiles", "source", "files"}
    BY DEF SetMethods, PurgeSource, PurgeFiles, StoreSource, StoreFiles, AtStep
  <1>5. job[j].code \in Codes
    BY <1>0, <1>4 DEF RecordsOK
  <1>6. schema' \subseteq Contracts /\ crossed' \subseteq Jobs
    BY <1>0 DEF SetMethods, PurgeSource, PurgeFiles, StoreSource, StoreFiles, ContractsOf
  <1>7. source' \in [Codes -> SUBSET Jobs] /\ files' \in [Codes -> SUBSET Jobs]
    <2>1. source' \in [Codes -> SUBSET Jobs]
      BY <1>0 DEF SetMethods, PurgeSource, PurgeFiles, StoreSource, StoreFiles
    <2>2. CASE StoreFiles(j)
      <3>1. PICK all \in {files[job[j].code], files[job[j].code] \cup {j}} : files' = [files EXCEPT ![job[j].code] = all]
        BY <2>2 DEF StoreFiles
      <3>2. all \in SUBSET Jobs
        BY <1>0, <1>5, <3>1
      <3> QED BY <1>0, <2>1, <3>1, <3>2
    <2>3. CASE ~StoreFiles(j)
      BY <1>0, <2>1, <2>3 DEF SetMethods, PurgeSource, PurgeFiles, StoreSource
    <2> QED BY <2>2, <2>3
  <1>8. StoringOK'
    BY SomeJob, SetMethodsStores, PurgeSourceStores, PurgeFilesStores, StoreSourceStores, StoreFilesStores
  <1>9. /\ j \notin broken' /\ record'[j] = "success" => u.code \in verified' \/ u.at \in {"mark", "fail"}
        /\ j \notin broken' /\ record'[j] = "pending" => u.at \in {"build", "fail"}
    BY <1>0, <1>2, <1>4 DEF RecordsOK
  <1> QED BY <1>0, <1>2, <1>3, <1>4, <1>5, <1>6, <1>7, <1>8, <1>9, JobKeeps

LEMMA StopJobsKeeps ==
    ASSUME VerifierInv, StopJobs
    PROVE  VerifierInv'
  <1>1. /\ broken' = broken \cup {j \in Jobs : job[j].at \notin Ended}
        /\ job' = [j \in Jobs |-> IF job[j].at = "none" THEN job[j] ELSE [job[j] EXCEPT !.at = "end"]]
        /\ UNCHANGED <<record, verified, schema, source, files, crossed>>
        /\ WasmInv' /\ latest' = latest
    BY AtRestKeeps DEF StopJobs, VerifierInv, Restart, chainVars
  <1>2. /\ job \in [Jobs -> JobType]
        /\ record \in [Jobs -> {"none", "pending", "success", "failed"}]
        /\ verified \subseteq Codes /\ schema \subseteq Contracts /\ broken \subseteq Jobs
        /\ crossed \subseteq Jobs
        /\ source \in [Codes -> SUBSET Jobs] /\ files \in [Codes -> SUBSET Jobs]
        /\ RecordsOK /\ StoringOK
    BY DEF VerifierInv, VerifierTypeOK, JobType
  <1>3. \A j \in Jobs : /\ job'[j] \in JobType /\ job'[j].code = job[j].code
                        /\ job'[j].at = IF job[j].at = "none" THEN "none" ELSE "end"
    BY <1>1, <1>2 DEF JobType, Ended
  <1>4. VerifierTypeOK'
    <2>1. job' \in [Jobs -> JobType]
      BY <1>1, <1>3
    <2> QED BY <1>1, <1>2, <2>1 DEF VerifierTypeOK, WasmInv, JobType
  <1>5. RecordsOK'
    <2> SUFFICES ASSUME NEW j \in Jobs
                 PROVE  /\ job'[j].at # "none" => job'[j].code \in Codes
                        /\ j \notin broken' =>
                             /\ record'[j] = "success" => job'[j].code \in verified' \/ job'[j].at \in {"mark", "fail"}
                             /\ record'[j] = "pending" => job'[j].at \in {"build", "fail"}
      BY DEF RecordsOK
    <2>1. job'[j].at # "none" => job'[j].code \in Codes
      BY <1>2, <1>3 DEF RecordsOK
    <2>2. j \notin broken' => j \notin broken /\ job[j].at \in Ended
      BY <1>1
    <2> QED BY <1>1, <1>2, <1>3, <2>1, <2>2 DEF RecordsOK, Ended
  <1>6. StoringOK'
    <2>1. \A i, h \in Jobs : Beside(i, h)' => i \in crossed' /\ h \in crossed'
      BY <1>3 DEF Beside, Storing
    <2>2. \A k \in Codes : \A i, h \in source'[k] : i = h
      BY <1>1, <1>2 DEF StoringOK
    <2>3. ASSUME NEW k \in Codes, NEW i \in source'[k]
          PROVE  i \in Jobs /\ i \in source[k] /\ job'[i].code = k /\ job'[i].at \in {"files", "end"}
                 /\ job[i].at \in {"files", "end"}
      <3>1. i \in Jobs /\ i \in source[k] /\ job[i].code = k /\ job[i].at \in {"files", "end"}
        BY <1>1, <1>2, <2>3 DEF StoringOK
      <3> QED BY <1>3, <3>1
    <2>4. \A i \in Jobs : i \notin crossed' /\ job'[i].at \in {"source", "files"} => files'[job'[i].code] = {}
      BY <1>3
    <2>5. ASSUME NEW k \in Codes, NEW i \in source'[k], i \notin broken' \cup crossed' PROVE StoredAlone(i, k)'
      <3>1. job[i].at = "end" /\ i \notin broken \cup crossed /\ i \in Jobs /\ i \in source[k]
        BY <1>1, <2>3, <2>5 DEF Ended
      <3>2. StoredAlone(i, k)
        BY <1>2, <3>1 DEF StoringOK
      <3> QED BY <1>1, <1>3, <3>1, <3>2 DEF StoredAlone
    <2> QED BY <2>1, <2>2, <2>3, <2>4, <2>5 DEF StoringOK
  <1> QED BY <1>1, <1>4, <1>5, <1>6 DEF VerifierInv

LEMMA IndexStepKeeps ==
    ASSUME VerifierInv, IndexStep
    PROVE  VerifierInv'
  <1>1. WasmInv'
    BY ChainKeeps, StartKeeps, TickKeeps, PassStepKeeps, CodeStepKeeps
       DEF IndexStep, Works, Fails, VerifierInv
  <1>2. UNCHANGED <<job, record, verified, schema, source, files, broken, crossed>>
    BY DEF IndexStep, verifierVars
  <1>3. latest \in Nat /\ latest' \in Nat /\ latest <= latest'
    <2>1. latest \in Nat /\ latest' \in Nat
      BY <1>1, WasmAssumption DEF VerifierInv, WasmInv, IndexTypeOK, WasmAssumption
    <2>2. CASE WasmMoves
      BY <2>1, <2>2 DEF WasmMoves, StoreCode, Instantiate, Migrate
    <2>3. CASE ~WasmMoves
      <3>1. latest' = latest
        <4>1. PICK p \in Passes : Start(p) \/ (\E full \in BOOLEAN : Tick(p, full)) \/ Works(p) \/ Fails(p)
          BY <2>3 DEF IndexStep
        <4>2. CASE Start(p) \/ \E full \in BOOLEAN : Tick(p, full)
          BY <4>2 DEF Start, Tick, chainVars
        <4>3. CASE PassStep(p)
          BY <4>3 DEF PassStep, FetchCodes, PageDone, FetchLatest, ReadGreatest, NextNew, ReadExisting,
                      NextExisting, CountTotals, UpdateWasmState, chainVars
        <4>4. CASE \E k \in Codes : CodeStep(p, k)
          BY <4>4 DEF CodeStep, FindCode, SaveCode, FetchContracts, ContractsDone, AddNews, CountContracts,
                      WriteCount, LookUp, NoteMigration, SaveContract, chainVars
        <4>5. CASE Fails(p)
          BY <4>5 DEF Fails, FetchCodesFails, PassFails, CodeFails, FetchContractsFails, ContractFails, chainVars
        <4> QED BY <4>1, <4>2, <4>3, <4>4, <4>5 DEF Works
      <3> QED BY <2>1, <3>1
    <2> QED BY <2>2, <2>3
  <1>4. VerifierTypeOK'
    <2>1. \A j \in Jobs : job[j] \in JobType => job[j] \in JobType'
      BY <1>3 DEF JobType
    <2>2. job' \in [Jobs -> JobType']
      BY <1>2, <2>1 DEF VerifierInv, VerifierTypeOK, JobType
    <2> QED BY <1>1, <1>2, <2>2 DEF VerifierInv, VerifierTypeOK, WasmInv, JobType
  <1>5. RecordsOK'
    BY <1>2 DEF VerifierInv, RecordsOK
  <1>6. StoringOK'
    BY <1>2 DEF VerifierInv, StoringOK, Beside, StoredAlone
  <1> QED BY <1>1, <1>4, <1>5, <1>6 DEF VerifierInv

LEMMA VerifierBegins ==
    ASSUME VerifierInit
    PROVE  VerifierInv
  <1>1. WasmInv
    BY IndexBegins DEF VerifierInit
  <1>2. /\ job = [j \in Jobs |-> [at |-> "none", code |-> None]]
        /\ record = [j \in Jobs |-> "none"]
        /\ verified = {} /\ schema = {} /\ broken = {} /\ crossed = {}
        /\ source = [k \in Codes |-> {}] /\ files = [k \in Codes |-> {}]
    BY DEF VerifierInit
  <1>3. 0 \in 0..latest
    BY <1>1, WasmAssumption DEF WasmInv, IndexTypeOK, WasmAssumption
  <1>4. VerifierTypeOK
    BY <1>1, <1>2, <1>3 DEF VerifierTypeOK, WasmInv, None, Ended
  <1>5. RecordsOK
    BY <1>2 DEF RecordsOK
  <1>6. StoringOK
    BY <1>2 DEF StoringOK, Beside, Storing
  <1> QED BY <1>1, <1>4, <1>5, <1>6 DEF VerifierInv

LEMMA VerifierInductive ==
    ASSUME VerifierInv, [VerifierNext]_allVars
    PROVE  VerifierInv'
  <1>1. CASE UNCHANGED allVars
    <2>1. UNCHANGED indexVars /\ UNCHANGED <<job, record, verified, schema, source, files, broken, crossed>>
      BY <1>1 DEF allVars, verifierVars
    <2>2. JobApart
      BY <2>1, StillApart
    <2>3. WasmInv' /\ latest' = latest
      BY <2>2, BesideKeeps DEF JobApart, VerifierInv, chainVars
    <2>4. VerifierTypeOK'
      BY <2>1, <2>3 DEF VerifierInv, VerifierTypeOK, WasmInv
    <2>5. RecordsOK' /\ StoringOK'
      BY <2>1 DEF VerifierInv, RecordsOK, StoringOK, Beside, StoredAlone
    <2> QED BY <2>3, <2>4, <2>5 DEF VerifierInv
  <1>2. CASE VerifierNext
    BY <1>2, IndexStepKeeps, StopJobsKeeps, SubmitKeeps, VerdictKeeps, StoringKeeps DEF VerifierNext, JobStep
  <1> QED BY <1>1, <1>2

LEMMA InvGivesVerifier ==
    ASSUME VerifierInv
    PROVE  VerifierHolds
  <1>1. VerdictHolds
    BY DEF VerifierInv, RecordsOK, VerdictHolds, Ended
  <1>2. SourceOfOne
    BY DEF VerifierInv, VerifierTypeOK, StoringOK, StoredAlone, SourceOfOne
  <1> QED BY <1>1, <1>2 DEF VerifierInv, VerifierHolds

LEMMA VerifierAlways == VerifierSpec => []VerifierInv
  BY VerifierBegins, VerifierInductive, PTL DEF VerifierSpec

\* However passes overlap, fail and stop, a code below the greatest stored one
\* that is not stored is in the way of a running pass or was given up, and no
\* count exceeds the contracts stored by more than what running passes have
\* added and not yet replaced (indexer.service.ts:258, :441).
THEOREM PassesHoldAlways == VerifierSpec => []PassesHold
  <1>1. VerifierInv => PassesHold
    BY InvGivesPasses DEF VerifierInv
  <1> QED BY <1>1, VerifierAlways, PTL

\* However submissions for one code cross, no record says success of a code that
\* is not marked, none is left pending, and the files stored with a source tree
\* are those of its submission, unless two stored theirs side by side
\* (verifier.service.ts:81, source-code-parser.service.ts:32).
THEOREM VerifierHoldsAlways == VerifierSpec => []VerifierHolds
  BY InvGivesVerifier, VerifierAlways, PTL

-----------------------------------------------------------------------------
(* IBC: the documents of clients, connections and channels.                  *)

RoundType ==
    [pc : {"idle", "read", "fetch", "save", "mark", "find", "peers"},
     of : {{}, {Client}, Connections, Channels},
     db : [Objects -> Documents], api : [Objects -> DOMAIN Api], todo : SUBSET Objects]
Ever(x) == onChain[x] # "none"
\* After n errors nothing may take x for gone.
Sure(n, x) == n = 0 /\ ~Beyond(x)

\* Only what was on the chain is stored; a count is what was counted, but for
\* old copies.
DocsFit ==
    /\ \A x \in Objects : doc[x] # NoDoc => Ever(x)
    /\ \A e \in wire : Ever(e[1])
    /\ \A c \in Channels : /\ doc[c].count <= counted[c]
                           /\ c \notin overwritten => doc[c].count = counted[c]
                           /\ Sure(faults, c) => doc[c].state # "INACTIVE"

\* What a round q holds after n errors: without one, the node names all on its
\* page that the round has read, so it marks none of them.
Fits(q, n) ==
    /\ \A c \in Channels : q.db[c].count <= counted[c]
    /\ \A x \in Objects : q.api[x] # "none" => Ever(x)
    /\ \A x \in Objects : q.db[x] # NoDoc => x \in q.of /\ Ever(x)
    /\ q.pc \in {"mark", "peers"} => \A c \in q.todo \cap Channels : q.db[c] # NoDoc
    /\ \A c \in Channels : Sure(n, c) => q.db[c].state # "INACTIVE"
    /\ q.pc = "mark" => \A c \in q.todo \cap Channels : ~Sure(n, c)
    /\ q.pc \in {"save", "mark"} =>
         \A x \in Objects : Sure(n, x) /\ q.db[x] # NoDoc => q.api[x] # "none"

StateInv == StateTypeOK /\ DocsFit /\ \A r \in Rounds : Fits(round[r], faults)

LEMMA SceneIs ==
    ASSUME scene \in Scenes
    PROVE  scene.faults \in Nat /\ scene.page \in Nat \ {0}
  BY SceneAssumption DEF SceneAssumption

LEMMA SomeRound ==
    ASSUME StateInv, NEW r \in Rounds
    PROVE  /\ round[r] \in RoundType /\ Fits(round[r], faults)
           /\ NoDoc \in Documents /\ NoDoc.count = 0 /\ NoDoc.state = "none"
           /\ doc \in [Objects -> Documents] /\ onChain \in [Objects -> DOMAIN Api]
           /\ counted \in [Channels -> Nat]
           /\ faults \in 0..scene.faults /\ scene.faults \in Nat
           /\ Connections \subseteq Objects /\ Channels \subseteq Objects /\ Client \in Objects
           /\ Client \notin Connections \cup Channels /\ Connections \cap Channels = {}
  <1>1. NoDoc \in Documents /\ NoDoc.count = 0 /\ NoDoc.state = "none"
    BY DEF NoDoc, Document, Documents, States
  <1>2. round[r] \in RoundType
    BY DEF StateInv, StateTypeOK, RoundType
  <1>3. scene.faults \in Nat
    BY SceneIs DEF StateInv, StateTypeOK
  <1> QED BY <1>1, <1>2, <1>3, StateAssumption DEF StateInv, StateTypeOK, Objects, StateAssumption

LEMMA ApiNames ==
    /\ DOMAIN Api = {"none", "ACTIVE", "INIT", "TRYOPEN", "OPEN", "CLOSED"}
    /\ \A s \in DOMAIN Api : Api[s] \in States /\ Api[s] # "INACTIVE" /\ s \in States /\ s # "INACTIVE"
  BY DEF Api, States

LEMMA NoRoundFits ==
    ASSUME StateInv, NEW r \in Rounds
    PROVE  /\ NoRound \in RoundType
           /\ \A pc \in {"idle", "read", "find"}, of \in {{}, {Client}, Connections, Channels}, n \in Nat :
                At(pc, of) \in RoundType /\ Fits(At(pc, of), n)
           /\ \A n \in Nat : Fits(NoRound, n)
  <1>1. "none" \in DOMAIN Api
    BY ApiNames
  <1>2. NoRound \in RoundType
    BY <1>1, SomeRound DEF NoRound, RoundType
  <1>3. \A c \in Channels : NoDoc.count <= counted[c]
    BY SomeRound
  <1>4. ASSUME NEW pc \in {"idle", "read", "find"}, NEW of \in {{}, {Client}, Connections, Channels}, NEW n \in Nat
        PROVE  At(pc, of) \in RoundType /\ Fits(At(pc, of), n)
    <2>1. /\ NoRound.db = [x \in Objects |-> NoDoc] /\ NoRound.api = [x \in Objects |-> "none"]
          /\ NoRound.todo = {}
      BY DEF NoRound
    <2>2. /\ At(pc, of) \in RoundType /\ At(pc, of).pc = pc
          /\ At(pc, of).db = NoRound.db /\ At(pc, of).api = NoRound.api
      BY <1>2 DEF At, RoundType
    <2>3. \A x \in Objects : At(pc, of).db[x] = NoDoc /\ At(pc, of).api[x] = "none"
      BY <2>1, <2>2
    <2>4. At(pc, of).pc = pc
      BY <2>2
    <2>5. Channels \subseteq Objects /\ NoDoc.state # "INACTIVE"
      BY SomeRound
    <2> QED BY <1>3, <2>2, <2>3, <2>4, <2>5 DEF Fits
  <1>5. ASSUME NEW n \in Nat PROVE Fits(NoRound, n)
    <2>1. \A x \in Objects : NoRound.db[x] = NoDoc /\ NoRound.api[x] = "none"
      BY DEF NoRound
    <2>2. NoRound.pc = "idle"
      BY DEF NoRound
    <2>3. Channels \subseteq Objects /\ NoDoc.state # "INACTIVE"
      BY SomeRound
    <2> QED BY <1>3, <2>1, <2>2, <2>3 DEF Fits
  <1> QED BY <1>2, <1>4, <1>5

\* What is beyond the page stays there, and an error is not undone.
LEMMA StaysBeyond ==
    ASSUME StateInv, scene' = scene, onChain' \in [Objects -> DOMAIN Api],
           \A x \in Objects : Ever(x) => Ever(x)', NEW x \in Objects, Beyond(x)
    PROVE  Beyond(x)'
  <1> DEFINE B == {y \in Kind(x) : Ever(y) /\ Rank[y] < Rank[x]}
             C == {y \in Kind(x) : Ever(y)' /\ Rank[y] < Rank[x]}
  <1>1. IsFiniteSet(Kind(x)) /\ Kind(x) \subseteq Objects
    <2>1. IsFiniteSet({Client})
      BY FS_Singleton
    <2> QED BY <2>1, StateAssumption DEF Kind, StateAssumption, Objects
  <1>2. IsFiniteSet(C) /\ B \subseteq C
    <2>1. C \subseteq Kind(x) /\ B \subseteq C
      BY <1>1
    <2> QED BY <1>1, <2>1, FS_Subset
  <1>3. Cardinality(B) \in Nat /\ Cardinality(C) \in Nat /\ Cardinality(B) <= Cardinality(C)
    BY <1>2, FS_Subset, FS_CardinalityType
  <1>4. Cardinality(B) >= scene.page
    BY DEF Beyond, Ever
  <1>5. scene.page \in Nat
    BY SceneIs DEF StateInv, StateTypeOK
  <1>6. Cardinality(C) >= scene'.page
    BY <1>3, <1>4, <1>5
  <1>7. Kind(x)' = Kind(x)
    BY DEF Kind
  <1> QED BY <1>6, <1>7 DEF Beyond, Ever

LEMMA SureBefore ==
    ASSUME StateInv, scene' = scene, onChain' \in [Objects -> DOMAIN Api],
           \A x \in Objects : Ever(x) => Ever(x)', faults' = faults \/ Costs
    PROVE  \A x \in Objects : Sure(faults, x)' => Sure(faults, x)
  <1>1. faults' = 0 => faults = 0
    BY SceneIs DEF StateInv, StateTypeOK, Costs
  <1> QED BY <1>1, StaysBeyond DEF Sure

LEMMA SureKept ==
    ASSUME StateInv, UNCHANGED <<scene, onChain>>, faults' = faults \/ Costs
    PROVE  \A x : /\ Sure(faults', x) => Sure(faults, x)
                  /\ Sure(faults, x)' <=> Sure(faults', x)
  <1>1. faults' = 0 => faults = 0
    BY SceneIs DEF StateInv, StateTypeOK, Costs
  <1> QED BY <1>1 DEF Sure, Beyond, Kind

\* A round r goes to q, and may save documents.
LEMMA RoundSaves ==
    ASSUME StateInv, NEW r \in Rounds, NEW q \in RoundType, Fits(q, faults'),
           round' = [round EXCEPT ![r] = q],
           UNCHANGED <<scene, onChain, wire, counted>>,
           faults' = faults \/ Costs,
           doc' \in [Objects -> Documents], overwritten' \subseteq Channels,
           \A x \in Objects : doc'[x] # NoDoc => Ever(x),
           \A c \in Channels : /\ doc'[c].count <= counted[c]
                               /\ c \notin overwritten' => doc'[c].count = counted[c]
                               /\ Sure(faults', c) => doc'[c].state # "INACTIVE"
    PROVE  StateInv'
  <1>1. faults' \in 0..scene'.faults /\ (faults' = 0 => faults = 0)
    BY SomeRound DEF Costs
  <1>2. round \in [Rounds -> RoundType]
    BY DEF StateInv, StateTypeOK, RoundType
  <1>3. StateTypeOK'
    BY <1>1, <1>2 DEF StateInv, StateTypeOK, RoundType
  <1>4. DocsFit'
    BY SureKept DEF StateInv, DocsFit, Ever
  <1>5. ASSUME NEW s \in Rounds PROVE Fits(round[s], faults)'
    <2>1. CASE s = r
      <3>1. round'[s] = q
        BY <1>2, <2>1
      <3> QED BY <3>1, SureKept DEF Fits, Ever
    <2>2. CASE s # r
      <3>1. round'[s] = round[s] /\ Fits(round[s], faults)
        BY <1>2, <2>2 DEF StateInv
      <3> QED BY <1>1, <3>1, SureKept DEF Fits, Ever
    <2> QED BY <2>1, <2>2
  <1> QED BY <1>3, <1>4, <1>5 DEF StateInv

LEMMA RoundGoes ==
    ASSUME StateInv, NEW r \in Rounds, NEW q \in RoundType, Fits(q, faults'),
           round' = [round EXCEPT ![r] = q],
           UNCHANGED <<scene, onChain, wire, doc, counted, overwritten>>,
           faults' = faults \/ Costs
    PROVE  StateInv'
  <1>1. doc' \in [Objects -> Documents] /\ overwritten' \subseteq Channels
    BY DEF StateInv, StateTypeOK
  <1>2. faults' = 0 => faults = 0
    BY SomeRound DEF Costs
  <1>3. /\ \A x \in Objects : doc'[x] # NoDoc => Ever(x)
        /\ \A c \in Channels : /\ doc'[c].count <= counted[c]
                               /\ c \notin overwritten' => doc'[c].count = counted[c]
                               /\ Sure(faults', c) => doc'[c].state # "INACTIVE"
    BY <1>2, SureKept DEF StateInv, DocsFit
  <1> QED BY <1>1, <1>3, RoundSaves

-----------------------------------------------------------------------------
(* The steps of a round.                                                     *)

LEMMA StartRoundKeeps ==
    ASSUME StateInv, scene' = scene, NEW r \in Rounds, StartRound(r)
    PROVE  StateInv'
  <1>1. faults' = faults /\ faults \in Nat
    BY SomeRound DEF StartRound
  <1>2. At("read", {Client}) \in RoundType /\ Fits(At("read", {Client}), faults')
    BY <1>1, NoRoundFits
  <1> QED BY <1>1, <1>2, RoundGoes DEF StartRound

LEMMA EndOfStageKeeps ==
    ASSUME StateInv, scene' = scene, NEW r \in Rounds,
           EndOfStage(r) \/ round' = [round EXCEPT ![r] = NoRound],
           UNCHANGED <<onChain, wire, doc, counted, overwritten>>, faults' = faults \/ Costs
    PROVE  StateInv'
  <1>1. faults' \in Nat
    BY SomeRound DEF Costs
  <1>2. PICK q : (q = NextStage(round[r].of) \/ q = NoRound) /\ round' = [round EXCEPT ![r] = q]
    BY DEF EndOfStage
  <1>3. q \in RoundType /\ Fits(q, faults')
    BY <1>1, <1>2, NoRoundFits DEF NextStage
  <1> QED BY <1>2, <1>3, RoundGoes

LEMMA StageEnds ==
    ASSUME StateInv, scene' = scene, NEW r \in Rounds, MarkedAll(r) \/ SaveFails(r) \/ EndRound(r)
    PROVE  StateInv'
  BY EndOfStageKeeps DEF MarkedAll, SaveFails, EndRound

LEMMA CopyIs ==
    ASSUME StateInv, NEW r \in Rounds, NEW of \in {{}, {Client}, Connections, Channels}
    PROVE  /\ Copy(of) \in [Objects -> Documents]
           /\ \A c \in Channels : Copy(of)[c].count <= counted[c]
           /\ \A x \in Objects : Copy(of)[x] # NoDoc => x \in of /\ Ever(x)
           /\ \A x \in of \cap Objects : Copy(of)[x] = doc[x]
           /\ \A c \in Channels : Sure(faults, c) => Copy(of)[c].state # "INACTIVE"
  <1>1. \A x \in Objects : Copy(of)[x] = IF x \in of THEN doc[x] ELSE NoDoc
    BY DEF Copy
  <1>2. Copy(of) \in [Objects -> Documents]
    BY SomeRound DEF Copy
  <1>3. \A c \in Channels : c \in Objects /\ counted[c] \in Nat
    BY SomeRound
  <1>4. NoDoc.count = 0 /\ NoDoc.state # "INACTIVE"
    BY SomeRound
  <1>5. \A c \in Channels : Copy(of)[c].count <= counted[c]
    BY <1>1, <1>3, <1>4 DEF StateInv, DocsFit
  <1>6. \A c \in Channels : Sure(faults, c) => Copy(of)[c].state # "INACTIVE"
    BY <1>1, <1>3, <1>4 DEF StateInv, DocsFit
  <1> QED BY <1>1, <1>2, <1>5, <1>6 DEF StateInv, DocsFit

LEMMA ReadAllKeeps ==
    ASSUME StateInv, scene' = scene, NEW r \in Rounds, ReadAll(r)
    PROVE  StateInv'
  <1>1. round[r] \in RoundType /\ Fits(round[r], faults) /\ round[r].pc = "read"
        /\ round[r].of \in {{}, {Client}, Connections, Channels}
    <2>1. round[r] \in RoundType
      BY SomeRound
    <2> QED BY <2>1, SomeRound DEF ReadAll, RoundType
  <1>2. CASE Costs /\ round' = [round EXCEPT ![r].pc = "fetch"]
    <2>0. \A x \in Objects : round[r].db[x] # NoDoc => x \in round[r].of /\ Ever(x)
      BY <1>1 DEF Fits
    <2> DEFINE q == [round[r] EXCEPT !.pc = "fetch"]
    <2>1. q \in RoundType /\ q.pc = "fetch" /\ q.db = round[r].db /\ q.api = round[r].api /\ q.of = round[r].of
          /\ round' = [round EXCEPT ![r] = q]
      BY <1>1, <1>2 DEF RoundType
    <2>2. \A x : ~Sure(faults', x)
      BY <1>2, SomeRound DEF Costs, Sure
    <2> HIDE DEF q
    <2>3. Fits(q, faults')
      BY <1>1, <2>0, <2>1, <2>2 DEF Fits
    <2> QED BY <1>2, <2>1, <2>3, RoundGoes DEF ReadAll
  <1>3. CASE faults' = faults /\ round' = [round EXCEPT ![r].pc = "fetch", ![r].db = Copy(round[r].of)]
    <2> DEFINE q == [round[r] EXCEPT !.pc = "fetch", !.db = Copy(round[r].of)]
    <2>1. q \in RoundType /\ q.pc = "fetch" /\ q.db = Copy(round[r].of) /\ q.api = round[r].api
          /\ q.of = round[r].of /\ round' = [round EXCEPT ![r] = q]
      BY <1>1, <1>3, CopyIs DEF RoundType
    <2> HIDE DEF q
    <2>2. PICK copy : copy = Copy(round[r].of)
      OBVIOUS
    <2>3. /\ \A c \in Channels : copy[c].count <= counted[c]
          /\ \A x \in Objects : copy[x] # NoDoc => x \in q.of /\ Ever(x)
          /\ \A c \in Channels : Sure(faults, c) => copy[c].state # "INACTIVE"
      BY <1>1, <2>1, <2>2, CopyIs
    <2>4. Fits(q, faults')
      BY <1>1, <1>3, <2>1, <2>2, <2>3 DEF Fits
    <2> QED BY <1>3, <2>1, <2>4, RoundGoes DEF ReadAll
  <1> QED BY <1>2, <1>3 DEF ReadAll

LEMMA FetchKeeps ==
    ASSUME StateInv, scene' = scene, NEW r \in Rounds, Fetch(r)
    PROVE  StateInv'
  <1>1. /\ round[r] \in RoundType /\ Fits(round[r], faults) /\ round[r].pc = "fetch"
        /\ round[r].of \in {{}, {Client}, Connections, Channels} /\ round[r].of \subseteq Objects
        /\ onChain \in [Objects -> DOMAIN Api] /\ Channels \subseteq Objects
    <2>1. round[r] \in RoundType
      BY SomeRound
    <2> QED BY <2>1, SomeRound DEF Fetch, RoundType, Objects
  <1>2. CASE Costs /\ round' = [round EXCEPT ![r].pc = "save", ![r].todo = round[r].of]
    <2> DEFINE q == [round[r] EXCEPT !.pc = "save", !.todo = round[r].of]
    <2>1. q \in RoundType /\ q.pc = "save" /\ q.db = round[r].db /\ q.api = round[r].api /\ q.of = round[r].of
          /\ round' = [round EXCEPT ![r] = q]
      BY <1>1, <1>2 DEF RoundType
    <2>2. \A x : ~Sure(faults', x)
      BY <1>2, SomeRound DEF Costs, Sure
    <2> HIDE DEF q
    <2>3. Fits(q, faults')
      BY <1>1, <2>1, <2>2 DEF Fits
    <2> QED BY <1>2, <2>1, <2>3, RoundGoes DEF Fetch
  <1> DEFINE answer == [x \in Objects |-> IF x \in round[r].of /\ ~Beyond(x) THEN onChain[x] ELSE "none"]
  <1>3. CASE faults' = faults /\ round' = [round EXCEPT ![r].pc = "save", ![r].todo = round[r].of,
                                                        ![r].api = answer]
    <2> DEFINE q == [round[r] EXCEPT !.pc = "save", !.todo = round[r].of, !.api = answer]
    <2>1. answer \in [Objects -> DOMAIN Api]
      BY <1>1, ApiNames
    <2>2. \A x \in Objects : answer[x] = IF x \in round[r].of /\ ~Beyond(x) THEN onChain[x] ELSE "none"
      OBVIOUS
    <2> HIDE DEF answer
    <2>3. q \in RoundType /\ q.pc = "save" /\ q.db = round[r].db /\ q.api = answer /\ q.of = round[r].of
          /\ round' = [round EXCEPT ![r] = q]
      BY <1>1, <1>3, <2>1 DEF RoundType
    <2> HIDE DEF q
    <2>4. Fits(q, faults')
      BY <1>1, <1>3, <2>2, <2>3 DEF Fits, Ever, Sure
    <2> QED BY <1>3, <2>3, <2>4, RoundGoes DEF Fetch
  <1> QED BY <1>2, <1>3 DEF Fetch

LEMMA SavedAllKeeps ==
    ASSUME StateInv, scene' = scene, NEW r \in Rounds, SavedAll(r)
    PROVE  StateInv'
  <1> DEFINE q == [round[r] EXCEPT !.pc = "mark", !.todo = Missing(r)]
  <1>1. /\ round[r] \in RoundType /\ Fits(round[r], faults) /\ round[r].pc = "save"
        /\ round[r].of \in {{}, {Client}, Connections, Channels} /\ round[r].of \subseteq Objects
        /\ Channels \subseteq Objects
    <2>1. round[r] \in RoundType
      BY SomeRound
    <2> QED BY <2>1, SomeRound DEF SavedAll, RoundType, Objects
  <1>2. q \in RoundType /\ q.pc = "mark" /\ q.db = round[r].db /\ q.api = round[r].api /\ q.of = round[r].of
        /\ q.todo = Missing(r) /\ round' = [round EXCEPT ![r] = q]
    BY <1>1 DEF RoundType, SavedAll, Missing
  <1> HIDE DEF q
  <1>21. \A c \in q.todo \cap Channels : ~Sure(faults, c)
    <2> SUFFICES ASSUME NEW c \in q.todo \cap Channels, Sure(faults, c) PROVE FALSE
      OBVIOUS
    <2>1. round[r].db[c] # NoDoc /\ round[r].api[c] = "none" /\ c \in Objects
      BY <1>1, <1>2 DEF Missing
    <2> QED BY <1>1, <2>1 DEF Fits
  <1>3. Fits(q, faults')
    BY <1>1, <1>2, <1>21 DEF Fits, SavedAll, Missing
  <1>4. UNCHANGED <<onChain, wire, doc, counted, overwritten, faults>>
    BY DEF SavedAll
  <1> QED BY <1>2, <1>3, <1>4, RoundGoes

LEMMA FindChannelsKeeps ==
    ASSUME StateInv, scene' = scene, NEW r \in Rounds, FindChannels(r)
    PROVE  StateInv'
  <1>1. CASE Costs /\ round' = [round EXCEPT ![r] = NoRound]
    BY <1>1, EndOfStageKeeps DEF FindChannels
  <1> DEFINE q == [At("peers", Channels) EXCEPT !.db = Copy(Channels), !.todo = {c \in Channels : Stored(c)}]
  <1>2. CASE faults' = faults /\ round' = [round EXCEPT ![r] = q]
    <2>1. At("find", Channels) \in RoundType
      BY NoRoundFits
    <2>2. At("peers", Channels) = [At("find", Channels) EXCEPT !.pc = "peers"]
      BY DEF At, NoRound
    <2>3. PICK copy : copy = Copy(Channels)
      OBVIOUS
    <2>4. /\ copy \in [Objects -> Documents]
          /\ \A c \in Channels : copy[c].count <= counted[c]
          /\ \A x \in Objects : copy[x] # NoDoc => x \in Channels /\ Ever(x)
          /\ \A x \in Channels \cap Objects : copy[x] = doc[x]
          /\ \A c \in Channels : Sure(faults, c) => copy[c].state # "INACTIVE"
      BY <2>3, CopyIs
    <2>5. Channels \subseteq Objects
      BY SomeRound
    <2>6. /\ At("peers", Channels).pc = "peers" /\ At("peers", Channels).of = Channels
          /\ At("peers", Channels).api = [x \in Objects |-> "none"]
          /\ At("peers", Channels) \in RoundType
      BY <2>1 DEF At, NoRound, RoundType
    <2>61. PICK those \in SUBSET Objects : those = {c \in Channels : Stored(c)}
      BY <2>5
    <2>62. PICK p : p = At("peers", Channels)
      OBVIOUS
    <2>63. q = [p EXCEPT !.db = copy, !.todo = those]
      BY <2>3, <2>61, <2>62
    <2> HIDE DEF q
    <2>64. /\ p \in RoundType /\ p.pc = "peers" /\ p.of = Channels
           /\ p.api = [x \in Objects |-> "none"]
      BY <2>6, <2>62
    <2>7. /\ q \in RoundType /\ q.pc = "peers" /\ q.db = copy /\ q.of = Channels
          /\ q.api = [x \in Objects |-> "none"] /\ q.todo = {c \in Channels : Stored(c)}
      <3>1. copy \in [Objects -> Documents]
        BY <2>4
      <3>2. /\ q \in RoundType /\ q.pc = "peers" /\ q.db = copy /\ q.of = Channels
            /\ q.api = [x \in Objects |-> "none"] /\ q.todo = those
        BY <2>63, <2>64, <3>1 DEF RoundType
      <3> QED BY <2>61, <3>2
    <2>8. \A c \in q.todo : copy[c] # NoDoc
      BY <2>4, <2>5, <2>7 DEF Stored
    <2>9. Fits(q, faults')
      BY <1>2, <2>4, <2>5, <2>7, <2>8 DEF Fits
    <2> QED BY <1>2, <2>7, <2>9, RoundGoes DEF FindChannels
  <1> QED BY <1>1, <1>2 DEF FindChannels

\* One of todo is done.
LEMMA TodoShrinks ==
    ASSUME StateInv, NEW r \in Rounds, NEW x, round' = [round EXCEPT ![r].todo = @ \ {x}],
           faults' = faults \/ Costs
    PROVE  \E q \in RoundType : Fits(q, faults') /\ round' = [round EXCEPT ![r] = q]
  <1> DEFINE q == [round[r] EXCEPT !.todo = @ \ {x}]
  <1>1. round[r] \in RoundType /\ Fits(round[r], faults)
    BY SomeRound
  <1>2. \A y : Sure(faults', y) => Sure(faults, y)
    BY SomeRound DEF Costs, Sure
  <1>3. /\ q \in RoundType /\ round' = [round EXCEPT ![r] = q] /\ q.todo \subseteq round[r].todo
        /\ q.pc = round[r].pc /\ q.db = round[r].db /\ q.api = round[r].api /\ q.of = round[r].of
    BY <1>1 DEF RoundType
  <1> HIDE DEF q
  <1>4. Fits(q, faults')
    BY <1>1, <1>2, <1>3 DEF Fits
  <1> QED BY <1>3, <1>4

LEMMA SaveObjectKeeps ==
    ASSUME StateInv, scene' = scene, NEW r \in Rounds, NEW x \in Objects, SaveObject(r, x)
    PROVE  StateInv'
  <1> DEFINE s == Api[round[r].api[x]]
  <1>1. /\ round[r].api[x] # "none" /\ round[r].api[x] \in DOMAIN Api
        /\ round' = [round EXCEPT ![r].todo = @ \ {x}] /\ faults' = faults
        /\ UNCHANGED <<onChain, wire, counted, overwritten>>
    <2>1. round[r] \in RoundType
      BY SomeRound
    <2> QED BY <2>1 DEF SaveObject, Outdated, RoundType
  <1>2. s \in States /\ s # "INACTIVE" /\ Ever(x)
    BY <1>1, ApiNames, SomeRound DEF Fits
  <1>3. doc' = IF x \in Connections THEN SaveConnection(x, s)
               ELSE [doc EXCEPT ![x] = Document(s, x = Client \/ @.peer, @.count)]
    BY DEF SaveObject
  <1> HIDE DEF s
  <1>4. PICK q \in RoundType : Fits(q, faults') /\ round' = [round EXCEPT ![r] = q]
    BY <1>1, TodoShrinks
  <1>5. /\ doc \in [Objects -> Documents] /\ counted \in [Channels -> Nat] /\ NoDoc \in Documents
        /\ Connections \subseteq Objects /\ Channels \subseteq Objects /\ Client \in Objects
        /\ Client \notin Connections \cup Channels /\ Connections \cap Channels = {}
    BY SomeRound
  <1>6. CASE x \in Connections
    <2>1. PICK d : d = [doc EXCEPT ![x] = Document(s, TRUE, 0)]
      OBVIOUS
    <2>2. /\ d \in [Objects -> Documents] /\ d[Client] = doc[Client]
          /\ \A y \in Objects : y # x => d[y] = doc[y]
      BY <1>2, <1>5, <1>6, <2>1 DEF Document, Documents
    <2>3. doc' = [d EXCEPT ![Client].count = IF d[Client] = NoDoc THEN @ ELSE @ + 1]
      BY <1>3, <1>6, <2>1 DEF SaveConnection, Counted
    <2>4. doc' \in [Objects -> Documents]
      BY <1>5, <2>2, <2>3 DEF Documents
    <2>5. \A y \in Objects : y # x /\ y # Client => doc'[y] = doc[y]
      BY <1>5, <2>2, <2>3
    <2>6. doc'[Client] # NoDoc => doc[Client] # NoDoc
      BY <1>5, <2>2, <2>3 DEF Documents
    <2>7. \A y \in Objects : doc'[y] # NoDoc => Ever(y)
      BY <1>2, <2>5, <2>6 DEF StateInv, DocsFit
    <2>8. \A c \in Channels : doc'[c] = doc[c]
      BY <1>5, <1>6, <2>5
    <2>9. \A c \in Channels : /\ doc'[c].count <= counted[c]
                              /\ c \notin overwritten' => doc'[c].count = counted[c]
                              /\ Sure(faults', c) => doc'[c].state # "INACTIVE"
      BY <1>1, <2>8 DEF StateInv, DocsFit
    <2> QED BY <1>1, <1>4, <2>4, <2>7, <2>9, RoundSaves DEF StateInv, StateTypeOK
  <1>7. CASE x \notin Connections
    <2>1. doc' = [doc EXCEPT ![x] = Document(s, x = Client \/ doc[x].peer, doc[x].count)]
      BY <1>3, <1>7
    <2>2. Document(s, x = Client \/ doc[x].peer, doc[x].count) \in Documents
      <3>1. doc[x].count \in Nat
        BY <1>5 DEF Documents
      <3>2. (x = Client \/ doc[x].peer) \in BOOLEAN
        BY <1>5 DEF Documents
      <3> QED BY <1>2, <3>1, <3>2 DEF Document, Documents
    <2>3. /\ doc' \in [Objects -> Documents] /\ doc'[x].count = doc[x].count /\ doc'[x].state = s
          /\ \A y \in Objects : y # x => doc'[y] = doc[y]
      <3>1. PICK e : e = Document(s, x = Client \/ doc[x].peer, doc[x].count)
        OBVIOUS
      <3>2. e.count = doc[x].count /\ e.state = s
        BY <3>1 DEF Document
      <3> QED BY <1>5, <2>1, <2>2, <3>1, <3>2
    <2>4. \A y \in Objects : doc'[y] # NoDoc => Ever(y)
      BY <1>2, <2>3 DEF StateInv, DocsFit
    <2>5. \A c \in Channels : /\ doc'[c].count <= counted[c]
                              /\ c \notin overwritten' => doc'[c].count = counted[c]
                              /\ Sure(faults', c) => doc'[c].state # "INACTIVE"
      BY <1>1, <1>2, <1>5, <2>3 DEF StateInv, DocsFit
    <2> QED BY <1>1, <1>4, <2>3, <2>4, <2>5, RoundSaves DEF StateInv, StateTypeOK
  <1> QED BY <1>6, <1>7

\* What a save of an old copy leaves.
LEMMA CopySaved ==
    ASSUME StateInv, scene' = scene, NEW r \in Rounds, NEW c \in Channels, NEW copy \in Documents,
           SaveCopy(c, copy), round' = [round EXCEPT ![r].todo = @ \ {c}], faults' = faults,
           UNCHANGED <<onChain, wire, counted>>, Ever(c), copy.count <= counted[c],
           Sure(faults, c) => copy.state # "INACTIVE"
    PROVE  StateInv'
  <1>1. PICK q \in RoundType : Fits(q, faults') /\ round' = [round EXCEPT ![r] = q]
    BY TodoShrinks
  <1>2. doc \in [Objects -> Documents] /\ counted \in [Channels -> Nat] /\ c \in Objects
        /\ Channels \subseteq Objects
    BY SomeRound
  <1>3. /\ doc' \in [Objects -> Documents] /\ doc'[c] = copy
        /\ \A x \in Objects : x # c => doc'[x] = doc[x]
    BY <1>2 DEF SaveCopy
  <1>4. /\ overwritten \subseteq overwritten' /\ overwritten' \subseteq Channels
        /\ c \notin overwritten' => copy.count = doc[c].count
    BY DEF SaveCopy, StateInv, StateTypeOK
  <1>5. \A x \in Objects : doc'[x] # NoDoc => Ever(x)
    BY <1>3 DEF StateInv, DocsFit
  <1>6. \A d \in Channels : /\ doc'[d].count <= counted[d]
                            /\ d \notin overwritten' => doc'[d].count = counted[d]
                            /\ Sure(faults', d) => doc'[d].state # "INACTIVE"
    BY <1>2, <1>3, <1>4 DEF StateInv, DocsFit
  <1> QED BY <1>1, <1>3, <1>4, <1>5, <1>6, RoundSaves

LEMMA MarkInactiveKeeps ==
    ASSUME StateInv, scene' = scene, NEW r \in Rounds, NEW c \in Channels, MarkInactive(r, c)
    PROVE  StateInv'
  <1> DEFINE copy == [round[r].db[c] EXCEPT !.state = "INACTIVE"]
  <1>1. round[r] \in RoundType /\ Fits(round[r], faults) /\ c \in Objects
    BY SomeRound
  <1>2. round[r].db[c] \in Documents /\ round[r].pc = "mark" /\ c \in round[r].todo \cap Channels
    BY <1>1 DEF RoundType, MarkInactive
  <1>3. copy \in Documents /\ copy.count = round[r].db[c].count
    BY <1>2 DEF Documents, States
  <1>4. Ever(c) /\ ~Sure(faults, c) /\ round[r].db[c].count <= counted[c]
    <2>1. ~Sure(faults, c)
      BY <1>1, <1>2 DEF Fits
    <2>2. round[r].db[c] # NoDoc
      BY <1>1, <1>2 DEF Fits
    <2> QED BY <1>1, <2>1, <2>2 DEF Fits
  <1>5. SaveCopy(c, copy) /\ round' = [round EXCEPT ![r].todo = @ \ {c}] /\ faults' = faults
        /\ UNCHANGED <<onChain, wire, counted>>
    BY DEF MarkInactive
  <1> HIDE DEF copy
  <1> QED BY <1>3, <1>4, <1>5, CopySaved

LEMMA SetCounterpartyKeeps ==
    ASSUME StateInv, scene' = scene, NEW r \in Rounds, NEW c \in Channels, SetCounterparty(r, c)
    PROVE  StateInv'
  <1> DEFINE copy == [round[r].db[c] EXCEPT !.peer = TRUE]
  <1>1. round[r] \in RoundType /\ Fits(round[r], faults) /\ c \in Objects
    BY SomeRound
  <1>2. round[r].db[c] \in Documents /\ round[r].pc = "peers" /\ c \in round[r].todo
        /\ round' = [round EXCEPT ![r].todo = @ \ {c}] /\ UNCHANGED <<onChain, wire, counted>>
    BY <1>1 DEF RoundType, SetCounterparty
  <1>3. CASE SaveCopy(c, copy) /\ faults' = faults
    <2>1. copy \in Documents /\ copy.count = round[r].db[c].count /\ copy.state = round[r].db[c].state
      BY <1>2 DEF Documents
    <2>2. Ever(c) /\ round[r].db[c].count <= counted[c] /\ (Sure(faults, c) => round[r].db[c].state # "INACTIVE")
      <3>1. Sure(faults, c) => round[r].db[c].state # "INACTIVE"
        BY <1>1, <1>2 DEF Fits
      <3>2. round[r].db[c] # NoDoc
        BY <1>1, <1>2 DEF Fits
      <3> QED BY <1>1, <3>1, <3>2 DEF Fits
    <2> HIDE DEF copy
    <2> QED BY <1>2, <1>3, <2>1, <2>2, CopySaved
  <1>4. CASE UNCHANGED <<doc, overwritten>> /\ (faults' = faults \/ Costs)
    <2>1. \E q \in RoundType : Fits(q, faults') /\ round' = [round EXCEPT ![r] = q]
      BY <1>2, <1>4, TodoShrinks
    <2> QED BY <1>2, <1>4, <2>1, RoundGoes
  <1> QED BY <1>3, <1>4 DEF SetCounterparty

LEMMA RoundStepKeeps ==
    ASSUME StateInv, scene' = scene, NEW r \in Rounds, RoundStep(r)
    PROVE  StateInv'
  BY StartRoundKeeps, ReadAllKeeps, FetchKeeps, SavedAllKeeps, StageEnds, FindChannelsKeeps,
     SaveObjectKeeps, MarkInactiveKeeps, SetCounterpartyKeeps DEF RoundStep

-----------------------------------------------------------------------------
(* The chain, the events, the counts of packets.                             *)

\* What is not a step of a round leaves the rounds as they are.
LEMMA OthersKeep ==
    ASSUME StateInv, UNCHANGED <<scene, round, overwritten>>, faults' = faults \/ Costs,
           onChain' \in [Objects -> DOMAIN Api], wire' \subseteq Objects \X DOMAIN Api,
           doc' \in [Objects -> Documents], counted' \in [Channels -> Nat],
           \A x \in Objects : Ever(x) => Ever(x)',
           \A c \in Channels : counted[c] <= counted'[c],
           \A x \in Objects : doc'[x] # NoDoc => Ever(x)',
           \A e \in wire' : Ever(e[1])',
           \A c \in Channels : /\ doc'[c].count <= counted'[c]
                               /\ c \notin overwritten => doc'[c].count = counted'[c]
                               /\ Sure(faults, c) => doc'[c].state # "INACTIVE"
    PROVE  StateInv'
  <1>1. /\ faults \in 0..scene.faults /\ scene.faults \in Nat
        /\ faults' \in 0..scene'.faults /\ \A x \in Objects : Sure(faults, x)' => Sure(faults, x)
    BY SureBefore, SceneIs DEF StateInv, StateTypeOK, Costs
  <1>2. StateTypeOK'
    BY <1>1 DEF StateInv, StateTypeOK
  <1>3. DocsFit'
    BY <1>1 DEF DocsFit, Objects
  <1>4. ASSUME NEW r \in Rounds PROVE Fits(round[r], faults)'
    <2> DEFINE q == round[r]
    <2>1. q \in RoundType /\ Fits(q, faults) /\ Channels \subseteq Objects /\ counted \in [Channels -> Nat]
      BY SomeRound
    <2>2. round'[r] = q
      OBVIOUS
    <2>3. \A c \in Channels : q.db[c].count \in Nat
      BY <2>1 DEF RoundType, Documents
    <2> HIDE DEF q
    <2>4. \A c \in Channels : q.db[c].count <= counted'[c]
      BY <2>1, <2>3 DEF Fits
    <2>5. /\ \A x \in Objects : q.api[x] # "none" => Ever(x)'
          /\ \A x \in Objects : q.db[x] # NoDoc => x \in q.of /\ Ever(x)'
          /\ q.pc \in {"mark", "peers"} => \A c \in q.todo \cap Channels : q.db[c] # NoDoc
      BY <2>1 DEF Fits
    <2>6. /\ \A c \in Channels : Sure(faults, c)' => q.db[c].state # "INACTIVE"
          /\ q.pc = "mark" => \A c \in q.todo \cap Channels : ~Sure(faults, c)'
          /\ q.pc \in {"save", "mark"} =>
               \A x \in Objects : Sure(faults, x)' /\ q.db[x] # NoDoc => q.api[x] # "none"
      <3>1. \A x \in Objects : Sure(faults, x)' => Sure(faults, x)
        BY <1>1
      <3>2. /\ \A c \in Channels : Sure(faults, c) => q.db[c].state # "INACTIVE"
            /\ q.pc = "mark" => \A c \in q.todo \cap Channels : ~Sure(faults, c)
        BY <2>1 DEF Fits
      <3>3. q.pc \in {"save", "mark"} =>
              \A x \in Objects : Sure(faults, x) /\ q.db[x] # NoDoc => q.api[x] # "none"
        BY <2>1 DEF Fits
      <3> QED BY <2>1, <3>1, <3>2, <3>3
    <2> QED BY <2>2, <2>4, <2>5, <2>6 DEF Fits, Ever
  <1> QED BY <1>2, <1>3, <1>4 DEF StateInv

LEMMA StateTypes ==
    ASSUME StateInv
    PROVE  /\ doc \in [Objects -> Documents] /\ onChain \in [Objects -> DOMAIN Api]
           /\ counted \in [Channels -> Nat] /\ wire \subseteq Objects \X DOMAIN Api
           /\ NoDoc \in Documents /\ DocsFit
           /\ Connections \subseteq Objects /\ Channels \subseteq Objects /\ Client \in Objects
           /\ Client \notin Connections \cup Channels /\ Connections \cap Channels = {}
  <1>1. NoDoc \in Documents
    BY DEF NoDoc, Document, Documents, States
  <1> QED BY <1>1, StateAssumption DEF StateInv, StateTypeOK, Objects, StateAssumption

LEMMA ChainMovesKeeps ==
    ASSUME StateInv, scene' = scene, NEW x \in Objects, ChainMoves(x)
    PROVE  StateInv'
  <1>1. PICK s \in NextStates(x) : /\ onChain' = [onChain EXCEPT ![x] = s]
                                   /\ wire' \in {wire, wire \cup {<<x, s>>}}
    BY DEF ChainMoves
  <1>2. s \in DOMAIN Api /\ s # "none"
    <2>1. s \in {"ACTIVE", "INIT", "TRYOPEN", "OPEN", "CLOSED"}
      BY <1>1 DEF NextStates
    <2> QED BY <2>1, ApiNames
  <1>3. onChain' \in [Objects -> DOMAIN Api] /\ onChain'[x] = s
        /\ \A y \in Objects : y # x => onChain'[y] = onChain[y]
    BY <1>1, <1>2, StateTypes
  <1>4. \A y \in Objects : Ever(y) => Ever(y)'
    BY <1>2, <1>3 DEF Ever
  <1>5. wire' \subseteq Objects \X DOMAIN Api
    BY <1>1, <1>2, StateTypes
  <1>6. \A e \in wire' : Ever(e[1])'
    BY <1>1, <1>2, <1>3, <1>4, StateTypes DEF DocsFit, Ever
  <1>7. UNCHANGED <<doc, round, counted, overwritten, faults>>
    BY DEF ChainMoves
  <1>8. \A y \in Objects : doc[y] # NoDoc => Ever(y)'
    BY <1>4, StateTypes DEF DocsFit
  <1>9. \A c \in Channels : counted[c] <= counted[c]
    BY StateTypes
  <1>10. \A c \in Channels : /\ doc[c].count <= counted[c]
                             /\ c \notin overwritten => doc[c].count = counted[c]
                             /\ Sure(faults, c) => doc[c].state # "INACTIVE"
    BY StateTypes DEF DocsFit
  <1> QED BY <1>3, <1>4, <1>5, <1>6, <1>7, <1>8, <1>9, <1>10, StateTypes, OthersKeep

\* What SaveConnection leaves of the documents.
LEMMA ConnectionSaved ==
    ASSUME StateInv, NEW k \in Connections, NEW s \in States
    PROVE  /\ SaveConnection(k, s) \in [Objects -> Documents]
           /\ \A y \in Objects \ {k} : SaveConnection(k, s)[y] # NoDoc => doc[y] # NoDoc
           /\ \A c \in Channels : SaveConnection(k, s)[c] = doc[c]
  <1> DEFINE d == [doc EXCEPT ![k] = Document(s, TRUE, 0)]
  <1> DEFINE n == SaveConnection(k, s)
  <1>1. /\ d \in [Objects -> Documents] /\ d[Client] = doc[Client]
        /\ \A y \in Objects : y # k => d[y] = doc[y]
    BY StateTypes DEF Document, Documents
  <1>2. n = [d EXCEPT ![Client].count = IF d[Client] = NoDoc THEN @ ELSE @ + 1]
    BY DEF SaveConnection, Counted
  <1> HIDE DEF d, n
  <1>3. n \in [Objects -> Documents]
    <2>1. d \in [Objects -> Documents] /\ Client \in Objects
      BY <1>1, StateTypes
    <2> QED BY <1>2, <2>1 DEF Documents
  <1>4. \A y \in Objects : y # k /\ y # Client => n[y] = doc[y]
    BY <1>1, <1>2, StateTypes
  <1>5. n[Client] # NoDoc => doc[Client] # NoDoc
    BY <1>1, <1>2, StateTypes DEF Documents
  <1>6. \A c \in Channels : n[c] = doc[c]
    BY <1>4, StateTypes
  <1> QED BY <1>3, <1>4, <1>5, <1>6 DEF n

LEMMA HandleEventKeeps ==
    ASSUME StateInv, scene' = scene, NEW e \in wire, HandleEvent(e)
    PROVE  StateInv'
  <1>1. /\ wire' = wire \ {e} /\ UNCHANGED <<onChain, round, counted, overwritten, faults>>
    BY DEF HandleEvent
  <1>2. PICK x \in Objects, s \in DOMAIN Api : e = <<x, s>>
    BY StateTypes
  <1>3. e[1] = x /\ e[2] = s
    BY <1>2
  <1>4. s \in States /\ s # "INACTIVE"
    BY <1>2, ApiNames
  <1>5. Ever(x)
    BY <1>3, StateTypes DEF DocsFit
  <1>6. /\ doc' \in [Objects -> Documents]
        /\ \A y \in Objects \ {x} : doc'[y] # NoDoc => doc[y] # NoDoc
        /\ \A c \in Channels : /\ doc'[c].count = doc[c].count
                               /\ doc'[c].state \in {doc[c].state, s}
    <2>1. CASE x = Client /\ ClientEvent(s)
      <3>1. Document(s, FALSE, 0) \in Documents
        BY <1>4 DEF Document, Documents
      <3> QED BY <2>1, <3>1, StateTypes DEF ClientEvent
    <2>2. CASE x \in Connections /\ ConnectionEvent(x, s)
      <3>1. Document(s, FALSE, 0) \in Documents
        BY <1>4 DEF Document, Documents
      <3>2. CASE doc' = SaveConnection(x, s)
        BY <1>4, <2>2, <3>2, ConnectionSaved
      <3>3. CASE doc' = doc
        BY <3>3, StateTypes
      <3>4. CASE doc' = [doc EXCEPT ![x].state = s]
        <4>1. doc[x] \in Documents /\ doc' = [doc EXCEPT ![x] = [doc[x] EXCEPT !.state = s]]
          BY <3>4, StateTypes
        <4>2. [doc[x] EXCEPT !.state = s] \in Documents
          BY <1>4, <4>1 DEF Documents
        <4> QED BY <2>2, <4>1, <4>2, StateTypes
      <3>5. CASE doc' = [doc EXCEPT ![x] = Document(s, FALSE, 0)]
        BY <2>2, <3>1, <3>5, StateTypes
      <3> QED BY <2>2, <3>2, <3>3, <3>4, <3>5 DEF ConnectionEvent
    <2>3. CASE x \in Channels /\ ChannelEvent(x, s)
      <3>1. CASE doc' = doc
        BY <3>1, StateTypes
      <3>2. CASE doc' = [doc EXCEPT ![x].state = s]
        <4>1. PICK d : d = [doc[x] EXCEPT !.state = s]
          OBVIOUS
        <4>2. doc[x] \in Documents /\ doc' = [doc EXCEPT ![x] = d]
          BY <3>2, <4>1, StateTypes
        <4>3. d \in Documents /\ d.count = doc[x].count /\ d.state = s
          BY <1>4, <4>1, <4>2 DEF Documents
        <4>4. /\ doc' \in [Objects -> Documents] /\ doc'[x] = d
              /\ \A y \in Objects \ {x} : doc'[y] = doc[y]
          BY <4>2, <4>3, StateTypes
        <4> QED BY <4>3, <4>4, StateTypes
      <3> QED BY <2>3, <3>1, <3>2 DEF ChannelEvent
    <2> QED BY <1>3, <2>1, <2>2, <2>3 DEF HandleEvent
  <1>7. \A y \in Objects : doc'[y] # NoDoc => Ever(y)
    BY <1>5, <1>6, StateTypes DEF DocsFit
  <1>8. \A y \in Objects : Ever(y) <=> Ever(y)'
    BY <1>1 DEF Ever
  <1>9. \A f \in wire' : Ever(f[1])'
    BY <1>1, StateTypes DEF DocsFit, Ever
  <1>10. \A c \in Channels : /\ doc'[c].count <= counted'[c]
                             /\ c \notin overwritten => doc'[c].count = counted'[c]
                             /\ Sure(faults, c) => doc'[c].state # "INACTIVE"
    BY <1>1, <1>4, <1>6, StateTypes DEF DocsFit
  <1>11. wire' \subseteq Objects \X DOMAIN Api
    BY <1>1, StateTypes
  <1>12. \A c \in Channels : counted[c] <= counted'[c]
    BY <1>1, StateTypes
  <1>13. onChain' \in [Objects -> DOMAIN Api] /\ counted' \in [Channels -> Nat]
    BY <1>1, StateTypes
  <1> QED BY <1>1, <1>6, <1>7, <1>8, <1>9, <1>10, <1>11, <1>12, <1>13, OthersKeep

\* Only packets and errors: the documents stay.
LEMMA FaultsKeep ==
    ASSUME StateInv, UNCHANGED <<scene, stateVars>>, faults' = faults \/ Costs
    PROVE  StateInv'
  <1>1. UNCHANGED <<onChain, wire, doc, round, counted, overwritten>>
    BY DEF stateVars
  <1>2. /\ \A y \in Objects : Ever(y) <=> Ever(y)'
        /\ \A c \in Channels : counted[c] <= counted'[c]
    BY <1>1, StateTypes DEF Ever
  <1>3. /\ \A y \in Objects : doc'[y] # NoDoc => Ever(y)'
        /\ \A f \in wire' : Ever(f[1])'
    BY <1>1, StateTypes DEF DocsFit, Ever
  <1>4. \A c \in Channels : /\ doc'[c].count <= counted'[c]
                            /\ c \notin overwritten => doc'[c].count = counted'[c]
                            /\ Sure(faults, c) => doc'[c].state # "INACTIVE"
    BY <1>1, StateTypes DEF DocsFit
  <1>5. /\ onChain' \in [Objects -> DOMAIN Api] /\ wire' \subseteq Objects \X DOMAIN Api
        /\ doc' \in [Objects -> Documents] /\ counted' \in [Channels -> Nat]
    BY <1>1, StateTypes
  <1> QED BY <1>1, <1>2, <1>3, <1>4, <1>5, OthersKeep

LEMMA CountPacketKeeps ==
    ASSUME StateInv, scene' = scene, NEW c \in Channels, CountPacket(c),
           UNCHANGED <<onChain, wire, round, overwritten, faults>>
    PROVE  StateInv'
  <1>1. doc[c] \in Documents /\ counted[c] \in Nat /\ doc[c].count \in Nat
    BY StateTypes DEF Documents
  <1>2. CASE ~Stored(c)
    <2>1. doc' = doc /\ counted' = counted
      BY <1>2, StateTypes DEF CountPacket, Documents
    <2> QED BY <2>1, FaultsKeep DEF stateVars
  <1>3. CASE Stored(c)
    <2>1. PICK d : d = [doc[c] EXCEPT !.count = @ + 1]
      OBVIOUS
    <2>2. doc' = [doc EXCEPT ![c] = d] /\ counted' = [counted EXCEPT ![c] = @ + 1]
      BY <1>3, <2>1, StateTypes DEF CountPacket
    <2>3. d \in Documents /\ d.count = doc[c].count + 1 /\ d.state = doc[c].state
      BY <1>1, <2>1 DEF Documents
    <2>4. /\ doc' \in [Objects -> Documents] /\ doc'[c] = d
          /\ \A y \in Objects \ {c} : doc'[y] = doc[y]
      BY <2>2, <2>3, StateTypes
    <2>5. /\ counted' \in [Channels -> Nat] /\ counted'[c] = counted[c] + 1
          /\ \A y \in Channels \ {c} : counted'[y] = counted[y]
      BY <2>2, StateTypes
    <2>6. \A y \in Channels : counted[y] <= counted'[y]
      BY <1>1, <2>5, StateTypes
    <2>7. \A y \in Objects : doc'[y] # NoDoc => Ever(y)'
      BY <1>3, <2>4, StateTypes DEF DocsFit, Ever, Stored
    <2>8. \A f \in wire' : Ever(f[1])'
      BY StateTypes DEF DocsFit, Ever
    <2>9. ASSUME NEW y \in Channels
          PROVE  /\ doc'[y].count <= counted'[y]
                 /\ y \notin overwritten => doc'[y].count = counted'[y]
                 /\ Sure(faults, y) => doc'[y].state # "INACTIVE"
      <3>1. /\ doc[y].count <= counted[y] /\ (y \notin overwritten => doc[y].count = counted[y])
            /\ (Sure(faults, y) => doc[y].state # "INACTIVE")
        BY StateTypes DEF DocsFit
      <3> QED BY <1>1, <2>3, <2>4, <2>5, <3>1, StateTypes
    <2>10. \A y \in Objects : Ever(y) => Ever(y)'
      BY DEF Ever
    <2> QED BY <2>4, <2>5, <2>6, <2>7, <2>8, <2>9, <2>10, StateTypes, OthersKeep
  <1> QED BY <1>2, <1>3

LEMMA StateStarts ==
    ASSUME StateInit
    PROVE  StateInv
  <1>1. /\ "none" \in DOMAIN Api /\ "ACTIVE" \in DOMAIN Api /\ "OPEN" \in DOMAIN Api
        /\ NoDoc \in Documents /\ NoDoc.count = 0 /\ NoDoc.state # "INACTIVE"
    BY ApiNames DEF NoDoc, Document, Documents, States
  <1>2. scene \in Scenes /\ scene.faults \in Nat /\ faults = 0
    BY SceneIs DEF StateInit
  <1>3. onChain \in [Objects -> DOMAIN Api]
    BY <1>1 DEF StateInit
  <1>4. NoRound \in RoundType
    BY <1>1 DEF NoRound, RoundType
  <1>5. doc = [x \in Objects |-> NoDoc] /\ counted = [c \in Channels |-> 0] /\ wire = {} /\ overwritten = {}
    BY DEF StateInit
  <1>6. round = [r \in Rounds |-> NoRound]
    BY DEF StateInit
  <1>7. round \in [Rounds -> RoundType]
    BY <1>4, <1>6
  <1>8. StateTypeOK
    BY <1>1, <1>2, <1>3, <1>5, <1>7 DEF StateTypeOK, RoundType
  <1>9. Channels \subseteq Objects
    BY DEF Objects
  <1>10. DocsFit
    BY <1>1, <1>5, <1>9 DEF DocsFit
  <1>11. Fits(NoRound, 0)
    <2>1. \A x \in Objects : NoRound.db[x] = NoDoc /\ NoRound.api[x] = "none"
      BY DEF NoRound
    <2>2. NoRound.pc = "idle"
      BY DEF NoRound
    <2> QED BY <1>1, <1>5, <1>9, <2>1, <2>2 DEF Fits
  <1>12. \A r \in Rounds : Fits(round[r], faults)
    BY <1>2, <1>6, <1>11
  <1> QED BY <1>8, <1>10, <1>12 DEF StateInv

LEMMA ChannelsAgree ==
    ASSUME StateInv
    PROVE  ChannelsHold
  <1>1. StateTypeOK /\ CountsExact
    BY DEF StateInv, DocsFit, CountsExact
  <1>2. faults \in Nat
    BY SceneIs DEF StateInv, StateTypeOK
  <1>3. InactiveHasCause
    BY <1>2 DEF StateInv, DocsFit, InactiveHasCause, Sure
  <1> QED BY <1>1, <1>3 DEF ChannelsHold

-----------------------------------------------------------------------------
(* IBC: what was stored of packets.                                          *)

CallType == [save : BOOLEAN, relay : Steps, count : BOOLEAN]
FinalStatuses == {"ACKNOWLEDGED", "TIMEOUT"}
Outcome(e) == e.kind \in {Ack, Expiry}
InBox(e) == \E i \in 1..Len(inbox) : inbox[i] = e
\* Of a packet, a send and an outcome.
Pair(s, o) == s.packet = o.packet /\ s.kind = Send /\ Outcome(o)
\* The outcome is being stored, or an outcome is.
Settled(o) == call[o].save \/ packet[o.packet] \in FinalStatuses

PacketTypeOK ==
    /\ happened \subseteq Events /\ inbox \in Seq(Events) /\ late \subseteq Packets
    /\ call \in [Events -> CallType]
    /\ packet \in [Packets -> {"none", "SENT", "RECEIVED", "ACKNOWLEDGED", "TIMEOUT"}]

CallsOK == \A e \in Events : e \notin happened \/ InBox(e) => call[e] = NotTaken

OnceOK ==
    /\ \A i, j \in 1..Len(inbox) : inbox[i] = inbox[j] => i = j
    /\ \A i \in 1..Len(inbox) : inbox[i] \in happened
    /\ \A e, o \in happened : e.packet = o.packet /\ Outcome(e) /\ Outcome(o) => e = o
    /\ \A o \in happened : Outcome(o) => \E s \in happened : Pair(s, o)

\* Events are taken up in order, so a send that waits comes before its outcome.
OrderOK ==
    /\ \A i, j \in 1..Len(inbox) : Pair(inbox[i], inbox[j]) => i < j
    /\ \A s, o \in happened : Pair(s, o) /\ InBox(s) => ~Settled(o)
    /\ \A s, o \in happened : Pair(s, o) /\ call[s].save /\ Settled(o) => o.packet \in late
    /\ \A p \in Packets : \A k \in {Ack, Expiry} :
         packet[p] = StatusOf[k] => \E o \in happened : o.packet = p /\ o.kind = k

PacketInv == PacketTypeOK /\ CallsOK /\ OnceOK /\ OrderOK

LEMMA KindsAre ==
    /\ Send # Recv /\ Send # Ack /\ Send # Expiry /\ Recv # Ack /\ Recv # Expiry /\ Ack # Expiry
    /\ StatusOf[Send] = "SENT" /\ StatusOf[Recv] = "RECEIVED"
    /\ StatusOf[Ack] = "ACKNOWLEDGED" /\ StatusOf[Expiry] = "TIMEOUT"
    /\ Kinds = {Send, Recv, Ack, Expiry}
    /\ \A e \in Events : e.kind \in Kinds /\ e.packet \in Packets /\ e.chan \in Channels
    /\ NotTaken \in CallType /\ ~NotTaken.save /\ ~NotTaken.count /\ NotTaken.relay = "none"
  <1>1. /\ StatusOf[Send] = "SENT" /\ StatusOf[Recv] = "RECEIVED"
        /\ StatusOf[Ack] = "ACKNOWLEDGED" /\ StatusOf[Expiry] = "TIMEOUT"
    BY DEF StatusOf, Kinds, Send, Recv, Ack, Expiry
  <1>2. \A e \in Events : e.kind \in Kinds /\ e.packet \in Packets /\ e.chan \in Channels
    BY PacketAssumption DEF PacketAssumption, Packets
  <1>3. NotTaken \in CallType /\ ~NotTaken.save /\ ~NotTaken.count /\ NotTaken.relay = "none"
    BY DEF NotTaken, CallType, Steps
  <1> QED BY <1>1, <1>2, <1>3 DEF Kinds, Send, Recv, Ack, Expiry

\* An outcome that is stored has happened.
LEMMA FinalHappened ==
    ASSUME PacketInv, NEW p \in Packets, packet[p] \in FinalStatuses
    PROVE  \E o \in happened : o.packet = p /\ Outcome(o) /\ packet[p] = StatusOf[o.kind]
  <1>1. PICK k \in {Ack, Expiry} : packet[p] = StatusOf[k]
    BY KindsAre DEF FinalStatuses
  <1> QED BY <1>1 DEF PacketInv, OrderOK, Outcome

LEMMA HappensKeeps ==
    ASSUME PacketInv, NEW e \in Events, Happens(e)
    PROVE  PacketInv'
  <1>1. /\ e \notin happened /\ happened' = happened \cup {e} /\ UNCHANGED <<call, packet, late>>
        /\ (inbox' = inbox \/ inbox' = Append(inbox, e))
        /\ \A o \in happened : o.packet = e.packet => o.kind # e.kind
        /\ Outcome(e) => (\E s \in happened : s.packet = e.packet /\ s.kind = Send)
        /\ Outcome(e) => ~(\E o \in happened : o.packet = e.packet /\ Outcome(o))
    BY DEF Happens, Possible, Outcome
  <1>2. /\ inbox \in Seq(Events) /\ happened \subseteq Events
        /\ \A i \in 1..Len(inbox) : inbox[i] \in happened
    BY DEF PacketInv, PacketTypeOK, OnceOK
  <1>3. /\ inbox' \in Seq(Events) /\ Len(inbox') \in {Len(inbox), Len(inbox) + 1}
        /\ \A i \in 1..Len(inbox) : inbox'[i] = inbox[i]
        /\ \A i \in 1..Len(inbox') : i \notin 1..Len(inbox) => i = Len(inbox) + 1 /\ inbox'[i] = e
        /\ Len(inbox) \in Nat
    BY <1>1, <1>2
  <1>4. \A x \in Events : x # e => (InBox(x)' => InBox(x))
    BY <1>3 DEF InBox
  <1>5. call[e] = NotTaken /\ ~call[e].save /\ (Outcome(e) => ~Settled(e))
    <2>1. call[e] = NotTaken
      BY <1>1 DEF PacketInv, CallsOK
    <2>2. Outcome(e) => packet[e.packet] \notin FinalStatuses
      BY <1>1, FinalHappened, KindsAre
    <2> QED BY <2>1, <2>2, KindsAre DEF Settled
  <1>6. \A o : Settled(o) <=> Settled(o)'
    BY <1>1 DEF Settled
  \* An event that comes now is neither the send of an outcome that has
  \* happened nor the second outcome.
  <1>7. \A o \in happened : ~Pair(e, o)
    BY <1>1 DEF PacketInv, OnceOK, Pair
  <1>8. ~Pair(e, e)
    BY KindsAre DEF Pair, Outcome
  <1>9. PacketTypeOK'
    BY <1>1, <1>2, <1>3 DEF PacketInv, PacketTypeOK
  <1>10. CallsOK'
    BY <1>1, <1>4, <1>5 DEF PacketInv, CallsOK
  <1>11. OnceOK'
    <2>1. \A i, j \in 1..Len(inbox') : inbox'[i] = inbox'[j] => i = j
      BY <1>1, <1>2, <1>3 DEF PacketInv, OnceOK
    <2>2. \A i \in 1..Len(inbox') : inbox'[i] \in happened'
      BY <1>1, <1>2, <1>3
    <2>3. \A x, o \in happened' : x.packet = o.packet /\ Outcome(x) /\ Outcome(o) => x = o
      BY <1>1 DEF PacketInv, OnceOK
    <2>4. \A o \in happened' : Outcome(o) => \E s \in happened' : Pair(s, o)
      <3> SUFFICES ASSUME NEW o \in happened', Outcome(o) PROVE \E s \in happened' : Pair(s, o)
        OBVIOUS
      <3>1. CASE o = e
        BY <1>1, <3>1 DEF Pair
      <3>2. CASE o \in happened
        BY <1>1, <3>2 DEF PacketInv, OnceOK
      <3> QED BY <1>1, <3>1, <3>2
    <2> QED BY <2>1, <2>2, <2>3, <2>4 DEF OnceOK, Outcome, Pair
  <1>12. OrderOK'
    <2>1. \A i, j \in 1..Len(inbox') : Pair(inbox'[i], inbox'[j]) => i < j
      <3> SUFFICES ASSUME NEW i \in 1..Len(inbox'), NEW j \in 1..Len(inbox'), Pair(inbox'[i], inbox'[j])
                   PROVE  i < j
        OBVIOUS
      <3>1. CASE i \in 1..Len(inbox) /\ j \in 1..Len(inbox)
        BY <1>3, <3>1 DEF PacketInv, OrderOK
      <3>2. CASE i \in 1..Len(inbox) /\ j \notin 1..Len(inbox)
        BY <1>3, <3>2
      <3>3. CASE i \notin 1..Len(inbox)
        BY <1>2, <1>3, <1>7, <1>8, <3>3
      <3> QED BY <3>1, <3>2, <3>3
    <2>2. \A s, o \in happened' : Pair(s, o) /\ InBox(s)' => ~Settled(o)
      BY <1>1, <1>2, <1>4, <1>5, <1>7, <1>8 DEF PacketInv, OrderOK, Pair
    <2>3. \A s, o \in happened' : Pair(s, o) /\ call[s].save /\ Settled(o) => o.packet \in late
      BY <1>1, <1>5 DEF PacketInv, OrderOK, Pair
    <2>4. \A p \in Packets : \A k \in {Ack, Expiry} :
            packet[p] = StatusOf[k] => \E o \in happened' : o.packet = p /\ o.kind = k
      BY <1>1 DEF PacketInv, OrderOK
    <2> QED BY <1>1, <1>6, <2>1, <2>2, <2>3, <2>4 DEF OrderOK, Pair, Outcome
  <1> QED BY <1>9, <1>10, <1>11, <1>12 DEF PacketInv

LEMMA TakeUpKeeps ==
    ASSUME PacketInv, TakeUp
    PROVE  PacketInv'
  <1> DEFINE e == Head(inbox)
  <1>1. inbox \in Seq(Events) /\ inbox # <<>> /\ inbox' = Tail(inbox) /\ UNCHANGED <<happened, packet>>
    BY DEF PacketInv, PacketTypeOK, TakeUp
  <1>2. e \in Events /\ 1 \in 1..Len(inbox) /\ inbox[1] = e /\ inbox' \in Seq(Events)
        /\ \A i \in 1..Len(inbox') : i + 1 \in 1..Len(inbox) /\ inbox'[i] = inbox[i + 1]
    BY <1>1
  <1>3. PICK c \in CallType : call' = [call EXCEPT ![e] = c] /\ c.save
    <2>1. [save |-> TRUE, count |-> e.kind # Send,
           relay |-> IF e.signed /\ e.kind # Send THEN "total" ELSE "none"] \in CallType
      BY DEF CallType, Steps
    <2> QED BY <2>1 DEF TakeUp
  <1>4. late' = IF Saving(e.packet) THEN late \cup {e.packet} ELSE late
    BY DEF TakeUp
  <1> HIDE DEF e
  <1>5. call \in [Events -> CallType] /\ happened \subseteq Events /\ e.packet \in Packets
    BY <1>2, KindsAre DEF PacketInv, PacketTypeOK
  <1>6. call' \in [Events -> CallType] /\ call'[e] = c /\ \A x \in Events : x # e => call'[x] = call[x]
    BY <1>2, <1>3, <1>5
  <1>7. e \in happened /\ InBox(e)
    BY <1>2 DEF PacketInv, OnceOK, InBox
  \* The box no longer holds e.
  <1>8. \A x \in Events : InBox(x)' => InBox(x) /\ x # e
    <2> SUFFICES ASSUME NEW x \in Events, InBox(x)' PROVE InBox(x) /\ x # e
      OBVIOUS
    <2>1. PICK i \in 1..Len(inbox') : inbox'[i] = x
      BY DEF InBox
    <2>2. i + 1 \in 1..Len(inbox) /\ inbox[i + 1] = x /\ i + 1 # 1
      BY <1>2, <2>1
    <2>3. inbox[i + 1] # inbox[1]
      BY <1>2, <2>2 DEF PacketInv, OnceOK
    <2> QED BY <1>2, <2>2, <2>3 DEF InBox
  \* A send that still waits is not the send of e.
  <1>9. \A s \in happened : InBox(s)' => ~Pair(s, e)
    <2> SUFFICES ASSUME NEW s \in happened, InBox(s)', Pair(s, e) PROVE FALSE
      OBVIOUS
    <2>1. PICK i \in 1..Len(inbox') : inbox'[i] = s
      BY DEF InBox
    <2>2. i + 1 \in 1..Len(inbox) /\ inbox[i + 1] = s
      BY <1>2, <2>1
    <2>3. i + 1 < 1
      BY <1>2, <2>2 DEF PacketInv, OrderOK
    <2> QED BY <2>3
  <1>10. \A x \in Events : x # e => (Settled(x)' <=> Settled(x))
    BY <1>1, <1>6 DEF Settled
  <1>11. PacketTypeOK'
    BY <1>1, <1>2, <1>4, <1>5, <1>6 DEF PacketInv, PacketTypeOK
  <1>12. CallsOK'
    BY <1>1, <1>6, <1>7, <1>8 DEF PacketInv, CallsOK
  <1>13. OnceOK'
    <2>1. ASSUME NEW i \in 1..Len(inbox'), NEW j \in 1..Len(inbox'), inbox'[i] = inbox'[j] PROVE i = j
      <3>1. /\ i + 1 \in 1..Len(inbox) /\ inbox'[i] = inbox[i + 1]
            /\ j + 1 \in 1..Len(inbox) /\ inbox'[j] = inbox[j + 1]
        BY <1>2
      <3>2. \A x, y \in 1..Len(inbox) : inbox[x] = inbox[y] => x = y
        BY DEF PacketInv, OnceOK
      <3>3. i + 1 = j + 1
        BY <2>1, <3>1, <3>2
      <3> QED BY <3>3
    <2>2. ASSUME NEW i \in 1..Len(inbox') PROVE inbox'[i] \in happened
      <3>1. i + 1 \in 1..Len(inbox) /\ inbox'[i] = inbox[i + 1]
        BY <1>2
      <3>2. \A j \in 1..Len(inbox) : inbox[j] \in happened
        BY DEF PacketInv, OnceOK
      <3> QED BY <3>1, <3>2
    <2> QED BY <1>1, <2>1, <2>2 DEF PacketInv, OnceOK, Outcome, Pair
  <1>14. OrderOK'
    <2>1. \A i, j \in 1..Len(inbox') : Pair(inbox'[i], inbox'[j]) => i < j
      BY <1>2 DEF PacketInv, OrderOK
    <2>2. \A s, o \in happened : Pair(s, o) /\ InBox(s)' => ~Settled(o)'
      BY <1>5, <1>8, <1>9, <1>10 DEF PacketInv, OrderOK
    <2>3. ASSUME NEW s \in happened, NEW o \in happened, Pair(s, o), call'[s].save, Settled(o)'
          PROVE  o.packet \in late'
      <3>1. s # o
        BY <2>3, KindsAre DEF Pair, Outcome
      <3>2. CASE s = e
        <4>1. Settled(o)
          BY <1>5, <1>10, <2>3, <3>1, <3>2
        <4> QED BY <1>7, <2>3, <3>2, <4>1 DEF PacketInv, OrderOK
      <3>3. CASE o = e
        <4>1. s \in Events /\ call[s].save /\ s.packet = e.packet /\ s.kind = Send
          BY <1>5, <1>6, <2>3, <3>1, <3>3 DEF Pair
        <4>2. Saving(e.packet)
          BY <4>1 DEF Saving
        <4> QED BY <1>4, <3>3, <4>2
      <3>4. CASE s # e /\ o # e
        <4>1. call[s].save /\ Settled(o)
          BY <1>5, <1>6, <1>10, <2>3, <3>4
        <4>2. o.packet \in late
          BY <2>3, <4>1 DEF PacketInv, OrderOK
        <4> QED BY <1>4, <4>2
      <3> QED BY <3>2, <3>3, <3>4
    <2>4. \A p \in Packets : \A k \in {Ack, Expiry} :
            packet[p] = StatusOf[k] => \E o \in happened : o.packet = p /\ o.kind = k
      BY DEF PacketInv, OrderOK
    <2> QED BY <1>1, <2>1, <2>2, <2>3, <2>4 DEF OrderOK, Pair, Outcome
  <1> QED BY <1>11, <1>12, <1>13, <1>14 DEF PacketInv

\* A call is only open when its event was taken up.
LEMMA OpenCall ==
    ASSUME PacketInv, NEW e \in Events, call[e] # NotTaken
    PROVE  e \in happened /\ ~InBox(e)
  BY DEF PacketInv, CallsOK

LEMMA SavePacketKeeps ==
    ASSUME PacketInv, NEW e \in Events, SavePacket(e)
    PROVE  PacketInv'
  <1>1. /\ call[e].save /\ call' = [call EXCEPT ![e].save = FALSE]
        /\ UNCHANGED <<happened, inbox, late>>
        /\ (packet' = packet \/ packet' = [packet EXCEPT ![e.packet] = StatusOf[e.kind]])
    BY DEF SavePacket
  <1>2. e \in happened /\ ~InBox(e) /\ happened \subseteq Events
    BY <1>1, OpenCall, KindsAre DEF PacketInv, PacketTypeOK
  <1>3. call \in [Events -> CallType] /\ packet \in [Packets -> {"none", "SENT", "RECEIVED", "ACKNOWLEDGED", "TIMEOUT"}]
    BY DEF PacketInv, PacketTypeOK
  <1>4. e.packet \in Packets /\ e.kind \in {Send, Recv, Ack, Expiry}
    BY KindsAre
  <1>5. call' \in [Events -> CallType] /\ ~call'[e].save /\ \A x \in Events : x # e => call'[x] = call[x]
    BY <1>1, <1>3 DEF CallType
  <1>6. /\ packet' \in [Packets -> {"none", "SENT", "RECEIVED", "ACKNOWLEDGED", "TIMEOUT"}]
        /\ \A p \in Packets : p # e.packet => packet'[p] = packet[p]
        /\ packet'[e.packet] \in {packet[e.packet], StatusOf[e.kind]}
    BY <1>1, <1>3, <1>4, KindsAre
  \* An outcome settled now was settled before.
  <1>7. \A o \in happened : Outcome(o) /\ Settled(o)' => Settled(o)
    <2> SUFFICES ASSUME NEW o \in happened, Outcome(o), Settled(o)' PROVE Settled(o)
      OBVIOUS
    <2>1. o \in Events /\ o.packet \in Packets
      BY <1>2, KindsAre
    <2>2. CASE call'[o].save
      BY <1>5, <2>1, <2>2 DEF Settled
    <2>3. CASE packet'[o.packet] \in FinalStatuses /\ packet'[o.packet] # packet[o.packet]
      <3>1. o.packet = e.packet /\ StatusOf[e.kind] \in FinalStatuses
        BY <1>6, <2>1, <2>3
      <3>2. Outcome(e)
        BY <1>4, <3>1, KindsAre DEF FinalStatuses, Outcome
      <3>3. o = e
        BY <1>2, <3>1, <3>2 DEF PacketInv, OnceOK
      <3> QED BY <1>1, <3>3 DEF Settled
    <2> QED BY <2>2, <2>3 DEF Settled
  <1>8. PacketTypeOK'
    BY <1>1, <1>5, <1>6 DEF PacketInv, PacketTypeOK
  <1>9. CallsOK'
    BY <1>1, <1>2, <1>5 DEF PacketInv, CallsOK, InBox
  <1>10. OnceOK'
    BY <1>1 DEF PacketInv, OnceOK, Outcome, Pair
  <1>11. OrderOK'
    <2>1. \A i, j \in 1..Len(inbox) : Pair(inbox[i], inbox[j]) => i < j
      BY DEF PacketInv, OrderOK
    <2>2. \A s, o \in happened : Pair(s, o) /\ InBox(s) => ~Settled(o)'
      BY <1>7 DEF PacketInv, OrderOK, Pair
    <2>3. \A s, o \in happened : Pair(s, o) /\ call'[s].save /\ Settled(o)' => o.packet \in late
      BY <1>2, <1>5, <1>7 DEF PacketInv, OrderOK, Pair
    <2>4. ASSUME NEW p \in Packets, NEW k \in {Ack, Expiry}, packet'[p] = StatusOf[k]
          PROVE  \E o \in happened : o.packet = p /\ o.kind = k
      <3>1. CASE packet'[p] = packet[p]
        <4>1. \A x \in {Ack, Expiry} : packet[p] = StatusOf[x] => \E o \in happened : o.packet = p /\ o.kind = x
          BY DEF PacketInv, OrderOK
        <4>2. packet[p] = StatusOf[k]
          BY <2>4, <3>1
        <4> QED BY <4>1, <4>2
      <3>2. CASE packet'[p] # packet[p]
        <4>1. p = e.packet /\ StatusOf[e.kind] = StatusOf[k]
          BY <1>6, <2>4, <3>2
        <4>2. e.kind = k
          BY <1>4, <2>4, <4>1, KindsAre
        <4> QED BY <1>2, <4>1, <4>2
      <3> QED BY <3>1, <3>2
    <2> QED BY <1>1, <2>1, <2>2, <2>3, <2>4 DEF OrderOK, Pair, Outcome, InBox
  <1> QED BY <1>8, <1>9, <1>10, <1>11 DEF PacketInv

\* An outcome that is stored is replaced by another status only if the send was
\* still being stored, or by that of the packet received.
LEMMA SavePacketLeaves ==
    ASSUME PacketInv, NEW e \in Events, SavePacket(e), NEW p \in Packets, packet[p] \in FinalStatuses
    PROVE  packet'[p] \in {packet[p], "RECEIVED"} \/ p \in late
  <1>1. /\ call[e].save /\ (packet' = packet \/ packet' = [packet EXCEPT ![e.packet] = StatusOf[e.kind]])
    BY DEF SavePacket
  <1>2. e \in happened
    BY <1>1, OpenCall, KindsAre
  <1>3. PICK o \in happened : o.packet = p /\ Outcome(o) /\ packet[p] = StatusOf[o.kind]
    BY FinalHappened
  <1>4. Settled(o)
    BY <1>3 DEF Settled
  <1>5. e.kind \in {Send, Recv, Ack, Expiry}
    BY KindsAre
  <1>6. CASE e.packet # p \/ packet' = packet
    BY <1>1, <1>6 DEF PacketInv, PacketTypeOK
  <1>7. CASE e.packet = p /\ packet' = [packet EXCEPT ![e.packet] = StatusOf[e.kind]]
    <2>1. packet'[p] = StatusOf[e.kind]
      BY <1>7 DEF PacketInv, PacketTypeOK
    <2>2. CASE e.kind = Send
      BY <1>1, <1>2, <1>3, <1>4, <1>7, <2>2 DEF PacketInv, OrderOK, Pair
    <2>3. CASE e.kind = Recv
      BY <2>1, <2>3, KindsAre
    <2>4. CASE Outcome(e)
      <3>1. e = o
        BY <1>2, <1>3, <1>7, <2>4 DEF PacketInv, OnceOK
      <3> QED BY <1>3, <2>1, <3>1
    <2> QED BY <1>5, <2>2, <2>3, <2>4 DEF Outcome
  <1> QED BY <1>1, <1>6, <1>7

-----------------------------------------------------------------------------
(* IBC: the relayer's numbers.                                               *)

Entry == [chan : Channels, count : Nat]
Index(a, cs) == {i \in DOMAIN a : a[i].chan \in cs}
CountIn(a, cs) == SumFunctionOnSet([i \in DOMAIN a |-> a[i].count], Index(a, cs))

LEMMA IndexFinite ==
    ASSUME NEW a \in Seq(Entry)
    PROVE  /\ DOMAIN a = 1..Len(a) /\ Len(a) \in Nat /\ IsFiniteSet(DOMAIN a)
           /\ \A c : IsFiniteSet(Index(a, c)) /\ Index(a, c) \in SUBSET (DOMAIN a)
           /\ \A i \in DOMAIN a : a[i] \in Entry
           /\ \A c : CountIn(a, c) \in Nat
  <1>1. DOMAIN a = 1..Len(a) /\ Len(a) \in Nat /\ \A i \in DOMAIN a : a[i] \in Entry
    OBVIOUS
  <1>2. IsFiniteSet(DOMAIN a)
    BY <1>1, FS_Interval
  <1>3. \A c : IsFiniteSet(Index(a, c)) /\ Index(a, c) \in SUBSET (DOMAIN a)
    BY <1>2, FS_Subset DEF Index
  <1>4. ASSUME NEW c PROVE CountIn(a, c) \in Nat
    <2>1. \A i \in Index(a, c) : [x \in DOMAIN a |-> a[x].count][i] \in Nat
      BY <1>1, <1>3 DEF Entry
    <2> QED BY <1>3, <2>1, SumNat DEF CountIn
  <1> QED BY <1>1, <1>2, <1>3, <1>4

\* Entries b hold one packet more for channel k than entries a.
OneMore(a, b, k) ==
    /\ b \in Seq(Entry)
    /\ \A c : /\ Index(b, c) # {} <=> Index(a, c) # {} \/ k \in c
              /\ CountIn(b, c) = CountIn(a, c) + (IF k \in c THEN 1 ELSE 0)

\* $inc of one entry.
LEMMA EntryIncreased ==
    ASSUME NEW a \in Seq(Entry), NEW i \in DOMAIN a, NEW b, b = [a EXCEPT ![i].count = @ + 1]
    PROVE  OneMore(a, b, a[i].chan)
  <1>1. /\ a[i] \in Entry /\ DOMAIN b = DOMAIN a /\ DOMAIN a = 1..Len(a)
        /\ \A x \in DOMAIN a : a[x] \in Entry
    BY IndexFinite
  <1>2. PICK n : n = [a[i] EXCEPT !.count = @ + 1]
    OBVIOUS
  <1>3. n \in Entry /\ n.count = a[i].count + 1 /\ n.chan = a[i].chan /\ a[i].count \in Nat
    BY <1>1, <1>2 DEF Entry
  <1>4. b = [a EXCEPT ![i] = n]
    BY <1>2
  <1>5. b \in Seq(Entry) /\ b[i] = n /\ \A x \in DOMAIN a \ {i} : b[x] = a[x]
    BY <1>3, <1>4
  <1>6. ASSUME NEW c
        PROVE  /\ Index(b, c) = Index(a, c)
               /\ CountIn(b, c) = CountIn(a, c) + (IF a[i].chan \in c THEN 1 ELSE 0)
               /\ a[i].chan \in c => Index(a, c) # {}
    <2> DEFINE f == [x \in DOMAIN a |-> a[x].count]
               g == [x \in DOMAIN b |-> b[x].count]
    <2>1. Index(b, c) = Index(a, c)
      BY <1>1, <1>3, <1>5 DEF Index
    <2>2. /\ \A x \in DOMAIN a : f[x] \in Nat /\ g[x] \in Nat
          /\ \A x \in DOMAIN a \ {i} : f[x] = g[x]
          /\ g[i] = f[i] + 1
      BY <1>1, <1>3, <1>5 DEF Entry
    <2>3. IsFiniteSet(Index(a, c)) /\ Index(a, c) \subseteq DOMAIN a
      BY IndexFinite
    <2>4. CountIn(b, c) = SumFunctionOnSet(g, Index(a, c)) /\ CountIn(a, c) = SumFunctionOnSet(f, Index(a, c))
      BY <2>1 DEF CountIn
    <2>5. CountIn(a, c) \in Nat
      BY IndexFinite
    <2> HIDE DEF f, g
    <2>6. CASE i \in Index(a, c)
      <3>0. /\ \A y \in Index(a, c) : f[y] \in Int /\ g[y] \in Int
            /\ \A y \in Index(a, c) \ {i} : f[y] = g[y]
        BY <2>2, <2>3
      <3>1. SumFunctionOnSet(g, Index(a, c)) = SumFunctionOnSet(f, Index(a, c)) + (g[i] - f[i])
        BY <2>3, <2>6, <3>0, SumChange
      <3>2. g[i] - f[i] = 1
        BY <2>2
      <3>3. a[i].chan \in c
        BY <2>6 DEF Index
      <3>4. Index(a, c) # {}
        BY <2>6
      <3>5. CountIn(b, c) = CountIn(a, c) + 1
        BY <2>4, <3>1, <3>2
      <3> QED BY <2>1, <3>3, <3>4, <3>5
    <2>7. CASE i \notin Index(a, c)
      <3>1. SumFunctionOnSet(f, Index(a, c)) = SumFunctionOnSet(g, Index(a, c))
        BY <2>2, <2>3, <2>7, SumSame
      <3>2. a[i].chan \notin c
        BY <2>7 DEF Index
      <3> QED BY <2>1, <2>4, <2>5, <3>1, <3>2
    <2> QED BY <2>6, <2>7
  <1> QED BY <1>5, <1>6 DEF OneMore

\* $push of an entry.
LEMMA EntryPushed ==
    ASSUME NEW a \in Seq(Entry), NEW k \in Channels, NEW b, b = Append(a, [chan |-> k, count |-> 1])
    PROVE  OneMore(a, b, k)
  <1> DEFINE m == Len(a) + 1
  <1>1. PICK e : e = [chan |-> k, count |-> 1]
    OBVIOUS
  <1>2. e \in Entry /\ e.chan = k /\ e.count = 1
    BY <1>1 DEF Entry
  <1>3. /\ b \in Seq(Entry) /\ Len(b) = m /\ b[m] = e /\ DOMAIN b = 1..m
        /\ \A x \in DOMAIN a : b[x] = a[x] /\ a[x] \in Entry
        /\ DOMAIN a = 1..Len(a) /\ Len(a) \in Nat
    BY <1>1, <1>2
  <1>4. m \notin DOMAIN a /\ DOMAIN b = DOMAIN a \cup {m}
    BY <1>3
  <1> HIDE DEF m
  <1>5. ASSUME NEW c
        PROVE  /\ Index(b, c) # {} <=> Index(a, c) # {} \/ k \in c
               /\ CountIn(b, c) = CountIn(a, c) + (IF k \in c THEN 1 ELSE 0)
    <2> DEFINE f == [x \in DOMAIN a |-> a[x].count]
               g == [x \in DOMAIN b |-> b[x].count]
    <2>1. Index(b, c) = IF k \in c THEN Index(a, c) \cup {m} ELSE Index(a, c)
      BY <1>2, <1>3, <1>4 DEF Index
    <2>2. /\ \A x \in DOMAIN a : f[x] \in Nat /\ g[x] = f[x]
          /\ g[m] = 1
      BY <1>2, <1>3, <1>4 DEF Entry
    <2>3. IsFiniteSet(Index(a, c)) /\ Index(a, c) \subseteq DOMAIN a
      BY IndexFinite
    <2>4. CountIn(b, c) = SumFunctionOnSet(g, Index(b, c)) /\ CountIn(a, c) = SumFunctionOnSet(f, Index(a, c))
      BY DEF CountIn
    <2>5. CountIn(a, c) \in Nat
      BY IndexFinite
    <2> HIDE DEF f, g
    <2>6. SumFunctionOnSet(f, Index(a, c)) = SumFunctionOnSet(g, Index(a, c))
      BY <2>2, <2>3, SumSame
    <2>7. CASE k \in c
      <3>1. m \notin Index(a, c)
        BY <1>4, <2>3
      <3>2. SumFunctionOnSet(g, Index(a, c) \cup {m}) = g[m] + SumFunctionOnSet(g, Index(a, c))
        BY <2>2, <2>3, <3>1, SumAdd
      <3>3. CountIn(b, c) = g[m] + CountIn(a, c)
        BY <2>1, <2>4, <2>6, <2>7, <3>2
      <3>4. g[m] = 1
        BY <2>2
      <3>5. Index(b, c) # {}
        BY <2>1, <2>7
      <3>6. CountIn(b, c) = CountIn(a, c) + 1
        BY <2>5, <3>3, <3>4
      <3> QED BY <2>7, <3>5, <3>6
    <2>8. CASE k \notin c
      BY <2>1, <2>4, <2>5, <2>6, <2>8
    <2> QED BY <2>1, <2>7, <2>8
  <1> QED BY <1>3, <1>5 DEF OneMore

\* Which events are where.
Having(k, S) == {e \in Events : k[e].relay \in S}
DoneFor(k, cs) == {e \in Having(k, {"done"}) : e.chan \in cs}

LEMMA HavingFinite ==
    ASSUME NEW k
    PROVE  /\ \A S : IsFiniteSet(Having(k, S)) /\ Cardinality(Having(k, S)) \in Nat
           /\ \A c : IsFiniteSet(DoneFor(k, c)) /\ Cardinality(DoneFor(k, c)) \in Nat
  <1>1. IsFiniteSet(Events)
    BY PacketAssumption DEF PacketAssumption
  <1>2. \A S : Having(k, S) \in SUBSET Events
    BY DEF Having
  <1>3. \A c : DoneFor(k, c) \in SUBSET Events
    BY DEF Having, DoneFor
  <1> QED BY <1>1, <1>2, <1>3, FS_Subset, FS_CardinalityType

\* From calls k to calls m, the update of e has gone on to v.
CallMoved(k, m, e, v) ==
    /\ m \in [Events -> CallType] /\ m[e].relay = v
    /\ \A x \in Events \ {e} : m[x] = k[x]
    /\ \A w : Cardinality(Having(m, {w})) = IF w = v THEN Cardinality(Having(k, {w})) + 1
                                            ELSE IF w = k[e].relay THEN Cardinality(Having(k, {w})) - 1
                                            ELSE Cardinality(Having(k, {w}))
    /\ \A c : DoneFor(m, c) = IF v = "done" /\ e.chan \in c THEN DoneFor(k, c) \cup {e} ELSE DoneFor(k, c)
    /\ \A c : Cardinality(DoneFor(m, c)) = IF v = "done" /\ e.chan \in c THEN Cardinality(DoneFor(k, c)) + 1
                                           ELSE Cardinality(DoneFor(k, c))

LEMMA RelayMoved ==
    ASSUME NEW k \in [Events -> CallType], NEW e \in Events, NEW v \in Steps, NEW m,
           m = [k EXCEPT ![e].relay = v], k[e].relay # v, k[e].relay # "done"
    PROVE  CallMoved(k, m, e, v)
  <1>1. PICK n : n = [k[e] EXCEPT !.relay = v]
    OBVIOUS
  <1>2. n \in CallType /\ n.relay = v /\ n.save = k[e].save /\ n.count = k[e].count
    BY <1>1 DEF CallType
  <1>3. m = [k EXCEPT ![e] = n]
    BY <1>1
  <1>4. m \in [Events -> CallType] /\ m[e] = n /\ \A x \in Events \ {e} : m[x] = k[x]
    BY <1>2, <1>3
  <1>5. ASSUME NEW w
        PROVE  Cardinality(Having(m, {w})) = IF w = v THEN Cardinality(Having(k, {w})) + 1
                                             ELSE IF w = k[e].relay THEN Cardinality(Having(k, {w})) - 1
                                             ELSE Cardinality(Having(k, {w}))
    <2>1. CASE w = v
      <3>1. Having(m, {w}) = Having(k, {w}) \cup {e} /\ e \notin Having(k, {w})
        BY <1>2, <1>4, <2>1 DEF Having
      <3> QED BY <2>1, <3>1, HavingFinite, FS_AddElement
    <2>2. CASE w # v /\ w = k[e].relay
      <3>1. Having(m, {w}) = Having(k, {w}) \ {e} /\ e \in Having(k, {w})
        BY <1>2, <1>4, <2>2 DEF Having
      <3>2. Cardinality(Having(k, {w}) \ {e}) = Cardinality(Having(k, {w})) - 1
        BY <3>1, HavingFinite, FS_RemoveElement
      <3> QED BY <2>2, <3>1, <3>2
    <2>3. CASE w # v /\ w # k[e].relay
      <3>1. Having(m, {w}) = Having(k, {w})
        BY <1>2, <1>4, <2>3 DEF Having
      <3> QED BY <2>3, <3>1
    <2> QED BY <2>1, <2>2, <2>3
  <1>6. ASSUME NEW c
        PROVE  /\ DoneFor(m, c) = IF v = "done" /\ e.chan \in c THEN DoneFor(k, c) \cup {e} ELSE DoneFor(k, c)
               /\ Cardinality(DoneFor(m, c)) = IF v = "done" /\ e.chan \in c THEN Cardinality(DoneFor(k, c)) + 1
                                            ELSE Cardinality(DoneFor(k, c))
    <2>1. CASE v = "done" /\ e.chan \in c
      <3>1. DoneFor(m, c) = DoneFor(k, c) \cup {e} /\ e \notin DoneFor(k, c)
        BY <1>2, <1>4, <2>1 DEF Having, DoneFor
      <3> QED BY <2>1, <3>1, HavingFinite, FS_AddElement
    <2>2. CASE ~(v = "done" /\ e.chan \in c)
      <3>1. DoneFor(m, c) = DoneFor(k, c)
        BY <1>2, <1>4, <2>2 DEF Having, DoneFor
      <3> QED BY <2>2, <3>1
    <2> QED BY <2>1, <2>2
  <1> QED BY <1>2, <1>4, <1>5, <1>6 DEF CallMoved

-----------------------------------------------------------------------------
RelayerType == [total : Nat, ok : Nat, failed : Nat, active : Seq(Entry)]

\* What calls k and a relayer's document w have of each other.
Relays(k, w) ==
    /\ w \in RelayerType
    /\ \A e \in Events : k[e].relay = "inc" => Index(w.active, {e.chan}) # {}
    /\ w.ok + w.failed + Cardinality(Having(k, {"outcome"})) <= w.total
    /\ w.total <= w.ok + w.failed + Cardinality(Having(k, {"outcome"})) + Cardinality(Having(k, {"broken"}))
    /\ \A c \in Channels : Index(w.active, {c}) # {} <=> DoneFor(k, {c}) # {}
    /\ \A c \in Channels : CountIn(w.active, SamePort(c)) = Cardinality(DoneFor(k, SamePort(c)))

RelayInv == call \in [Events -> CallType] /\ Relays(call, relayer)

\* What changes no update leaves the numbers as they are.
LEMMA SameRelays ==
    ASSUME NEW k, NEW m, NEW w, Relays(k, w),
           \A e \in Events : \/ m[e].relay = k[e].relay
                             \/ k[e].relay = "none" /\ m[e].relay = "total"
    PROVE  Relays(m, w)
  <1>1. Having(m, {"outcome"}) = Having(k, {"outcome"}) /\ Having(m, {"broken"}) = Having(k, {"broken"})
    BY DEF Having
  <1>2. \A c : DoneFor(m, c) = DoneFor(k, c)
    BY DEF Having, DoneFor
  <1>3. \A e \in Events : m[e].relay = "inc" => k[e].relay = "inc"
    OBVIOUS
  <1> QED BY <1>1, <1>2, <1>3 DEF Relays

LEMMA TakeUpRelays ==
    ASSUME PacketInv, RelayInv, TakeUp
    PROVE  RelayInv'
  <1> DEFINE e == Head(inbox)
  <1>1. e \in Events /\ InBox(e)
    <2>1. inbox \in Seq(Events) /\ inbox # <<>>
      BY DEF PacketInv, PacketTypeOK, TakeUp
    <2> QED BY <2>1 DEF InBox
  <1>2. call[e].relay = "none"
    BY <1>1, KindsAre DEF PacketInv, CallsOK
  <1>3. PICK c \in CallType : call' = [call EXCEPT ![e] = c] /\ c.relay \in {"none", "total"}
    <2>1. [save |-> TRUE, count |-> e.kind # Send,
           relay |-> IF e.signed /\ e.kind # Send THEN "total" ELSE "none"] \in CallType
      BY DEF CallType, Steps
    <2> QED BY <2>1 DEF TakeUp
  <1> HIDE DEF e
  <1>4. call' \in [Events -> CallType]
    BY <1>3 DEF RelayInv
  <1>5. \A x \in Events : \/ call'[x].relay = call[x].relay
                          \/ call[x].relay = "none" /\ call'[x].relay = "total"
    BY <1>1, <1>2, <1>3 DEF RelayInv
  <1>6. Relays(call', relayer)
    BY <1>5, SameRelays DEF RelayInv
  <1>7. relayer' = relayer
    BY DEF TakeUp
  <1> QED BY <1>4, <1>6, <1>7 DEF RelayInv

LEMMA SavesRelays ==
    ASSUME RelayInv, NEW e \in Events, SavePacket(e) \/ CountForChannel(e)
    PROVE  RelayInv'
  <1>1. relayer' = relayer /\ (call' = [call EXCEPT ![e].save = FALSE] \/ call' = [call EXCEPT ![e].count = FALSE])
    BY DEF SavePacket, CountForChannel
  <1>2. call' \in [Events -> CallType] /\ \A x \in Events : call'[x].relay = call[x].relay
    <2>1. call \in [Events -> CallType]
      BY DEF RelayInv
    <2>2. CASE call' = [call EXCEPT ![e].save = FALSE]
      BY <2>1, <2>2 DEF CallType
    <2>3. CASE call' = [call EXCEPT ![e].count = FALSE]
      BY <2>1, <2>3 DEF CallType
    <2> QED BY <1>1, <2>2, <2>3
  <1>3. Relays(call', relayer)
    BY <1>2, SameRelays DEF RelayInv
  <1> QED BY <1>1, <1>2, <1>3 DEF RelayInv

\* An update of one call e, from where it is to v.
LEMMA UpdateMoves ==
    ASSUME RelayInv, NEW e \in Events, NEW v \in Steps, Relayed(e, v), call[e].relay # v, call[e].relay # "done"
    PROVE  \E m : call' = m /\ CallMoved(call, m, e, v)
  <1>1. PICK m : m = [call EXCEPT ![e].relay = v]
    OBVIOUS
  <1>2. call' = m /\ call \in [Events -> CallType]
    BY <1>1 DEF Relayed, RelayInv
  <1>3. CallMoved(call, m, e, v)
    BY <1>1, <1>2, RelayMoved
  <1> QED BY <1>2, <1>3

LEMMA TotalsRelay ==
    ASSUME RelayInv, NEW e \in Events, AddTotal(e) \/ AddOutcome(e) \/ FindEntry(e) \/ RelayFails(e)
    PROVE  RelayInv'
  <1>0. PICK v \in {"outcome", "find", "push", "inc", "broken"} :
          Relayed(e, v) /\ call[e].relay # v /\ call[e].relay # "done"
    BY DEF AddTotal, AddOutcome, FindEntry, RelayFails
  <1>01. PICK m : call' = m /\ CallMoved(call, m, e, v)
    <2>1. v \in Steps
      BY DEF Steps
    <2> QED BY <1>0, <2>1, UpdateMoves
  <1>1. /\ m \in [Events -> CallType] /\ call' = m /\ m[e].relay = v
        /\ \A x \in Events \ {e} : m[x] = call[x]
        /\ \A w : Cardinality(Having(m, {w})) = IF w = v THEN Cardinality(Having(call, {w})) + 1
                         ELSE IF w = call[e].relay THEN Cardinality(Having(call, {w})) - 1
                         ELSE Cardinality(Having(call, {w}))
        /\ \A c : DoneFor(m, c) = DoneFor(call, c)
    BY <1>01 DEF CallMoved
  <1> DEFINE P == Cardinality(Having(call, {"outcome"}))
             B == Cardinality(Having(call, {"broken"}))
             NP == Cardinality(Having(m, {"outcome"}))
             NB == Cardinality(Having(m, {"broken"}))
  <1>2. P \in Nat /\ B \in Nat /\ NP \in Nat /\ NB \in Nat
    BY HavingFinite
  <1>3. /\ relayer \in RelayerType
        /\ \A x \in Events : call[x].relay = "inc" => Index(relayer.active, {x.chan}) # {}
        /\ relayer.ok + relayer.failed + P <= relayer.total
        /\ relayer.total <= relayer.ok + relayer.failed + P + B
        /\ \A c \in Channels : Index(relayer.active, {c}) # {} <=> DoneFor(call, {c}) # {}
        /\ \A c \in Channels : CountIn(relayer.active, SamePort(c)) = Cardinality(DoneFor(call, SamePort(c)))
    BY DEF RelayInv, Relays
  <1>4. /\ NP = IF v = "outcome" THEN P + 1 ELSE IF call[e].relay = "outcome" THEN P - 1 ELSE P
        /\ NB = IF v = "broken" THEN B + 1 ELSE IF call[e].relay = "broken" THEN B - 1 ELSE B
    BY <1>1
  <1> HIDE DEF P, B, NP, NB
  <1>5. relayer \in RelayerType /\ relayer.total \in Nat /\ relayer.ok \in Nat /\ relayer.failed \in Nat
    BY <1>3 DEF RelayerType
  <1>6. /\ call'[e].relay = v /\ call \in [Events -> CallType]
        /\ \A x : Relayed(e, x) => x = v
    <2>1. \A x : Relayed(e, x) => call'[e].relay = x
      BY DEF Relayed, RelayInv, CallType
    <2> QED BY <1>1, <2>1 DEF RelayInv
  <1>7. /\ relayer' \in RelayerType /\ relayer'.active = relayer.active
        /\ relayer'.ok + relayer'.failed + NP <= relayer'.total
        /\ relayer'.total <= relayer'.ok + relayer'.failed + NP + NB
    <2>1. CASE AddTotal(e)
      <3>1. v = "outcome" /\ call[e].relay = "total" /\ relayer' = [relayer EXCEPT !.total = @ + 1]
        BY <1>6, <2>1 DEF AddTotal
      <3>2. /\ relayer' \in RelayerType /\ relayer'.active = relayer.active
            /\ relayer'.total = relayer.total + 1 /\ relayer'.ok = relayer.ok /\ relayer'.failed = relayer.failed
        BY <1>3, <1>5, <3>1 DEF RelayerType
      <3>3. NP = P + 1 /\ NB = B
        BY <1>4, <3>1
      <3> QED BY <1>2, <1>3, <1>5, <3>2, <3>3
    <2>2. CASE AddOutcome(e)
      <3>1. v = "find" /\ call[e].relay = "outcome"
            /\ relayer' = IF e.ok THEN [relayer EXCEPT !.ok = @ + 1] ELSE [relayer EXCEPT !.failed = @ + 1]
        BY <1>6, <2>2 DEF AddOutcome
      <3>2. /\ relayer' \in RelayerType /\ relayer'.active = relayer.active
            /\ relayer'.total = relayer.total
            /\ relayer'.ok + relayer'.failed = relayer.ok + relayer.failed + 1
            /\ relayer'.ok \in Nat /\ relayer'.failed \in Nat
        <4>1. CASE e.ok
          BY <1>5, <3>1, <4>1 DEF RelayerType
        <4>2. CASE ~e.ok
          <5>1. relayer' = [relayer EXCEPT !.failed = @ + 1]
            BY <3>1, <4>2
          <5>2. /\ relayer' \in RelayerType /\ relayer'.active = relayer.active
                /\ relayer'.total = relayer.total /\ relayer'.ok = relayer.ok
                /\ relayer'.failed = relayer.failed + 1
            BY <1>5, <5>1 DEF RelayerType
          <5> QED BY <1>5, <5>2
        <4> QED BY <4>1, <4>2
      <3>3. NP = P - 1 /\ NB = B
        BY <1>4, <3>1
      <3> QED BY <1>2, <1>3, <1>5, <3>2, <3>3
    <2>3. CASE FindEntry(e)
      <3>1. v \in {"push", "inc"} /\ call[e].relay = "find" /\ relayer' = relayer
        BY <1>6, <2>3 DEF FindEntry
      <3>2. NP = P /\ NB = B
        BY <1>4, <3>1
      <3> QED BY <1>3, <3>1, <3>2
    <2>4. CASE RelayFails(e)
      <3>1. v = "broken" /\ relayer' = relayer /\ call[e].relay # "broken"
        BY <1>6, <2>4 DEF RelayFails
      <3>2. NP \in {P, P - 1} /\ NB = B + 1
        BY <1>4, <3>1
      <3> QED BY <1>2, <1>3, <1>5, <3>1, <3>2
    <2> QED BY <2>1, <2>2, <2>3, <2>4
  <1>8. ASSUME NEW x \in Events, m[x].relay = "inc" PROVE Index(relayer.active, {x.chan}) # {}
    <2>1. CASE x # e
      BY <1>1, <1>3, <1>8, <2>1
    <2>2. CASE x = e
      <3>1. v = "inc"
        BY <1>1, <1>8, <2>2
      <3>2. FindEntry(e)
        BY <1>6, <3>1 DEF AddTotal, AddOutcome, RelayFails
      <3>3. EntriesOf({e.chan}) # {}
        BY <1>6, <3>1, <3>2 DEF FindEntry
      <3> QED BY <2>2, <3>3 DEF EntriesOf, Index
    <2> QED BY <2>1, <2>2
  <1>9. Relays(m, relayer')
    BY <1>1, <1>3, <1>7, <1>8 DEF Relays, NP, NB
  <1> QED BY <1>1, <1>9 DEF RelayInv

LEMMA EntriesRelay ==
    ASSUME RelayInv, NEW e \in Events, IncEntry(e) \/ PushEntry(e)
    PROVE  RelayInv'
  <1>1. Relayed(e, "done") /\ call[e].relay \in {"inc", "push"}
    BY DEF IncEntry, PushEntry
  <1>20. PICK m : call' = m /\ CallMoved(call, m, e, "done")
    <2>1. "done" \in Steps
      BY DEF Steps
    <2> QED BY <1>1, <2>1, UpdateMoves
  <1>2. /\ m \in [Events -> CallType] /\ call' = m /\ m[e].relay = "done"
        /\ \A x \in Events \ {e} : m[x] = call[x]
        /\ \A w : Cardinality(Having(m, {w})) = IF w = "done" THEN Cardinality(Having(call, {w})) + 1
                         ELSE IF w = call[e].relay THEN Cardinality(Having(call, {w})) - 1
                         ELSE Cardinality(Having(call, {w}))
        /\ \A c : DoneFor(m, c) = IF e.chan \in c THEN DoneFor(call, c) \cup {e} ELSE DoneFor(call, c)
        /\ \A c : Cardinality(DoneFor(m, c)) = IF e.chan \in c
                         THEN Cardinality(DoneFor(call, c)) + 1 ELSE Cardinality(DoneFor(call, c))
    BY <1>20 DEF CallMoved
  <1>3. /\ relayer \in RelayerType
        /\ \A x \in Events : call[x].relay = "inc" => Index(relayer.active, {x.chan}) # {}
        /\ relayer.ok + relayer.failed + Cardinality(Having(call, {"outcome"})) <= relayer.total
        /\ relayer.total <= relayer.ok + relayer.failed + Cardinality(Having(call, {"outcome"}))
                              + Cardinality(Having(call, {"broken"}))
        /\ \A c \in Channels : Index(relayer.active, {c}) # {} <=> DoneFor(call, {c}) # {}
        /\ \A c \in Channels : CountIn(relayer.active, SamePort(c)) = Cardinality(DoneFor(call, SamePort(c)))
    BY DEF RelayInv, Relays
  <1>4. /\ Cardinality(Having(m, {"outcome"})) = Cardinality(Having(call, {"outcome"}))
        /\ Cardinality(Having(m, {"broken"})) = Cardinality(Having(call, {"broken"}))
    BY <1>1, <1>2
  <1>5. relayer.active \in Seq(Entry) /\ e.chan \in Channels
    BY <1>3, KindsAre DEF RelayerType
  <1> DEFINE Raised(b, k) ==
           /\ relayer' = [relayer EXCEPT !.active = b] /\ OneMore(relayer.active, b, k)
           /\ k \in SamePort(e.chan)
           /\ \A c \in Channels : Index(b, {c}) # {} <=> Index(relayer.active, {c}) # {} \/ c = e.chan
  <1>60. \E b, k : Raised(b, k)
    <2>1. CASE IncEntry(e)
      <3>1. EntriesOf({e.chan}) = Index(relayer.active, {e.chan}) /\ EntriesOf({e.chan}) # {}
        <4>1. EntriesOf({e.chan}) = Index(relayer.active, {e.chan})
          BY DEF EntriesOf, Index
        <4>2. call[e].relay = "inc"
          BY <2>1 DEF IncEntry
        <4> QED BY <1>3, <4>1, <4>2
      <3>2. PICK asked \in {{e.chan}, SamePort(e.chan)} :
              relayer' = [relayer EXCEPT !.active[Min(EntriesOf(asked))].count = @ + 1]
        BY <2>1 DEF IncEntry
      <3> DEFINE i == Min(EntriesOf(asked))
      <3>3. EntriesOf(asked) = Index(relayer.active, asked) /\ EntriesOf(asked) # {} /\ asked \subseteq SamePort(e.chan)
        <4>1. e.chan \in SamePort(e.chan)
          BY <1>5 DEF SamePort
        <4> QED BY <3>1, <3>2, <4>1 DEF EntriesOf, Index
      <3>4. EntriesOf(asked) \in SUBSET Nat /\ EntriesOf(asked) \subseteq DOMAIN relayer.active
        BY <1>5, <3>3, IndexFinite
      <3>5. i \in EntriesOf(asked)
        BY <3>3, <3>4, LeastNumber DEF Min
      <3>6. relayer' = [relayer EXCEPT !.active[i].count = @ + 1]
        BY <3>2
      <3> HIDE DEF i
      <3>7. PICK b : b = [relayer.active EXCEPT ![i].count = @ + 1]
        OBVIOUS
      <3>8. relayer' = [relayer EXCEPT !.active = b]
        BY <1>3, <3>6, <3>7 DEF RelayerType
      <3>9. i \in DOMAIN relayer.active /\ relayer.active[i].chan \in SamePort(e.chan)
        BY <3>3, <3>4, <3>5 DEF Index
      <3>10. OneMore(relayer.active, b, relayer.active[i].chan)
        BY <1>5, <3>7, <3>9, EntryIncreased
      <3>11. \A c \in Channels : Index(b, {c}) # {} <=> Index(relayer.active, {c}) # {} \/ c = e.chan
        <4>1. \A c : relayer.active[i].chan = c => Index(relayer.active, {c}) # {}
          BY <3>9 DEF Index
        <4>2. \A c : Index(b, {c}) # {} <=> Index(relayer.active, {c}) # {} \/ relayer.active[i].chan \in {c}
          BY <3>10 DEF OneMore
        <4> QED BY <3>1, <4>1, <4>2
      <3>12. Raised(b, relayer.active[i].chan)
        BY <3>8, <3>9, <3>10, <3>11
      <3> HIDE DEF Raised
      <3> QED BY <3>12
    <2>2. CASE PushEntry(e)
      <3>1. PICK b : b = Append(relayer.active, [chan |-> e.chan, count |-> 1])
        OBVIOUS
      <3>2. relayer' = [relayer EXCEPT !.active = b]
        BY <2>2, <3>1 DEF PushEntry
      <3>3. OneMore(relayer.active, b, e.chan)
        BY <1>5, <3>1, EntryPushed
      <3>4. \A c \in Channels : Index(b, {c}) # {} <=> Index(relayer.active, {c}) # {} \/ c = e.chan
        <4>1. \A c : Index(b, {c}) # {} <=> Index(relayer.active, {c}) # {} \/ e.chan \in {c}
          BY <3>3 DEF OneMore
        <4> QED BY <4>1
      <3>5. e.chan \in SamePort(e.chan)
        BY <1>5 DEF SamePort
      <3>6. Raised(b, e.chan)
        BY <3>2, <3>3, <3>4, <3>5
      <3> HIDE DEF Raised
      <3> QED BY <3>6
    <2> QED BY <2>1, <2>2
  <1>61. PICK b, k : Raised(b, k)
    <2> HIDE DEF Raised
    <2> QED BY <1>60
  <1>6. /\ b \in Seq(Entry) /\ relayer' = [relayer EXCEPT !.active = b]
        /\ \A c \in Channels : Index(b, {c}) # {} <=> Index(relayer.active, {c}) # {} \/ c = e.chan
        /\ \A c \in Channels : CountIn(b, SamePort(c)) = CountIn(relayer.active, SamePort(c))
                                                       + (IF e.chan \in SamePort(c) THEN 1 ELSE 0)
    <2>1. \A c \in Channels : k \in SamePort(c) <=> e.chan \in SamePort(c)
      BY <1>5, <1>61 DEF SamePort
    <2>2. \A c : CountIn(b, c) = CountIn(relayer.active, c) + (IF k \in c THEN 1 ELSE 0)
      BY <1>61 DEF OneMore
    <2> QED BY <1>61, <2>1, <2>2 DEF OneMore
  <1>7. /\ relayer' \in RelayerType /\ relayer'.active = b /\ relayer'.total = relayer.total
        /\ relayer'.ok = relayer.ok /\ relayer'.failed = relayer.failed
    BY <1>3, <1>6 DEF RelayerType
  <1>8. \A x \in Events : m[x].relay = "inc" => Index(b, {x.chan}) # {}
    <2> SUFFICES ASSUME NEW x \in Events, m[x].relay = "inc" PROVE Index(b, {x.chan}) # {}
      OBVIOUS
    <2>1. x # e /\ call[x].relay = "inc"
      BY <1>2
    <2>2. x.chan \in Channels
      BY KindsAre
    <2> QED BY <1>3, <1>6, <2>1, <2>2
  <1>81. \A c \in Channels : Index(b, {c}) # {} <=> DoneFor(m, {c}) # {}
    <2>1. \A c : DoneFor(m, {c}) = IF e.chan \in {c} THEN DoneFor(call, {c}) \cup {e} ELSE DoneFor(call, {c})
      BY <1>2
    <2> QED BY <1>3, <1>6, <2>1
  <1>9. \A c \in Channels : CountIn(b, SamePort(c)) = Cardinality(DoneFor(m, SamePort(c)))
    <2> SUFFICES ASSUME NEW c \in Channels PROVE CountIn(b, SamePort(c)) = Cardinality(DoneFor(m, SamePort(c)))
      OBVIOUS
    <2>1. /\ Cardinality(DoneFor(call, SamePort(c))) \in Nat
          /\ CountIn(relayer.active, SamePort(c)) = Cardinality(DoneFor(call, SamePort(c)))
      BY <1>3, HavingFinite
    <2> QED BY <1>2, <1>6, <2>1
  <1>10. Relays(m, relayer')
    BY <1>3, <1>4, <1>7, <1>8, <1>81, <1>9 DEF Relays
  <1> QED BY <1>2, <1>10 DEF RelayInv

-----------------------------------------------------------------------------
IbcInv == StateInv /\ PacketInv /\ RelayInv

\* The calls of an event other than the save of its packet.
LEMMA CallGoesOn ==
    ASSUME PacketInv, NEW e \in Events, call[e] # NotTaken, call' \in [Events -> CallType],
           call'[e].save = call[e].save, \A x \in Events \ {e} : call'[x] = call[x],
           UNCHANGED <<happened, inbox, packet, late>>
    PROVE  PacketInv'
  <1>1. e \in happened /\ ~InBox(e) /\ happened \subseteq Events
    BY OpenCall DEF PacketInv, PacketTypeOK
  <1>2. /\ \A x \in Events : call'[x].save = call[x].save
        /\ \A x : InBox(x)' <=> InBox(x)
        /\ \A o \in Events : Settled(o)' <=> Settled(o)
    BY DEF InBox, Settled
  <1>3. PacketTypeOK'
    BY DEF PacketInv, PacketTypeOK
  <1>4. CallsOK'
    BY <1>1, <1>2 DEF PacketInv, CallsOK
  <1>5. OnceOK'
    BY DEF PacketInv, OnceOK, Outcome, Pair
  <1>6. OrderOK'
    <2>1. \A i, j \in 1..Len(inbox) : Pair(inbox[i], inbox[j]) => i < j
      BY DEF PacketInv, OrderOK
    <2>2. \A s, o \in happened : Pair(s, o) /\ InBox(s) => ~Settled(o)'
      BY <1>1, <1>2 DEF PacketInv, OrderOK
    <2>3. \A s, o \in happened : Pair(s, o) /\ call'[s].save /\ Settled(o)' => o.packet \in late
      BY <1>1, <1>2 DEF PacketInv, OrderOK
    <2>4. \A p \in Packets : \A k \in {Ack, Expiry} :
            packet[p] = StatusOf[k] => \E o \in happened : o.packet = p /\ o.kind = k
      BY DEF PacketInv, OrderOK
    <2> QED BY <1>2, <2>1, <2>2, <2>3, <2>4 DEF OrderOK, Pair, Outcome
  <1> QED BY <1>3, <1>4, <1>5, <1>6 DEF PacketInv

\* What leaves the packets' variables as they are.
LEMMA PacketsKept ==
    ASSUME PacketInv, RelayInv, UNCHANGED packetVars
    PROVE  PacketInv' /\ RelayInv'
  <1>1. UNCHANGED <<happened, inbox, call, packet, relayer, late>>
    BY DEF packetVars
  <1>2. PacketTypeOK' /\ CallsOK'
    BY <1>1 DEF PacketInv, PacketTypeOK, CallsOK, InBox
  <1>3. OnceOK'
    BY <1>1 DEF PacketInv, OnceOK, Outcome, Pair
  <1>4. OrderOK'
    BY <1>1 DEF PacketInv, OrderOK, Pair, Outcome, InBox, Settled
  <1>5. RelayInv'
    BY <1>1 DEF RelayInv, Relays
  <1> QED BY <1>2, <1>3, <1>4, <1>5 DEF PacketInv

LEMMA StateStepKeeps ==
    ASSUME IbcInv, StateStep
    PROVE  IbcInv'
  <1>1. scene' = scene /\ UNCHANGED packetVars
    BY DEF StateStep
  <1>2. StateInv'
    BY <1>1, ChainMovesKeeps, HandleEventKeeps, RoundStepKeeps DEF StateStep, IbcInv
  <1>3. PacketInv' /\ RelayInv'
    BY <1>1, PacketsKept DEF IbcInv
  <1> QED BY <1>2, <1>3 DEF IbcInv

LEMMA InboxKeeps ==
    ASSUME IbcInv, TakeUp \/ \E e \in Events : Happens(e)
    PROVE  IbcInv'
  <1>1. UNCHANGED <<scene, stateVars>> /\ faults' = faults
    BY DEF TakeUp, Happens
  <1>2. StateInv'
    BY <1>1, FaultsKeep DEF IbcInv
  <1>3. PacketInv'
    BY TakeUpKeeps, HappensKeeps DEF IbcInv
  <1>4. RelayInv'
    <2>1. CASE TakeUp
      BY <2>1, TakeUpRelays DEF IbcInv
    <2>2. CASE \E e \in Events : Happens(e)
      BY <2>2 DEF Happens, IbcInv, RelayInv, Relays
    <2> QED BY <2>1, <2>2
  <1> QED BY <1>2, <1>3, <1>4 DEF IbcInv

LEMMA PacketStepKeeps ==
    ASSUME IbcInv, NEW e \in Events, PacketStep(e)
    PROVE  IbcInv'
  <1>1. call \in [Events -> CallType]
    BY DEF IbcInv, RelayInv
  <1>2. CASE SavePacket(e)
    <2>1. UNCHANGED <<scene, stateVars>> /\ (faults' = faults \/ Costs)
      BY <1>2 DEF SavePacket
    <2> QED BY <1>2, <2>1, FaultsKeep, SavePacketKeeps, SavesRelays DEF IbcInv
  <1>3. CASE CountForChannel(e)
    <2>1. StateInv'
      <3>1. CASE CountPacket(e.chan) /\ UNCHANGED faults
        BY <1>3, <3>1, KindsAre, CountPacketKeeps DEF CountForChannel, IbcInv
      <3>2. CASE Costs /\ UNCHANGED <<doc, counted>>
        <4>1. UNCHANGED <<scene, stateVars>>
          BY <1>3, <3>2 DEF CountForChannel, stateVars
        <4> QED BY <3>2, <4>1, FaultsKeep DEF IbcInv
      <3> QED BY <1>3, <3>1, <3>2 DEF CountForChannel
    <2>2. call[e].count /\ call' = [call EXCEPT ![e].count = FALSE] /\ UNCHANGED <<happened, inbox, packet, late>>
      BY <1>3 DEF CountForChannel
    <2>3. /\ call[e] # NotTaken /\ call' \in [Events -> CallType] /\ call'[e].save = call[e].save
          /\ \A x \in Events \ {e} : call'[x] = call[x]
      BY <1>1, <2>2, KindsAre DEF CallType
    <2> QED BY <1>3, <2>1, <2>2, <2>3, CallGoesOn, SavesRelays DEF IbcInv
  <1>4. CASE AddTotal(e) \/ AddOutcome(e) \/ FindEntry(e) \/ RelayFails(e) \/ IncEntry(e) \/ PushEntry(e)
    <2>1. PICK v \in {"outcome", "find", "push", "inc", "broken", "done"} : Relayed(e, v)
      BY <1>4 DEF AddTotal, AddOutcome, FindEntry, RelayFails, IncEntry, PushEntry
    <2>2. (faults' = faults \/ Costs) /\ call[e].relay # "none"
      BY <1>4 DEF AddTotal, AddOutcome, FindEntry, RelayFails, IncEntry, PushEntry
    <2>3. /\ UNCHANGED <<scene, stateVars>> /\ UNCHANGED <<happened, inbox, packet, late>>
          /\ call' = [call EXCEPT ![e].relay = v]
      BY <2>1 DEF Relayed
    <2>4. StateInv'
      BY <2>2, <2>3, FaultsKeep DEF IbcInv
    <2>5. v \in Steps
      BY DEF Steps
    <2>6. /\ call[e] # NotTaken /\ call' \in [Events -> CallType] /\ call'[e].save = call[e].save
          /\ \A x \in Events \ {e} : call'[x] = call[x]
      BY <1>1, <2>2, <2>3, <2>5, KindsAre DEF CallType
    <2>7. PacketInv'
      BY <2>3, <2>6, CallGoesOn DEF IbcInv
    <2>8. RelayInv'
      BY <1>4, TotalsRelay, EntriesRelay DEF IbcInv
    <2> QED BY <2>4, <2>7, <2>8 DEF IbcInv
  <1> QED BY <1>2, <1>3, <1>4 DEF PacketStep

LEMMA IbcStarts ==
    ASSUME Init
    PROVE  IbcInv
  <1>1. StateInv
    BY StateStarts DEF Init
  <1>2. /\ happened = {} /\ inbox = <<>> /\ late = {} /\ call = [e \in Events |-> NotTaken]
        /\ packet = [p \in Packets |-> "none"]
        /\ relayer = [total |-> 0, ok |-> 0, failed |-> 0, active |-> <<>>]
    BY DEF Init
  <1>3. Len(inbox) = 0 /\ inbox \in Seq(Events) /\ 1..Len(inbox) = {}
    BY <1>2
  <1>4. call \in [Events -> CallType] /\ \A e \in Events : call[e].relay = "none"
    BY <1>2, KindsAre
  <1>5. PacketInv
    <2>1. PacketTypeOK /\ CallsOK /\ OnceOK
      BY <1>2, <1>3, <1>4 DEF PacketTypeOK, CallsOK, OnceOK
    <2>2. OrderOK
      BY <1>2, <1>3, KindsAre DEF OrderOK
    <2> QED BY <2>1, <2>2 DEF PacketInv
  <1>6. RelayInv
    <2>1. \A S \in {{"outcome"}, {"broken"}} : Having(call, S) = {}
      BY <1>4 DEF Having
    <2>2. \A c : DoneFor(call, c) = {}
      BY <1>4 DEF Having, DoneFor
    <2>3. Cardinality({}) = 0
      BY FS_EmptySet
    <2>4. relayer \in RelayerType /\ relayer.active = <<>> /\ relayer.ok = 0 /\ relayer.failed = 0 /\ relayer.total = 0
      BY <1>2 DEF RelayerType
    <2>5. \A c : Index(relayer.active, c) = {}
      BY <2>4 DEF Index
    <2>6. \A c : CountIn(relayer.active, c) = 0
      BY <2>5, SumEmpty DEF CountIn
    <2>7. /\ Cardinality(Having(call, {"outcome"})) = 0 /\ Cardinality(Having(call, {"broken"})) = 0
          /\ \A c \in Channels : Index(relayer.active, {c}) # {} <=> DoneFor(call, {c}) # {}
          /\ \A c \in Channels : CountIn(relayer.active, SamePort(c)) = Cardinality(DoneFor(call, SamePort(c)))
      BY <2>1, <2>2, <2>3, <2>5, <2>6
    <2>8. \A e \in Events : call[e].relay = "inc" => Index(relayer.active, {e.chan}) # {}
      BY <1>4
    <2>81. /\ relayer.ok + relayer.failed + Cardinality(Having(call, {"outcome"})) <= relayer.total
           /\ relayer.total <= relayer.ok + relayer.failed + Cardinality(Having(call, {"outcome"}))
                                 + Cardinality(Having(call, {"broken"}))
      BY <2>4, <2>7
    <2>9. Relays(call, relayer)
      BY <2>4, <2>7, <2>8, <2>81 DEF Relays
    <2> QED BY <1>4, <2>9 DEF RelayInv
  <1> QED BY <1>1, <1>5, <1>6 DEF IbcInv

LEMMA IbcKeeps ==
    ASSUME IbcInv, [Next]_vars
    PROVE  IbcInv'
  <1>1. CASE UNCHANGED vars
    <2>1. UNCHANGED <<scene, stateVars>> /\ faults' = faults /\ UNCHANGED packetVars
      BY <1>1 DEF vars
    <2> QED BY <2>1, FaultsKeep, PacketsKept DEF IbcInv
  <1>2. CASE Next
    BY <1>2, StateStepKeeps, InboxKeeps, PacketStepKeeps DEF Next
  <1> QED BY <1>1, <1>2

LEMMA IbcAgrees ==
    ASSUME IbcInv
    PROVE  DocumentsAgree
  <1>1. ChannelsHold /\ StateTypeOK
    BY ChannelsAgree DEF IbcInv, StateInv
  <1>2. /\ \A S : With(S) = Having(call, S)
        /\ \A cs : EntriesOf(cs) = Index(relayer.active, cs)
    BY DEF With, Having, EntriesOf, Index
  <1>3. TypeOK
    <2>1. PacketTypeOK /\ Relays(call, relayer)
      BY DEF IbcInv, PacketInv, RelayInv
    <2>2. \A e \in Events : call[e].relay = "inc" => EntriesOf({e.chan}) # {}
      BY <1>2, <2>1 DEF Relays
    <2> QED BY <1>1, <2>1, <2>2 DEF TypeOK, PacketTypeOK, CallType, Relays, RelayerType, Entry
  <1>4. SumsWithin
    <2>1. Relays(call, relayer)
      BY DEF IbcInv, RelayInv
    <2>2. /\ \A c \in Channels : {e \in With({"done"}) : e.chan \in SamePort(c)} = DoneFor(call, SamePort(c))
          /\ \A c \in Channels : DoneFor(call, {c}) # {} <=> \E e \in With({"done"}) : e.chan = c
      BY <1>2 DEF DoneFor
    <2> QED BY <1>2, <2>1, <2>2 DEF SumsWithin, Broken, Relays, CountIn
  <1> QED BY <1>1, <1>3, <1>4 DEF DocumentsAgree

\* The documents of channels and of the relayer agree with what was counted,
\* however rounds of reconciliation, events and the calls of packets interleave
\* (IBCReconciliationService.ts, IBCEventHandler.ts).
THEOREM DocumentsAgreeHolds == Spec => []DocumentsAgree
  <1>1. Init => IbcInv
    BY IbcStarts
  <1>2. IbcInv /\ [Next]_vars => IbcInv'
    BY IbcKeeps
  <1>3. IbcInv => DocumentsAgree
    BY IbcAgrees
  <1> QED BY <1>1, <1>2, <1>3, PTL DEF Spec

\* An acknowledgement or an expiry that is stored stays, but for a send that was
\* being stored when the event came, and for the packet received that shares the
\* document (IBCPacketRepository.ts, IBCEventHandler.ts).
THEOREM OutcomeStaysHolds == Spec => OutcomeStays
  <1> DEFINE Stays == \A p \in Packets : packet[p] \in {"ACKNOWLEDGED", "TIMEOUT"}
                         => packet'[p] \in {packet[p], "RECEIVED"} \/ p \in late
  <1>1. Init => IbcInv
    BY IbcStarts
  <1>2. IbcInv /\ [Next]_vars => IbcInv'
    BY IbcKeeps
  <1>3. IbcInv /\ [Next]_vars => [Stays]_vars
    <2> SUFFICES ASSUME IbcInv, Next PROVE Stays
      OBVIOUS
    <2>1. CASE packet' = packet
      BY <2>1
    <2>2. CASE \E e \in Events : SavePacket(e)
      BY <2>2, SavePacketLeaves DEF IbcInv, FinalStatuses
    <2>3. packet' = packet \/ \E e \in Events : SavePacket(e)
      BY DEF Next, StateStep, packetVars, TakeUp, Happens, PacketStep, CountForChannel, AddTotal, AddOutcome,
             FindEntry, IncEntry, PushEntry, RelayFails, Relayed
    <2> QED BY <2>1, <2>2, <2>3
  <1> QED BY <1>1, <1>2, <1>3, PTL DEF Spec, OutcomeStays
=============================================================================
