------------------------------ MODULE WasmIndex ------------------------------
(***************************************************************************)
(* The CosmWasm indexer and its scheduler: codes and contracts of the      *)
(* chain copied to the database by full passes (every code, the newest     *)
(* first) and incremental passes (codes above the greatest stored one,     *)
(* then the contracts of every stored code).  Two timers start passes with *)
(* no regard to those that still run, so passes overlap.                   *)
(***************************************************************************)
EXTENDS Integers, FiniteSets, FiniteSetsExt, Functions

CONSTANTS
    MaxCode,        \* codes the chain gets at most
    Contracts,
    Passes,         \* passes that may run at once
    PageLimit,      \* items of a page of the chain's API
    WasmScenes      \* what may happen in a behaviour: [codes, passes, moves, faults]

Codes == 1..MaxCode
None == 0

ASSUME WasmAssumption ==
    /\ MaxCode \in Nat /\ PageLimit \in Nat \ {0}
    /\ IsFiniteSet(Contracts) /\ IsFiniteSet(Passes)
    /\ \A s \in WasmScenes : /\ s.codes \in 0..MaxCode /\ s.passes \subseteq Passes
                             /\ s.movers \subseteq Contracts
                             /\ s.migrations \in Nat /\ s.faults \in Nat

VARIABLES
    wasmScene, failures, migrations,    \* the scene, what is left of its bounds
    latest,         \* greatest code id of the chain
    home,           \* home[c]: the code contract c runs on the chain, or None
    migrated,       \* contracts whose history on the chain has a migration
    code,           \* code[k].stored, code[k].count: the document of code k
    contract,       \* contract[c].code (or None), contract[c].migration
    state,          \* the WasmState document
    started,        \* the scheduler: "no", "first" pass, "timers"
    pass,           \* pass[p]: where pass p is
    worker,         \* worker[p][k]: what p does for code k
    lost,           \* history: codes a pass gave up, or could not list
    cut             \* history: codes left between the two writes of their count

chainVars == <<latest, home, migrated>>
dbVars == <<code, contract, state>>
boundVars == <<wasmScene, failures, migrations>>
historyVars == <<lost, cut>>
indexVars == <<boundVars, chainVars, dbVars, started, pass, worker, historyVars>>

AtRest == [at |-> "rest", full |-> FALSE, below |-> 0, next |-> 0, upto |-> 0,
         left |-> {}, codes |-> 0, contracts |-> 0]
Idle == [at |-> "idle", hand |-> [c \in Contracts |-> "no"], passed |-> {},
         more |-> FALSE, news |-> 0, read |-> 0]

IndexInit ==
    /\ wasmScene \in WasmScenes /\ failures = wasmScene.faults /\ migrations = wasmScene.migrations
    /\ latest = 0 /\ migrated = {}
    /\ home = [c \in Contracts |-> None]
    /\ code = [k \in Codes |-> [stored |-> FALSE, count |-> 0]]
    /\ contract = [c \in Contracts |-> [code |-> None, migration |-> None]]
    /\ state = [full |-> FALSE, codes |-> 0, contracts |-> 0]
    /\ started = "no"
    /\ pass = [p \in Passes |-> AtRest]
    /\ worker = [p \in Passes |-> [k \in Codes |-> Idle]]
    /\ lost = {} /\ cut = {}

StoredCodes == {k \in Codes : code[k].stored}
Greatest == IF StoredCodes = {} THEN 0 ELSE Max(StoredCodes)
ContractsOf(k) == {c \in Contracts : contract[c].code = k}
Indexed == {c \in Contracts : contract[c].code # None}
Resting(p) == pass[p].at = "rest"

-----------------------------------------------------------------------------
\* The chain: codes are numbered as they come, a contract migrates upwards.
StoreCode ==
    /\ latest < wasmScene.codes /\ latest' = latest + 1
    /\ UNCHANGED <<boundVars, home, migrated, dbVars, started, pass, worker, historyVars>>

Instantiate(c, k) ==
    /\ c \in wasmScene.movers /\ home[c] = None /\ k \in 1..latest
    /\ home' = [home EXCEPT ![c] = k]
    /\ UNCHANGED <<boundVars, latest, migrated, dbVars, started, pass, worker, historyVars>>

Migrate(c, k) ==
    /\ migrations > 0 /\ home[c] # None /\ k \in (home[c] + 1)..latest
    /\ migrations' = migrations - 1
    /\ home' = [home EXCEPT ![c] = k] /\ migrated' = migrated \cup {c}
    /\ UNCHANGED <<wasmScene, failures, latest, dbVars, started, pass, worker, historyVars>>

WasmMoves ==
    \/ StoreCode
    \/ \E c \in Contracts, k \in Codes : Instantiate(c, k) \/ Migrate(c, k)

-----------------------------------------------------------------------------
\* The scheduler.  start() awaits its first pass, full when none was ever
\* full or the last is long ago; only then it sets the two timers.
Begin(p, full) ==
    pass' = [pass EXCEPT ![p] = [AtRest EXCEPT !.full = full,
                                             !.at = IF full THEN "page" ELSE "latest"]]

Start(p) ==
    /\ started = "no" /\ p \in wasmScene.passes
    /\ \E full \in BOOLEAN : (~state.full => full) /\ Begin(p, full)
    /\ started' = "first"
    /\ UNCHANGED <<boundVars, chainVars, dbVars, worker, historyVars>>

\* runFullIndexing, runIncrementalIndexing
Tick(p, full) ==
    /\ started = "timers" /\ p \in wasmScene.passes /\ Resting(p) /\ Begin(p, full)
    /\ UNCHANGED <<boundVars, chainVars, dbVars, started, worker, historyVars>>

\* A pass that ends, with its timers set if it is the first.
EndPass(p) ==
    /\ pass' = [pass EXCEPT ![p] = AtRest]
    /\ started' = "timers"

-----------------------------------------------------------------------------
\* What a pass has still to look at, and what it loses when it is broken off.
Ahead(p) == CASE pass[p].at = "page" -> IF pass[p].below = 0 THEN Codes
                                        ELSE 1..(pass[p].below - 1)
              [] pass[p].at = "work" -> 1..(pass[p].below - 1)
              [] pass[p].at = "new" -> pass[p].next..pass[p].upto
              [] OTHER -> {}
InHand(p) == {k \in Codes : worker[p][k].at \in {"find", "save"}}
Unstored(ks) == {k \in ks \cap 1..latest : ~code[k].stored}
Recounting(p) == {k \in Codes : worker[p][k].at \in {"count", "write"} /\ worker[p][k].news > 0}

Restart ==
    /\ failures > 0 /\ failures' = failures - 1
    /\ started # "no" /\ started' = "no"
    /\ lost' = lost \cup Unstored(UNION {Ahead(p) \cup InHand(p) : p \in Passes})
    /\ cut' = cut \cup UNION {Recounting(p) : p \in Passes}
    /\ pass' = [p \in Passes |-> AtRest]
    /\ worker' = [p \in Passes |-> [k \in Codes |-> Idle]]
    /\ UNCHANGED <<wasmScene, migrations, chainVars, dbVars>>

-----------------------------------------------------------------------------
\* Mutant: a page goes up from the oldest code, its key still counts down
PageFromOldest(n) == {k \in 1..n : k <= PageLimit}

\* indexAllCodes, which takes pages from the newest code down: below = 0 stands
\* for no key yet, below = 1 for no next page.  A page that fails ends the loop,
\* not the pass.
PageOf(n) == {k \in 1..n : k > n - PageLimit}

FetchCodes(p) ==
    /\ pass[p].at = "page"
    /\ LET n == IF pass[p].below = 0 THEN latest ELSE pass[p].below - 1
           page == PageOf(n)
       IN /\ pass' = [pass EXCEPT ![p].at = IF page = {} THEN "codes" ELSE "work",
                                  ![p].below = IF n > PageLimit THEN n - PageLimit + 1 ELSE 1]
          /\ worker' = [worker EXCEPT ![p] = [k \in Codes |->
                            IF k \in page THEN [Idle EXCEPT !.at = "find"] ELSE Idle]]
    /\ UNCHANGED <<boundVars, chainVars, dbVars, started, historyVars>>

FetchCodesFails(p) ==
    /\ pass[p].at = "page" /\ failures > 0 /\ failures' = failures - 1
    /\ pass' = [pass EXCEPT ![p].at = "codes", ![p].below = 1]
    /\ lost' = lost \cup Unstored(Ahead(p))
    /\ UNCHANGED <<wasmScene, migrations, chainVars, dbVars, started, worker, cut>>

\* Promise.all over the page has settled
PageDone(p) ==
    /\ pass[p].at = "work" /\ \A k \in Codes : worker[p][k].at = "idle"
    /\ pass' = [pass EXCEPT ![p].at = IF pass[p].below > 1 THEN "page" ELSE "codes"]
    /\ UNCHANGED <<boundVars, chainVars, dbVars, started, worker, historyVars>>

-----------------------------------------------------------------------------
\* indexContractChanges: the greatest code of the chain, then of the database.
FetchLatest(p) ==
    /\ pass[p].at = "latest"
    /\ pass' = [pass EXCEPT ![p].at = IF latest = 0 THEN "existing" ELSE "greatest",
                            ![p].upto = latest]
    /\ UNCHANGED <<boundVars, chainVars, dbVars, started, worker, historyVars>>

\* Mutant: only the newest code of the chain is new
ReadNewest(p) ==
    /\ pass[p].at = "greatest"
    /\ pass' = [pass EXCEPT ![p].at = "new", ![p].next = Max({Greatest + 1, pass[p].upto})]
    /\ UNCHANGED <<boundVars, chainVars, dbVars, started, worker, historyVars>>

ReadGreatest(p) ==
    /\ pass[p].at = "greatest"
    /\ pass' = [pass EXCEPT ![p].at = "new", ![p].next = Greatest + 1]
    /\ UNCHANGED <<boundVars, chainVars, dbVars, started, worker, historyVars>>

\* One new code at a time; a code that fails is passed over.
NextNew(p) ==
    /\ pass[p].at = "new" /\ \A k \in Codes : worker[p][k].at = "idle"
    /\ IF pass[p].next <= pass[p].upto
       THEN /\ pass' = [pass EXCEPT ![p].next = @ + 1]
            /\ worker' = [worker EXCEPT ![p][pass[p].next].at = "find"]
       ELSE /\ pass' = [pass EXCEPT ![p].at = "existing"]
            /\ UNCHANGED worker
    /\ UNCHANGED <<boundVars, chainVars, dbVars, started, historyVars>>

ReadExisting(p) ==
    /\ pass[p].at = "existing"
    /\ pass' = [pass EXCEPT ![p].at = "list", ![p].left = StoredCodes]
    /\ UNCHANGED <<boundVars, chainVars, dbVars, started, worker, historyVars>>

NextExisting(p) ==
    /\ pass[p].at = "list" /\ \A k \in Codes : worker[p][k].at = "idle"
    /\ \/ \E k \in pass[p].left :
            /\ pass' = [pass EXCEPT ![p].left = @ \ {k}]
            /\ worker' = [worker EXCEPT ![p][k].at = "fetch"]
       \/ /\ pass[p].left = {}
          /\ pass' = [pass EXCEPT ![p].at = "codes"]
          /\ UNCHANGED worker
    /\ UNCHANGED <<boundVars, chainVars, dbVars, started, historyVars>>

\* Both kinds: the totals, then the state.  A full pass is dated even if a
\* page of it failed.
CountTotals(p) ==
    /\ pass[p].at \in {"codes", "contracts"}
    /\ pass' = IF pass[p].at = "codes"
               THEN [pass EXCEPT ![p].at = "contracts", ![p].codes = Cardinality(StoredCodes)]
               ELSE [pass EXCEPT ![p].at = "state", ![p].contracts = Cardinality(Indexed)]
    /\ UNCHANGED <<boundVars, chainVars, dbVars, started, worker, historyVars>>

UpdateWasmState(p) ==
    /\ pass[p].at = "state"
    /\ state' = [full |-> state.full \/ pass[p].full,
                 codes |-> pass[p].codes, contracts |-> pass[p].contracts]
    /\ EndPass(p)
    /\ UNCHANGED <<boundVars, chainVars, code, contract, worker, historyVars>>

\* An error outside the loops ends the pass; one of the state is swallowed.
PassFails(p) ==
    /\ failures > 0 /\ failures' = failures - 1
    /\ pass[p].at \in {"latest", "greatest", "existing", "codes", "contracts", "state"}
    /\ EndPass(p)
    /\ UNCHANGED <<wasmScene, migrations, chainVars, dbVars, worker, historyVars>>

-----------------------------------------------------------------------------
\* processCode, for one code of a pass.  Its error is caught, so the pass goes
\* on; a save loses to another pass that saved first, and then the contracts
\* are not listed.
Goes(p, k, w) == worker' = [worker EXCEPT ![p][k] = w]

FindCode(p, k) ==
    /\ worker[p][k].at = "find"
    /\ worker' = [worker EXCEPT ![p][k].at = IF code[k].stored THEN "fetch" ELSE "save"]
    /\ UNCHANGED <<boundVars, chainVars, dbVars, started, pass, historyVars>>

SaveCode(p, k) ==
    /\ worker[p][k].at = "save"
    /\ IF code[k].stored
       THEN Goes(p, k, Idle) /\ UNCHANGED code
       ELSE /\ worker' = [worker EXCEPT ![p][k].at = "fetch"]
            /\ code' = [code EXCEPT ![k].stored = TRUE]
    /\ lost' = lost \ {k}
    /\ UNCHANGED <<boundVars, chainVars, contract, state, started, pass, cut>>

CodeFails(p, k) ==
    /\ worker[p][k].at \in {"find", "save", "inc", "count", "write"}
    /\ failures > 0 /\ failures' = failures - 1
    /\ Goes(p, k, Idle)
    /\ lost' = IF k \in InHand(p) THEN lost \cup Unstored({k}) ELSE lost
    /\ cut' = IF k \in Recounting(p) THEN cut \cup {k} ELSE cut
    /\ UNCHANGED <<wasmScene, migrations, chainVars, dbVars, started, pass>>

-----------------------------------------------------------------------------
\* indexContractsForCode: pages of the contracts that run the code now.  A
\* page that fails ends the listing.
Listed(k) == {c \in Contracts : home[c] = k}
Counting(w) == IF w.news > 0 THEN "inc" ELSE "count"

FetchContracts(p, k) ==
    /\ worker[p][k].at = "fetch"
    /\ LET w == worker[p][k]
           rest == Listed(k) \ w.passed
       IN \E some \in kSubset(IF Cardinality(rest) < PageLimit THEN Cardinality(rest)
                              ELSE PageLimit, rest) :
            Goes(p, k, [w EXCEPT !.at = IF some = {} THEN Counting(w) ELSE "page",
                                 !.hand = [c \in Contracts |-> IF c \in some THEN "look" ELSE "no"],
                                 !.passed = @ \cup some,
                                 !.more = some # rest])
    /\ UNCHANGED <<boundVars, chainVars, dbVars, started, pass, historyVars>>

FetchContractsFails(p, k) ==
    /\ worker[p][k].at = "fetch" /\ failures > 0 /\ failures' = failures - 1
    /\ worker' = [worker EXCEPT ![p][k].at = Counting(worker[p][k])]
    /\ UNCHANGED <<wasmScene, migrations, chainVars, dbVars, started, pass, historyVars>>

\* processContract: looked up, then its first migration noted, or its details
\* read and the document saved; the contracts of a page side by side.
LookUp(p, k, c) ==
    /\ worker[p][k].hand[c] = "look"
    /\ worker' = [worker EXCEPT ![p][k].hand[c] =
            CASE contract[c].code = None -> "new"
              [] contract[c].code \notin {None, k} /\ contract[c].migration = None -> "note"
              [] OTHER -> "no"]
    /\ UNCHANGED <<boundVars, chainVars, dbVars, started, pass, historyVars>>

NoteMigration(p, k, c) ==
    /\ worker[p][k].hand[c] = "note"
    /\ worker' = [worker EXCEPT ![p][k].hand[c] = "no"]
    /\ contract' = [contract EXCEPT ![c].migration = k]
    /\ UNCHANGED <<boundVars, chainVars, code, state, started, pass, historyVars>>

SaveContract(p, k, c) ==
    /\ worker[p][k].hand[c] = "new"
    /\ LET first == contract[c].code = None IN
       /\ worker' = [worker EXCEPT ![p][k].hand[c] = "no", ![p][k].news = IF first THEN @ + 1 ELSE @]
       /\ contract' = IF first
                      THEN [contract EXCEPT ![c] = [code |-> k, migration |->
                                IF c \in migrated THEN home[c] ELSE None]]
                      ELSE contract
    /\ UNCHANGED <<boundVars, chainVars, code, state, started, pass, historyVars>>

ContractFails(p, k, c) ==
    /\ worker[p][k].hand[c] # "no" /\ failures > 0 /\ failures' = failures - 1
    /\ worker' = [worker EXCEPT ![p][k].hand[c] = "no"]
    /\ UNCHANGED <<wasmScene, migrations, chainVars, dbVars, started, pass, historyVars>>

ContractsDone(p, k) ==
    /\ worker[p][k].at = "page" /\ \A c \in Contracts : worker[p][k].hand[c] = "no"
    /\ worker' = [worker EXCEPT ![p][k].at =
            IF worker[p][k].more THEN "fetch" ELSE Counting(worker[p][k])]
    /\ UNCHANGED <<boundVars, chainVars, dbVars, started, pass, historyVars>>

\* The count of the code: the new contracts are added, then it is set to what
\* countDocuments found.
AddNews(p, k) ==
    /\ worker[p][k].at = "inc"
    /\ worker' = [worker EXCEPT ![p][k].at = "count"]
    /\ code' = [code EXCEPT ![k].count = IF code[k].stored THEN @ + worker[p][k].news ELSE @]
    /\ UNCHANGED <<boundVars, chainVars, contract, state, started, pass, historyVars>>

CountContracts(p, k) ==
    /\ worker[p][k].at = "count"
    /\ worker' = [worker EXCEPT ![p][k].at = "write", ![p][k].read = Cardinality(ContractsOf(k))]
    /\ UNCHANGED <<boundVars, chainVars, dbVars, started, pass, historyVars>>

WriteCount(p, k) ==
    /\ worker[p][k].at = "write"
    /\ Goes(p, k, Idle)
    /\ code' = [code EXCEPT ![k].count = IF code[k].stored THEN worker[p][k].read ELSE @]
    /\ cut' = cut \ {k}
    /\ UNCHANGED <<boundVars, chainVars, contract, state, started, pass, lost>>

-----------------------------------------------------------------------------
PassStep(p) ==
    \/ FetchCodes(p) \/ PageDone(p)
    \/ FetchLatest(p) \/ ReadGreatest(p) \/ NextNew(p)
    \/ ReadExisting(p) \/ NextExisting(p)
    \/ CountTotals(p) \/ UpdateWasmState(p)

CodeStep(p, k) ==
    \/ FindCode(p, k) \/ SaveCode(p, k)
    \/ FetchContracts(p, k) \/ ContractsDone(p, k)
    \/ AddNews(p, k) \/ CountContracts(p, k) \/ WriteCount(p, k)
    \/ \E c \in Contracts : LookUp(p, k, c) \/ NoteMigration(p, k, c) \/ SaveContract(p, k, c)

Works(p) == PassStep(p) \/ \E k \in Codes : CodeStep(p, k)

Fails(p) ==
    \/ FetchCodesFails(p) \/ PassFails(p)
    \/ \E k \in Codes : \/ CodeFails(p, k) \/ FetchContractsFails(p, k)
                        \/ \E c \in Contracts : ContractFails(p, k, c)

-----------------------------------------------------------------------------
PassType ==
    [at : {"rest", "page", "work", "latest", "greatest", "new", "existing", "list",
           "codes", "contracts", "state"},
     full : BOOLEAN, below : 0..(latest + 1), next : 0..(latest + 1), upto : 0..latest,
     left : SUBSET Codes, codes : 0..latest, contracts : 0..Cardinality(Contracts)]
WorkerType ==
    [at : {"idle", "find", "save", "fetch", "page", "inc", "count", "write"},
     hand : [Contracts -> {"no", "look", "new", "note"}], passed : SUBSET Contracts,
     more : BOOLEAN, news : Nat, read : Nat]

IndexTypeOK ==
    /\ wasmScene \in WasmScenes /\ failures \in 0..wasmScene.faults /\ migrations \in 0..wasmScene.migrations
    /\ latest \in 0..wasmScene.codes /\ home \in [Contracts -> 0..latest] /\ migrated \subseteq Contracts
    /\ code \in [Codes -> [stored : BOOLEAN, count : Nat]]
    /\ contract \in [Contracts -> [code : 0..latest, migration : 0..latest]]
    /\ state \in [full : BOOLEAN, codes : 0..latest, contracts : 0..Cardinality(Contracts)]
    /\ started \in {"no", "first", "timers"}
    /\ pass \in [Passes -> PassType] /\ worker \in [Passes -> [Codes -> WorkerType]]
    /\ lost \subseteq Codes /\ cut \subseteq Codes

\* A new code is looked for above the greatest stored one only, so one below
\* it that is not stored is either in the way of a running pass or was given
\* up with an error, a page that failed, or a stop (indexer.service.ts:441).
CodesKnown ==
    \A k \in Unstored(1..Greatest) :
        k \in lost \cup UNION {Ahead(p) \cup InHand(p) : p \in Passes}

\* The count of a code exceeds its contracts by no more than what passes have
\* added and not yet replaced by a count, unless one was stopped between the
\* two (indexer.service.ts:258).
CountHolds ==
    \A k \in Codes \ cut :
        code[k].count <= Cardinality(ContractsOf(k))
            + SumFunctionOnSet([p \in Passes |-> worker[p][k].news],
                               {p \in Passes : k \in Recounting(p)})

\* What overlapping passes, their errors and stops leave of codes and counts.
PassesHold == CodesKnown /\ CountHolds

\* Once errors and stops end, the passes store every code and contract of the
\* chain and the counts are right (indexer.service.ts:57).
Indexes ==
    <>[](/\ StoredCodes = 1..latest
         /\ \A c \in Contracts : home[c] # None => contract[c].code # None
         /\ \A k \in StoredCodes : code[k].count = Cardinality(ContractsOf(k)))
=============================================================================
