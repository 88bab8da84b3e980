------------------------------- MODULE TxStore -------------------------------
(***************************************************************************)
(* The transactions stored from Tx messages and by the historical sync     *)
(* (BlockTransactionHandler, TxRepository.saveTx), and their number in the *)
(* statistics (TransactionStatsService), which three callers count: the    *)
(* start-up, an interval of an hour, and the API when there is none.       *)
(***************************************************************************)
EXTENDS Messages

Counters == {"boot", "hour", "api"}

VARIABLES
    txs,            \* BlockchainTransaction: hashes stored
    total,          \* TransactionStats.totalCount, -1 without a document
    txCalls,        \* txCalls[d]: the call of handleNewTransaction for d
    counters        \* counters[k]: the call of updateStats by k

txVars == <<txs, total, txCalls, counters>>

TxOf(n) == chain.messages[n].tx
CounterIdle == [pc |-> "idle", counted |-> 0]

TxInit ==
    /\ txs = {} /\ total = -1
    /\ txCalls = [d \in Deliveries |-> "none"]
    /\ counters = [k \in Counters |->
         [CounterIdle EXCEPT !.pc = IF ~Runs("statistics") THEN "off"
                                    ELSE IF k = "boot" THEN "find" ELSE "idle"]]

-----------------------------------------------------------------------------
\* TransactionMessageProcessor takes every Tx message.

TxStart(d) ==
    /\ Arrives(d) /\ txCalls[d] = "none"
    /\ txCalls' = [txCalls EXCEPT ![d] =
         IF d[2] \in TxQueries /\ TxOf(d[1]) # Nothing THEN "process" ELSE "done"]
    /\ UNCHANGED <<txs, total, counters, faults>>

\* saveTx: an upsert by hash.  The document it returns is never isNew, so
\* incrementCount is never called and the statistics stay as they are.
SaveTx(tx) == txs' = txs \cup {tx} /\ UNCHANGED total

\* processTx saves the transaction, and handleNewTransaction saves it again.
ProcessTx(d) ==
    /\ txCalls[d] = "process" /\ txCalls' = [txCalls EXCEPT ![d] = "save"]
    /\ SaveTx(TxOf(d[1])) /\ UNCHANGED <<counters, faults>>

SaveAgain(d) ==
    /\ txCalls[d] = "save" /\ txCalls' = [txCalls EXCEPT ![d] = "done"]
    /\ SaveTx(TxOf(d[1])) /\ UNCHANGED <<counters, faults>>

TxFails(d) ==
    /\ txCalls[d] \in {"process", "save"} /\ Costs
    /\ txCalls' = [txCalls EXCEPT ![d] = "done"]
    /\ UNCHANGED <<txs, total, counters>>

TxStep(d) == ProcessTx(d) \/ SaveAgain(d) \/ TxFails(d)

\* processTxBatch of a sync that covers the block of the transaction
SyncTx(n) ==
    /\ n \in 1..sent /\ TxOf(n) # Nothing /\ TxOf(n) \notin txs
    /\ SaveTx(TxOf(n)) /\ UNCHANGED <<txCalls, counters, faults>>

-----------------------------------------------------------------------------
Counter(k, pc) == counters' = [counters EXCEPT ![k].pc = pc]

\* The interval, which initializeTransactionStats starts when it has finished
HourPasses ==
    /\ counters["boot"].pc = "idle" /\ counters["hour"].pc = "idle"
    /\ Counter("hour", "count") /\ UNCHANGED <<txs, total, txCalls, faults>>

\* getTotalCount answers from the statistics if there are any.
AskTotal ==
    /\ counters["api"].pc = "idle" /\ total = -1
    /\ Counter("api", "count") /\ UNCHANGED <<txs, total, txCalls, faults>>

\* initializeStats counts only if there are no statistics.
FindStats ==
    /\ counters["boot"].pc = "find"
    /\ Counter("boot", IF total = -1 THEN "count" ELSE "idle")
    /\ UNCHANGED <<txs, total, txCalls, faults>>

\* updateStats: countDocuments, and much later updateOne
CountTxs(k) ==
    /\ counters[k].pc = "count"
    /\ counters' = [counters EXCEPT ![k] = [pc |-> "write",
                                            counted |-> Cardinality(txs)]]
    /\ UNCHANGED <<txs, total, txCalls, faults>>

\* Mutant: only the first count is stored.
WriteStatsOnce(k) ==
    /\ counters[k].pc = "write"
    /\ total' = IF total = -1 THEN counters[k].counted ELSE total
    /\ counters' = [counters EXCEPT ![k] = CounterIdle]
    /\ UNCHANGED <<txs, txCalls, faults>>

WriteStats(k) ==
    /\ counters[k].pc = "write"
    /\ total' = counters[k].counted
    /\ counters' = [counters EXCEPT ![k] = CounterIdle]
    /\ UNCHANGED <<txs, txCalls, faults>>

\* Each caller catches the error.
CountFails(k) ==
    /\ counters[k].pc \in {"find", "count", "write"} /\ Costs
    /\ counters' = [counters EXCEPT ![k] = CounterIdle]
    /\ UNCHANGED <<txs, total, txCalls>>

CounterStep(k) == CountTxs(k) \/ WriteStats(k) \/ CountFails(k)

TxNext ==
    \/ \E d \in Deliveries : TxStart(d) \/ TxStep(d)
    \/ \E d \in Deliveries : SyncTx(d[1])
    \/ HourPasses \/ AskTotal \/ FindStats
    \/ \E k \in Counters : CounterStep(k)

\* The interval fires again and again, and what was begun is carried on.
TxFairness ==
    /\ WF_txVars(HourPasses) /\ WF_txVars(FindStats)
    /\ \A k \in Counters : WF_txVars(CounterStep(k))

-----------------------------------------------------------------------------
TxTypeOK ==
    /\ Nothing \notin txs /\ IsFiniteSet(txs)
    /\ total \in Nat \cup {-1}
    /\ txCalls \in [Deliveries -> {"none", "process", "save", "done"}]
    /\ counters \in [Counters -> [pc : {"off", "idle", "find", "count", "write"},
                                  counted : Nat]]

\* The number of transactions is right in the end, whichever of the three
\* counts is written last, failed, or was counted before the last save.
StatsCatchUp == Runs("statistics") => <>[](total = Cardinality(txs))
=============================================================================
