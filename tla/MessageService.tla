--------------------------- MODULE MessageService ---------------------------
(***************************************************************************)
(* WebSocketMessageService.processMessage hands a delivery to every        *)
(* processor that can process it and waits for them together (Promise.all).*)
(* The processors' calls then run beside each other, beside those of other *)
(* deliveries, and beside the services in the background.                  *)
(***************************************************************************)
EXTENDS Covenant, Governance, Checkpoints, TxStore

vars == <<node, faults, covVars, govVars, ckptVars, txVars>>

Init == MessagesInit /\ CovInit /\ GovInit /\ CkptInit /\ TxInit

NodeSends == Sends /\ UNCHANGED <<covVars, govVars, ckptVars, txVars>>

\* Every processor looks at the delivery in the same tick.
ProcessMessage(d) ==
    /\ CovStart(d) /\ GovStart(d) /\ CkptStart(d) /\ TxStart(d)
    /\ UNCHANGED node

\* Each step of a handler or a service is its own.
Covenants(d) == CovStep(d) /\ UNCHANGED <<node, govVars, ckptVars, txVars>>

Proposals ==
    /\ SyncStep \/ CheckStep \/ \E d \in Deliveries : GovStep(d)
    /\ UNCHANGED <<node, covVars, ckptVars, txVars>>

EpochCheckpoints ==
    /\ EpochStep \/ StatusStep \/ \E d \in Deliveries : CkptStep(d)
    /\ UNCHANGED <<node, covVars, govVars, txVars>>

Transactions ==
    /\ \/ \E d \in Deliveries : TxStep(d) \/ SyncTx(d[1])
       \/ HourPasses \/ AskTotal \/ FindStats
       \/ \E k \in Counters : CounterStep(k)
    /\ UNCHANGED <<node, covVars, govVars, ckptVars>>

Next ==
    \/ NodeSends
    \/ \E d \in Deliveries : ProcessMessage(d) \/ Covenants(d)
    \/ Proposals \/ EpochCheckpoints \/ Transactions

Spec == Init /\ [][Next]_vars

FairSpec == Spec /\ GovFairness /\ TxFairness

-----------------------------------------------------------------------------
\* Every variable of every component keeps its type.
TypeOK ==
    /\ chain \in Chains /\ sent \in 0..Len(chain.messages)
    /\ faults \in 0..MaxFaults
    /\ CovTypeOK /\ GovTypeOK /\ CkptTypeOK /\ TxTypeOK

\* What the documents keep, whatever calls save them side by side: the
\* covenant's counts, nobody left pending in it, the counts of a proposal's
\* votes, and the votes of a checkpoint that was fetched
\* (CovenantSignatureService, GovernanceEventHandler, BLSCheckpointFetcher).
DocumentsHold == TypeOK /\ CountsAgree /\ NothingPending /\ TallyAgrees /\ FetchedHasVotes
=============================================================================
