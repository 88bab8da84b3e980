------------------------------ MODULE Covenant ------------------------------
(***************************************************************************)
(* The signatures of the covenant members under one staking transaction:   *)
(* CovenantEventHandler.handleEvent and CovenantSignatureService.  Every   *)
(* Tx message starts a call, and a staking transaction arrives once for    *)
(* each subscription it matches.  A call loads the document, changes one   *)
(* entry, recounts its own copy and saves what it changed; the version of  *)
(* the document guards positions in the array only, so no save conflicts.  *)
(***************************************************************************)
EXTENDS Messages

CONSTANT Members    \* covenant members of the network

ASSUME CovenantAssumption == IsFiniteSet(Members)

VARIABLES
    record,         \* whether the document of type STAKING exists
    state,          \* state[m] of the stored signatures
    signedCount, missedCount,
    covCalls,       \* covCalls[d]: the call of handleEvent for d
    miscounted,     \* history: the last save recounted an outdated copy
    closed          \* history: an ACTIVE update ran to its end

covDocument == <<record, state, signedCount, missedCount>>
covHistory  == <<miscounted, closed>>
covVars     == <<covDocument, covCalls, covHistory>>

With(s, st) == {m \in Members : s[m] = st}
AllPending == [m \in Members |-> "PENDING"]

\* A copy of the document: its entries, its counts, and whether no other call
\* has saved the document since.
CovNoCopy == [state |-> AllPending, signed |-> 0, missed |-> 0, fresh |-> TRUE]
CovLoaded == [state |-> state, signed |-> signedCount, missed |-> missedCount,
              fresh |-> TRUE]
CovIdle == [pc |-> "none", copy |-> CovNoCopy]

CovInit ==
    /\ record = FALSE /\ state = AllPending
    /\ signedCount = 0 /\ missedCount = 0
    /\ covCalls = [d \in Deliveries |-> CovIdle]
    /\ miscounted = FALSE /\ closed = FALSE

-----------------------------------------------------------------------------
\* handleEvent looks for one event of each kind, one after the other.

Created == "EventBTCDelegationCreated"
Signature == "EventCovenantSignatureReceived"
StateUpdate == "EventBTCDelegationStateUpdate"

AfterSign(d)   == IF Has(d, StateUpdate) THEN "state" ELSE "done"
AfterCreate(d) == IF Has(d, Signature) THEN "sign" ELSE AfterSign(d)
FirstCall(d)   == IF Has(d, Created) THEN "create" ELSE AfterCreate(d)

CovGoto(d, pc) == [covCalls EXCEPT ![d] = [CovIdle EXCEPT !.pc = pc]]
CovLoad(d, pc) == [covCalls EXCEPT ![d] = [pc |-> pc, copy |-> CovLoaded]]

\* CovenantMessageProcessor takes every message of the event Tx.
CovStart(d) ==
    /\ Arrives(d) /\ covCalls[d].pc = "none"
    /\ covCalls' = CovGoto(d, IF d[2] \in TxQueries THEN FirstCall(d) ELSE "done")
    /\ UNCHANGED <<covDocument, covHistory, faults>>

\* Mutant: a second creation starts the document again.
RecreatePending(d) ==
    /\ covCalls[d].pc = "create"
    /\ covCalls' = CovGoto(d, AfterCreate(d))
    /\ record' = TRUE /\ state' = AllPending
    /\ signedCount' = 0 /\ missedCount' = 0 /\ miscounted' = FALSE
    /\ UNCHANGED <<closed, faults>>

\* createPendingSignatures: a document that was there, or that another call
\* inserts first (the unique index), is left as it is.
CreatePending(d) ==
    /\ covCalls[d].pc = "create"
    /\ covCalls' = CovGoto(d, AfterCreate(d))
    /\ record' = TRUE
    /\ IF record THEN UNCHANGED <<state, signedCount, missedCount, miscounted>>
       ELSE /\ state' = AllPending /\ signedCount' = 0 /\ missedCount' = 0
            /\ miscounted' = FALSE
    /\ UNCHANGED <<closed, faults>>

\* markAsSigned and markAsMissed change one entry of the copy, updateCounts
\* recounts the copy, and save writes what differs from the copy loaded.
CovOutdated(e, changed) ==
    IF changed /\ covCalls[e].pc \in {"signing", "missing"}
    THEN [covCalls[e] EXCEPT !.copy.fresh = FALSE] ELSE covCalls[e]
SaveEntry(d, m, st) ==
    LET copy == covCalls[d].copy
        own  == [copy.state EXCEPT ![m] = st]
        s    == Cardinality(With(own, "SIGNED"))
        n    == Cardinality(With(own, "MISSED"))
    IN  /\ record' = record
        /\ state' = IF copy.state[m] = st THEN state
                    ELSE [state EXCEPT ![m] = st]
        /\ signedCount' = IF s = copy.signed THEN signedCount ELSE s
        /\ missedCount' = IF n = copy.missed THEN missedCount ELSE n
        /\ miscounted' = ~copy.fresh
        /\ covCalls' = [e \in Deliveries |->
             IF e = d
             THEN [pc |-> IF st = "SIGNED" THEN AfterSign(d) ELSE "missing",
                   copy |-> IF st = "SIGNED" THEN CovNoCopy
                            ELSE [state |-> own, signed |-> s, missed |-> n,
                                  fresh |-> copy.fresh]]
             ELSE CovOutdated(e, covDocument' # covDocument)]

\* recordSignature: findOne; without a document there is only a warning.
FindToSign(d) ==
    /\ covCalls[d].pc = "sign"
    /\ covCalls' = IF record THEN CovLoad(d, "signing")
                   ELSE CovGoto(d, AfterSign(d))
    /\ UNCHANGED <<covDocument, covHistory, faults>>

\* Mutant: the whole copy is saved.
SaveWholeCopy(d) ==
    /\ covCalls[d].pc = "signing" /\ covCalls' = CovGoto(d, AfterSign(d))
    /\ state' = [covCalls[d].copy.state EXCEPT ![The(d, Signature).who] = "SIGNED"]
    /\ UNCHANGED <<record, signedCount, missedCount, miscounted, closed, faults>>

MarkAsSigned(d) ==
    /\ covCalls[d].pc = "signing"
    /\ SaveEntry(d, The(d, Signature).who, "SIGNED")
    /\ UNCHANGED <<closed, faults>>

\* handleStateChange: UNBONDED looks for a document of type UNBONDING, which
\* nothing creates; other states are not looked at.
FindToMiss(d) ==
    /\ covCalls[d].pc = "state"
    /\ covCalls' = IF record /\ The(d, StateUpdate).what = "ACTIVE"
                   THEN CovLoad(d, "missing") ELSE CovGoto(d, "done")
    /\ UNCHANGED <<covDocument, covHistory, faults>>

\* The entries of the copy that were PENDING, one save each.
MarkAsMissed(d) ==
    /\ covCalls[d].pc = "missing"
    /\ LET left == With(covCalls[d].copy.state, "PENDING") IN
       /\ left # {}
       /\ SaveEntry(d, CHOOSE m \in left : TRUE, "MISSED")
    /\ UNCHANGED <<closed, faults>>

MissedAll(d) ==
    /\ covCalls[d].pc = "missing"
    /\ With(covCalls[d].copy.state, "PENDING") = {}
    /\ covCalls' = CovGoto(d, "done") /\ closed' = TRUE
    /\ UNCHANGED <<covDocument, miscounted, faults>>

\* A database error ends the call; processMessage logs it.
CovFails(d) ==
    /\ covCalls[d].pc \notin {"none", "done"} /\ Costs
    /\ covCalls' = CovGoto(d, "done")
    /\ UNCHANGED <<covDocument, miscounted, closed>>

CovStep(d) == \/ CreatePending(d) \/ FindToSign(d) \/ MarkAsSigned(d)
              \/ FindToMiss(d) \/ MarkAsMissed(d) \/ MissedAll(d) \/ CovFails(d)

CovNext == \E d \in Deliveries : CovStart(d) \/ CovStep(d)

\* The service by itself, whatever the node sends
CovSpec == CovInit /\ [][CovNext]_covVars

-----------------------------------------------------------------------------
Copies == [state : [Members -> {"PENDING", "SIGNED", "MISSED"}], signed : Nat,
           missed : Nat, fresh : BOOLEAN]

\* Every variable keeps its type, and a document counts no more signatures
\* than the covenant has members.
CovTypeOK ==
    /\ record \in BOOLEAN
    /\ state \in [Members -> {"PENDING", "SIGNED", "MISSED"}]
    /\ signedCount \in 0..Cardinality(Members)
    /\ missedCount \in 0..Cardinality(Members)
    /\ covCalls \in [Deliveries -> [pc : {"none", "create", "sign", "signing",
                                   "state", "missing", "done"}, copy : Copies]]
    /\ miscounted \in BOOLEAN /\ closed \in BOOLEAN

\* The counts are those of the stored entries, unless the last save recounted
\* a copy that another call had outdated: the next save of a copy that is up
\* to date repairs them (updateCounts).
CountsAgree ==
    miscounted \/ /\ signedCount = Cardinality(With(state, "SIGNED"))
                  /\ missedCount = Cardinality(With(state, "MISSED"))

\* Once an ACTIVE update has run to its end, no member is pending, whatever
\* signatures and second deliveries were saved beside it.
NothingPending == closed => With(state, "PENDING") = {}

\* A recorded signature is taken back only by an ACTIVE update that had loaded
\* the document before it; neither a second creation, nor a second delivery,
\* nor an update that saw it does.
KeepsSignatures ==
    [][\A m \in Members : state[m] = "SIGNED" /\ state'[m] # "SIGNED" =>
         \E d \in Deliveries : /\ covCalls[d].pc = "missing"
                               /\ covCalls[d].copy.state[m] = "PENDING"]_covVars
=============================================================================
