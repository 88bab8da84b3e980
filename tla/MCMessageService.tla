-------------------------- MODULE MCMessageService --------------------------
\* Histories of the chain for the components of MessageService.
EXTENDS MessageService

Event(type, who, what) == [type |-> type, who |-> who, what |-> what]
Message(topics, events, tx) == [topics |-> topics, events |-> events, tx |-> tx]

Staking == {"btc_staking", "new_tx"}
Gov == {"governance", "new_tx"}

\* A delegation, one covenant signature, and one that makes it ACTIVE
CovenantChain ==
    [services |-> {}, messages |-> <<
     Message(Staking, {Event(Created, Nothing, Nothing)}, Nothing),
     Message({"btc_staking"}, {Event(Signature, "m1", Nothing)}, Nothing),
     Message(Staking, {Event(Signature, "m2", Nothing),
                       Event(StateUpdate, Nothing, "ACTIVE")}, Nothing)>>]

\* A proposal, a vote that is changed, another's vote, and the end
ProposalChain ==
    [services |-> {"proposals"}, messages |-> <<
     Message({"governance"}, {Event(Submission, Nothing, Nothing)}, Nothing),
     Message({"governance"}, {Event(Vote, "v1", "YES")}, Nothing),
     Message({"governance"}, {Event(Vote, "v1", "NO")}, Nothing),
     Message({"governance"}, {Event(Vote, "v2", "NO"),
                              Event(StatusChange, Nothing, "PASSED")}, Nothing)>>]
VoteChain ==
    [services |-> {}, messages |-> <<
     Message({"governance"}, {Event(Vote, "v1", "YES")}, Nothing),
     Message({"governance"}, {Event(Vote, "v1", "NO")}, Nothing),
     Message({"governance"}, {Event(Vote, "v2", "VETO")}, Nothing)>>]

\* The first and the later part of the life of a checkpoint
Status(st) == Message(IF st = "SEALED" THEN {"new_block", "checkpoint_for_bls"}
                      ELSE {"new_block"}, {Event(Checkpoint, Nothing, st)}, Nothing)
SealedChain ==
    [services |-> {"checkpoints"},
     messages |-> <<Status("ACCUMULATING"), Status("SEALED")>>]
CheckpointChain ==
    [services |-> {"checkpoints"},
     messages |-> <<Status("SEALED"), Status("SUBMITTED"), Status("CONFIRMED")>>]

\* Transactions that match two subscriptions
TxChain ==
    [services |-> {"statistics"}, messages |-> <<
     Message(Staking, {}, "t1"), Message({"new_tx"}, {}, "t2")>>]

\* One transaction for every processor of Tx
MixedChain ==
    [services |-> {}, messages |-> <<
     Message({"btc_staking", "governance"},
             {Event(Created, Nothing, Nothing), Event(Vote, "v1", "YES")}, "t1")>>]

AllChains == {CovenantChain, ProposalChain, VoteChain, SealedChain, CheckpointChain,
              TxChain, MixedChain}
Weights == [v \in {"v1", "v2"} |-> IF v = "v1" THEN 1 ELSE 2]
=============================================================================
