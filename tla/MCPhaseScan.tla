---------------------------- MODULE MCPhaseScan ----------------------------
\* Five blocks before, in and after three phases, four stakes of two stakers
\* with one provider: the cap of phase 1 takes two of its three stakes, and a
\* batch of two crosses from phase 1 to phase 2.
EXTENDS PhaseScan

MCTxs == 1..4
MCBlock == <<2, 3, 3, 4>>
MCAmount == <<2, 2, 1, 1>>
MCProvider == [t \in MCTxs |-> "fp"]
MCStaker == <<"alice", "bob", "bob", "alice">>
MCStarts == <<2, 4, 5>>
=============================================================================
