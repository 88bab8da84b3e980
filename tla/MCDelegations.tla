--------------------------- MODULE MCDelegations ---------------------------
\* Two delegations of one staker.
EXTENDS StakerSheets

OneStaker == [d \in Stakes |-> "staker"]
Move(from, kind, to) == [from |-> from, kind |-> kind, to |-> to]
Steps(d) ==
    {Move("none", "create", "PENDING")} \cup
    IF d = "a" THEN {Move("PENDING", "quorum", "VERIFIED"), Move("VERIFIED", "update", "ACTIVE")}
    ELSE {Move("PENDING", "update", "EXPIRED")}
MCMoves == [d \in Stakes |-> Steps(d)]
=============================================================================
