---------------------------- MODULE StakerSheets ----------------------------
(***************************************************************************)
(* The figures a staker's document keeps beside its delegations: totals,   *)
(* counts by state, figures of the phase and of the finality provider, and *)
(* the recent delegations.  Every save of the document (Delegations) saves *)
(* them too, computed from those of the document it read.  Each delegation *)
(* stakes one unit; phase, provider and network are the same for all.      *)
(***************************************************************************)
EXTENDS Delegations

CONSTANT RecentMax      \* recent delegations kept

ASSUME RecentAssumption == RecentMax \in Nat \ {0} /\ IsFiniteSet(Stakes)

VARIABLE sheet      \* new_stakers: the figures of each document

sheetVars == <<vars, sheet>>

Figures == [
    recent : Seq([d : Stakes, state : States]),
    total : Nat, active : Nat, byState : [States -> Nat],
    phaseTotal : Nat, phaseActive : Nat,    \* phaseStats
    providers : Nat]                        \* uniqueFinalityProviders

NewSheet == [recent |-> <<>>, total |-> 0, active |-> 0, byState |-> [t \in States |-> 0],
             phaseTotal |-> 0, phaseActive |-> 0, providers |-> 0]

SheetInit == Init /\ sheet = [s \in Stakers |-> NewSheet]

-----------------------------------------------------------------------------
Less1(n) == IF n = 0 THEN 0 ELSE n - 1
One(cond) == IF cond THEN 1 ELSE 0
InState(h, t) == Cardinality({d \in Stakes : h[d] = t})
HowMany(h) == Cardinality({d \in Stakes : h[d] # None})

\* updateRecentDelegations: in its place if it is there, else in front.
WithRecent(f, d, new) ==
    [f EXCEPT !.recent =
        IF \E i \in DOMAIN @ : @[i].d = d
        THEN [i \in DOMAIN @ |-> IF @[i].d = d THEN [d |-> d, state |-> new] ELSE @[i]]
        ELSE SubSeq(<<[d |-> d, state |-> new]>> \o @, 1,
                    IF Len(@) < RecentMax THEN Len(@) + 1 ELSE RecentMax)]

\* The state among the recent delegations that updateStakerStats takes for
\* the old one.
OldState(f, d) ==
    IF \E i \in DOMAIN f.recent : f.recent[i].d = d
    THEN f.recent[CHOOSE i \in DOMAIN f.recent : f.recent[i].d = d].state ELSE None

\* updatePhaseStats
WithPhase(f, isActive, isNew) ==
    [f EXCEPT !.phaseTotal = @ + One(isNew),
              !.phaseActive = IF isActive THEN @ + 1 ELSE IF isNew THEN @ ELSE Less1(@)]

\* updateUniqueFinalityProviders
WithProvider(f, new, isNew) ==
    [f EXCEPT !.providers = IF isNew THEN @ + One(new # "UNBONDED")
                            ELSE IF new = "UNBONDED" THEN Less1(@) ELSE @]

\* updateStakerStats
Leaving(f, old, new) ==
    IF old \in {None, new} THEN f
    ELSE LET g == [f EXCEPT !.byState[old] = Less1(@)] IN
         IF old # "ACTIVE" THEN g
         ELSE WithPhase([g EXCEPT !.active = Less1(@)], FALSE, FALSE)

Entering(f, old, new) ==
    LET g == [f EXCEPT !.byState[new] = @ + 1] IN
    IF new = "ACTIVE" /\ old # "ACTIVE"
    THEN WithPhase([g EXCEPT !.active = @ + 1], TRUE, old = None)
    ELSE g

Counted(f, old, new) ==
    CASE old = None ->
           WithProvider(WithPhase([f EXCEPT !.total = @ + 1], new = "ACTIVE", TRUE), new, TRUE)
      [] old # None /\ old # new /\ new = "UNBONDED" -> WithProvider(f, new, FALSE)
      [] OTHER -> f

WithStats(f, old, new) == Counted(Entering(Leaving(f, old, new), old, new), old, new)

\* recalculateTotals, from the delegations h: EXPIRED is not reset first.
WithTotals(f, h) ==
    [f EXCEPT !.total = HowMany(h), !.active = InState(h, "ACTIVE"),
              !.byState = [t \in States |-> InState(h, t) + (IF t = "EXPIRED" THEN @[t] ELSE 0)]]

\* Mutant: the old state is looked up before the list has the new one
OldThenRecent(f, h, d, new) ==
    WithTotals(WithStats(WithRecent(f, d, new), OldState(f, d), new), h)

\* updateStakerFromDelegation, on what it read
Updated(f, h, d, new) ==
    LET g == WithRecent(f, d, new) IN WithTotals(WithStats(g, OldState(g, d), new), h)

\* recalculateStakerStats, of the delegations h in the order they were created
Recalculated(h) ==
    LET Found(i) == h[stored[i]] # None
        Nth(n) == CHOOSE i \in DOMAIN stored : Found(i) /\ Cardinality({j \in 1..i : Found(j)}) = n
    IN  [NewSheet EXCEPT
          !.recent = [n \in 1..(IF HowMany(h) < RecentMax THEN HowMany(h) ELSE RecentMax) |->
                        [d |-> stored[Nth(n)], state |-> h[stored[Nth(n)]]]],
          !.total = HowMany(h), !.active = InState(h, "ACTIVE"), !.byState = [t \in States |-> InState(h, t)],
          !.phaseTotal = HowMany(h), !.phaseActive = InState(h, "ACTIVE"), !.providers = InState(h, "ACTIVE")]

-----------------------------------------------------------------------------
\* A save that goes through is of the document it read: its figures too.
SavesFigures(c) ==
    /\ SaveStaker(c)
    /\ LET s == StakerOfCall(c) IN
       sheet' = [sheet EXCEPT ![s] = Updated(@, HoldsAfter(c), call[c].d, call[c].to)]

RecalcFigures ==
    /\ RecalcSave
    /\ sheet' = IF recalc.stale THEN sheet
                ELSE [sheet EXCEPT ![recalc.s] = Recalculated(recalc.found)]

SheetNext ==
    \/ \E c \in Calls : SavesFigures(c)
    \/ RecalcFigures
    \/ /\ UNCHANGED sheet
       /\ \/ \E d \in Stakes : \E m \in Moves[d] :
               ChainMoves(d, m) \/ \E c \in Handlers : Deliver(c, d, m)
          \/ \E c \in Calls : HandleUnsaved(c) \/ CallFails(c)
          \/ Crawler
          \/ \E s \in Stakers : RecalcRead(s)
          \/ RecalcFind \/ Crash

SheetSpec == SheetInit /\ [][SheetNext]_sheetVars

\* As of Delegations.
FairSheets ==
    SheetSpec /\ WF_sheetVars(\/ UNCHANGED sheet /\ Crawler
                              \/ \E c \in Crawls : UNCHANGED sheet /\ HandleUnsaved(c))

-----------------------------------------------------------------------------
\* Whatever calls and recalculations save at once, the totals of a document
\* are those of its delegations, and the figures of the phase and of the
\* provider, which only a recalculation sets since an update takes the new
\* state for the old one, never count more delegations than the document has;
\* the count of EXPIRED, which no update resets, never falls short
\* (StakerStatsService.ts:32, NewStakerService.ts:150).
FiguresHold ==
    \A s \in Stakers :
        LET f == sheet[s]
            h == doc[s].holds
        IN  /\ f.total = HowMany(h) /\ f.active = InState(h, "ACTIVE")
            /\ \A t \in States \ {"EXPIRED"} : f.byState[t] = InState(h, t)
            /\ f.byState["EXPIRED"] >= InState(h, "EXPIRED")
            /\ f.phaseTotal <= f.total /\ f.phaseActive <= f.phaseTotal
            /\ f.providers <= f.total
            /\ \A i \in DOMAIN f.recent : f.recent[i].state = h[f.recent[i].d]
=============================================================================
