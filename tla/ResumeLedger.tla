---------------------------- MODULE ResumeLedger ----------------------------
(***************************************************************************)
(* What every component that resumes from a stored height promises: it     *)
(* goes on from there, so each height at or below it must be settled       *)
(* (handled, or given up knowingly) or in somebody's hands.  What is       *)
(* settled stays so; what is in somebody's hands may be dropped, by a      *)
(* crash, only above the resume point, from where it will be found again.  *)
(***************************************************************************)
EXTENDS Integers

VARIABLES
    resume,         \* the stored height
    settled,        \* heights that are handled or given up
    inHand          \* heights somebody is working on, or has yet to

Init == resume = 0 /\ settled = {} /\ inHand = {}

Kept ==
    /\ settled \subseteq settled'
    /\ \A h \in inHand : h <= resume' => h \in settled' \cup inHand'

\* Heights are taken up, settled or dropped.
Work == resume' = resume /\ Kept

\* The resume point moves, to a height below which nothing is missing.
Resume ==
    /\ resume' \in Nat /\ resume' # resume /\ Kept
    /\ \A h \in 1..resume' : h \in settled' \cup inHand'

Spec == Init /\ [][Work \/ Resume]_<<resume, settled, inHand>>

NothingMissing == resume \in Nat /\ \A h \in 1..resume : h \in settled \cup inHand
=============================================================================
