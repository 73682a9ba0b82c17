---------------------------- MODULE OneTimeTest ----------------------------
(***************************************************************************)
(* What the Stage 0 protocols promise of held-out data: what is going to   *)
(* be tested is settled by a claim that is made once; the data are opened  *)
(* once, after it, for what was claimed; and the result that is left is    *)
(* the result of that opening.  Nothing promises that any of the steps is  *)
(* taken: a claim that was made and not used stays.                        *)
(***************************************************************************)
EXTENDS Naturals

CONSTANTS
    Choices,            \* what may be tested
    None

VARIABLES
    claimed,            \* what the claim settles, or None
    openings,           \* how often the data were opened
    tested,             \* what they were opened for, or None
    result              \* what the result that was left is a result of, or None

vars == <<claimed, openings, tested, result>>

Init ==
    /\ claimed = None
    /\ openings = 0
    /\ tested = None
    /\ result = None

Claim(c) ==
    /\ claimed = None
    /\ claimed' = c
    /\ UNCHANGED <<openings, tested, result>>

Open ==
    /\ claimed # None /\ openings = 0
    /\ openings' = 1
    /\ tested' = claimed
    /\ UNCHANGED <<claimed, result>>

Leave ==
    /\ openings = 1 /\ result = None
    /\ result' = tested
    /\ UNCHANGED <<claimed, openings, tested>>

Next == Open \/ Leave \/ \E c \in Choices : Claim(c)

Spec == Init /\ [][Next]_vars
=============================================================================
