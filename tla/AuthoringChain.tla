--------------------------- MODULE AuthoringChain ---------------------------
(***************************************************************************)
(* What a durable authoring job promises, with no files, locks or crashes: *)
(* ONE chain of attempts.  The proposer is started for the next attempt    *)
(* only when the one before it has asked for a repair and the budget is    *)
(* not spent; an attempt that was started and never came back is not       *)
(* started again; and every caller that is answered is given the same      *)
(* finished chain.                                                         *)
(***************************************************************************)
EXTENDS Integers, Sequences

CONSTANTS
    Callers,
    MaxAttempts,        \* the attempt budget
    None

VARIABLES
    chain,              \* the attempts that came back, in order
    running,            \* one more was started
    answer              \* answer[p]: the chain p was last given, or None

chainVars == <<chain, running, answer>>

Terminal(status) == status \in {"candidate", "rejected"}

(* The chain may be continued. *)
Open == /\ Len(chain) < MaxAttempts
        /\ chain # << >> => ~Terminal(chain[Len(chain)].status)

Finished == chain # << >> /\ Terminal(chain[Len(chain)].status)

ChainInit ==
    /\ chain = << >>
    /\ running = FALSE
    /\ answer = [p \in Callers |-> None]

StartAttempt ==
    /\ Open
    /\ ~running
    /\ running' = TRUE
    /\ UNCHANGED <<chain, answer>>

(* Only a candidate, or the last attempt of the budget, ends the chain. *)
EndAttempt ==
    /\ running
    /\ running' = FALSE
    /\ \E status \in {"candidate", "repair_requested", "rejected"} :
          /\ status = "repair_requested" => Len(chain) + 1 < MaxAttempts
          /\ status = "rejected" => Len(chain) + 1 = MaxAttempts
          /\ chain' = Append(chain, [run |-> Len(chain) + 1, status |-> status])
    /\ UNCHANGED answer

Answer(p) ==
    /\ Finished
    /\ answer' = [answer EXCEPT ![p] = chain]
    /\ UNCHANGED <<chain, running>>

ChainNext == StartAttempt \/ EndAttempt \/ \E p \in Callers : Answer(p)

ChainSpec == ChainInit /\ [][ChainNext]_chainVars
=============================================================================
