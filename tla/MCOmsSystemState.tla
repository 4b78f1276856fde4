------------------------- MODULE MCOmsSystemState -------------------------
(* A gateway that reports order states only, first reliable, with a cancel  *)
(* per order, then one whose answers are ambiguous and whose feedback is    *)
(* lost.                                                                    *)
EXTENDS MCOmsSystem

VARIABLE part      \* which of the two instances runs

Faulty == INSTANCE OmsSystem WITH MaxCancels <- 0, Ambiguous <- TRUE, LossyFeedback <- TRUE

StateInit == part \in {"reliable", "faulty"} /\ SysInit

StateNext ==
    /\ \/ part = "reliable" /\ SysNext
       \/ part = "faulty" /\ Faulty!SysNext
    /\ UNCHANGED part

StateSpec == StateInit /\ [][StateNext]_<<part, sysVars>>

StateView == <<part, SysView>>
=============================================================================
