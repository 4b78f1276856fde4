--------------------------- MODULE PositionStore ---------------------------
(***************************************************************************)
(* PositionStoreV2 (zk-oms-rs/src/position_v2.rs) as operators on one       *)
(* managed position.  A key the HashMap lacks is NoPosition: all zero, and  *)
(* not known.  The code inserts a zeroed entry before it changes one, whose *)
(* side is the caller's; unfreeze() on a missing entry changes nothing.     *)
(*                                                                          *)
(* divergence_count is kept up to RECONCILE_PERSISTENT_THRESHOLD: the code  *)
(* only compares it with the threshold.                                     *)
(***************************************************************************)
EXTENDS Integers

RECONCILE_PERSISTENT_THRESHOLD == 3

ReconcileStatus == {"Unknown", "InSync", "DivergedTransient", "DivergedPersistent"}

Position == [known : BOOLEAN, total : Int, avail : Int, frozen : Int, short : BOOLEAN,
             synced : BOOLEAN, rec : ReconcileStatus,
             div : 0 .. RECONCILE_PERSISTENT_THRESHOLD]

NoPosition == [known |-> FALSE, total |-> 0, avail |-> 0, frozen |-> 0, short |-> FALSE,
               synced |-> FALSE, rec |-> "Unknown", div |-> 0]

Abs(n) == IF n < 0 THEN -n ELSE n

Smaller(a, b) == IF a <= b THEN a ELSE b

Larger(a, b) == IF a >= b THEN a ELSE b

(* A check against the whole position, frozen part included.                *)
CanFreezeTotal(p, q) == p.total >= q

(* check_and_freeze(): the check, and the move from available to frozen.    *)
CanFreeze(p, q) == p.avail >= q

Freeze(p, q) == [p EXCEPT !.known = TRUE, !.avail = @ - q, !.frozen = @ + q]

(* unfreeze(): never gives back more than is frozen.                        *)
Unfreeze(p, q) ==
    LET release == Smaller(q, p.frozen)
    IN  [p EXCEPT !.frozen = @ - release, !.avail = @ + release]

(* apply_delta(): total moves, frozen is floored at 0, available is capped  *)
(* by total, and a total below zero flips the side.  short is the side of   *)
(* an entry this fill creates.                                              *)
ApplyDelta(p, short, availChange, frozenChange, totalChange) ==
    LET total  == p.total + totalChange
        frozen == Larger(p.frozen + frozenChange, 0)
        avail  == Smaller(p.avail + availChange, total)
        side   == IF p.known THEN p.short ELSE short
        q      == [p EXCEPT !.known = TRUE, !.frozen = frozen]
    IN  IF total < 0
        THEN [q EXCEPT !.total = Abs(total), !.avail = Abs(avail), !.short = ~ side]
        ELSE [q EXCEPT !.total = total, !.avail = avail, !.short = side]

(* The position part of one fill in process_report_for_order(): a sell      *)
(* draws on the frozen quantity only when the order was balance-checked.    *)
ApplyFill(p, buy, balanceCheck, f) ==
    IF f <= 0
    THEN p
    ELSE IF buy
         THEN ApplyDelta(p, FALSE, f, 0, f)
         ELSE ApplyDelta(p, TRUE, 0, IF balanceCheck THEN -f ELSE 0, -f)

(* The first exchange sync seeds the managed position; later ones leave it. *)
Seed(p, qty, avail, short) ==
    IF p.synced
    THEN p
    ELSE [p EXCEPT !.known = TRUE, !.total = qty, !.avail = avail, !.frozen = qty - avail,
                   !.short = short, !.synced = TRUE]

(* update_reconcile_status()                                                *)
UpdateReconcileStatus(p, exchQty) ==
    IF p.total = exchQty
    THEN [p EXCEPT !.rec = "InSync", !.div = 0]
    ELSE IF p.rec \in {"InSync", "Unknown"}
         THEN [p EXCEPT !.rec = "DivergedTransient", !.div = 1]
         ELSE LET n == Smaller(p.div + 1, RECONCILE_PERSISTENT_THRESHOLD)
              IN  [p EXCEPT !.div = n,
                            !.rec = IF n >= RECONCILE_PERSISTENT_THRESHOLD
                                    THEN "DivergedPersistent" ELSE @]
=============================================================================
