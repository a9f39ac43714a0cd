------------------------------ MODULE BlockFeed ------------------------------
(***************************************************************************)
(* What the block scanner promises its user: the blocks after a first      *)
(* number are gone through in order, one at a time and without a gap; the  *)
(* transactions of the current one are dealt with in any order and         *)
(* possibly again and again, but the feed moves on only when all of some   *)
(* block of that height are, and it never comes back.                      *)
(***************************************************************************)
EXTENDS Naturals

CONSTANTS First, Versions, TxsOf(_, _)

VARIABLES
    upto,  \* every block up to this number has been gone through
    seen   \* the transactions dealt with so far

vars == <<upto, seen>>

Init ==
    /\ upto = First
    /\ seen = {}

\* One transaction of the current block is dealt with.
Deliver ==
    /\ \E v \in Versions : \E t \in TxsOf(upto + 1, v) : seen' = seen \cup {t}
    /\ UNCHANGED upto

\* All transactions of the current block have been dealt with.
Advance ==
    /\ \E v \in Versions : TxsOf(upto + 1, v) \subseteq seen
    /\ upto' = upto + 1
    /\ UNCHANGED seen

Next == Deliver \/ Advance

Spec == Init /\ [][Next]_vars
=============================================================================
