----------------------------- MODULE MCFulfilment -----------------------------
(* Small instances of Fulfilment for TLC.  Orders and lines are numbers,      *)
(* stores, variants and slots are model values.                               *)
EXTENDS Fulfilment, TLC

\* All lines in the same order, or each line in its own.
OneOrder == [l \in Lines |-> 1]
OwnOrders == [l \in Lines |-> l]

\* All lines of one variant, and the stock that every inventory starts with.
OneVariant == [l \in Lines |-> CHOOSE v \in Variants : TRUE]
StockOf1 == [i \in Inventories |-> 1]
StockOf2 == [i \in Inventories |-> 2]

\* Which slot a request runs in makes no difference.
SlotSymmetry == Permutations(Slots)
=============================================================================
