--------------------------- MODULE MCDesignOrders ---------------------------
(***************************************************************************)
(* TLC instances of DesignOrders.                                          *)
(***************************************************************************)
EXTENDS DesignOrders, TLC

\* One product in stock twice.  A first revision takes one piece, a second one
\* takes more than there is.
OneProduct == {"amethyst"}
TwoPieces == [p \in OneProduct |-> 2]
SmallBill ==
  [d \in Design |-> [r \in 1..MaxRevision |-> [p \in OneProduct |->
     IF r = 1 THEN 1 ELSE 3]]]

Symmetry == Permutations(Design) \cup Permutations(Client) \cup Permutations(Fingerprint)

=============================================================================
