---------------------------- MODULE MCSciIngest ----------------------------
(* SciIngest on a small instance.                                           *)
EXTENDS SciIngest, TLC

CONSTANTS p1, p2, m1, m2, a, b

\* Each dated edition restates the older month or adds the newer one; the
\* undated file disagrees with all of them.
MCContent ==
  [e \in Edition |->
     [per \in Period |->
        CASE e = 0 -> IF per = m1 THEN b ELSE Nil
          [] e = 1 -> IF per = m1 THEN a ELSE Nil
          [] e = 2 -> IF per = m1 THEN b ELSE a
          [] OTHER -> IF per = m1 THEN a ELSE b]]

MCMonthEnd == [per \in Period |-> IF per = m1 THEN 1 ELSE 2]

=============================================================================
