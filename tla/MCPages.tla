------------------------------ MODULE MCPages ------------------------------
(* The pages for TLC. *)
EXTENDS Pages

CONSTANTS alice, bob, pay1, pay2, dis1

(* The list pages alike, the balance, one payment, the Disputes page with  *)
(* the records of one of its two lists, its detail dialog.                 *)
MCViews ==
    {[first |-> {"owned"}, second |-> {"owned"}, moves |-> 2],
     [first |-> {"balance"}, second |-> {}, moves |-> 3],
     [first |-> {"payment"}, second |-> {}, moves |-> 3],
     [first |-> {"assigned", "detail"}, second |-> {"assigned", "detail"}, moves |-> 2],
     [first |-> {"assigned", "involved"}, second |-> {"involved"}, moves |-> 1]}

MCInvolves == [d \in {dis1} |-> pay1]
=============================================================================
