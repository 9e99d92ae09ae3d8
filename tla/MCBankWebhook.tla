--------------------------- MODULE MCBankWebhook ----------------------------
(* BankWebhook on small instances: three bookings on one account, the second
   a payroll run that touches another account as well and pays two people from
   the first. *)
EXTENDS BankWebhook, TLC

CONSTANTS c1, c2, a1, a2, m1, m2, m3, m4, m5, d1, d2

MCReported ==
  [e \in Events |->
     CASE e = 1 -> (a1 :> {m1} @@ a2 :> {})
       [] e = 2 -> (a1 :> {m2, m3} @@ a2 :> {m4})
       [] e = 3 -> (a1 :> {m5} @@ a2 :> {})]

MCReportedOneAccount ==
  [e \in Events |-> (a1 :> (CASE e = 1 -> {m1} [] e = 2 -> {m2, m3} [] e = 3 -> {m5}))]

MCBookedAt == m1 :> 1 @@ m2 :> 2 @@ m3 :> 3 @@ m4 :> 3 @@ m5 :> 4

MCSymmetry == Permutations({d1, d2})
=============================================================================
