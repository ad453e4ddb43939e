---------------------------- MODULE MCLoginCodes ----------------------------
(* Two pages that sign in to one account. *)
EXTENDS LoginCodes, TLC

LimitsMC ==
  [k \in {"request", "verify"} \X {"ip", "email"} |->
     (IF k[2] = "ip" THEN 3 ELSE 2) + (IF k[1] = "verify" THEN 1 ELSE 0)]

PageSymmetry == Permutations(Pages)

=============================================================================
