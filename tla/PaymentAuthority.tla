-------------------------- MODULE PaymentAuthority --------------------------
(***************************************************************************)
(* What the staged approval and the payment handoff promise together: for  *)
(* each thing that can be bought, the authority to pay is granted at most  *)
(* once, is spent at most once and only while it stands, and does not come *)
(* back after it was withdrawn or spent.  PurchaseWorkflow and            *)
(* BilateralExchange implement it.                                         *)
(***************************************************************************)
CONSTANT Items

VARIABLE grant

Init == grant = [i \in Items |-> "none"]

\* The last required role approved.
Give(i) == grant[i] = "none" /\ grant' = [grant EXCEPT ![i] = "granted"]

\* A human took the payment step.
Spend(i) == grant[i] = "granted" /\ grant' = [grant EXCEPT ![i] = "spent"]

\* Rejected, revoked, expired, or superseded together with others.
Withdraw(S) ==
  /\ \A i \in S : grant[i] \in {"none", "granted"}
  /\ grant' = [i \in Items |-> IF i \in S THEN "withdrawn" ELSE grant[i]]

Next ==
  \/ \E i \in Items : Give(i) \/ Spend(i)
  \/ \E S \in SUBSET Items : Withdraw(S)

Spec == Init /\ [][Next]_grant
=============================================================================
