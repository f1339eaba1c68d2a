------------------------- MODULE MCPurchaseWorkflow -------------------------
(* Values of the constants of PurchaseWorkflow for model checking. *)
EXTENDS PurchaseWorkflow, TLC

CONSTANTS p1, p2, ann, bob, finance, legal

\* Another weight, the same best plan; the free plan p2 can only be selected.
MCBestPlan == (1 :> p1) @@ (2 :> p1)
MCRolesOf  == (ann :> {finance, legal}) @@ (bob :> {legal})
MCRoleSeq  == <<finance, legal>>
=============================================================================
