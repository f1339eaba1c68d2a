------------------------ MODULE MCSellerPublication ------------------------
(* A small tenant: an editor who may also review, an operator;              *)
(* one reference, one object, and the patch bodies that make a revision      *)
(* incomplete, contradictory, or valid on either source.                     *)
EXTENDS SellerPublication, TLC

CONSTANTS ed, op, url, obj, old

MCRolesOf == ed :> {"SELLER_EDITOR", "SELLER_REVIEWER"}
             @@ op :> {"PLATFORM_OPERATOR"}

Body(full, agreed, retention) ==
  [filled |-> full, agreed |-> agreed,
   cites |-> (Retention :> retention) @@ (Summary :> {})]

MCBodies == {Body(TRUE, TRUE, {obj}), Body(TRUE, TRUE, {url}), Body(TRUE, FALSE, {obj})}

\* The handlers are interchangeable.
CallerSymmetry == Permutations(Callers)

MCScopes == [s \in Sources |-> IF s = obj THEN {{Retention}, Fields} ELSE {{Retention}}]
=============================================================================
