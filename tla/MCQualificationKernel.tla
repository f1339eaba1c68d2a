----------------------- MODULE MCQualificationKernel -----------------------
(***************************************************************************)
(* TLC instances of QualificationKernel: model values for the identities,  *)
(* and the symmetries between them.                                        *)
(***************************************************************************)
EXTENDS QualificationKernel, TLC

CONSTANT o1

\* Every mission belongs to the one organization.
MCOrgOf == [m \in Missions |-> o1]

\* Retrieval selects two products; with two in the catalog, both.
MCCandidateSets == {Products}

MCSymmetry ==
  Permutations(Products) \cup Permutations(Bundles) \cup Permutations(Owners)
    \cup Permutations(Actors) \cup Permutations(Fields)
=============================================================================
