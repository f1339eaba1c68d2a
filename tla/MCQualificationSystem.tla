----------------------- MODULE MCQualificationSystem -----------------------
(***************************************************************************)
(* TLC instances of QualificationSystem.                                   *)
(***************************************************************************)
EXTENDS QualificationSystem, SequencesExt

CONSTANT o1

\* Every mission belongs to the one organization.
MCOrgOf == [m \in Missions |-> o1]

\* Retrieval always selects the whole (one product) catalog.
MCCandidateSets == {Products}

\* The organizations in id order.
MCOrgSeq == <<o1>>

\* Any order of the bundles will do.
MCBundleSeq == SetToSeq(Bundles)

MCSymmetry == Permutations(Owners)
=============================================================================
