-------------------------- MODULE MCArtifactStore --------------------------
(***************************************************************************)
(* Store keys of each retention behaviour, two contents, two writers.      *)
(***************************************************************************)
EXTENDS ArtifactStore, TLC

CONSTANTS hotKey, stagingKey, releaseKey

MCClass == [k \in Keys |-> CASE k = hotKey     -> "hot"
                             [] k = stagingKey -> "staging"
                             [] k = releaseKey -> "protected"]

\* The writers are alike: no constant and no property tells them apart.
WriterSymmetry == Permutations(Writers)
=============================================================================
