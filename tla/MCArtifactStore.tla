--------------------------- MODULE MCArtifactStore ---------------------------
(* Instances of ArtifactStore for TLC.                                      *)
EXTENDS ArtifactStore, TLC

\* Ids of artifacts, uploads and downloads are interchangeable.
Symmetry == Permutations(Artifact) \cup Permutations(Upload) \cup Permutations(User)
=============================================================================
