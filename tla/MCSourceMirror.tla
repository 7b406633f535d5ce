--------------------------- MODULE MCSourceMirror ---------------------------
(* Instances of SourceMirror for TLC: two versions that share a file, and    *)
(* have one file each of their own.                                          *)
EXTENDS SourceMirror

CONSTANTS v1, v2, common, old, new
TwoVersions == [v \in {v1, v2} |-> IF v = v1 THEN {common, old} ELSE {common, new}]
=============================================================================
