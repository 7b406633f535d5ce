--------------------------- MODULE MCBoardSessions ---------------------------
(* Instances of BoardSessions for TLC.                                      *)
EXTENDS BoardSessions, TLC

\* Sessions, SSH connections and calls are interchangeable, and so are ports.
Symmetry ==
  UNION {Permutations(S) : S \in {Session, Port, Conn, Call}}
=============================================================================
