--------------------------- MODULE MCKanbanLedger ---------------------------
(***************************************************************************)
(* Instances of KanbanLedger for TLC.  Attempts are interchangeable, and   *)
(* so are payload digests and, when all or none can be restored, board     *)
(* generations; no property distinguishes them.                            *)
(***************************************************************************)
EXTENDS KanbanLedger, TLC

Symmetry == Permutations(Attempt) \cup Permutations(Gen) \cup Permutations(Payload)
=============================================================================
