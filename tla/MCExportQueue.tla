--------------------------- MODULE MCExportQueue ---------------------------
(* Instances of ExportQueue for TLC. *)
EXTENDS ExportQueue, TLC

\* Workers are interchangeable: ids are random UUIDs and nothing compares them.
\* Used without temporal properties only.
Symmetry == Permutations(Workers)
=============================================================================
