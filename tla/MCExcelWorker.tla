--------------------------- MODULE MCExcelWorker ---------------------------
(* Small instance of ExcelWorker for TLC. *)
EXTENDS ExcelWorker, TLC

DocSymmetry == Permutations(Docs)
==============================================================================
