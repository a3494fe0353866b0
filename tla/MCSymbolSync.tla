---------------------------- MODULE MCSymbolSync -----------------------------
(* Detector errors for checking SymbolSync: a tick early, late, or none.   *)
EXTENDS SymbolSync

EarlyOrLate == {-1, 1}
=============================================================================
