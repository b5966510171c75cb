------------------------- MODULE MCHistoryRecovery -------------------------
(* One device shares its history, another one recovers it; and the checks  *)
(* of ProtectedFile, which keeps its outbox and its history.               *)
EXTENDS HistoryRecovery, ProtectedFileChecks
=============================================================================
