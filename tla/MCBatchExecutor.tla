--------------------------- MODULE MCBatchExecutor ---------------------------
(* BatchExecutorSpec for TLC: batches of one to four statements; the        *)
(* uninitialised counter starts at zero or at some other value.             *)
EXTENDS BatchExecutorSpec

MCUninitialised == {0, 7}
=============================================================================
