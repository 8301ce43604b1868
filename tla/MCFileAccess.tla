---------------------------- MODULE MCFileAccess ----------------------------
(* FileAccess with times and attributes at the borders of what is accepted.  *)
EXTENDS FileAccess

MCTimes    == {0, Epoch - 1, Epoch, Epoch + Ticks + 1, MaxTime, MaxTime + 1}
MCAttempts == {{}, {"normal"}, {"readonly"}, {"readonly", "archive"}, {"readonly", "hidden"}, Keep}
=============================================================================
