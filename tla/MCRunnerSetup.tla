--------------------------- MODULE MCRunnerSetup ---------------------------
(* RunnerSetup over every input and every kind of runner.                  *)
EXTENDS RunnerSetup
AllConfigs == ConfigSpace
=============================================================================
