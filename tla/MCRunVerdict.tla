---------------------------- MODULE MCRunVerdict ----------------------------
(* Inputs for RunVerdict: every mode, every spelling of fail-on-block, and *)
(* every other input with each of its values, in six workflows.            *)
EXTENDS RunVerdict

Default == [mode |-> "enforce", failOn |-> "true", failFast |-> FALSE,
            canary |-> "true", intercept |-> TRUE, cache |-> FALSE,
            upload |-> TRUE]

MCInputs ==
  {Default,
   [Default EXCEPT !.mode = "", !.canary = "false", !.cache = TRUE],
   [Default EXCEPT !.mode = "strict"],
   [Default EXCEPT !.failOn = "false", !.canary = "warn"],
   [Default EXCEPT !.failOn = "CAPITAL", !.failFast = TRUE],
   [Default EXCEPT !.intercept = FALSE, !.upload = FALSE]}
=============================================================================
