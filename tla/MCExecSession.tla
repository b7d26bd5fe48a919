--------------------------- MODULE MCExecSession ---------------------------
(* Model-checking instance of ExecSession: every combination of options.   *)
EXTENDS ExecSession

MCOptions == OptionType
=============================================================================
