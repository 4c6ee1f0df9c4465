-------------------------- MODULE MCCommandClient ---------------------------
(* CommandClient on small instances: the streams that are more than a        *)
(* subscription, and an unknown command.                                     *)
EXTENDS CommandClient, TLC

Modes == <<"clashMode">>
LogThenUnknown == <<"log", "unknown">>

Symmetry == Permutations(Caller)
=============================================================================
