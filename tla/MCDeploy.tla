------------------------------- MODULE MCDeploy -------------------------------
(* Two files, one of them the configuration, in two directories. *)
EXTENDS Deploy

CONSTANTS config, main, app, usr

MCFiles == {config, main}
MCDirOf == [f \in MCFiles |-> IF f = config THEN app ELSE usr]
MCEntries == <<config, main>>
==============================================================================
