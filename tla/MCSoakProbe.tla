----------------------------- MODULE MCSoakProbe -----------------------------
(* Three commands, one of which is switched off.                           *)
EXTENDS SoakProbe

MCCommands == <<"qpy.runtime.status", "qpy.device.status", "qpy.tools.catalog">>
MCInterval == [c \in Range(MCCommands) |->
    CASE c = "qpy.runtime.status" -> 1 [] c = "qpy.tools.catalog" -> 2 [] OTHER -> 0]
===============================================================================
