---------------------------- MODULE MCWritePump -----------------------------
(* Small instances of the write pump.  Two commands for one option give    *)
(* messages that differ, so that a reordering shows.                       *)
EXTENDS WritePump

MCCommands == {"WONT", "DONT"}
MCOptions == {"NAWS"}
=============================================================================
