------------------------------ MODULE MCParts ------------------------------
(* Small instances of the parts: MCParts.cfg gives the constants.          *)
EXTENDS Parts
=============================================================================
