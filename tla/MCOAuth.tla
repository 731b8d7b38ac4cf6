------------------------------- MODULE MCOAuth -------------------------------
(* One MCP server: of another provider it meets the ports that are taken and    *)
(* the browser's pages sent to the wrong port, which pages of its own past flows *)
(* are too.                                                                     *)
EXTENDS OAuth
CONSTANTS a
=============================================================================
