----------------------------- MODULE MCPlatform -----------------------------
(***************************************************************************)
(* One tab, which opens and closes at any time, two connections of LLDB    *)
(* and two servers.                                                        *)
(***************************************************************************)
EXTENDS Platform
=============================================================================
