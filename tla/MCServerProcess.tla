--------------------------- MODULE MCServerProcess ---------------------------
(* ServerProcess with two overlapping starts, one stop and two runs.        *)
EXTENDS ServerProcess
==============================================================================
