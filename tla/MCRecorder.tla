----------------------------- MODULE MCRecorder -----------------------------
(***************************************************************************)
(* Two proxy rows and one MCP row on channels of capacity 1: a channel can *)
(* be full, and a row of one channel can overtake a row of the other.      *)
(***************************************************************************)
EXTENDS Recorder

CONSTANTS a, b, c

MCKindOf == [r \in Rows |-> IF r = c THEN "mcp" ELSE "request"]
=============================================================================
