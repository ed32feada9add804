--------------------------- MODULE MCPureFunctions ---------------------------
(* A head ends with two line ends, each of two bytes. *)
EXTENDS PureFunctions
BlankLine == <<1, 2, 1, 2>>
=============================================================================
