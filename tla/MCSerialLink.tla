---------------------------- MODULE MCSerialLink ----------------------------
(***************************************************************************)
(* Two frames for SerialLink, of one op code.  Each byte of the first that *)
(* is not the last is its op code, its length and its payload at once: a   *)
(* parser that lost a byte may take any of them for the beginning of a     *)
(* frame.  This one may be sent at any time; the other one, which cannot   *)
(* be taken for more than its beginning, keeps coming.                     *)
(***************************************************************************)
EXTENDS SerialLink

MCFrames ==
  { [op |-> 1, data |-> << 1 >>, crc |-> 9],
    [op |-> 1, data |-> << 9 >>, crc |-> 9] }

MCPeriodic == { [op |-> 1, data |-> << 9 >>, crc |-> 9] }
=============================================================================
