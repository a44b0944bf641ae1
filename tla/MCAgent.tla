------------------------------- MODULE MCAgent -------------------------------
(***************************************************************************)
(* Agent for TLC, with the sizes of the code: 4096 tokens, a prompt of 207 *)
(* bytes.  The inputs are short texts, texts that fill more than half of   *)
(* the window or do not fit at all, and a call of every tool that succeeds *)
(* and one that fails.                                                     *)
(***************************************************************************)
EXTENDS Agent

Key(word) == [word |-> word, padded |-> FALSE]
Text(len) == [kind |-> "text", len |-> len]
Tool(len, c) == [kind |-> "tool", len |-> len, call |-> c]
Calc(a, op, b) ==
    [tool |-> "calc", a |-> a, op |-> op, b |-> b]

MCInputs ==
    { Text(20), Text(9000), Text(16400),
      [kind |-> "context", len |-> 8], [kind |-> "help", len |-> 5],
      Tool(8000, [tool |-> "echo", text |-> "v"]),
      Tool(20, [tool |-> "unknown"]), Tool(20, [tool |-> "usage", name |-> "calc"]),
      Tool(20, Calc(1, "+", 2)), Tool(20, Calc(3, "+", 3)),
      Tool(20, [tool |-> "store", key |-> Key("k"), value |-> "v"]),
      Tool(20, [tool |-> "recall", key |-> Key("k")]) }
MCMinInt == -4
=============================================================================
