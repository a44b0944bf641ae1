---------------------------- MODULE MCTestRunner ----------------------------
(***************************************************************************)
(* TestRunner for TLC: two kernels with the same or with different file    *)
(* names, with tests that return, panic or loop, and manifests of every    *)
(* kind of entry.                                                          *)
(***************************************************************************)
EXTENDS TestRunner, TLC

CONSTANTS p, q, missing, unset

MCPaths == {p, q}
MCFileNames == {(p :> "llm-os" @@ q :> "llm-os"), (p :> "llm-os" @@ q :> "llm_os-test")}

MCBinaries ==
    {[text |-> TRUE, tests |-> <<"returns", "returns">>],
     [text |-> TRUE, tests |-> <<"returns", "panics">>],
     [text |-> TRUE, tests |-> <<"loops">>],
     [text |-> FALSE, tests |-> <<>>]}

Text(n) == [type |-> "String", num |-> n]
Number(n) == [type |-> "Integer", num |-> n]

MCManifests ==
    {[valid |-> FALSE, table |-> <<>>]} \cup
    {[valid |-> TRUE, table |-> t] : t \in
        {<<>>,
         "boot-info-address" :> Text(8) @@ "kernel-stack-size" :> Number(4),
         "physical-memory-offset" :> Text(6),
         "kernel-stack-size" :> Number(0)}}
=============================================================================
