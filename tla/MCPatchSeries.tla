---------------------------- MODULE MCPatchSeries ----------------------------
EXTENDS PatchSeries

CONSTANTS a, b, c

MCRegions == {a, b, c}

(* every patch that changes something it expects to find *)
MCPatches == {p \in Patch : p.writes # {} /\ p.writes \subseteq p.scope}

(* every series of three patches; a missing series directory is no patch    *)
MCAllSeries == {<<>>} \union [1 .. 3 -> MCPatches]

(* 0117 and 0118 of the series both change the import block of              *)
(* vllm/triton_utils/__init__.py; a third patch changes a file of its own.  *)
MCTritonUtils ==
    {<< [scope |-> {a}, writes |-> {a}],
        [scope |-> {a}, writes |-> {a}],
        [scope |-> {b, c}, writes |-> {b, c}] >>}
=============================================================================
