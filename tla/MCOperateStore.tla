---------------------------- MODULE MCOperateStore ----------------------------
(* Small instances of the Operate store for TLC. *)
EXTENDS OperateStore, TLC

CONSTANTS a, b, g1, g2, g3

MCClient == {a, b}
MCGeneration == {g1, g2, g3}

MCGenerationPair == {g1, g2}

\* The sessions are alike, and so are the uuids.
MCSymmetry == Permutations(MCClient) \union Permutations(MCGeneration)
MCPairSymmetry == Permutations(MCClient) \union Permutations(MCGenerationPair)
=============================================================================
