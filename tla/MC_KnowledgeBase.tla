-------------------------- MODULE MC_KnowledgeBase --------------------------
(* Two runbooks with the same stem, which is an incident's id as well.      *)
EXTENDS KnowledgeBase, TLC

CONSTANT i1

MCRunbookFiles == <<"i1.md", "i1.yml">>
MCStemOf == "i1.md" :> i1 @@ "i1.yml" :> i1
MCIncidents == {i1}

Symmetric == Permutations(Threads) \cup Permutations(Texts)
=============================================================================
