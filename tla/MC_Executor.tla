---------------------------- MODULE MC_Executor ----------------------------
(* Reports of one incident: one that mutates by kubectl, one that mutates  *)
(* by another command behind the 200 characters the keys are cut to, so    *)
(* that both have one key, one that only looks, and one never validated.   *)
EXTENDS Executor, TLC

CONSTANTS scale, rescale, look, forged  \* the reports

MCReports == {scale, rescale, look, forged}
MCValidated == {scale, rescale, look}
MCRisks == scale :> <<"read-only", "mutating">> @@ rescale :> <<"read-only", "mutating">>
             @@ look :> <<"read-only">> @@ forged :> <<"mutating">>
MCUnpreviewed == scale :> {} @@ rescale :> {2} @@ look :> {} @@ forged :> {1}
MCKeyOf == [r \in MCReports |-> IF r = rescale THEN scale ELSE r]

Symmetric == Permutations(Threads)
=============================================================================
