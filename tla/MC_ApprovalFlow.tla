-------------------------- MODULE MC_ApprovalFlow --------------------------
(* Small instances of ApprovalFlow; the .cfg files choose the constants.   *)
EXTENDS ApprovalFlow, TLC

\* Worker threads are interchangeable, and so are the request ids uuid4
\* draws; safety runs use both symmetries.
Symmetric == Permutations(Requests) \cup Permutations(Workers)
=============================================================================
