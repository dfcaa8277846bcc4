------------------------- MODULE MC_RemediationFlow -------------------------
(* The daemon with the two requests of one report; see Remediation.cfg.    *)
EXTENDS RemediationFlow

CONSTANTS r1, r2
MCRequests == {r1, r2}
=============================================================================
