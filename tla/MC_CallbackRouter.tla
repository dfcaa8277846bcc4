------------------------- MODULE MC_CallbackRouter -------------------------
(* Updates 1 to MaxUpdates; the second is an ordinary message, the others   *)
(* answer one request.                                                     *)
EXTENDS CallbackRouter

MCCallbacks == 1..MaxUpdates \ {2}
MCVerb == [u \in MCCallbacks |-> IF u = 1 THEN "approve" ELSE IF u = 3 THEN "reject" ELSE "other"]
MCRequestId == [u \in MCCallbacks |-> "apr-1"]
MCReason == [u \in MCCallbacks |-> "reason"]
=============================================================================
