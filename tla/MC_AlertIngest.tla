--------------------------- MODULE MC_AlertIngest ---------------------------
(* Two notifications that overlap: f1 and f2 firing, and f2 resolved.  With   *)
(* one failure and one crash they make at most eight calls.                  *)
EXTENDS AlertIngest, TLC

CONSTANTS n1, n2, f1, f2

On(f) == [fp |-> f, status |-> "firing"]
Off(f) == [fp |-> f, status |-> "resolved"]

MCNotifications == {n1, n2}
MCFingerprints == {f1, f2}
MCAlerts == n1 :> <<On(f1), On(f2)>> @@ n2 :> <<Off(f2)>>
=============================================================================
