------------------------ MODULE MCAudienceAdmission ------------------------
(* Two voices and two comments, one of which is sent twice.                *)
EXTENDS AudienceAdmission

CONSTANTS v1, v2, c1, c2, c1again

MCSource == [r \in Requests |-> IF r \in {v1, v2} THEN "voice" ELSE "comment"]

MCCorrelation == [r \in Requests |-> IF r = c1again THEN c1 ELSE r]
=============================================================================
