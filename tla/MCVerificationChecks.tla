------------------------ MODULE MCVerificationChecks ------------------------
(* Instances of VerificationChecks for TLC.                                *)
EXTENDS VerificationChecks

(* WaitForHealthy probes only runtime-private endpoints.                   *)
MCChecks == {c \in Check : /\ c.kind = "probe" => c.context = "runtime-private" /\ c.trusted /\ ~c.reference
                           /\ c.kind # "postgres" => c.admitted}
=============================================================================
