------------------------- MODULE MCCredentialState -------------------------
(* Instances of CredentialState for TLC: which results requests report.    *)
EXTENDS CredentialState

CONSTANTS m1, m2

Of(class, m) == [class |-> class, model |-> m, retryAfter |-> 0, scope |-> FALSE, forced |-> FALSE]
QuotaFor(m, after, scope) == [class |-> "quota", model |-> m, retryAfter |-> after, scope |-> scope, forced |-> FALSE]

(* Every class of result, and quota windows of a model, of the credential,  *)
(* and with a Retry-After; every 429 names its model.                       *)
EveryClass ==
    {Of(c, m) : c \in {"success", "challenge", "invalidkey", "notfound", "transient", "denied", "unauthorized", "requestfault"},
                m \in {m1, NoModel}}
    \cup {Of("unsupported", m1), Of("invalidkey", m2), Of("unauthorized", m2),
          QuotaFor(m1, 0, FALSE), QuotaFor(m2, 0, TRUE), QuotaFor(m1, 3, TRUE)}
LivenessResults == {Of("quota", m1), Of("invalidkey", m2), Of("unauthorized", m1), Of("notfound", NoModel), Of("quota", NoModel),
                    [Of("transient", m1) EXCEPT !.forced = TRUE]}
ResetResults == {Of("success", m2), Of("quota", m1)}
=============================================================================
