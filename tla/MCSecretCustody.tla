-------------------------- MODULE MCSecretCustody ---------------------------
(* Small instances of SecretCustody.                                       *)
EXTENDS SecretCustody

CONSTANTS i1, i2, k0, k1, k2

Req(op, sel, intent, corr) == [op |-> op, sel |-> sel, intent |-> intent, corr |-> corr]

AllRequests ==
    {Req("store", 0, i1, k1), Req("legacy", 0, i1, k2), Req("generate", 0, i1, k1),
     Req("revoke", 0, i1, k1), Req("revoke_version", 1, i1, k1),
     Req("resolve", 0, i1, k1), Req("resolve", 1, i1, k1), Req("resolve", 1, i2, k1),
     Req("metadata", 1, i1, k1), Req("policy", 0, i1, k1), Req("policy", 0, i1, k2),
     Req("policy_read", 0, i1, k1)}

Old(status) == [status |-> status, intent |-> i1, corr |-> k0, by |-> NoRequest]

NoneOrTwo == {<<>>, <<Old("active")>>, <<Old("revoked"), Old("active")>>}
=============================================================================
