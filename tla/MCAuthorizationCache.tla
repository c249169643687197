-------------------------- MODULE MCAuthorizationCache --------------------------
(***************************************************************************)
(* Instances of AuthorizationCache.  The user is cleared for u at first,   *)
(* then for u and c, and must not see what is marked for x.                *)
(***************************************************************************)
EXTENDS AuthorizationCache

CONSTANTS r1, r2, n1, n2, before, after, open, closed, marked, other

OneEach == [r \in Reqs |-> IF r = r1 THEN n1 ELSE n2]

MCKeys == {"clearance", "sar"}
Acm(clearance, sar) == [k \in MCKeys |-> IF k = "clearance" THEN clearance ELSE sar]
MCAcms == {open, closed, marked, other}
MCValuesOf ==
  [a \in MCAcms |-> CASE a = open -> Acm({"u"}, {}) [] a = closed -> Acm({"c"}, {})
                      [] a = marked -> Acm({"u"}, {"x"}) [] a = other -> Acm({"c"}, {"y"})]

Field(key, allowed, values) == [key |-> key, allowed |-> allowed, values |-> values]
Cleared(values) == {Field("clearance", TRUE, values), Field("sar", FALSE, {"x"})}
MCFieldsOf == [s \in {before, after} |-> Cleared(IF s = before THEN {"u"} ELSE {"u", "c"})]

(* The premise of AssociationIsSound, for the definitions of the instance. *)
ASSUME InstanceAgrees == PartsAgree
================================================================================
