----------------------------- MODULE MC_Access -----------------------------
(* Two developers who want the same app name, two requests at a time.       *)
EXTENDS Access

CONSTANTS d1, d2, a1, f1, k1, t1, t2

AppOfAll == [x \in {f1, k1} |-> a1]
HolderOf == [t \in {t1, t2} |-> IF t = t1 THEN d1 ELSE d2]
\* One developer's token is good for everything, the other's for apps and lists.
ScopesOf == [t \in {t1, t2} |-> IF t = t1 THEN Scope
                                ELSE {"apps:write", "apps:read", "tokens:read"}]
Switches == {{}, {"providerKeys", "payouts"}}
=============================================================================
