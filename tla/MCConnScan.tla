----------------------------- MODULE MCConnScan -----------------------------
(* ConnScan on a small instance for TLC: a group and its subgroup, which    *)
(* share a repository, on each product.                                     *)
EXTENDS ConnScan

MCOwners == <<"group", "subgroup">>
MCRepos == <<"a", "b">>
MCOwnedBy == [o \in ToSet(MCOwners) |-> IF o = "group" THEN {"a", "b"} ELSE {"b"}]

Env(product, security, excluded, forks, late) ==
    [product |-> product, security |-> security, excluded |-> excluded, forks |-> forks, late |-> late]

MCEnvs == {
    Env("github", TRUE, {}, {"b"}, {}),
    Env("github", FALSE, {"a"}, {}, {}),
    Env("plain", FALSE, {}, {}, {}),
    Env("gitlab", FALSE, {}, {}, {}),
    Env("gitlab", FALSE, {}, {}, {"b"})}

Ways(marks) == {<<"last">>, <<"more", "last">>, <<"capped", "last">>, <<"more", "more", "last">>}
    \cup {<<m>> : m \in marks} \cup {<<"more", m>> : m \in marks}

MCRepoPages == Ways({"cut"})
MCItemPages == Ways({"partial", "cut"} \cup Errors)
MCRunPages == Ways({"cut"} \cup Errors)
=============================================================================
