------------------------- MODULE MCDetectorRegistry -------------------------
(* A small registry: three built-ins, the middle one running user code     *)
(* that registers, a client entry prepended under the name of a built-in,  *)
(* and another inserted before that name.                                  *)
EXTENDS DetectorRegistry

CONSTANTS b1, b2, b3, c1, c2, c3, nextjs, hono, node, mine, other, missing

MCEntries == {b1, b2, b3, c1, c2, c3}
MCNameOf == (b1 :> nextjs @@ b2 :> hono @@ b3 :> node @@
             c1 :> node @@ c2 :> other @@ c3 :> mine)
MCBuiltin == <<b1, b2, b3>>

Plain(e) == [entry |-> e, before |-> NoName]
Ahead(e, n) == [entry |-> e, before |-> n]

MCReentrant == {b2}

Dir(hits, servable) == [config |-> "none", dockerfile |-> FALSE,
                        hits |-> hits, servable |-> servable]
Owned(config, dockerfile) == [config |-> config, dockerfile |-> dockerfile,
                              hits |-> {b1}, servable |-> FALSE]

\* A directory that is detected only once c2 is registered, and the other
\* ways DetectWithOptions can return.
MCDirs == {Dir({c2}, TRUE), Owned("ok", TRUE), Owned("bad", FALSE), Owned("none", TRUE)}

MCRequests == {Plain(c1), Ahead(c2, node)}
=============================================================================
