----------------------------- MODULE MCGuestSession -----------------------------
\* Two installations, d and e, that share one linked account; d can open two connections.
EXTENDS GuestSession

Alone(p)  == [first |-> p, all |-> {p}]
Online(p) == [first |-> "account", all |-> {"account", p}]
MCProofs  == [k \in Conns |-> IF k = "c" THEN {Alone("e"), Online("e")}
                              ELSE {Alone("d"), Online("d")}]

\* Any write may be lost; one may land and still report a failure, except a profile's.
MCMayFail == ({"profile", "index", "bans"} \X {"lost"}) \cup ({"index", "bans"} \X {"landed"})
AnyMayFail == {"profile", "index", "bans"} \X {"lost", "landed"}
=================================================================================
