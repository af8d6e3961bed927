---------------------------- MODULE MCRpcService ----------------------------
(* Small instances of RpcService for TLC. *)
EXTENDS RpcService

CONSTANTS c1

OneClient == {c1}
ThreeOrFour == 3..4

F(n, m, p) == [id |-> n, method |-> m, params |-> p]

\* Every method, with the parameters that make a difference to it.  Two ids, so
\* that a wrong or a missing response shows.
Requests ==
    {F(7, "send", "ok"), F(8, "send", "none"),
     F(7, "receipt", "ok"), F(8, "receipt", "odd"), F(8, "history", "odd"),
     F(7, "account", "bad"), F(8, "account", "ok"), F(7, "alias", "ok"),
     F(8, "messages", "odd"), F(7, "subscribe", "ok"),
     F(8, "unsubscribe", "ok"), F(7, "nodelist", "none"), F(8, "unknown", "ok")}
=============================================================================
