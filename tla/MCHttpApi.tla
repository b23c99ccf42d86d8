----------------------------- MODULE MCHttpApi -----------------------------
(* The requests of the run of HttpApi. *)
EXTENDS HttpApi

CONSTANTS e1, e2, small, big

Ask(route, e, i, g) ==
    [route |-> route, authorized |-> TRUE, method |-> Method(route), body |-> "decoded",
     valid |-> TRUE, e |-> e, input |-> i, gen |-> g]

\* Well-formed requests about e1; other instances accept e2 too.
Business ==
    {Ask("accept", e1, small, 0), Ask("accept", e1, big, 0), Ask("event", e1, small, 0),
     Ask("retry", e1, small, 0)}

\* A request that fails each check, and the routes without an event.
Malformed ==
    {[Ask("event", e1, small, 0) EXCEPT !.authorized = FALSE],
     [Ask("retry", e1, small, 0) EXCEPT !.method = "GET"],
     [Ask("summary", e1, small, 0) EXCEPT !.valid = FALSE]}
    \cup {[Ask("accept", e1, small, 0) EXCEPT !.body = b] : b \in {"json_required", "undecodable"}}
    \cup {Ask(r, e1, small, 0) : r \in {"health", "ready", "metrics"}}

MCMenu == Business \cup Malformed
=============================================================================
