-------------------------- MODULE MCServerEndpoint --------------------------
(* Two tasks per poll and three arrivals, so that a poll leaves a task behind; *)
(* every kind of message, and requests that succeed, fail and are too long.   *)
EXTENDS ServerEndpoint

MCOffers ==
    {<<"request", tag>> : tag \in {"plain", "fails", "huge"}}
        \cup {<<kind, "plain">> : kind \in {"event", "stream", "open", "close"}}
=============================================================================
