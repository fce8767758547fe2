----------------------------- MODULE MCServices -----------------------------
(* A dashboard with its token in a header and a client that drips.          *)
EXTENDS Services

Asks(m, t, k, e) == [method |-> m, target |-> t, token |-> k, terminates |-> e]
MCSpans == <<0, 1, 2>>
MCRequests ==
  [c \in Clients |-> IF c = "dash" THEN Asks("GET", "summary", "header", TRUE)
                    ELSE Asks("GET", "health", "none", FALSE)]
=============================================================================
