----------------------------- MODULE MCSttPath -----------------------------
(***************************************************************************)
(* Instances of SttPath for TLC.                                           *)
(***************************************************************************)
EXTENDS SttPath

\* Both programs, both doors, both backends, a wrong URL, a missing key, a
\* provider nobody knows.
MCSetups ==
    { [entry |-> "hub", legacy |-> FALSE, provider |-> "local",   key |-> FALSE, routed |-> TRUE],
      [entry |-> "hub", legacy |-> FALSE, provider |-> "bailian", key |-> TRUE,  routed |-> FALSE],
      [entry |-> "mcp", legacy |-> TRUE,  provider |-> "bailian", key |-> TRUE,  routed |-> TRUE],
      [entry |-> "mcp", legacy |-> FALSE, provider |-> "bailian", key |-> FALSE, routed |-> TRUE],
      [entry |-> "mcp", legacy |-> FALSE, provider |-> "other",   key |-> FALSE, routed |-> TRUE] }

\* The Compose stack.
ComposeSetups ==
    { [entry |-> "mcp", legacy |-> TRUE, provider |-> "bailian", key |-> TRUE, routed |-> TRUE] }

MCRing == 0..4

Stt(from, to) == [door |-> "http", tool |-> "stt", body |-> "object", known |-> TRUE,
                  from |-> from, to |-> to]

\* A window as long as allowed, one that is too long, one turned round, one that
\* never ends and one without audio; and every other kind of query once.
MCQueries ==
    { Stt(1, 3), Stt(0, 3), Stt(2, 1), Stt(0, NaN), Stt(7, 8),
      [Stt(1, 3) EXCEPT !.door = "mcp"],
      [Stt(1, 3) EXCEPT !.tool = "audio"],
      [Stt(1, 3) EXCEPT !.body = "bad"],
      [Stt(1, 3) EXCEPT !.body = "unanswered"],
      [Stt(1, 3) EXCEPT !.known = FALSE, !.door = "mcp"] }
=============================================================================
