----------------------------- MODULE MCSessions -----------------------------
(***************************************************************************)
(* Two threads at most, four payloads in two or three sessions, and a      *)
(* server that completes, refuses, streams, babbles or goes away.          *)
(***************************************************************************)
EXTENDS Sessions

Reply200(pieces, stream) ==
    [code |-> 200, stream |-> stream, pieces |-> pieces, end |-> "complete"]
MCAnswers ==
    {Reply200(<<"{choices:", "message}">>, FALSE),
     Reply200(<<"data", "[DONE]">>, TRUE),
     [code |-> 500, stream |-> FALSE, pieces |-> <<>>, end |-> "complete"]}

MCData == <<[session |-> "a", messages |-> 1], [session |-> "b",
            messages |-> 2], [session |-> "a", messages |-> 1],
            [session |-> "c", messages |-> 1]>>

MCFlaws == {[malformed |-> {}, undelayed |-> {3, 4}],
            [malformed |-> {3}, undelayed |-> {}],
            [malformed |-> {}, undelayed |-> {1}]}

=============================================================================
