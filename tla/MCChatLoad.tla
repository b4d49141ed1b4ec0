----------------------------- MODULE MCChatLoad -----------------------------
(***************************************************************************)
(* Two requests kept at the server, three in all.  Answers: a plain one, a *)
(* stream, a stream with a piece after its end, a stream that breaks off   *)
(* and a refusal.                                                          *)
(***************************************************************************)
EXTENDS ChatLoad

Stream(pieces, end) ==
    [code |-> 200, stream |-> TRUE, pieces |-> pieces, end |-> end]
Plain == [code |-> 200, stream |-> FALSE, pieces |-> <<"{choices:",
          "message}">>, end |-> "complete"]
Refusal == [code |-> 500, stream |-> FALSE, pieces |-> <<>>,
            end |-> "complete"]

AnyAnswers == {Plain, Stream(<<"data", "[DONE]">>, "complete"),
               Stream(<<"data", "[DONE]", "rest">>, "complete"),
               Stream(<<"data">>, "timeout"), Refusal}
TidyAnswers == {Stream(<<"data", "data", "[DONE]">>, "complete"), Refusal}

=============================================================================
