----------------------------- MODULE ChatProofs -----------------------------
(***************************************************************************)
(* The two callers of the chat client.  For a context that calls it: its   *)
(* records and its counter of ongoing requests, for any number of          *)
(* requests, any concurrency and any answers the server may give, in any   *)
(* order of their pieces.  For session concurrency mode: that the record a *)
(* callback writes to is there, that every payload is recorded, and that   *)
(* the threads hold the conversations that SessionPool promises, for any   *)
(* payloads, sessions, flaws and answers, and any number of threads.       *)
(***************************************************************************)
EXTENDS ChatLoad, Sessions, FiniteSetTheorems, SequenceTheorems,
        NaturalsInduction, WellFoundedInduction, TLAPS

-----------------------------------------------------------------------------
(* The transfer of one request: h is its HttpRequest.                      *)

Given == {<<>>} \cup {<<a>> : a \in Answers}

\* What a caller's buffer holds: in ChatLoad a request, in Sessions a history.
Message == ({"user"} \X Nat \X Nat) \cup ({"assistant"} \X Nat)
Bodies == Seq(Nat) \cup Seq(Seq(Message))

HttpRequests ==
    [body : Bodies, sent : BOOLEAN, answer : Given, got : Nat,
     is_stream : BOOLEAN, response_buffer : Seq(STRING),
     final_response_sent : BOOLEAN]

Pieces(h) == h.answer[1].pieces

\* The pieces received so far that end the stream.
Ends(h) == {n \in 1 .. h.got : Pieces(h)[n] = "[DONE]"}

\* What has come is the beginning of the answer; a stream keeps nothing in
\* its buffer, and a plain answer all of it until it is handed over.
TransferOK(h) ==
    IF h.answer = <<>>
    THEN /\ h.got = 0 /\ h.response_buffer = <<>>
         /\ ~h.final_response_sent /\ ~h.is_stream
    ELSE /\ h.is_stream = h.answer[1].stream
         /\ h.got <= Len(Pieces(h))
         /\ h.is_stream => h.response_buffer = <<>>
         /\ ~h.is_stream /\ ~h.final_response_sent =>
              h.response_buffer = SubSeq(Pieces(h), 1, h.got)

\* A transfer that curl has not completed sent its final response only if
\* the stream said so.
RunningOK(h) == h.final_response_sent => h.is_stream /\ Ends(h) # {}

\* So far every transfer has gone as it should.
TransfersOK == /\ http \in [Requests -> HttpRequests]
               /\ \A r \in Requests : TransferOK(http[r])
               /\ \A r \in InTransit : RunningOK(http[r])

Made == 1 .. Len(sent)

ClientInv ==
    /\ load \in {"run", "count", "wait", "drain", "joined"}
    /\ exiting => load = "joined"
    /\ sent \in Seq(Requests) /\ \A i \in Made : sent[i] = i
    /\ InTransit \subseteq Made
    /\ new_async_requests \cap ongoing_async_requests = {}
    /\ http \in [Requests -> HttpRequests]
    /\ \A r \in Requests : TransferOK(http[r])
    /\ \A r \in Requests \ Made : ~Answered(r)
    /\ \A r \in InTransit : RunningOK(http[r])

\* What the curl thread does to the requests it knows.
LEMMA AnswerType ==
  ASSUME NEW h \in HttpRequests, h.answer # <<>>
  PROVE  /\ h.answer[1] \in Answers /\ h.answer[1] \in Answer
         /\ Pieces(h) \in Seq(STRING)
<1>1. PICK a \in Answers : h.answer = <<a>>
  BY DEF HttpRequests, Given
<1>2. a \in Answer
  BY ChatAssumption
<1> QED
  BY <1>1, <1>2 DEF Answer, Pieces

LEMMA HttpRequestIs ==
  ASSUME NEW body \in Bodies, NEW sent_ \in BOOLEAN, NEW answer \in Given,
         NEW got \in Nat, NEW stream \in BOOLEAN, NEW buffer \in Seq(STRING),
         NEW final \in BOOLEAN
  PROVE  [body |-> body, sent |-> sent_, answer |-> answer, got |-> got,
          is_stream |-> stream, response_buffer |-> buffer,
          final_response_sent |-> final] \in HttpRequests
BY DEF HttpRequests

LEMMA NewRequestOK ==
  ASSUME NEW body \in Bodies,
         NEW h, h = [HttpRequest EXCEPT !.body = body]
  PROVE  h \in HttpRequests /\ TransferOK(h) /\ RunningOK(h)
         /\ h.answer = <<>> /\ ~h.final_response_sent
<1>1. h = [body |-> body, sent |-> FALSE, answer |-> <<>>, got |-> 0,
           is_stream |-> FALSE, response_buffer |-> <<>>,
           final_response_sent |-> FALSE]
  BY DEF HttpRequest
<1>2. <<>> \in Seq(STRING)
  OBVIOUS
<1>3. <<>> \in Given
  BY DEF Given
<1>4. h \in HttpRequests
  <2>1. 0 \in Nat /\ FALSE \in BOOLEAN
    OBVIOUS
  <2>2. [body |-> body, sent |-> FALSE, answer |-> <<>>, got |-> 0,
         is_stream |-> FALSE, response_buffer |-> <<>>,
         final_response_sent |-> FALSE] \in HttpRequests
    BY <1>2, <1>3, <2>1, HttpRequestIs
  <2> QED
    BY <1>1, <2>2
<1> QED
  BY <1>1, <1>4 DEF TransferOK, RunningOK

\* RequestProvider.
LEMMA ProvidedOK ==
  ASSUME NEW h \in HttpRequests, TransferOK(h), RunningOK(h),
         h.answer = <<>>, NEW a \in Answers,
         NEW k, k = [h EXCEPT !.answer = <<a>>, !.sent = BodyRead(a),
                              !.is_stream = a.stream]
  PROVE  k \in HttpRequests /\ TransferOK(k) /\ RunningOK(k)
         /\ ~k.final_response_sent /\ k.answer = <<a>> /\ k.got = 0
<1>1. a \in Answer
  BY ChatAssumption
<1>2. a.stream \in BOOLEAN /\ a.pieces \in Seq(STRING)
  BY <1>1 DEF Answer
<1>3. BodyRead(a) \in BOOLEAN
  BY DEF BodyRead
<1>4. /\ k.answer = <<a>> /\ k.is_stream = a.stream /\ k.got = 0
      /\ k.response_buffer = <<>> /\ k.final_response_sent = FALSE
  BY DEF HttpRequests, TransferOK
<1>5. k \in HttpRequests
  <2>1. <<a>> \in Given
    BY DEF Given
  <2> QED
    BY <1>2, <1>3, <2>1 DEF HttpRequests
<1>6. SubSeq(a.pieces, 1, 0) = <<>> /\ Len(a.pieces) \in Nat
  BY <1>2, SubSeqEmpty
<1>7. k.answer # <<>> /\ k.answer[1] = a
  BY <1>4
<1>8. TransferOK(k)
  <2>1. Pieces(k) = a.pieces
    BY <1>7 DEF Pieces
  <2>2. k.got <= Len(Pieces(k)) /\ SubSeq(Pieces(k), 1, k.got) = <<>>
    BY <1>4, <1>6, <2>1
  <2> HIDE DEF Pieces
  <2> QED
    BY <1>4, <1>7, <2>2 DEF TransferOK
<1> QED
  BY <1>4, <1>5, <1>8 DEF RunningOK

LEMMA PrefixGrows ==
  ASSUME NEW S, NEW s \in Seq(S), NEW n \in Nat, n + 1 \in 1 .. Len(s)
  PROVE  SubSeq(s, 1, n + 1) = Append(SubSeq(s, 1, n), s[n + 1])
<1>1. CASE n = 0
  BY <1>1, SubSeqEmpty
<1>2. CASE n > 0
  BY <1>2
<1> QED
  BY <1>1, <1>2

\* ResponseHandler.
WithPiece(h, piece) ==
    [h EXCEPT
       !.got = @ + 1,
       !.response_buffer = IF h.is_stream THEN <<>> ELSE Append(@, piece),
       !.final_response_sent = IF h.is_stream THEN piece = "[DONE]" ELSE @]

LEMMA PieceOK ==
  ASSUME NEW h \in HttpRequests, TransferOK(h), RunningOK(h),
         h.answer # <<>>, h.got < Len(Pieces(h)),
         NEW piece, piece = Pieces(h)[h.got + 1],
         NEW k, k = WithPiece(h, piece)
  PROVE  /\ k \in HttpRequests /\ TransferOK(k) /\ RunningOK(k)
         /\ k.answer = h.answer /\ k.is_stream = h.is_stream
         /\ k.got = h.got + 1
         /\ k.final_response_sent =
              IF h.is_stream THEN piece = "[DONE]" ELSE h.final_response_sent
<1>1. Pieces(h) \in Seq(STRING)
  BY AnswerType
<1>2. h.got \in Nat /\ h.response_buffer \in Seq(STRING)
      /\ h.is_stream \in BOOLEAN /\ h.final_response_sent \in BOOLEAN
  BY DEF HttpRequests
<1>3. piece \in STRING
  BY <1>1, <1>2
<1>4. /\ k.answer = h.answer /\ k.is_stream = h.is_stream
      /\ k.got = h.got + 1
      /\ k.response_buffer = IF h.is_stream THEN <<>>
                             ELSE Append(h.response_buffer, piece)
      /\ k.final_response_sent =
           IF h.is_stream THEN piece = "[DONE]" ELSE h.final_response_sent
  BY DEF HttpRequests, WithPiece
<1>5. k \in HttpRequests
  <2>1. (IF h.is_stream THEN <<>> ELSE Append(h.response_buffer, piece))
            \in Seq(STRING)
    <3>1. Append(h.response_buffer, piece) \in Seq(STRING)
      BY <1>2, <1>3
    <3>2. <<>> \in Seq(STRING)
      BY EmptySeq
    <3> QED
      BY <3>1, <3>2
  <2>2. (IF h.is_stream THEN piece = "[DONE]" ELSE h.final_response_sent)
            \in BOOLEAN
    BY <1>2
  <2>3. h.got + 1 \in Nat
    BY <1>2
  <2> QED
    BY <2>1, <2>2, <2>3 DEF HttpRequests, WithPiece
<1>6. Pieces(k) = Pieces(h)
  BY <1>4 DEF Pieces
<1>7. SubSeq(Pieces(h), 1, h.got + 1)
        = Append(SubSeq(Pieces(h), 1, h.got), piece)
  <2>1. h.got + 1 \in 1 .. Len(Pieces(h))
    BY <1>1, <1>2
  <2> QED
    BY <1>1, <1>2, <2>1, PrefixGrows
<1>8. TransferOK(k)
  BY <1>2, <1>4, <1>6, <1>7 DEF TransferOK
<1>9. RunningOK(k)
  <2>1. CASE ~h.is_stream
    BY <2>1, <1>4 DEF RunningOK
  <2>2. CASE h.is_stream /\ piece # "[DONE]"
    BY <2>2, <1>4 DEF RunningOK
  <2>3. CASE h.is_stream /\ piece = "[DONE]"
    <3>1. k.got = h.got + 1 /\ Pieces(k)[k.got] = "[DONE]"
      BY <2>3, <1>4, <1>6
    <3>2. k.got \in 1 .. k.got
      BY <3>1, <1>2
    <3>3. k.got \in Ends(k)
      BY <3>1, <3>2 DEF Ends
    <3> QED
      BY <3>3, <2>3, <1>4 DEF RunningOK
  <2> QED
    BY <1>2, <2>1, <2>2, <2>3
<1> QED
  BY <1>4, <1>5, <1>8, <1>9

\* CompleteTransfer.
LEMMA CompletedOK ==
  ASSUME NEW h \in HttpRequests, TransferOK(h), h.answer # <<>>,
         NEW k, k = [h EXCEPT
           !.final_response_sent = TRUE,
           !.response_buffer = IF h.final_response_sent THEN @ ELSE <<>>]
  PROVE  /\ k \in HttpRequests /\ TransferOK(k)
         /\ k.answer = h.answer /\ k.is_stream = h.is_stream
         /\ k.got = h.got /\ k.final_response_sent
<1>1. /\ k.answer = h.answer /\ k.is_stream = h.is_stream
      /\ k.got = h.got /\ k.final_response_sent = TRUE
      /\ k.response_buffer = IF h.final_response_sent
                             THEN h.response_buffer ELSE <<>>
  BY DEF HttpRequests
<1>2. h.response_buffer \in Seq(STRING)
  BY DEF HttpRequests
<1>3. (IF h.final_response_sent THEN h.response_buffer ELSE <<>>)
        \in Seq(STRING)
  BY <1>2, EmptySeq
<1>4. k \in HttpRequests
  BY <1>3 DEF HttpRequests
<1>5. TransferOK(k)
  BY <1>1 DEF TransferOK, Pieces
<1> QED
  BY <1>1, <1>4, <1>5

-----------------------------------------------------------------------------
(* The client's part of the invariant.                                     *)

LEMMA ClientTransfers == ClientInv => TransfersOK
BY DEF ClientInv, TransfersOK

LEMMA ClientInit == Init => ClientInv
<1> SUFFICES ASSUME Init PROVE ClientInv
  OBVIOUS
<1> USE DEF Init, ChatInit
<1>1. sent = <<>> /\ Len(sent) = 0 /\ sent \in Seq(Requests) /\ Made = {}
  BY EmptySeq DEF Made
<1>2. HttpRequest = [HttpRequest EXCEPT !.body = <<>>]
  BY DEF HttpRequest
<1>3. <<>> \in Bodies
  BY EmptySeq DEF Bodies
<1>4. /\ HttpRequest \in HttpRequests /\ TransferOK(HttpRequest)
      /\ HttpRequest.answer = <<>>
  BY <1>2, <1>3, NewRequestOK
<1>5. InTransit = {}
  BY DEF InTransit
<1> QED
  BY <1>1, <1>4, <1>5 DEF ClientInv, Answered

\* A request is new to the client when it is sent.
LEMMA SendChanges ==
  ASSUME ClientInv, NEW r \in Requests, SendRequest(r)
  PROVE  /\ r = Len(sent) + 1 /\ Len(sent) \in Nat /\ ~Answered(r)
         /\ sent' = Append(sent, r) /\ sent' \in Seq(Requests)
         /\ Len(sent') = Len(sent) + 1 /\ Made' = Made \cup {r}
         /\ r \notin Made
         /\ new_async_requests' = new_async_requests \cup {r}
         /\ UNCHANGED <<ongoing_async_requests, exiting>>
         /\ http'[r] \in HttpRequests /\ TransferOK(http'[r])
         /\ RunningOK(http'[r])
         /\ http'[r].answer = <<>> /\ ~http'[r].final_response_sent
         /\ http' = [http EXCEPT ![r] = http'[r]]
<1> DEFINE body == PrepareForRequest(
                     AppendRaw([data_str |-> <<>>, bufs |-> <<>>], r)).data_str
           h == [HttpRequest EXCEPT !.body = body]
<1>1. r = Len(sent) + 1 /\ Len(sent) \in Nat /\ r \in Nat
  BY DEF SendRequest, ClientInv
<1>2. body \in Seq(Nat)
  <2>1. body = Append(<<>>, r)
    BY DEF PrepareForRequest, AppendRaw
  <2>2. <<>> \in Seq(Nat)
    BY EmptySeq
  <2>3. Append(<<>>, r) \in Seq(Nat)
    BY <1>1, <2>2, AppendProperties
  <2> HIDE DEF body
  <2> QED
    BY <2>1, <2>3
<1>3. /\ h \in HttpRequests /\ TransferOK(h) /\ RunningOK(h)
      /\ h.answer = <<>> /\ ~h.final_response_sent
  <2> HIDE DEF body
  <2>1. body \in Bodies
    BY <1>2 DEF Bodies
  <2> QED
    BY <2>1, NewRequestOK
<1>4. ~exiting
  BY DEF SendRequest, ClientInv
<1>5. /\ new_async_requests' = new_async_requests \cup {r}
      /\ UNCHANGED <<ongoing_async_requests, exiting>>
      /\ http' = [http EXCEPT ![r] = h]
  BY <1>4 DEF SendRequest, AsyncInfer, ClientAsyncInfer, Send
<1>6. http'[r] = h
  BY <1>5 DEF ClientInv
<1>7. /\ sent' = Append(sent, r) /\ sent' \in Seq(Requests)
      /\ Len(sent') = Len(sent) + 1
  BY AppendProperties DEF SendRequest, ClientInv
<1>8. Made' = Made \cup {r} /\ r \notin Made
  BY <1>1, <1>7 DEF Made
<1>9. ~Answered(r)
  BY <1>8 DEF ClientInv
<1> HIDE DEF h
<1> QED
  BY <1>1, <1>3, <1>5, <1>6, <1>7, <1>8, <1>9

\* What the curl thread's steps on one request change.
LEMMA RequestProviderChanges ==
  ASSUME TransfersOK, NEW r \in Requests, RequestProvider(r)
  PROVE  /\ r \in ongoing_async_requests /\ http[r].answer = <<>>
         /\ http'[r] \in HttpRequests /\ TransferOK(http'[r])
         /\ RunningOK(http'[r]) /\ ~http'[r].final_response_sent
         /\ \E a \in Answers : http'[r].answer = <<a>>
         /\ http'[r].got = 0
         /\ http' = [http EXCEPT ![r] = http'[r]]
<1>1. PICK a \in Answers :
        http' = [http EXCEPT ![r].answer = <<a>>, ![r].sent = BodyRead(a),
                             ![r].is_stream = a.stream]
  BY DEF RequestProvider
<1>2. /\ http[r] \in HttpRequests /\ TransferOK(http[r])
      /\ http[r].answer = <<>> /\ r \in ongoing_async_requests
      /\ RunningOK(http[r]) /\ http \in [Requests -> HttpRequests]
  BY DEF RequestProvider, TransfersOK, InTransit, Answered
<1>3. http'[r] = [http[r] EXCEPT !.answer = <<a>>, !.sent = BodyRead(a),
                                 !.is_stream = a.stream]
  BY <1>1, <1>2
<1>4. http' = [http EXCEPT ![r] = http'[r]]
  BY <1>1, <1>2, <1>3
<1> DEFINE h == http[r]
           k == http'[r]
<1>5. /\ h \in HttpRequests /\ TransferOK(h) /\ RunningOK(h)
      /\ h.answer = <<>>
      /\ k = [h EXCEPT !.answer = <<a>>, !.sent = BodyRead(a),
                       !.is_stream = a.stream]
  BY <1>2, <1>3
<1>6. /\ k \in HttpRequests /\ TransferOK(k) /\ RunningOK(k)
      /\ ~k.final_response_sent /\ k.answer = <<a>> /\ k.got = 0
  <2> HIDE DEF h, k
  <2> QED
    BY <1>5, ProvidedOK
<1> QED
  BY <1>2, <1>4, <1>6

LEMMA ResponseHandlerChanges ==
  ASSUME TransfersOK, NEW r \in Requests, ResponseHandler(r)
  PROVE  /\ r \in ongoing_async_requests /\ http[r].answer # <<>>
         /\ http[r].got \in Nat /\ http[r].got < Len(Pieces(http[r]))
         /\ http'[r] \in HttpRequests /\ TransferOK(http'[r])
         /\ RunningOK(http'[r])
         /\ http'[r].answer = http[r].answer
         /\ http'[r].is_stream = http[r].is_stream
         /\ http'[r].got = http[r].got + 1
         /\ http'[r].final_response_sent =
              IF http[r].is_stream THEN Piece(r) = "[DONE]"
              ELSE http[r].final_response_sent
         /\ http' = [http EXCEPT ![r] = http'[r]]
<1>1. http' = [http EXCEPT
         ![r].got = @ + 1,
         ![r].response_buffer = IF http[r].is_stream THEN <<>>
                                ELSE Append(@, Piece(r)),
         ![r].final_response_sent =
            IF http[r].is_stream THEN Piece(r) = "[DONE]" ELSE @]
  BY DEF ResponseHandler
<1>2. /\ http[r] \in HttpRequests /\ TransferOK(http[r])
      /\ http[r].answer # <<>> /\ r \in ongoing_async_requests
      /\ RunningOK(http[r]) /\ http \in [Requests -> HttpRequests]
      /\ http[r].got < Len(Pieces(http[r]))
      /\ Piece(r) = Pieces(http[r])[http[r].got + 1]
  BY DEF ResponseHandler, TransfersOK, InTransit, Answered, Pieces, Piece
<1>3. http'[r] = WithPiece(http[r], Piece(r))
  BY <1>1, <1>2 DEF WithPiece
<1>4. http' = [http EXCEPT ![r] = http'[r]]
  BY <1>1, <1>2, <1>3
<1>5. http[r].got \in Nat
  BY <1>2 DEF HttpRequests
<1> DEFINE h == http[r]
           k == http'[r]
           p == Piece(r)
<1>6. /\ h \in HttpRequests /\ TransferOK(h) /\ RunningOK(h)
      /\ h.answer # <<>> /\ h.got < Len(Pieces(h))
      /\ p = Pieces(h)[h.got + 1]
      /\ k = WithPiece(h, p)
  BY <1>2, <1>3
<1>7. /\ k \in HttpRequests /\ TransferOK(k) /\ RunningOK(k)
      /\ k.answer = h.answer /\ k.is_stream = h.is_stream
      /\ k.got = h.got + 1
      /\ k.final_response_sent =
           IF h.is_stream THEN p = "[DONE]" ELSE h.final_response_sent
  <2> HIDE DEF h, k, p
  <2> QED
    BY <1>6, PieceOK
<1> QED
  BY <1>2, <1>4, <1>5, <1>7

LEMMA CompleteTransferChanges ==
  ASSUME TransfersOK, NEW r \in Requests, CompleteTransfer(r)
  PROVE  /\ r \in ongoing_async_requests /\ http[r].answer # <<>>
         /\ http[r].got = Len(Pieces(http[r]))
         /\ ongoing_async_requests' = ongoing_async_requests \ {r}
         /\ http'[r] \in HttpRequests /\ TransferOK(http'[r])
         /\ http'[r].answer = http[r].answer
         /\ http'[r].is_stream = http[r].is_stream
         /\ http'[r].got = http[r].got
         /\ http'[r].final_response_sent
         /\ http' = [http EXCEPT ![r] = http'[r]]
<1>1. http' = [http EXCEPT
         ![r].final_response_sent = TRUE,
         ![r].response_buffer =
            IF http[r].final_response_sent THEN @ ELSE <<>>]
  BY DEF CompleteTransfer
<1>2. /\ http[r] \in HttpRequests /\ TransferOK(http[r])
      /\ http[r].answer # <<>> /\ r \in ongoing_async_requests
      /\ http \in [Requests -> HttpRequests]
      /\ http[r].got = Len(Pieces(http[r]))
      /\ ongoing_async_requests' = ongoing_async_requests \ {r}
  BY DEF CompleteTransfer, TransfersOK, Answered, Pieces
<1>3. http'[r] = [http[r] EXCEPT
         !.final_response_sent = TRUE,
         !.response_buffer =
            IF http[r].final_response_sent THEN @ ELSE <<>>]
  BY <1>1, <1>2
<1>4. http' = [http EXCEPT ![r] = http'[r]]
  BY <1>1, <1>2, <1>3
<1> QED
  BY <1>2, <1>3, <1>4, CompletedOK

LEMMA ClientStep == ClientInv /\ [Next]_vars => ClientInv'
<1> SUFFICES ASSUME ClientInv, [Next]_vars PROVE ClientInv'
  OBVIOUS
<1>1. ASSUME NEW r \in Requests, SendRequest(r) PROVE ClientInv'
  <2> USE <1>1, SendChanges
  <2>1. load' = "count" /\ ~exiting'
    BY DEF SendRequest, ClientInv
  <2>2. \A i \in Made' : sent'[i] = i
    <3>1. \A i \in Made : sent'[i] = sent[i] /\ sent[i] = i
      BY DEF ClientInv, Made
    <3>2. sent'[r] = r
      BY DEF ClientInv
    <3> QED
      BY <3>1, <3>2
  <2>3. InTransit' = InTransit \cup {r}
    BY DEF InTransit
  <2>4. (new_async_requests \cap ongoing_async_requests)' = {}
    BY DEF ClientInv, InTransit
  <2>5. /\ http' \in [Requests -> HttpRequests]
        /\ \A q \in Requests \ {r} : http'[q] = http[q]
    BY DEF ClientInv
  <2>6. \A q \in Requests : TransferOK(http'[q])
    BY <2>5 DEF ClientInv
  <2>7. \A q \in Requests \ Made' : ~Answered(q)'
    BY <2>5 DEF ClientInv, Answered
  <2>8. \A q \in InTransit' : RunningOK(http'[q])
    <3>1. InTransit \subseteq Requests
      BY DEF ClientInv, Made
    <3> QED
      BY <2>3, <2>5, <3>1 DEF ClientInv
  <2>9. InTransit' \subseteq Made'
    BY <2>3 DEF ClientInv
  <2> QED
    BY <2>1, <2>2, <2>4, <2>5, <2>6, <2>7, <2>8, <2>9 DEF ClientInv
<1>2. ASSUME NEW r \in Requests, RequestProvider(r), UNCHANGED loadVars
      PROVE  ClientInv'
  <2>1. UNCHANGED <<new_async_requests, ongoing_async_requests, exiting,
                    load, sent>>
    BY <1>2 DEF RequestProvider, loadVars
  <2>2. /\ http' \in [Requests -> HttpRequests]
        /\ \A q \in Requests \ {r} : http'[q] = http[q]
        /\ TransferOK(http'[r]) /\ RunningOK(http'[r])
        /\ r \in ongoing_async_requests
    BY <1>2, RequestProviderChanges, ClientTransfers DEF ClientInv
  <2> QED
    BY <2>1, <2>2 DEF ClientInv, InTransit, Made, Answered
<1>3. ASSUME NEW r \in Requests, ResponseHandler(r),
             AsyncCallback(r, PieceResult(r))
      PROVE  ClientInv'
  <2>1. UNCHANGED <<new_async_requests, ongoing_async_requests, exiting,
                    load, sent>>
    BY <1>3 DEF ResponseHandler, AsyncCallback, loadVars
  <2>2. /\ http' \in [Requests -> HttpRequests]
        /\ \A q \in Requests \ {r} : http'[q] = http[q]
        /\ TransferOK(http'[r]) /\ RunningOK(http'[r])
        /\ r \in ongoing_async_requests
    BY <1>3, ResponseHandlerChanges, ClientTransfers DEF ClientInv
  <2> QED
    BY <2>1, <2>2 DEF ClientInv, InTransit, Made, Answered
<1>4. ASSUME NEW r \in Requests, CompleteTransfer(r),
             AsyncCallback(r, FinalResult(r))
      PROVE  ClientInv'
  <2>1. UNCHANGED <<new_async_requests, exiting, load, sent>>
    BY <1>4 DEF CompleteTransfer, AsyncCallback, loadVars
  <2>2. /\ http' \in [Requests -> HttpRequests]
        /\ \A q \in Requests \ {r} : http'[q] = http[q]
        /\ TransferOK(http'[r])
        /\ r \in ongoing_async_requests
        /\ ongoing_async_requests' = ongoing_async_requests \ {r}
    BY <1>4, CompleteTransferChanges, ClientTransfers DEF ClientInv
  <2>3. InTransit' = InTransit \ {r}
    BY <2>1, <2>2 DEF ClientInv, InTransit
  <2> QED
    BY <2>1, <2>2, <2>3 DEF ClientInv, InTransit, Made, Answered
<1>5. CASE CurlLoop
  <2>1. /\ UNCHANGED <<exiting, load, sent, http>>
        /\ InTransit' \subseteq InTransit
        /\ (new_async_requests \cap ongoing_async_requests)' = {}
    BY <1>5 DEF CurlLoop, CollectNewRequests, Poll, PollReturns, loadVars,
                InTransit, ClientInv
  <2> QED
    BY <2>1 DEF ClientInv, Made, Answered
<1>6. CASE CountRequest \/ WaitForResponses \/ ResponseNotified \/ HandleExit
           \/ WaitForOngoingRequests \/ DestroyContext \/ Interrupt
           \/ UNCHANGED vars
  <2>1. UNCHANGED <<new_async_requests, ongoing_async_requests, sent, http>>
    BY <1>6 DEF CountRequest, WaitForResponses, ResponseNotified, HandleExit,
         WaitForOngoingRequests, DestroyContext, DestroyClient, Interrupt,
         vars, chatVars, loadVars
  <2>2. /\ load' \in {"run", "count", "wait", "drain", "joined"}
        /\ exiting' => load' = "joined"
    BY <1>6 DEF CountRequest, WaitForResponses, ResponseNotified, HandleExit,
         WaitForOngoingRequests, DestroyContext, DestroyClient, Interrupt,
         vars, chatVars, loadVars, ClientInv
  <2> QED
    BY <2>1, <2>2 DEF ClientInv, InTransit, Made, Answered
<1> QED
  BY <1>1, <1>2, <1>3, <1>4, <1>5, <1>6 DEF Next, WorkerThread, Transfer

-----------------------------------------------------------------------------
(* The responses of a request, and what the context has of them.           *)

ResponsesOf(a) ==
    LET done == {n \in DOMAIN a.pieces : a.pieces[n] = "[DONE]"}
    IN IF ~a.stream THEN <<a.pieces>>
       ELSE IF done # {}
       THEN [n \in 1..(CHOOSE n \in done : \A o \in done : n <= o) |->
               <<a.pieces[n]>>]
       ELSE [n \in DOMAIN a.pieces |-> <<a.pieces[n]>>] \o << <<>> >>

LEMMA ResponsesAre ==
  ASSUME NEW r
  PROVE  Responses(r) = ResponsesOf(http[r].answer[1])
BY DEF Responses, ResponsesOf

\* The responses that have come before the final one.
Collected(h) == IF h.is_stream THEN [n \in 1 .. h.got |-> <<Pieces(h)[n]>>]
                ELSE <<>>

LEMMA SingletonsGrow ==
  ASSUME NEW s \in Seq(STRING), NEW n \in Nat, n + 1 \in 1 .. Len(s)
  PROVE  /\ [i \in 1 .. n |-> <<s[i]>>] \in Seq(Seq(STRING))
         /\ [i \in 1 .. n + 1 |-> <<s[i]>>]
              = Append([i \in 1 .. n |-> <<s[i]>>], <<s[n + 1]>>)
<1> DEFINE f == [i \in 1 .. n |-> <<s[i]>>]
           g == [i \in 1 .. n + 1 |-> <<s[i]>>]
<1>1. \A i \in 1 .. n + 1 : <<s[i]>> \in Seq(STRING)
  <2> SUFFICES ASSUME NEW i \in 1 .. n + 1 PROVE <<s[i]>> \in Seq(STRING)
    OBVIOUS
  <2>1. s[i] \in STRING
    OBVIOUS
  <2> QED
    BY <2>1
<1>2. f \in Seq(Seq(STRING)) /\ Len(f) = n
  BY <1>1
<1>3. g \in Seq(Seq(STRING)) /\ Len(g) = n + 1
  BY <1>1
<1>4. <<s[n + 1]>> \in Seq(STRING)
  BY <1>1
<1>5. \A i \in 1 .. n : g[i] = f[i]
  OBVIOUS
<1>6. g[n + 1] = <<s[n + 1]>>
  OBVIOUS
<1> HIDE DEF f, g
<1>7. g = Append(f, <<s[n + 1]>>)
  <2>1. /\ Append(f, <<s[n + 1]>>) \in Seq(Seq(STRING))
        /\ Len(Append(f, <<s[n + 1]>>)) = n + 1
        /\ \A i \in 1 .. n : Append(f, <<s[n + 1]>>)[i] = f[i]
        /\ Append(f, <<s[n + 1]>>)[n + 1] = <<s[n + 1]>>
    BY <1>2, <1>4, AppendProperties
  <2>2. \A i \in 1 .. n + 1 : Append(f, <<s[n + 1]>>)[i] = g[i]
    <3>1. \A i \in 1 .. n + 1 : i \in 1 .. n \/ i = n + 1
      OBVIOUS
    <3> QED
      BY <1>5, <1>6, <2>1, <3>1
  <2> QED
    BY <1>3, <2>1, <2>2, SeqEqual
<1> QED
  BY <1>2, <1>7 DEF f, g

LEMMA SingletonsType ==
  ASSUME NEW s \in Seq(STRING), NEW n \in 0 .. Len(s)
  PROVE  [i \in 1 .. n |-> <<s[i]>>] \in Seq(Seq(STRING))
<1>1. \A i \in 1 .. n : <<s[i]>> \in Seq(STRING)
  <2> SUFFICES ASSUME NEW i \in 1 .. n PROVE <<s[i]>> \in Seq(STRING)
    OBVIOUS
  <2>1. s[i] \in STRING
    OBVIOUS
  <2> QED
    BY <2>1
<1> QED
  BY <1>1

\* One more piece of a stream.
LEMMA CollectedGrows ==
  ASSUME NEW h \in HttpRequests, h.answer # <<>>, h.is_stream,
         h.got < Len(Pieces(h)),
         NEW k, k.answer = h.answer, k.is_stream, k.got = h.got + 1
  PROVE  /\ Collected(k) = Append(Collected(h), <<Pieces(h)[h.got + 1]>>)
         /\ Ends(k) = Ends(h) \cup (IF Pieces(h)[h.got + 1] = "[DONE]"
                                    THEN {h.got + 1} ELSE {})
<1>1. Pieces(h) \in Seq(STRING) /\ Pieces(k) = Pieces(h)
  BY AnswerType DEF Pieces
<1>2. h.got \in Nat
  BY DEF HttpRequests
<1>3. h.got + 1 \in 1 .. Len(Pieces(h))
  BY <1>1, <1>2
<1>4. Collected(k) = Append(Collected(h), <<Pieces(h)[h.got + 1]>>)
  BY <1>1, <1>2, <1>3, SingletonsGrow DEF Collected
<1>5. 1 .. h.got + 1 = (1 .. h.got) \cup {h.got + 1}
  BY <1>2
<1>6. Ends(k) = Ends(h) \cup (IF Pieces(h)[h.got + 1] = "[DONE]"
                              THEN {h.got + 1} ELSE {})
  BY <1>1, <1>5 DEF Ends
<1> QED
  BY <1>4, <1>6

\* A stream that ends with the next piece has been collected whole then.
LEMMA CollectedToTheEnd ==
  ASSUME NEW h \in HttpRequests, TransferOK(h), h.answer # <<>>, h.is_stream,
         h.got < Len(Pieces(h)), Ends(h) = {},
         Pieces(h)[h.got + 1] = "[DONE]"
  PROVE  Append(Collected(h), <<Pieces(h)[h.got + 1]>>)
           = ResponsesOf(h.answer[1])
<1> DEFINE p == Pieces(h)
           n == h.got
           done == {i \in DOMAIN p : p[i] = "[DONE]"}
<1>1. p \in Seq(STRING) /\ n \in Nat /\ DOMAIN p = 1 .. Len(p)
      /\ Len(p) \in Nat
  BY AnswerType DEF HttpRequests
<1>2. n + 1 \in done
  BY <1>1
<1>3. \A i \in done : n + 1 <= i
  <2> SUFFICES ASSUME NEW i \in done, i < n + 1 PROVE FALSE
    BY <1>1
  <2>1. i \in 1 .. n
    BY <1>1
  <2> QED
    BY <2>1 DEF Ends
<1>4. (CHOOSE i \in done : \A o \in done : i <= o) = n + 1
  <2> DEFINE c == CHOOSE i \in done : \A o \in done : i <= o
  <2>1. c \in done /\ \A o \in done : c <= o
    BY <1>2, <1>3
  <2>2. done \subseteq Nat
    BY <1>1
  <2> HIDE DEF c, done, n
  <2>3. c <= n + 1 /\ n + 1 <= c /\ c \in Nat
    BY <1>2, <1>3, <2>1, <2>2
  <2> QED
    BY <1>1, <2>3 DEF c
<1>5. h.answer[1].stream /\ h.answer[1].pieces = p
  BY DEF TransferOK, Pieces
<1>6. ResponsesOf(h.answer[1]) = [i \in 1 .. n + 1 |-> <<p[i]>>]
  <2>1. ResponsesOf(h.answer[1])
          = [i \in 1 .. (CHOOSE i \in done : \A o \in done : i <= o)
               |-> <<p[i]>>]
    BY <1>2, <1>5 DEF ResponsesOf
  <2> HIDE DEF done
  <2> QED
    BY <1>4, <2>1
<1>7. n + 1 \in 1 .. Len(p)
  BY <1>1
<1> QED
  BY <1>1, <1>6, <1>7, SingletonsGrow DEF Collected

\* A transfer that is over: a stream that never ended, or a plain answer.
LEMMA CollectedAtCompletion ==
  ASSUME NEW h \in HttpRequests, TransferOK(h), h.answer # <<>>,
         h.got = Len(Pieces(h)), ~h.final_response_sent,
         h.is_stream => Ends(h) = {}
  PROVE  /\ Append(Collected(h), h.response_buffer)
              = ResponsesOf(h.answer[1])
         /\ Append(Collected(h), h.response_buffer) \in Seq(Seq(STRING))
<1> DEFINE p == Pieces(h)
<1>1. p \in Seq(STRING) /\ DOMAIN p = 1 .. Len(p) /\ Len(p) \in Nat
      /\ h.got \in Nat /\ h.response_buffer \in Seq(STRING)
  BY AnswerType DEF HttpRequests
<1>2. h.answer[1].pieces = p /\ h.is_stream = h.answer[1].stream
  BY DEF TransferOK, Pieces
<1>3. CASE h.is_stream
  <2> DEFINE f == [i \in 1 .. Len(p) |-> <<p[i]>>]
  <2>1. f \in Seq(Seq(STRING))
    BY <1>1, SingletonsType
  <2>2. Collected(h) = f /\ h.response_buffer = <<>>
    BY <1>3 DEF Collected, TransferOK
  <2>3. {n \in DOMAIN p : p[n] = "[DONE]"} = {}
    BY <1>1, <1>3 DEF Ends
  <2>4. ResponsesOf(h.answer[1]) = f \o << <<>> >>
    BY <1>1, <1>2, <1>3, <2>3 DEF ResponsesOf
  <2>5. <<>> \in Seq(STRING)
    BY EmptySeq
  <2> HIDE DEF f
  <2>6. Append(f, <<>>) = f \o << <<>> >>
    BY <2>1, <2>5, AppendIsConcat
  <2>7. Append(f, <<>>) \in Seq(Seq(STRING))
    BY <2>1, <2>5, AppendProperties
  <2> QED
    BY <2>2, <2>4, <2>6, <2>7
<1>4. CASE ~h.is_stream
  <2>1. h.response_buffer = p
    BY <1>1, <1>4, SubSeqFull DEF TransferOK
  <2>2. Collected(h) = <<>> /\ ResponsesOf(h.answer[1]) = <<p>>
    BY <1>2, <1>4 DEF Collected, ResponsesOf
  <2> HIDE DEF p
  <2>3. Append(<<>>, p) = <<p>>
    OBVIOUS
  <2>4. <<p>> \in Seq(Seq(STRING))
    BY <1>1
  <2> QED
    BY <2>1, <2>2, <2>3, <2>4
<1> QED
  BY <1>3, <1>4

-----------------------------------------------------------------------------
(* The records.                                                            *)

\* A request the context knows has sent no final response, unless something
\* failed; one it knows no more has sent it, or its stream has ended.
RequestOK(h, m, ok) ==
    IF m.known
    THEN ok => /\ ~h.final_response_sent
               /\ h.is_stream => Ends(h) = {}
               /\ m.responses = Collected(h)
    ELSE h.final_response_sent
         \/ (h.answer # <<>> /\ h.is_stream /\ Ends(h) # {})

Entries == [known : BOOLEAN, responses : Seq(Seq(STRING))]
RequestRecords == [id : Requests, responses : Seq(Seq(STRING))]

\* RecordFaithful, without naming the request's state twice.
RecordsOK ==
    \A n \in DOMAIN request_records :
        /\ request_records[n].responses
             = ResponsesOf(http[request_records[n].id].answer[1])
        /\ \A o \in DOMAIN request_records :
             request_records[o].id = request_records[n].id => o = n

RecordInv ==
    /\ cb_status \in BOOLEAN
    /\ async_req_map \in [Requests -> Entries]
    /\ request_records \in Seq(RequestRecords)
    /\ \A r \in Made : RequestOK(http[r], async_req_map[r], cb_status)
    /\ \A n \in DOMAIN request_records :
          /\ request_records[n].id \in Made
          /\ http[request_records[n].id].answer # <<>>
          /\ ~async_req_map[request_records[n].id].known
    /\ RecordsOK

LEMMA RecordInit == Init => RecordInv
<1> SUFFICES ASSUME Init PROVE RecordInv
  OBVIOUS
<1>1. Made = {} /\ request_records = <<>> /\ cb_status = TRUE
      /\ async_req_map = [r \in Requests |-> Absent]
  BY DEF Init, Made
<1>2. <<>> \in Seq(Seq(STRING)) /\ <<>> \in Seq(RequestRecords)
  BY EmptySeq
<1>3. Absent \in Entries
  BY <1>2 DEF Absent, Entries
<1> QED
  BY <1>1, <1>2, <1>3 DEF RecordInv, RecordsOK

\* The answers stay what they are, and with them the records.
LEMMA RecordsStay ==
  ASSUME RecordInv, UNCHANGED request_records,
         \A r \in Made : /\ r \in Made'
                         /\ Answered(r) => http'[r].answer = http[r].answer
                         /\ ~async_req_map[r].known =>
                               ~async_req_map'[r].known
  PROVE  /\ RecordsOK'
         /\ \A n \in DOMAIN request_records' :
               /\ request_records'[n].id \in Made'
               /\ http'[request_records'[n].id].answer # <<>>
               /\ ~async_req_map'[request_records'[n].id].known
<1>1. \A n \in DOMAIN request_records :
         LET i == request_records[n].id
         IN  i \in Made /\ Answered(i) /\ ~async_req_map[i].known
  BY DEF RecordInv, Answered
<1>2. \A n \in DOMAIN request_records :
         LET i == request_records[n].id
         IN  /\ i \in Made' /\ http'[i].answer = http[i].answer
             /\ ~async_req_map'[i].known
  BY <1>1
<1>3. RecordsOK'
  BY <1>2 DEF RecordInv, RecordsOK
<1>4. \A n \in DOMAIN request_records :
         http'[request_records[n].id].answer # <<>>
  BY <1>1, <1>2 DEF Answered
<1> QED
  BY <1>2, <1>3, <1>4

\* A request gets its record when its final response comes.
LEMMA RecordAdded ==
  ASSUME RecordInv, NEW r \in Made, r \in Requests,
         NEW got \in Seq(Seq(STRING)),
         UNCHANGED sent, Answered(r), async_req_map[r].known,
         \A q \in Made : http'[q].answer = http[q].answer,
         got = ResponsesOf(http[r].answer[1]),
         request_records' = Append(request_records,
                                   [id |-> r, responses |-> got]),
         async_req_map' = [async_req_map EXCEPT ![r] = Absent]
  PROVE  /\ request_records' \in Seq(RequestRecords)
         /\ RecordsOK'
         /\ \A n \in DOMAIN request_records' :
               /\ request_records'[n].id \in Made'
               /\ http'[request_records'[n].id].answer # <<>>
               /\ ~async_req_map'[request_records'[n].id].known
<1> DEFINE new == [id |-> r, responses |-> got]
           last == Len(request_records) + 1
<1>1. new \in RequestRecords /\ new.id = r /\ new.responses = got
  BY DEF RequestRecords
<1>2. /\ request_records \in Seq(RequestRecords)
      /\ request_records' = Append(request_records, new)
  BY DEF RecordInv
<1> HIDE DEF new
<1>3. /\ request_records' \in Seq(RequestRecords)
      /\ Len(request_records) \in Nat
      /\ DOMAIN request_records = 1 .. Len(request_records)
      /\ DOMAIN request_records' = 1 .. last
      /\ \A n \in DOMAIN request_records :
            request_records'[n] = request_records[n]
      /\ request_records'[last] = new
  BY <1>1, <1>2, AppendProperties, LenProperties
<1>4. \A n \in DOMAIN request_records' :
         n # last => n \in DOMAIN request_records
  BY <1>3
<1>5. \A n \in DOMAIN request_records : request_records[n].id # r
  BY DEF RecordInv
<1> HIDE DEF last
<1>6. \A n \in DOMAIN request_records' :
         request_records'[n].responses
           = ResponsesOf(http'[request_records'[n].id].answer[1])
  <2> SUFFICES ASSUME NEW n \in DOMAIN request_records'
               PROVE  request_records'[n].responses
                        = ResponsesOf(
                              http'[request_records'[n].id].answer[1])
    OBVIOUS
  <2>1. CASE n = last
    BY <1>1, <1>3, <2>1
  <2>2. CASE n # last
    <3>1. n \in DOMAIN request_records
      BY <1>4, <2>2
    <3> QED
      BY <1>3, <3>1 DEF RecordInv, RecordsOK
  <2> QED
    BY <2>1, <2>2
<1>7. \A n, o \in DOMAIN request_records' :
         request_records'[o].id = request_records'[n].id => o = n
  BY <1>1, <1>3, <1>4, <1>5 DEF RecordInv, RecordsOK
<1>8. RecordsOK'
  BY <1>6, <1>7 DEF RecordsOK
<1>9. /\ ~async_req_map'[r].known
       /\ \A q \in Requests \ {r} : async_req_map'[q] = async_req_map[q]
  BY DEF RecordInv, Absent
<1>10. \A n \in DOMAIN request_records' :
          /\ request_records'[n].id \in Made'
          /\ http'[request_records'[n].id].answer # <<>>
          /\ ~async_req_map'[request_records'[n].id].known
  <2> SUFFICES ASSUME NEW n \in DOMAIN request_records'
               PROVE  /\ request_records'[n].id \in Made'
                      /\ http'[request_records'[n].id].answer # <<>>
                      /\ ~async_req_map'[request_records'[n].id].known
    OBVIOUS
  <2>1. CASE n = last
    <3>1. request_records'[n].id = r
      BY <1>1, <1>3, <2>1
    <3>2. r \in Made' /\ http'[r].answer # <<>>
      BY DEF Made, Answered
    <3> QED
      BY <1>9, <3>1, <3>2
  <2>2. CASE n # last
    <3>1. n \in DOMAIN request_records
      BY <1>4, <2>2
    <3>2. request_records'[n] = request_records[n]
          /\ request_records[n] \in RequestRecords
      BY <1>3, <3>1 DEF RecordInv
    <3>3. PICK i \in Requests : i = request_records[n].id
      BY <3>2 DEF RequestRecords
    <3>4. /\ i \in Made /\ i # r /\ http[i].answer # <<>>
          /\ ~async_req_map[i].known
      BY <1>5, <3>1, <3>3 DEF RecordInv
    <3>5. i \in Made' /\ http'[i].answer # <<>> /\ ~async_req_map'[i].known
      BY <1>9, <3>4 DEF Made
    <3> QED
      BY <3>2, <3>3, <3>5
  <2> QED
    BY <2>1, <2>2
<1> QED
  BY <1>3, <1>8, <1>10

\* Requests that nothing happens to stay in order, also when another fails.
LEMMA FailedStays ==
  ASSUME NEW h, NEW m, NEW ok \in BOOLEAN, NEW still \in BOOLEAN,
         RequestOK(h, m, ok), still => ok
  PROVE  RequestOK(h, m, still)
BY DEF RequestOK

LEMMA MadeAreRequests ==
  ASSUME ClientInv
  PROVE  Made \subseteq Requests /\ InTransit \subseteq Made
<1>1. \A i \in Made : sent[i] \in Requests /\ sent[i] = i
  BY DEF ClientInv, Made
<1> QED
  BY <1>1 DEF ClientInv

\* AsyncCallbackFuncImpl, for what a result says of its request's transfer.
LEMMA CallbackRecords ==
  ASSUME ClientInv, RecordInv, NEW r \in Made,
         http' = [http EXCEPT ![r] = http'[r]],
         http'[r].answer = http[r].answer, http[r].answer # <<>>,
         NEW result, result # <<>>, result.buffer \in Seq(STRING),
         result.is_final \in BOOLEAN,
         AsyncCallback(r, result),
         NEW got, got = Append(async_req_map[r].responses, result.buffer),
         IsKnown(r, result) /\ result.is_final =>
             /\ http'[r].final_response_sent
             /\ got = ResponsesOf(http[r].answer[1]),
         IsKnown(r, result) /\ ~result.is_final =>
             RequestOK(http'[r], [known |-> TRUE, responses |-> got], TRUE),
         ~IsKnown(r, result) =>
             RequestOK(http'[r], async_req_map[r],
                       cb_status /\ ~RequestFailed(result))
  PROVE  RecordInv'
<1> DEFINE ok == cb_status /\ ~RequestFailed(result)
<1>1. /\ r \in Requests /\ Made' = Made /\ UNCHANGED sent
      /\ http \in [Requests -> HttpRequests] /\ Made \subseteq Requests
  BY MadeAreRequests DEF AsyncCallback, Made, ClientInv
<1>2. cb_status' = ok /\ ok \in BOOLEAN /\ cb_status \in BOOLEAN
  BY DEF AsyncCallback, RecordInv, RequestFailed
<1>3. /\ async_req_map \in [Requests -> Entries]
      /\ async_req_map[r] \in Entries
  BY <1>1 DEF RecordInv
<1>4. got \in Seq(Seq(STRING))
  BY <1>3 DEF Entries
<1>5. /\ \A q \in Made : http'[q].answer = http[q].answer
      /\ \A q \in Made \ {r} : http'[q] = http[q]
  BY <1>1
<1>6. \A q \in Made \ {r} : RequestOK(http'[q], async_req_map[q], ok)
  <2> SUFFICES ASSUME NEW q \in Made \ {r}
               PROVE  RequestOK(http[q], async_req_map[q], ok)
    BY <1>5
  <2>1. RequestOK(http[q], async_req_map[q], cb_status)
    BY DEF RecordInv
  <2>2. ok => cb_status
    OBVIOUS
  <2> HIDE DEF ok
  <2> QED
    BY <1>2, <2>1, <2>2, FailedStays
<1>7. CASE ~IsKnown(r, result)
  <2>1. UNCHANGED <<async_req_map, request_records>>
    BY <1>7 DEF AsyncCallback
  <2>2. \A q \in Made' : RequestOK(http'[q], async_req_map'[q], cb_status')
    BY <1>1, <1>2, <1>6, <1>7, <2>1
  <2>3. /\ RecordsOK'
        /\ \A n \in DOMAIN request_records' :
              /\ request_records'[n].id \in Made'
              /\ http'[request_records'[n].id].answer # <<>>
              /\ ~async_req_map'[request_records'[n].id].known
    BY <1>1, <1>5, <2>1, RecordsStay
  <2> QED
    BY <1>2, <2>1, <2>2, <2>3 DEF RecordInv
<1>8. CASE IsKnown(r, result) /\ result.is_final
  <2>1. /\ request_records' = Append(request_records,
                                     [id |-> r, responses |-> got])
        /\ async_req_map' = [async_req_map EXCEPT ![r] = Absent]
    BY <1>8 DEF AsyncCallback
  <2>2. Absent \in Entries /\ ~Absent.known
    BY EmptySeq DEF Absent, Entries
  <2>3. /\ async_req_map' \in [Requests -> Entries]
        /\ async_req_map'[r] = Absent
        /\ \A q \in Requests \ {r} : async_req_map'[q] = async_req_map[q]
    BY <1>1, <1>3, <2>1, <2>2
  <2>4. async_req_map[r].known
    BY <1>8 DEF IsKnown
  <2>5. /\ request_records' \in Seq(RequestRecords) /\ RecordsOK'
        /\ \A n \in DOMAIN request_records' :
              /\ request_records'[n].id \in Made'
              /\ http'[request_records'[n].id].answer # <<>>
              /\ ~async_req_map'[request_records'[n].id].known
    BY <1>1, <1>4, <1>5, <1>8, <2>1, <2>4, RecordAdded DEF Answered
  <2>6. RequestOK(http'[r], async_req_map'[r], cb_status')
    BY <1>8, <2>2, <2>3 DEF RequestOK
  <2>7. \A q \in Made' : RequestOK(http'[q], async_req_map'[q], cb_status')
    BY <1>1, <1>2, <1>6, <2>3, <2>6
  <2> QED
    BY <1>2, <2>3, <2>5, <2>7 DEF RecordInv
<1>9. CASE IsKnown(r, result) /\ ~result.is_final
  <2>1. /\ UNCHANGED request_records
        /\ async_req_map' = [async_req_map EXCEPT ![r].responses = got]
    BY <1>9 DEF AsyncCallback
  <2>2. async_req_map[r].known /\ ok
    BY <1>9 DEF IsKnown
  <2>3. async_req_map'[r] = [known |-> TRUE, responses |-> got]
    BY <1>1, <1>3, <2>1, <2>2 DEF Entries
  <2>4. [known |-> TRUE, responses |-> got] \in Entries
    BY <1>4 DEF Entries
  <2>5. /\ async_req_map' \in [Requests -> Entries]
        /\ \A q \in Requests \ {r} : async_req_map'[q] = async_req_map[q]
    BY <1>1, <1>3, <2>1, <2>3, <2>4
  <2>6. RequestOK(http'[r], async_req_map'[r], cb_status')
    BY <1>2, <1>9, <2>2, <2>3
  <2>7. \A q \in Made' : RequestOK(http'[q], async_req_map'[q], cb_status')
    BY <1>1, <1>2, <1>6, <2>5, <2>6
  <2>8. \A q \in Made : ~async_req_map[q].known => ~async_req_map'[q].known
    BY <1>1, <2>2, <2>5
  <2>9. /\ RecordsOK'
        /\ \A n \in DOMAIN request_records' :
              /\ request_records'[n].id \in Made'
              /\ http'[request_records'[n].id].answer # <<>>
              /\ ~async_req_map'[request_records'[n].id].known
    BY <1>1, <1>5, <2>1, <2>8, RecordsStay
  <2> QED
    BY <1>2, <2>1, <2>5, <2>7, <2>9 DEF RecordInv
<1> QED
  BY <1>7, <1>8, <1>9

\* A step on a request for which nothing is called.
LEMMA NoCallRecords ==
  ASSUME ClientInv, RecordInv, NEW r \in Made, UNCHANGED loadVars,
         http' = [http EXCEPT ![r] = http'[r]],
         Answered(r) => http'[r].answer = http[r].answer,
         RequestOK(http'[r], async_req_map[r], cb_status)
  PROVE  RecordInv'
<1>1. /\ UNCHANGED <<sent, async_req_map, cb_status, request_records>>
      /\ Made' = Made /\ Made \subseteq Requests
      /\ http \in [Requests -> HttpRequests]
  BY MadeAreRequests DEF loadVars, Made, ClientInv
<1>2. \A q \in Made \ {r} : http'[q] = http[q]
  BY <1>1
<1>3. \A q \in Made' : RequestOK(http'[q], async_req_map'[q], cb_status')
  BY <1>1, <1>2 DEF RecordInv
<1>4. /\ RecordsOK'
      /\ \A n \in DOMAIN request_records' :
            /\ request_records'[n].id \in Made'
            /\ http'[request_records'[n].id].answer # <<>>
            /\ ~async_req_map'[request_records'[n].id].known
  BY <1>1, <1>2, RecordsStay DEF Answered
<1> QED
  BY <1>1, <1>3, <1>4 DEF RecordInv

LEMMA RecordStep == ClientInv /\ RecordInv /\ [Next]_vars => RecordInv'
<1> SUFFICES ASSUME ClientInv, RecordInv, [Next]_vars PROVE RecordInv'
  OBVIOUS
<1>1. ASSUME NEW r \in Requests, SendRequest(r) PROVE RecordInv'
  <2> DEFINE m == [known |-> TRUE, responses |-> <<>>]
  <2>1. /\ UNCHANGED <<cb_status, request_records>>
        /\ async_req_map' = [async_req_map EXCEPT ![r] = m]
    BY <1>1 DEF SendRequest
  <2>2. /\ r \notin Made /\ Made' = Made \cup {r} /\ ~Answered(r)
        /\ http' = [http EXCEPT ![r] = http'[r]]
        /\ http'[r] \in HttpRequests /\ TransferOK(http'[r])
        /\ http'[r].answer = <<>> /\ ~http'[r].final_response_sent
    BY <1>1, SendChanges
  <2>3. m \in Entries
    BY EmptySeq DEF Entries
  <2>4. /\ async_req_map' \in [Requests -> Entries]
        /\ async_req_map'[r] = m
        /\ \A q \in Requests \ {r} : async_req_map'[q] = async_req_map[q]
    BY <2>1, <2>3 DEF RecordInv
  <2>5. \A q \in Requests \ {r} : http'[q] = http[q]
    BY <2>2 DEF ClientInv
  <2>6. RequestOK(http'[r], m, cb_status)
    BY <2>2 DEF RequestOK, TransferOK, Collected
  <2>7. Made \subseteq Requests
    BY MadeAreRequests
  <2>8. \A q \in Made' : RequestOK(http'[q], async_req_map'[q], cb_status')
    BY <2>1, <2>2, <2>4, <2>5, <2>6, <2>7 DEF RecordInv
  <2>9. \A q \in Made : /\ q \in Made'
                        /\ http'[q].answer = http[q].answer
                        /\ ~async_req_map[q].known =>
                              ~async_req_map'[q].known
    BY <2>2, <2>4, <2>5, <2>7
  <2>10. /\ RecordsOK'
         /\ \A n \in DOMAIN request_records' :
               /\ request_records'[n].id \in Made'
               /\ http'[request_records'[n].id].answer # <<>>
               /\ ~async_req_map'[request_records'[n].id].known
    BY <2>1, <2>9, RecordsStay
  <2> QED
    BY <2>1, <2>4, <2>8, <2>10 DEF RecordInv
<1>2. ASSUME NEW r \in Requests, RequestProvider(r), UNCHANGED loadVars
      PROVE  RecordInv'
  <2>1. /\ r \in ongoing_async_requests /\ http[r].answer = <<>>
        /\ ~http'[r].final_response_sent /\ http'[r].got = 0
        /\ http' = [http EXCEPT ![r] = http'[r]]
    BY <1>2, RequestProviderChanges, ClientTransfers
  <2>2. r \in Made
    BY <2>1, MadeAreRequests DEF InTransit
  <2>3. RequestOK(http[r], async_req_map[r], cb_status)
    BY <2>2 DEF RecordInv
  <2>4. ~http[r].final_response_sent /\ ~http[r].is_stream
    BY <1>2, <2>1 DEF ClientInv, TransferOK
  <2>5. Collected(http[r]) = <<>> /\ Collected(http'[r]) = <<>>
        /\ Ends(http'[r]) = {}
    <3>1. \A p : [n \in 1 .. 0 |-> <<p[n]>>] = <<>>
      OBVIOUS
    <3> QED
      BY <2>1, <2>4, <3>1 DEF Collected, Ends
  <2>6. RequestOK(http'[r], async_req_map[r], cb_status)
    BY <2>1, <2>3, <2>4, <2>5 DEF RequestOK
  <2> QED
    BY <1>2, <2>1, <2>2, <2>6, NoCallRecords DEF Answered
<1>3. ASSUME NEW r \in Requests, ResponseHandler(r),
             AsyncCallback(r, PieceResult(r))
      PROVE  RecordInv'
  <2> DEFINE h == http[r]
             k == http'[r]
             m == async_req_map[r]
             p == Piece(r)
  <2>1. /\ h \in HttpRequests /\ TransferOK(h) /\ RunningOK(h)
        /\ h.answer # <<>> /\ h.got \in Nat /\ h.got < Len(Pieces(h))
        /\ k \in HttpRequests /\ TransferOK(k)
        /\ k.answer = h.answer /\ k.is_stream = h.is_stream
        /\ k.got = h.got + 1
        /\ k.final_response_sent = IF h.is_stream THEN p = "[DONE]"
                                   ELSE h.final_response_sent
        /\ http' = [http EXCEPT ![r] = k]
        /\ r \in ongoing_async_requests
    BY <1>3, ResponseHandlerChanges, ClientTransfers DEF ClientInv, InTransit
  <2>2. r \in Made
    BY <2>1, MadeAreRequests DEF InTransit
  <2>3. RequestOK(h, m, cb_status) /\ cb_status \in BOOLEAN
    BY <2>2 DEF RecordInv
  <2>4. p = Pieces(h)[h.got + 1] /\ p \in STRING
    <3>1. p = Pieces(h)[h.got + 1]
      BY DEF Piece, Pieces
    <3>2. Pieces(h) \in Seq(STRING)
      BY <2>1, AnswerType
    <3> HIDE DEF h, p
    <3> QED
      BY <2>1, <3>1, <3>2
  <2>5. CASE ~h.is_stream
    <3>1. UNCHANGED loadVars
      BY <1>3, <2>5 DEF PieceResult, AsyncCallback
    <3>2. RequestOK(k, m, cb_status)
      BY <2>1, <2>3, <2>5 DEF RequestOK, Collected
    <3> QED
      BY <2>1, <2>2, <3>1, <3>2, NoCallRecords DEF Answered
  <2>6. CASE h.is_stream
    <3> DEFINE result == PieceResult(r)
               got == Append(m.responses, result.buffer)
    <3>1. result = Result(200, <<p>>, p = "[DONE]", p = "[DONE]")
      <4>1. h.response_buffer = <<>>
        BY <2>1, <2>6 DEF TransferOK
      <4> QED
        BY <2>6, <4>1 DEF PieceResult
    <3>2. /\ result # <<>> /\ result.buffer = <<p>>
          /\ result.is_final \in BOOLEAN
          /\ result.is_final = (p = "[DONE]")
          /\ ~RequestFailed(result)
      <4> HIDE DEF p
      <4>1. /\ result.code = 200 /\ result.buffer = <<p>>
            /\ result.is_final = (p = "[DONE]")
        BY <3>1 DEF Result
      <4>2. result # <<>>
        BY <3>1 DEF Result
      <4>3. result.is_final \in BOOLEAN
        BY <4>1
      <4>4. ~RequestFailed(result)
        BY <4>1 DEF RequestFailed
      <4> QED
        BY <4>1, <4>2, <4>3, <4>4
    <3>3. <<p>> \in Seq(STRING)
      BY <2>4
    <3>4. /\ Collected(k) = Append(Collected(h), <<p>>)
          /\ Ends(k) = Ends(h) \cup (IF p = "[DONE]" THEN {h.got + 1}
                                     ELSE {})
      <4> HIDE DEF h, k, p
      <4> QED
        BY <2>1, <2>4, <2>6, CollectedGrows
    <3>5. IsKnown(r, result) =>
             /\ ~h.final_response_sent /\ Ends(h) = {}
             /\ m.responses = Collected(h) /\ m.known
      BY <2>3, <2>6 DEF IsKnown, RequestOK
    <3>6. IsKnown(r, result) /\ result.is_final =>
             /\ k.final_response_sent
             /\ got = ResponsesOf(h.answer[1])
      <4> SUFFICES ASSUME IsKnown(r, result), result.is_final
                   PROVE  /\ k.final_response_sent
                          /\ got = ResponsesOf(h.answer[1])
        OBVIOUS
      <4>1. got = Append(Collected(h), <<p>>)
        BY <3>2, <3>5
      <4>2. p = "[DONE]"
        BY <3>2
      <4>3. Ends(h) = {}
        BY <3>5
      <4>4. Append(Collected(h), <<p>>) = ResponsesOf(h.answer[1])
        <5> HIDE DEF h, p
        <5> QED
          BY <2>1, <2>4, <2>6, <4>2, <4>3, CollectedToTheEnd
      <4> QED
        BY <2>1, <2>6, <4>1, <4>2, <4>4
    <3>7. IsKnown(r, result) /\ ~result.is_final =>
             RequestOK(k, [known |-> TRUE, responses |-> got], TRUE)
      <4> SUFFICES ASSUME IsKnown(r, result), ~result.is_final
                   PROVE  /\ ~k.final_response_sent /\ Ends(k) = {}
                          /\ got = Collected(k)
        BY DEF RequestOK
      <4> QED
        BY <2>1, <2>6, <3>2, <3>4, <3>5
    <3>8. ~IsKnown(r, result) =>
             RequestOK(k, m, cb_status /\ ~RequestFailed(result))
      <4> SUFFICES ASSUME ~IsKnown(r, result) PROVE RequestOK(k, m, cb_status)
        BY <2>3, <3>2
      <4>1. CASE m.known
        <5>1. ~cb_status
          BY <3>2, <4>1 DEF IsKnown
        <5> QED
          BY <4>1, <5>1 DEF RequestOK
      <4>2. CASE ~m.known
        <5>1. Ends(h) # {}
          BY <2>1, <2>3, <4>2 DEF RequestOK, RunningOK
        <5> QED
          BY <2>1, <2>6, <3>4, <4>2, <5>1 DEF RequestOK
      <4> QED
        BY <4>1, <4>2
    <3> HIDE DEF h, k, m, p, result, got
    <3> QED
      BY <1>3, <2>1, <2>2, <3>2, <3>3, <3>6, <3>7, <3>8, CallbackRecords
         DEF h, k, m, result, got
  <2> QED
    BY <2>1, <2>5, <2>6 DEF HttpRequests
<1>4. ASSUME NEW r \in Requests, CompleteTransfer(r),
             AsyncCallback(r, FinalResult(r))
      PROVE  RecordInv'
  <2> DEFINE h == http[r]
             k == http'[r]
             m == async_req_map[r]
  <2>1. /\ h \in HttpRequests /\ TransferOK(h)
        /\ h.answer # <<>> /\ h.got = Len(Pieces(h))
        /\ k.answer = h.answer /\ k.final_response_sent
        /\ http' = [http EXCEPT ![r] = k]
        /\ r \in ongoing_async_requests
    BY <1>4, CompleteTransferChanges, ClientTransfers DEF ClientInv
  <2>2. r \in Made
    BY <2>1, MadeAreRequests DEF InTransit
  <2>3. RequestOK(h, m, cb_status) /\ cb_status \in BOOLEAN
    BY <2>2 DEF RecordInv
  <2>4. CASE h.final_response_sent
    <3>1. UNCHANGED loadVars
      BY <1>4, <2>4 DEF FinalResult, AsyncCallback
    <3>2. RequestOK(k, m, cb_status)
      BY <2>1, <2>3, <2>4 DEF RequestOK
    <3> QED
      BY <2>1, <2>2, <3>1, <3>2, NoCallRecords DEF Answered
  <2>5. CASE ~h.final_response_sent
    <3> DEFINE result == FinalResult(r)
               got == Append(m.responses, result.buffer)
    <3>1. result = Result(HttpCode(h.answer[1]), h.response_buffer, TRUE,
                          FALSE)
      BY <2>5 DEF FinalResult
    <3>2. /\ result # <<>> /\ result.buffer = h.response_buffer
          /\ result.is_final = TRUE
      BY <3>1 DEF Result
    <3>3. h.response_buffer \in Seq(STRING)
      BY <2>1 DEF HttpRequests
    <3>4. IsKnown(r, result) => got = ResponsesOf(h.answer[1])
      <4> SUFFICES ASSUME IsKnown(r, result)
                   PROVE  got = ResponsesOf(h.answer[1])
        OBVIOUS
      <4>1. m.responses = Collected(h) /\ (h.is_stream => Ends(h) = {})
        BY <2>3 DEF IsKnown, RequestOK
      <4>2. Append(Collected(h), h.response_buffer)
              = ResponsesOf(h.answer[1])
        <5> HIDE DEF h
        <5> QED
          BY <2>1, <2>5, <4>1, CollectedAtCompletion
      <4> QED
        BY <3>2, <4>1, <4>2
    <3>5. ~IsKnown(r, result) =>
             RequestOK(k, m, cb_status /\ ~RequestFailed(result))
      BY <2>1 DEF IsKnown, RequestOK
    <3> HIDE DEF h, k, m, result, got
    <3> QED
      BY <1>4, <2>1, <2>2, <3>2, <3>3, <3>4, <3>5, CallbackRecords
         DEF h, k, m, result, got
  <2> QED
    BY <2>4, <2>5
<1>5. CASE \/ CurlLoop \/ CountRequest \/ WaitForResponses
           \/ ResponseNotified \/ HandleExit \/ WaitForOngoingRequests
           \/ DestroyContext \/ Interrupt \/ UNCHANGED vars
  <2>1. UNCHANGED <<sent, http, async_req_map, cb_status, request_records>>
    BY <1>5 DEF CurlLoop, CollectNewRequests, Poll, PollReturns,
         CountRequest, WaitForResponses, ResponseNotified, HandleExit,
         WaitForOngoingRequests, DestroyContext, DestroyClient, Interrupt,
         vars, chatVars, loadVars
  <2> QED
    BY <2>1 DEF RecordInv, RecordsOK, Made
<1> QED
  BY <1>1, <1>2, <1>3, <1>4, <1>5 DEF Next, WorkerThread, Transfer

-----------------------------------------------------------------------------
(* The counter of ongoing requests.                                        *)

One == IF load = "count" THEN 1 ELSE 0

CountInv ==
    /\ free \in Nat
    /\ total_ongoing_requests \in 0 .. Word - 1
    /\ Orderly =>
          /\ free + Cardinality(Outstanding) = Concurrency
          /\ \E q \in Int : Cardinality(Outstanding) - One
                              = total_ongoing_requests + Word * q

\* Arithmetic modulo Word.
LEMMA Increment ==
  ASSUME NEW n \in 0 .. Word - 1
  PROVE  (n + 1) % Word = IF n = Word - 1 THEN 0 ELSE n + 1
BY ChatLoadAssumption, Z3

LEMMA Decrement ==
  ASSUME NEW n \in 0 .. Word - 1
  PROVE  Decremented(n) = IF n = 0 THEN Word - 1 ELSE n - 1
BY ChatLoadAssumption, Z3 DEF Decremented

LEMMA ModUnique ==
  ASSUME NEW n \in Int, NEW r \in 0 .. Word - 1, NEW q \in Int,
         n = r + Word * q
  PROVE  n % Word = r
BY ChatLoadAssumption, Z3

LEMMA IncrementKeeps ==
  ASSUME NEW n \in 0 .. Word - 1, NEW out \in Int,
         \E q \in Int : out - 1 = n + Word * q
  PROVE  \E q \in Int : out = ((n + 1) % Word) + Word * q
<1>1. PICK q \in Int : out - 1 = n + Word * q
  OBVIOUS
<1>2. Word \in Nat
  BY ChatLoadAssumption
<1>3. Word * (q + 1) = Word * q + Word /\ Word * q \in Int
  BY <1>2
<1>4. CASE n = Word - 1
  <2>1. (n + 1) % Word = 0 /\ out = 0 + Word * (q + 1)
    BY <1>1, <1>2, <1>3, <1>4, Increment
  <2> QED
    BY <2>1
<1>5. CASE n # Word - 1
  <2>1. (n + 1) % Word = n + 1 /\ out = (n + 1) + Word * q
    BY <1>1, <1>2, <1>3, <1>5, Increment
  <2> QED
    BY <2>1
<1> QED
  BY <1>4, <1>5

LEMMA DecrementKeeps ==
  ASSUME NEW n \in 0 .. Word - 1, NEW out \in Int,
         \E q \in Int : out + 1 = n + Word * q
  PROVE  \E q \in Int : out = Decremented(n) + Word * q
<1>1. PICK q \in Int : out + 1 = n + Word * q
  OBVIOUS
<1>2. Word \in Nat
  BY ChatLoadAssumption
<1>3. Word * (q - 1) = Word * q - Word /\ Word * q \in Int
  BY <1>2
<1>4. CASE n = 0
  <2>1. Decremented(n) = Word - 1 /\ out = (Word - 1) + Word * (q - 1)
    BY <1>1, <1>2, <1>3, <1>4, Decrement
  <2> QED
    BY <2>1
<1>5. CASE n # 0
  <2>1. Decremented(n) = n - 1 /\ out = (n - 1) + Word * q
    BY <1>1, <1>2, <1>3, <1>5, Decrement
  <2> QED
    BY <2>1
<1> QED
  BY <1>4, <1>5

LEMMA MadeInOrder ==
  ASSUME NEW s \in Seq(Requests), \A i \in 1 .. Len(s) : s[i] = i
  PROVE  ToSet(s) = 1 .. Len(s)
BY DEF ToSet

LEMMA OutstandingIs ==
  ASSUME ClientInv
  PROVE  /\ Outstanding = {r \in Made : ~http[r].final_response_sent}
         /\ IsFiniteSet(Outstanding) /\ Cardinality(Outstanding) \in Nat
<1>1. Outstanding = {r \in Made : ~http[r].final_response_sent}
  BY MadeInOrder DEF Outstanding, ClientInv, Made
<1>2. Len(sent) \in Nat
  BY DEF ClientInv
<1>3. IsFiniteSet(1 .. Len(sent))
  BY <1>2, FS_Interval
<1>4. IsFiniteSet(Outstanding)
  BY <1>1, <1>3, FS_Subset DEF Made
<1> QED
  BY <1>1, <1>4, FS_CardinalityType

LEMMA CountInit == Init => CountInv
<1> SUFFICES ASSUME Init PROVE CountInv
  OBVIOUS
<1>1. ClientInv
  BY ClientInit
<1>2. Made = {} /\ One = 0 /\ free = Concurrency
      /\ total_ongoing_requests = 0
  BY DEF Init, Made, One
<1>3. Cardinality(Outstanding) = 0
  BY <1>1, <1>2, OutstandingIs, FS_EmptySet
<1>4. 0 \in 0 .. Word - 1 /\ Concurrency \in Nat
  BY ChatLoadAssumption
<1>5. Cardinality(Outstanding) - One = total_ongoing_requests + Word * 0
  BY <1>2, <1>3, ChatLoadAssumption
<1> QED
  BY <1>2, <1>3, <1>4, <1>5 DEF CountInv

\* Once something failed or a stream went on after its end it stays so.
LEMMA OrderlyStays ==
  ASSUME ClientInv, [Next]_vars, Orderly'
  PROVE  Orderly
<1>1. ASSUME NEW r \in Requests, SendRequest(r) PROVE Orderly
  <2>1. /\ http' = [http EXCEPT ![r] = http'[r]] /\ ~Answered(r)
        /\ http \in [Requests -> HttpRequests]
    BY <1>1, SendChanges DEF ClientInv
  <2>2. cb_status' = cb_status
    BY <1>1 DEF SendRequest
  <2>3. \A q \in Requests \ {r} : http'[q] = http[q]
    BY <2>1
  <2> QED
    BY <2>1, <2>2, <2>3 DEF Orderly, Surplus, Answered
<1>2. ASSUME NEW r \in Requests, RequestProvider(r), UNCHANGED loadVars
      PROVE  Orderly
  <2>1. /\ http' = [http EXCEPT ![r] = http'[r]] /\ ~Answered(r)
        /\ http \in [Requests -> HttpRequests]
    BY <1>2, RequestProviderChanges, ClientTransfers DEF ClientInv, Answered
  <2>2. cb_status' = cb_status
    BY <1>2 DEF loadVars
  <2>3. \A q \in Requests \ {r} : http'[q] = http[q]
    BY <2>1
  <2> QED
    BY <2>1, <2>2, <2>3 DEF Orderly, Surplus, Answered
<1>3. ASSUME NEW r \in Requests,
             /\ http' = [http EXCEPT ![r] = http'[r]]
             /\ http[r].answer # <<>> /\ http'[r].answer = http[r].answer
             /\ http'[r].is_stream = http[r].is_stream
             /\ http[r].got \in Nat /\ http'[r].got \in Nat
             /\ http[r].got <= http'[r].got,
             cb_status' => cb_status
      PROVE  Orderly
  <2>1. \A q \in Requests \ {r} : http'[q] = http[q]
    BY <1>3 DEF ClientInv
  <2>2. \A n \in 1 .. http[r].got - 1 : n \in 1 .. http'[r].got - 1
    BY <1>3
  <2>3. ~Surplus(r)
    BY <1>3, <2>2 DEF Orderly, Surplus, Answered
  <2>4. \A q \in Requests \ {r} : ~Surplus(q)
    BY <2>1 DEF Orderly, Surplus, Answered
  <2> QED
    BY <1>3, <2>3, <2>4 DEF Orderly
<1>4. ASSUME NEW r \in Requests, ResponseHandler(r),
             AsyncCallback(r, PieceResult(r))
      PROVE  Orderly
  <2>1. cb_status' => cb_status
    BY <1>4 DEF AsyncCallback, loadVars
  <2> QED
    BY <1>3, <1>4, <2>1, ResponseHandlerChanges, ClientTransfers
       DEF HttpRequests
<1>5. ASSUME NEW r \in Requests, CompleteTransfer(r),
             AsyncCallback(r, FinalResult(r))
      PROVE  Orderly
  <2>1. cb_status' => cb_status
    BY <1>5 DEF AsyncCallback, loadVars
  <2>2. http[r].got \in Nat
    BY DEF ClientInv, HttpRequests
  <2> QED
    BY <1>3, <1>5, <2>1, <2>2, CompleteTransferChanges, ClientTransfers
<1>6. CASE \/ CurlLoop \/ CountRequest \/ WaitForResponses
           \/ ResponseNotified \/ HandleExit \/ WaitForOngoingRequests
           \/ DestroyContext \/ Interrupt \/ UNCHANGED vars
  <2>1. UNCHANGED <<http, cb_status>>
    BY <1>6 DEF CurlLoop, CollectNewRequests, Poll, PollReturns,
         CountRequest, WaitForResponses, ResponseNotified, HandleExit,
         WaitForOngoingRequests, DestroyContext, DestroyClient, Interrupt,
         vars, chatVars, loadVars
  <2> QED
    BY <2>1 DEF Orderly, Surplus, Answered
<1> QED
  BY <1>1, <1>2, <1>4, <1>5, <1>6 DEF Next, WorkerThread, Transfer

\* A callback counts down for a request that was out, once.
LEMMA CallbackCount ==
  ASSUME ClientInv, CountInv, NEW r \in Requests, NEW result,
         result # <<>>, AsyncCallback(r, result),
         Orderly' => Orderly,
         Orderly' /\ IsFinalResponse(r, result) =>
             r \in Outstanding /\ Outstanding' = Outstanding \ {r},
         Orderly' /\ ~IsFinalResponse(r, result) =>
             Outstanding' = Outstanding
  PROVE  CountInv'
<1> DEFINE n == total_ongoing_requests
           out == Cardinality(Outstanding)
<1>1. /\ free \in Nat /\ n \in 0 .. Word - 1
      /\ Orderly => /\ free + out = Concurrency
                    /\ \E q \in Int : out - One = n + Word * q
  BY DEF CountInv
<1>2. UNCHANGED load /\ One' = One /\ One \in {0, 1}
  BY DEF AsyncCallback, One
<1>3. IsFiniteSet(Outstanding) /\ out \in Nat
  BY OutstandingIs
<1>4. CASE IsFinalResponse(r, result)
  <2>1. free' = free + 1 /\ n' = Decremented(n)
    BY <1>4 DEF AsyncCallback
  <2>2. free' \in Nat /\ n' \in 0 .. Word - 1
    BY <1>1, <2>1, Decrement, ChatLoadAssumption
  <2>3. ASSUME Orderly'
        PROVE  /\ free' + Cardinality(Outstanding)' = Concurrency
               /\ \E q \in Int : Cardinality(Outstanding)' - One'
                                   = n' + Word * q
    <3>1. Cardinality(Outstanding') = out - 1
      BY <1>3, <1>4, <2>3, FS_RemoveElement
    <3>2. free + out = Concurrency /\ \E q \in Int : out - One = n + Word * q
      BY <1>1, <2>3
    <3> DEFINE now == out - 1 - One
    <3>3. now \in Int /\ now + 1 = out - One
      BY <1>2, <1>3
    <3> HIDE DEF out, now
    <3>4. \E q \in Int : now = Decremented(n) + Word * q
      BY <1>1, <3>2, <3>3, DecrementKeeps
    <3>5. free' + Cardinality(Outstanding') = Concurrency
      BY <1>1, <1>3, <2>1, <3>1, <3>2
    <3> QED
      BY <1>2, <2>1, <3>1, <3>4, <3>5 DEF now
  <2> QED
    BY <2>2, <2>3 DEF CountInv
<1>5. CASE ~IsFinalResponse(r, result)
  <2>1. UNCHANGED <<free, total_ongoing_requests>>
    BY <1>5 DEF AsyncCallback
  <2> QED
    BY <1>1, <1>2, <1>5, <2>1 DEF CountInv
<1> QED
  BY <1>4, <1>5

\* Steps that leave the counter and the requests that are out alone.
LEMMA CountStays ==
  ASSUME CountInv, UNCHANGED <<free, total_ongoing_requests>>,
         One' = One, Orderly' => Orderly, Outstanding' = Outstanding
  PROVE  CountInv'
BY DEF CountInv

LEMMA CountStep ==
  ASSUME ClientInv, RecordInv, CountInv, [Next]_vars
  PROVE  CountInv'
<1>0. Orderly' => Orderly
  BY OrderlyStays
<1>1. ASSUME NEW r \in Requests, SendRequest(r) PROVE CountInv'
  <2>1. /\ free > 0 /\ free' = free - 1 /\ load = "run" /\ load' = "count"
        /\ UNCHANGED total_ongoing_requests
    BY <1>1 DEF SendRequest
  <2>2. /\ Made' = Made \cup {r} /\ r \notin Made
        /\ ~http'[r].final_response_sent
        /\ http' = [http EXCEPT ![r] = http'[r]]
        /\ sent' \in Seq(Requests) /\ sent' = Append(sent, r)
        /\ r = Len(sent) + 1 /\ Len(sent') = Len(sent) + 1
        /\ Len(sent) \in Nat
    BY <1>1, SendChanges
  <2>3. Outstanding' = {q \in Made' : ~http'[q].final_response_sent}
    <3>1. \A i \in 1 .. Len(sent') : sent'[i] = i
      BY <2>2 DEF ClientInv, Made
    <3> QED
      BY <2>2, <3>1, MadeInOrder DEF Outstanding, Made
  <2>4. \A q \in Made : q # r /\ http'[q] = http[q]
    BY <2>2, MadeAreRequests DEF ClientInv
  <2>5. Outstanding' = Outstanding \cup {r} /\ r \notin Outstanding
    BY <2>2, <2>3, <2>4, OutstandingIs
  <2>6. Cardinality(Outstanding') = Cardinality(Outstanding) + 1
        /\ Cardinality(Outstanding) \in Nat
    BY <2>5, OutstandingIs, FS_AddElement
  <2>7. One = 0 /\ One' = 1
    BY <2>1 DEF One
  <2>8. free \in Nat
    BY DEF CountInv
  <2>9. Cardinality(Outstanding') - One' = Cardinality(Outstanding) - One
        /\ free' + Cardinality(Outstanding')
             = free + Cardinality(Outstanding)
    BY <2>1, <2>6, <2>7, <2>8
  <2>10. free' \in Nat
    BY <2>1, <2>8
  <2> QED
    BY <1>0, <2>1, <2>9, <2>10 DEF CountInv
<1>2. ASSUME NEW r \in Requests, RequestProvider(r), UNCHANGED loadVars
      PROVE  CountInv'
  <2>1. /\ http' = [http EXCEPT ![r] = http'[r]]
        /\ ~http'[r].final_response_sent
        /\ ~http[r].final_response_sent
        /\ http \in [Requests -> HttpRequests]
    BY <1>2, RequestProviderChanges, ClientTransfers DEF ClientInv, TransferOK
  <2>2. UNCHANGED <<sent, load, free, total_ongoing_requests>>
    BY <1>2 DEF loadVars
  <2>3. \A q \in Requests : ~http'[q].final_response_sent
                              <=> ~http[q].final_response_sent
    <3>1. \A q \in Requests \ {r} : http'[q] = http[q]
      BY <2>1
    <3> QED
      BY <2>1, <3>1
  <2>4. Outstanding' = Outstanding
    <3>1. ToSet(sent) \subseteq Requests
      BY MadeInOrder, MadeAreRequests DEF ClientInv, Made
    <3> QED
      BY <2>2, <2>3, <3>1 DEF Outstanding
  <2> QED
    BY <1>0, <2>2, <2>4, CountStays DEF One
<1>3. ASSUME NEW r \in Requests, ResponseHandler(r),
             AsyncCallback(r, PieceResult(r))
      PROVE  CountInv'
  <2> DEFINE h == http[r]
             k == http'[r]
             p == Piece(r)
  <2>1. /\ h \in HttpRequests /\ TransferOK(h) /\ RunningOK(h)
        /\ h.answer # <<>> /\ h.got \in Nat /\ h.got < Len(Pieces(h))
        /\ k.answer = h.answer /\ k.is_stream = h.is_stream
        /\ k.got = h.got + 1
        /\ k.final_response_sent = IF h.is_stream THEN p = "[DONE]"
                                   ELSE h.final_response_sent
        /\ http' = [http EXCEPT ![r] = k]
        /\ r \in ongoing_async_requests
    BY <1>3, ResponseHandlerChanges, ClientTransfers DEF ClientInv, InTransit
  <2>2. r \in Made /\ RequestOK(h, async_req_map[r], cb_status)
    BY <2>1, MadeAreRequests DEF InTransit, RecordInv
  <2>3. sent' = sent /\ \A q \in Requests \ {r} : http'[q] = http[q]
    BY <1>3, <2>1 DEF AsyncCallback, loadVars, ClientInv
  <2>4. Outstanding' = {q \in Made : ~http'[q].final_response_sent}
    BY <2>3, MadeInOrder DEF Outstanding, ClientInv, Made
  <2>5. CASE ~h.is_stream
    <3>1. UNCHANGED loadVars
      BY <1>3, <2>5 DEF PieceResult, AsyncCallback
    <3>2. k.final_response_sent = h.final_response_sent
      BY <2>1, <2>5
    <3>3. Outstanding' = Outstanding
      BY <2>3, <2>4, <3>2, OutstandingIs, MadeAreRequests
    <3> QED
      BY <1>0, <3>1, <3>3, CountStays DEF One, loadVars
  <2>6. CASE h.is_stream
    <3> DEFINE result == PieceResult(r)
    <3>1. result = Result(200, Append(h.response_buffer, p), p = "[DONE]",
                          p = "[DONE]")
      BY <2>6 DEF PieceResult
    <3>2. /\ result # <<>> /\ ~RequestFailed(result)
          /\ result.is_final = (p = "[DONE]")
      <4> HIDE DEF p
      <4>1. result.code = 200 /\ result.is_final = (p = "[DONE]")
        BY <3>1 DEF Result
      <4>2. result # <<>>
        BY <3>1 DEF Result
      <4>3. ~RequestFailed(result)
        BY <4>1 DEF RequestFailed
      <4> QED
        BY <4>1, <4>2, <4>3
    <3>3. ASSUME Orderly'
          PROVE  async_req_map[r].known /\ cb_status
                 /\ ~h.final_response_sent
      <4>1. cb_status /\ ~Surplus(r)'
        BY <1>0, <3>3 DEF Orderly
      <4>2. Ends(h) = {}
        <5> SUFFICES ASSUME NEW i \in Ends(h) PROVE FALSE
          OBVIOUS
        <5>1. i \in 1 .. k.got - 1
          BY <2>1 DEF Ends
        <5>2. k.answer[1].pieces[i] = "[DONE]" /\ k.answer # <<>>
              /\ k.is_stream
          BY <2>1, <2>6 DEF Ends, Pieces
        <5> QED
          BY <4>1, <5>1, <5>2 DEF Surplus, Answered
      <4>3. ~h.final_response_sent
        BY <2>1, <4>2 DEF RunningOK
      <4>4. async_req_map[r].known
        BY <2>2, <4>2, <4>3 DEF RequestOK
      <4> QED
        BY <4>1, <4>3, <4>4
    <3>4. ASSUME Orderly', IsFinalResponse(r, result)
          PROVE  r \in Outstanding /\ Outstanding' = Outstanding \ {r}
      <4>1. p = "[DONE]"
        BY <3>2, <3>3, <3>4 DEF IsFinalResponse, IsKnown
      <4>2. k.final_response_sent
        BY <2>1, <2>6, <4>1
      <4> QED
        BY <2>2, <2>3, <2>4, <3>3, <3>4, <4>2, OutstandingIs,
           MadeAreRequests
    <3>5. ASSUME Orderly', ~IsFinalResponse(r, result)
          PROVE  Outstanding' = Outstanding
      <4>1. p # "[DONE]"
        BY <3>2, <3>5 DEF IsFinalResponse
      <4>2. ~k.final_response_sent
        BY <2>1, <2>6, <4>1
      <4> QED
        BY <2>3, <2>4, <3>3, <3>5, <4>2, OutstandingIs, MadeAreRequests
    <3> HIDE DEF result
    <3>6. AsyncCallback(r, result)
      BY <1>3 DEF result
    <3> QED
      BY <1>0, <3>2, <3>4, <3>5, <3>6, CallbackCount
  <2> QED
    BY <2>1, <2>5, <2>6 DEF HttpRequests
<1>4. ASSUME NEW r \in Requests, CompleteTransfer(r),
             AsyncCallback(r, FinalResult(r))
      PROVE  CountInv'
  <2> DEFINE h == http[r]
             k == http'[r]
  <2>1. /\ h.answer # <<>> /\ k.final_response_sent
        /\ http' = [http EXCEPT ![r] = k]
        /\ r \in ongoing_async_requests
    BY <1>4, CompleteTransferChanges, ClientTransfers
  <2>2. r \in Made
    BY <2>1, MadeAreRequests DEF InTransit
  <2>3. sent' = sent /\ \A q \in Requests \ {r} : http'[q] = http[q]
    BY <1>4, <2>1 DEF AsyncCallback, loadVars, ClientInv
  <2>4. Outstanding' = {q \in Made : ~http'[q].final_response_sent}
    BY <2>3, MadeInOrder DEF Outstanding, ClientInv, Made
  <2>5. CASE h.final_response_sent
    <3>1. UNCHANGED loadVars
      BY <1>4, <2>5 DEF FinalResult, AsyncCallback
    <3>2. Outstanding' = Outstanding
      BY <2>1, <2>3, <2>4, <2>5, OutstandingIs, MadeAreRequests
    <3> QED
      BY <1>0, <3>1, <3>2, CountStays DEF One, loadVars
  <2>6. CASE ~h.final_response_sent
    <3> DEFINE result == FinalResult(r)
    <3>1. result = Result(HttpCode(h.answer[1]), h.response_buffer, TRUE,
                          FALSE)
      BY <2>6 DEF FinalResult
    <3>2. result # <<>> /\ result.is_final = TRUE
      BY <3>1 DEF Result
    <3>3. IsFinalResponse(r, result)
      BY <3>2 DEF IsFinalResponse
    <3>4. r \in Outstanding /\ Outstanding' = Outstanding \ {r}
      BY <2>1, <2>2, <2>3, <2>4, <2>6, OutstandingIs, MadeAreRequests
    <3> HIDE DEF result
    <3>5. AsyncCallback(r, result)
      BY <1>4 DEF result
    <3> QED
      BY <1>0, <3>2, <3>3, <3>4, <3>5, CallbackCount
  <2> QED
    BY <2>5, <2>6
<1>5. CASE CountRequest
  <2> DEFINE n == total_ongoing_requests
             out == Cardinality(Outstanding)
  <2>1. /\ n' = (n + 1) % Word /\ One = 1 /\ One' = 0
        /\ UNCHANGED <<free, sent, http>>
    BY <1>5 DEF CountRequest, One, chatVars
  <2>2. Outstanding' = Outstanding /\ out \in Nat
    BY <2>1, OutstandingIs DEF Outstanding
  <2>3. n \in 0 .. Word - 1 /\ n' \in 0 .. Word - 1
    BY <2>1, Increment, ChatLoadAssumption DEF CountInv
  <2>4. ASSUME \E q \in Int : out - One = n + Word * q
        PROVE  \E q \in Int : out - One' = n' + Word * q
    <3> HIDE DEF out
    <3>1. \E q \in Int : out - 1 = n + Word * q
      BY <2>1, <2>4
    <3>2. \E q \in Int : out = ((n + 1) % Word) + Word * q
      BY <2>2, <2>3, <3>1, IncrementKeeps
    <3> QED
      BY <2>1, <2>2, <3>2
  <2> QED
    BY <1>0, <2>1, <2>2, <2>3, <2>4 DEF CountInv
<1>6. CASE \/ CurlLoop \/ WaitForResponses
           \/ ResponseNotified \/ HandleExit \/ WaitForOngoingRequests
           \/ DestroyContext \/ Interrupt \/ UNCHANGED vars
  <2>1. /\ UNCHANGED <<http, sent, free, total_ongoing_requests>>
        /\ One' = One
    BY <1>6 DEF CurlLoop, CollectNewRequests, Poll, PollReturns,
         WaitForResponses, ResponseNotified, HandleExit,
         WaitForOngoingRequests, DestroyContext, DestroyClient, Interrupt,
         vars, chatVars, loadVars, One
  <2>2. Outstanding' = Outstanding
    BY <2>1 DEF Outstanding
  <2> QED
    BY <1>0, <2>1, <2>2, CountStays
<1> QED
  BY <1>1, <1>2, <1>3, <1>4, <1>5, <1>6 DEF Next, WorkerThread, Transfer

-----------------------------------------------------------------------------
(* The theorems.                                                           *)

ChatLoadInv == ClientInv /\ RecordInv /\ CountInv

LEMMA ChatLoadInvHolds == Spec => []ChatLoadInv
<1>1. Init => ChatLoadInv
  BY ClientInit, RecordInit, CountInit DEF ChatLoadInv
<1>2. ChatLoadInv /\ [Next]_vars => ChatLoadInv'
  BY ClientStep, RecordStep, CountStep DEF ChatLoadInv
<1> QED
  BY <1>1, <1>2, PTL DEF Spec

\* Every variable of the chat client and of the context keeps its type, for
\* all answers; the counter of ongoing requests stays within its width.
THEOREM ChatLoadTypeCorrect == Spec => []ChatLoadTypeOK
<1> DEFINE Flags == /\ wakeup \in BOOLEAN /\ exiting \in BOOLEAN
                    /\ worker \in {"collect", "perform", "poll", "ended"}
                    /\ infer_stat \in Nat
<1>1. Init => Flags
  <2> SUFFICES ASSUME Init PROVE Flags
    OBVIOUS
  <2>1. /\ wakeup = FALSE /\ exiting = FALSE /\ worker = "collect"
        /\ infer_stat = 0
    BY DEF Init, ChatInit
  <2> QED
    BY <2>1
<1>2. Flags /\ [Next]_vars => Flags'
  <2> SUFFICES ASSUME Flags, [Next]_vars PROVE Flags'
    OBVIOUS
  <2>1. ASSUME NEW r \in Requests, SendRequest(r) PROVE Flags'
    BY <2>1 DEF SendRequest, AsyncInfer, ClientAsyncInfer, Send
  <2>2. ASSUME NEW r \in Requests, Transfer(r) PROVE Flags'
    <3>1. UNCHANGED <<wakeup, exiting, worker>>
      BY <2>2 DEF Transfer, RequestProvider, ResponseHandler,
                  CompleteTransfer
    <3>2. infer_stat' \in {infer_stat, infer_stat + 0, infer_stat + 1}
      BY <2>2 DEF Transfer, RequestProvider, ResponseHandler,
                  CompleteTransfer, UpdateInferStat
    <3> QED
      BY <3>1, <3>2
  <2>3. CASE \/ CurlLoop \/ CountRequest \/ WaitForResponses
             \/ ResponseNotified \/ HandleExit \/ WaitForOngoingRequests
             \/ DestroyContext \/ Interrupt \/ UNCHANGED vars
    BY <2>3 DEF CurlLoop, CollectNewRequests, Poll, PollReturns,
         CountRequest, WaitForResponses, ResponseNotified, HandleExit,
         WaitForOngoingRequests, DestroyContext, DestroyClient, Interrupt,
         vars, chatVars
  <2> QED
    BY <2>1, <2>2, <2>3 DEF Next, WorkerThread
<1>3. ChatLoadInv /\ Flags => ChatLoadTypeOK
  <2> SUFFICES ASSUME ChatLoadInv, Flags PROVE ChatLoadTypeOK
    OBVIOUS
  <2>1. InTransit \subseteq Requests
    BY MadeAreRequests DEF ChatLoadInv
  <2>2. ChatTypeOK
    BY <2>1 DEF ChatTypeOK
  <2> QED
    BY <2>2 DEF ChatLoadTypeOK, ChatLoadInv, ClientInv, RecordInv, CountInv,
                Entries
<1> HIDE DEF Flags
<1> QED
  BY <1>1, <1>2, <1>3, ChatLoadInvHolds, PTL DEF Spec

\* However the pieces of several answers interleave, whatever fails, and also
\* where a stream goes on after "[DONE]": each request has one record at
\* most, with its own responses, whole and in order; and until something
\* fails the counter is the number of requests that are out, modulo its
\* width, and with the free context ids they make up the concurrency.
THEOREM BookkeepingCorrect == Spec => []BookkeepingFaithful
<1>1. ChatLoadInv => RecordFaithful
  BY ResponsesAre DEF ChatLoadInv, RecordInv, RecordsOK, RecordFaithful
<1>2. ChatLoadInv => CountedWhileOrderly
  <2> SUFFICES ASSUME ChatLoadInv, Orderly
               PROVE  /\ total_ongoing_requests
                          = (Cardinality(Outstanding) + Word - One) % Word
                      /\ free + Cardinality(Outstanding) = Concurrency
    BY DEF CountedWhileOrderly, One
  <2> DEFINE n == total_ongoing_requests
             out == Cardinality(Outstanding)
  <2>1. /\ out \in Nat /\ n \in 0 .. Word - 1 /\ One \in {0, 1}
        /\ free + out = Concurrency
    BY OutstandingIs DEF ChatLoadInv, CountInv, One
  <2>2. PICK q \in Int : out - One = n + Word * q
    BY DEF ChatLoadInv, CountInv
  <2> HIDE DEF out
  <2>3. Word \in Nat /\ Word * (q + 1) = Word * q + Word
        /\ Word * q \in Int
    BY ChatLoadAssumption
  <2>4. out + Word - One = n + Word * (q + 1) /\ out + Word - One \in Int
    BY <2>1, <2>2, <2>3
  <2>5. (out + Word - One) % Word = n
    BY <2>1, <2>4, ModUnique
  <2> QED
    BY <2>1, <2>5 DEF out
<1>3. ChatLoadInv => BookkeepingFaithful
  BY <1>1, <1>2 DEF BookkeepingFaithful
<1> QED
  BY <1>3, ChatLoadInvHolds, PTL

-----------------------------------------------------------------------------
(* Session concurrency mode.  What its inductive invariant says of threads,*)
(* payloads, records and histories while the program lives (Live), and     *)
(* what is left of it when it has died (SessionInv).                       *)

Histories == Seq(Message)

RequestRecord ==
    [index : Requests, payload : Histories, responses : Seq(Seq(STRING))]

SessionThread ==
    [pc : {"none", "next", "send", "wait", "delay", "ended"}, session : Nat,
     i : Nat, chat_history : Histories]

SessionTypes ==
    /\ concurrency \in Threads
    /\ main \in {"start", "join", "joined", "threw"}
    /\ next_session_index \in Nat
    /\ thread \in [Threads -> SessionThread]
    /\ promise \in [Threads -> BOOLEAN]
    /\ records \in [Threads -> Seq(RequestRecord)]
    /\ http \in [Requests -> HttpRequests]
    /\ infer_stat \in Nat

\* What the client knows of a request; it was sent if its body was read.
ClientOK ==
    /\ InTransit \subseteq Requests
    /\ new_async_requests \cap ongoing_async_requests = {}
    /\ exiting => main = "joined"
    /\ \A r \in Requests :
          /\ TransferOK(http[r])
          /\ Answered(r) => http[r].sent = BodyRead(http[r].answer[1])
    /\ \A r \in InTransit : ~http[r].final_response_sent

\* What has become of the request of a payload.
Phase(k) == IF k \in InTransit THEN "out"
            ELSE IF http[k].final_response_sent THEN "done" ELSE "new"

Busy == {t \in Threads : thread[t].pc \in {"send", "wait", "delay"}}
Held(p) == \E t \in Busy : thread[t].session = p

\* The request a busy thread is at.
Now(t) == CASE thread[t].pc = "send" -> "new"
            [] thread[t].pc = "wait" /\ ~promise[t] -> "out"
            [] OTHER -> "done"

Started == main \in {"join", "joined"}

\* Where main and the threads are.
ThreadsOK ==
    /\ ~Started =>
          /\ next_session_index = 0
          /\ \A t \in Threads : thread[t].pc = "none"
    /\ Started =>
          /\ order \in GroupPayloadsBySession
          /\ 1 .. concurrency \subseteq Threads
          /\ \A t \in Threads : thread[t].pc = "none" <=> t > concurrency
    /\ main = "joined" =>
          \A t \in 1 .. concurrency : thread[t].pc = "ended"
    /\ \A t \in Threads :
          /\ thread[t].pc = "ended" => next_session_index >= Len(order)
          /\ thread[t].pc = "none" => records[t] = <<>>

\* A busy thread is in a session that is its own.
PlacesOK ==
    /\ \A t \in Busy :
          /\ thread[t].session \in DOMAIN order
          /\ thread[t].session <= next_session_index
          /\ thread[t].i \in DOMAIN order[thread[t].session]
          /\ thread[t].pc = "delay" => ~IsLastRequest(t)
    /\ \A t, u \in Busy : thread[t].session = thread[u].session => t = u

\* How far every session has come: the requests before the one its thread is
\* at are done, those after it not yet made.
BusyAt(t, j) == Phase(order[thread[t].session][j]) =
                    IF j < thread[t].i THEN "done"
                    ELSE IF j > thread[t].i THEN "new" ELSE Now(t)
IdleAt(p, j) == Phase(order[p][j]) =
                    IF p <= next_session_index THEN "done" ELSE "new"
PhasesOK ==
    /\ ~Started => \A k \in Requests : Phase(k) = "new"
    /\ \A t \in Busy : \A j \in DOMAIN order[thread[t].session] : BusyAt(t, j)
    /\ Started => \A p \in DOMAIN order :
          ~Held(p) => \A j \in DOMAIN order[p] : IdleAt(p, j)

\* The records there are, and what each of them says.
AllEntries == {e \in Threads \X Nat : e[2] \in DOMAIN records[e[1]]}
Entry(e) == records[e[1]][e[2]]

EntryOK(rec) ==
    /\ Phase(rec.index) # "new"
    /\ http[rec.index].body = <<rec.payload>>
    /\ Len(rec.responses) = IF Phase(rec.index) = "done" THEN 1 ELSE 0
    /\ rec.payload # <<>> => Last(rec.payload) # Reply(rec.index)

EntriesOK ==
    /\ \A e \in AllEntries : EntryOK(Entry(e))
    /\ \A d, e \in AllEntries : Entry(d).index = Entry(e).index => d = e
    /\ \A k \in Requests :
          Phase(k) # "new" => \E e \in AllEntries : Entry(e).index = k
    /\ \A t \in Threads : thread[t].pc = "wait" /\ ~promise[t] =>
          records[t] # <<>> /\ Last(records[t]).index = Payload(t)

\* What was said in the n-th session up to its i-th request.
Said(p, i) ==
    IF i = 0 THEN <<>>
    ELSE http[order[p][i]].body[1]
         \o (IF Phase(order[p][i]) = "done" THEN <<Reply(order[p][i])>>
             ELSE <<>>)
Asked(t) == IF thread[t].pc = "send" THEN thread[t].i - 1 ELSE thread[t].i

HistoryOK(t) == thread[t].chat_history = Said(thread[t].session, Asked(t))
HistoriesOK == \A t \in Busy : HistoryOK(t)

Finished == {k \in Requests : Phase(k) = "done"}
CountOK == infer_stat = Cardinality(Finished)

Live == /\ SessionTypes /\ ClientOK /\ ThreadsOK /\ PlacesOK /\ PhasesOK
        /\ EntriesOK /\ HistoriesOK /\ CountOK

SessionInv ==
    /\ ~terminated => Live
    /\ terminated => main # "joined" /\ RecordAlive /\ DiesOnlyOfFault

-----------------------------------------------------------------------------
(* The sessions and their payloads.                                        *)

LEMMA LeastNatural ==
  ASSUME NEW S \in SUBSET Nat, S # {}
  PROVE  \E m \in S : \A j \in S : m <= j
<1> DEFINE R == OpToRel(<, Nat)
<1>1. IsWellFoundedOn(R, Nat)
  BY NatLessThanWellFounded
<1>2. PICK m \in S : \A j \in S : <<j, m>> \notin R
  <2> HIDE DEF R
  <2> QED BY <1>1, WFMin
<1>3. \A j \in S : ~(j < m)
  BY <1>2 DEF OpToRel
<1> QED BY <1>3

LEMMA Induction ==
  ASSUME NEW S, 0 \in S, \A j \in Nat : j \in S => j + 1 \in S
  PROVE  \A j \in Nat : j \in S
<1> SUFFICES ASSUME NEW k \in Nat, k \notin S PROVE FALSE
  OBVIOUS
<1>1. PICK m \in Nat \ S : \A j \in Nat \ S : m <= j
  BY LeastNatural
<1>2. m # 0 /\ m - 1 \in Nat
  BY <1>1
<1>3. m - 1 \in S
  BY <1>1, <1>2
<1> QED BY <1>1, <1>2, <1>3

\* The loop of CreateSessionIdToPayloadsMap after k payloads.
Collecting(s, g, k) ==
  g = [n \in 0 .. k |-> IF n = 0 THEN <<>>
                        ELSE IF Data[n].session = s THEN Append(g[n - 1], n)
                        ELSE g[n - 1]]

LEMMA PayloadsUnfold ==
  ASSUME NEW s, Len(Data) \in Nat
  PROVE  \E g : /\ Collecting(s, g, Len(Data))
                /\ SessionPayloads(s) = g[Len(Data)]
<1> DEFINE D == {k \in Nat : \E g : Collecting(s, g, k)}
<1>1. 0 \in D
  <2> DEFINE g == [n \in 0 .. 0 |-> <<>>]
  <2>1. Collecting(s, g, 0)
    BY DEF Collecting
  <2> QED BY <2>1
<1>2. ASSUME NEW k \in Nat, k \in D
      PROVE  k + 1 \in D
  <2>1. PICK g : Collecting(s, g, k)
    BY <1>2
  <2> DEFINE h == [n \in 0 .. k + 1 |->
                     IF n = k + 1
                     THEN IF Data[n].session = s THEN Append(g[k], n)
                          ELSE g[k]
                     ELSE g[n]]
  <2>2. ASSUME NEW n \in 0 .. k + 1
        PROVE  h[n] = IF n = 0 THEN <<>>
                      ELSE IF Data[n].session = s THEN Append(h[n - 1], n)
                      ELSE h[n - 1]
    <3>1. CASE n = k + 1
      <4>1. n # 0 /\ n - 1 \in 0 .. k + 1 /\ n - 1 # k + 1 /\ n - 1 = k
        BY <3>1
      <4>2. h[n - 1] = g[k]
        BY <4>1
      <4> QED BY <3>1, <4>1, <4>2
    <3>2. CASE n # k + 1
      <4>1. n \in 0 .. k
        BY <3>2
      <4>2. n # 0 => n - 1 \in 0 .. k + 1 /\ n - 1 # k + 1
        BY <4>1
      <4>3. g[n] = IF n = 0 THEN <<>>
                   ELSE IF Data[n].session = s THEN Append(g[n - 1], n)
                   ELSE g[n - 1]
        BY <2>1, <4>1 DEF Collecting
      <4>4. h[n] = g[n] /\ (n # 0 => h[n - 1] = g[n - 1])
        BY <3>2, <4>2
      <4> QED BY <4>3, <4>4
    <3> QED BY <3>1, <3>2
  <2>3. Collecting(s, h, k + 1)
    BY <2>2 DEF Collecting
  <2>4. k + 1 \in Nat
    OBVIOUS
  <2> HIDE DEF h
  <2> QED BY <2>3, <2>4
<1> DEFINE N == Len(Data)
           g == CHOOSE g : Collecting(s, g, N)
<1>3. Collecting(s, g, N)
  <2>1. N \in D
    <3> HIDE DEF D
    <3> QED BY <1>1, <1>2, Induction
  <2> QED BY <2>1
<1>4. SessionPayloads(s) = g[N]
  BY DEF SessionPayloads, Collecting
<1> HIDE DEF g
<1> QED BY <1>3, <1>4

\* q lists the payloads of session s among the first n, in file order.
Lists(q, s, n) ==
  /\ q \in Seq(1 .. n)
  /\ \A i, j \in DOMAIN q : i < j => q[i] < q[j]
  /\ \A k \in 1 .. n :
        (Data[k].session = s) <=> \E i \in DOMAIN q : q[i] = k

LEMMA ListsOneMore ==
  ASSUME NEW n \in Nat, NEW s, NEW q, Lists(q, s, n)
  PROVE  Lists(IF Data[n + 1].session = s THEN Append(q, n + 1) ELSE q,
               s, n + 1)
<1>1. q \in Seq(1 .. n + 1) /\ Len(q) \in Nat /\ DOMAIN q = 1 .. Len(q)
      /\ \A i \in DOMAIN q : q[i] \in 1 .. n
  <2>1. q \in Seq(1 .. n) /\ 1 .. n \subseteq 1 .. n + 1
    BY DEF Lists
  <2>2. \A i \in 1 .. Len(q) : q[i] \in 1 .. n
    BY <2>1, ElementOfSeq
  <2> QED BY <2>1, <2>2
<1>2. CASE Data[n + 1].session # s
  <2>1. \A k \in 1 .. n + 1 : k \in 1 .. n \/ k = n + 1
    OBVIOUS
  <2>2. \A i \in DOMAIN q : q[i] # n + 1
    BY <1>1
  <2>3. \A i, j \in DOMAIN q : i < j => q[i] < q[j]
    BY DEF Lists
  <2>4. \A k \in 1 .. n + 1 :
          (Data[k].session = s) <=> \E i \in DOMAIN q : q[i] = k
    BY <1>2, <2>1, <2>2 DEF Lists
  <2> QED BY <1>1, <1>2, <2>3, <2>4 DEF Lists
<1>3. CASE Data[n + 1].session = s
  <2> DEFINE r == Append(q, n + 1)
  <2>1. /\ r \in Seq(1 .. n + 1) /\ Len(r) = Len(q) + 1
        /\ DOMAIN r = 1 .. Len(q) + 1
        /\ \A i \in DOMAIN q : r[i] = q[i]
        /\ r[Len(q) + 1] = n + 1
    BY <1>1, AppendProperties
  <2> HIDE DEF r
  <2>2. \A i \in DOMAIN r : i \in DOMAIN q \/ i = Len(q) + 1
    BY <1>1, <2>1
  <2>3. \A i, j \in DOMAIN r : i < j => r[i] < r[j]
    <3> SUFFICES ASSUME NEW i \in DOMAIN r, NEW j \in DOMAIN r, i < j
                 PROVE  r[i] < r[j]
      OBVIOUS
    <3>1. i \in DOMAIN q
      BY <1>1, <2>1
    <3>2. CASE j \in DOMAIN q
      <4>1. q[i] < q[j]
        BY <3>1, <3>2 DEF Lists
      <4> QED BY <2>1, <3>1, <3>2, <4>1
    <3>3. CASE j = Len(q) + 1
      <4>1. r[i] = q[i] /\ r[j] = n + 1 /\ q[i] \in 1 .. n
        BY <1>1, <2>1, <3>1, <3>3
      <4> QED BY <4>1
    <3> QED BY <2>2, <3>2, <3>3
  <2>4. ASSUME NEW k \in 1 .. n + 1
        PROVE  (Data[k].session = s) <=> \E i \in DOMAIN r : r[i] = k
    <3>1. CASE k = n + 1
      <4>1. Len(q) + 1 \in DOMAIN r
        BY <1>1, <2>1
      <4> QED BY <1>3, <2>1, <3>1, <4>1
    <3>2. CASE k # n + 1
      <4>1. k \in 1 .. n
        BY <3>2
      <4>2. (Data[k].session = s) <=> \E i \in DOMAIN q : q[i] = k
        BY <4>1 DEF Lists
      <4>3. DOMAIN q \subseteq DOMAIN r
        BY <1>1, <2>1
      <4>4. (\E i \in DOMAIN r : r[i] = k) => \E i \in DOMAIN q : q[i] = k
        BY <2>1, <2>2, <3>2
      <4>5. (\E i \in DOMAIN q : q[i] = k) => \E i \in DOMAIN r : r[i] = k
        BY <2>1, <4>3
      <4> QED BY <4>2, <4>4, <4>5
    <3> QED BY <3>1, <3>2
  <2>5. Lists(r, s, n + 1)
    BY <2>1, <2>3, <2>4 DEF Lists
  <2> QED BY <1>3, <2>5 DEF r
<1> QED BY <1>2, <1>3

LEMMA PayloadsListed ==
  ASSUME NEW s
  PROVE  Lists(SessionPayloads(s), s, Len(Data))
<1> DEFINE N == Len(Data)
<1>1. N \in Nat
  BY SessionsAssumption
<1>2. PICK g : Collecting(s, g, N) /\ SessionPayloads(s) = g[N]
  BY <1>1, PayloadsUnfold
<1> DEFINE D == {n \in Nat : n <= N => Lists(g[n], s, n)}
<1>3. 0 \in D
  <2>1. 0 \in 0 .. N
    BY <1>1
  <2>2. g[0] = <<>>
    BY <1>2, <2>1 DEF Collecting
  <2>3. Lists(<<>>, s, 0)
    BY EmptySeq DEF Lists
  <2> QED BY <2>2, <2>3
<1>4. ASSUME NEW n \in Nat, n \in D
      PROVE  n + 1 \in D
  <2> SUFFICES ASSUME n + 1 <= N PROVE Lists(g[n + 1], s, n + 1)
    OBVIOUS
  <2>1. n + 1 \in 0 .. N /\ n + 1 # 0 /\ n + 1 - 1 = n
    BY <1>1
  <2>2. g[n + 1] = IF Data[n + 1].session = s THEN Append(g[n], n + 1)
                   ELSE g[n]
    <3> DEFINE m == n + 1
    <3>1. g[m] = IF m = 0 THEN <<>>
                 ELSE IF Data[m].session = s THEN Append(g[m - 1], m)
                 ELSE g[m - 1]
      <4>1. m \in 0 .. N
        BY <2>1
      <4> HIDE DEF m
      <4> QED BY <1>2, <4>1 DEF Collecting
    <3> QED BY <2>1, <3>1
  <2>3. Lists(g[n], s, n)
    BY <1>1, <1>4
  <2> QED BY <2>2, <2>3, ListsOneMore
<1>5. N \in D
  <2> HIDE DEF D
  <2> QED BY <1>1, <1>3, <1>4, Induction
<1> QED BY <1>1, <1>2, <1>5

\* What a grouping of the payloads by session is.
Place(ord, p, j) == p \in DOMAIN ord /\ j \in DOMAIN ord[p]

Grouped(ord) ==
  /\ ord \in Seq(Seq(Requests))
  /\ Len(ord) = Cardinality(SessionIds)
  /\ \A p \in DOMAIN ord :
        /\ Data[ord[p][1]].session \in SessionIds
        /\ ord[p] = SessionPayloads(Data[ord[p][1]].session)
        /\ 1 \in DOMAIN ord[p]
        /\ \A i, j \in DOMAIN ord[p] : i < j => ord[p][i] < ord[p][j]
        /\ \A j \in DOMAIN ord[p] :
              Data[ord[p][j]].session = Data[ord[p][1]].session
  /\ \A p, q \in DOMAIN ord :
        Data[ord[p][1]].session = Data[ord[q][1]].session => p = q
  /\ \A k \in Requests : \E p, j : Place(ord, p, j) /\ ord[p][j] = k

LEMMA SessionsFinite ==
  /\ Requests \subseteq Nat /\ IsFiniteSet(Requests)
  /\ Cardinality(Requests) = Len(Data) /\ Len(Data) \in Nat
  /\ IsFiniteSet(SessionIds) /\ Cardinality(SessionIds) \in Nat
<1>1. Len(Data) \in Nat /\ Requests = 1 .. Len(Data)
  BY SessionsAssumption
<1>2. IsFiniteSet(Requests) /\ Cardinality(Requests) = Len(Data)
  <2> DEFINE N == Len(Data)
  <2>1. 1 \in Int /\ N \in Int
    BY <1>1
  <2>2. /\ IsFiniteSet(1 .. N)
        /\ Cardinality(1 .. N) = IF 1 > N THEN 0 ELSE N - 1 + 1
    <3> HIDE DEF N
    <3> QED BY <2>1, FS_Interval
  <2> QED BY <1>1, <2>2
<1>3. SessionIds = {Data[k].session : k \in Requests}
  BY SessionsAssumption DEF SessionIds
<1>4. IsFiniteSet(SessionIds)
  <2> DEFINE f == [k \in Requests |-> Data[k].session]
  <2>1. f \in Surjection(Requests, SessionIds)
    BY <1>3 DEF Surjection
  <2> HIDE DEF f
  <2> QED BY <1>2, <2>1, FS_Surjection
<1> QED BY <1>1, <1>2, <1>4, FS_CardinalityType

LEMMA OfSession ==
  ASSUME NEW s \in SessionIds
  PROVE  LET q == SessionPayloads(s)
         IN  /\ q \in Seq(Requests) /\ 1 \in DOMAIN q
             /\ \A i, j \in DOMAIN q : i < j => q[i] < q[j]
             /\ \A j \in DOMAIN q : Data[q[j]].session = s
             /\ \A k \in Requests :
                   Data[k].session = s => \E j \in DOMAIN q : q[j] = k
<1> DEFINE q == SessionPayloads(s)
<1>1. Lists(q, s, Len(Data))
  BY PayloadsListed
<1>2. Requests = 1 .. Len(Data)
  BY SessionsAssumption
<1> HIDE DEF q
<1>3. q \in Seq(Requests) /\ DOMAIN q = 1 .. Len(q) /\ Len(q) \in Nat
  BY <1>1, <1>2 DEF Lists
<1>4. \A i, j \in DOMAIN q : i < j => q[i] < q[j]
  BY <1>1 DEF Lists
<1>5. \A j \in DOMAIN q : q[j] \in 1 .. Len(Data)
  BY <1>2, <1>3, ElementOfSeq
<1>6. \A k \in 1 .. Len(Data) :
        (Data[k].session = s) <=> \E i \in DOMAIN q : q[i] = k
  BY <1>1 DEF Lists
<1>7. \A j \in DOMAIN q : Data[q[j]].session = s
  BY <1>5, <1>6
<1>8. PICK k \in Requests : Data[k].session = s
  BY SessionsAssumption DEF SessionIds
<1>9. PICK i \in DOMAIN q : q[i] = k
  BY <1>2, <1>6, <1>8
<1>10. 1 \in DOMAIN q
  BY <1>3, <1>9
<1> QED BY <1>2, <1>3, <1>4, <1>6, <1>7, <1>10 DEF q

LEMMA GroupIsGrouped ==
  ASSUME NEW ord \in GroupPayloadsBySession
  PROVE  Grouped(ord)
<1> DEFINE N == Cardinality(SessionIds)
<1>1. PICK ids \in SetToSeqs(SessionIds) :
        ord = [n \in DOMAIN ids |-> SessionPayloads(ids[n])]
  BY DEF GroupPayloadsBySession
<1>2. /\ ids \in [1 .. N -> SessionIds]
      /\ \A i, j \in 1 .. N : i # j => ids[i] # ids[j]
  BY <1>1 DEF SetToSeqs
<1>3. N \in Nat /\ IsFiniteSet(SessionIds)
  BY SessionsFinite
<1> HIDE DEF N
<1>4. ord = [n \in 1 .. N |-> SessionPayloads(ids[n])]
  BY <1>1, <1>2
<1>5. \A n \in 1 .. N :
         ids[n] \in SessionIds /\ ord[n] = SessionPayloads(ids[n])
  BY <1>2, <1>4
<1>6. ord \in Seq(Seq(Requests)) /\ Len(ord) = N /\ DOMAIN ord = 1 .. N
  <2>1. \A n \in 1 .. N : SessionPayloads(ids[n]) \in Seq(Requests)
    BY <1>5, OfSession
  <2> QED BY <1>3, <1>4, <2>1
<1>7. ASSUME NEW p \in DOMAIN ord
      PROVE  /\ Data[ord[p][1]].session = ids[p]
             /\ Data[ord[p][1]].session \in SessionIds
             /\ ord[p] = SessionPayloads(Data[ord[p][1]].session)
             /\ 1 \in DOMAIN ord[p]
             /\ \A i, j \in DOMAIN ord[p] : i < j => ord[p][i] < ord[p][j]
             /\ \A j \in DOMAIN ord[p] :
                   Data[ord[p][j]].session = Data[ord[p][1]].session
  <2> DEFINE s == ids[p]
             q == SessionPayloads(s)
  <2>1. s \in SessionIds /\ ord[p] = q
    BY <1>5, <1>6
  <2>2. /\ 1 \in DOMAIN q
        /\ \A i, j \in DOMAIN q : i < j => q[i] < q[j]
        /\ \A j \in DOMAIN q : Data[q[j]].session = s
    <3> HIDE DEF s
    <3> QED BY <2>1, OfSession
  <2>3. Data[q[1]].session = s
    BY <2>2
  <2> HIDE DEF q, s
  <2> QED BY <2>1, <2>2, <2>3 DEF q, s
<1>8. \A p, q \in DOMAIN ord :
        Data[ord[p][1]].session = Data[ord[q][1]].session => p = q
  BY <1>2, <1>6, <1>7
<1>9. ids \in Surjection(1 .. N, SessionIds)
  <2>1. ids \in Injection(1 .. N, SessionIds)
    BY <1>2 DEF Injection, IsInjective
  <2>2. Cardinality(1 .. N) = N
    <3>1. 1 \in Int /\ N \in Int
      BY <1>3
    <3>2. Cardinality(1 .. N) = IF 1 > N THEN 0 ELSE N - 1 + 1
      BY <3>1, FS_Interval
    <3> QED BY <1>3, <3>2
  <2>3. Cardinality(1 .. N) = Cardinality(SessionIds)
    BY <2>2 DEF N
  <2>4. (Cardinality(1 .. N) = Cardinality(SessionIds))
          <=> ids \in Surjection(1 .. N, SessionIds)
    BY <1>3, <2>1, FS_Injection
  <2> QED BY <2>3, <2>4
<1>10. ASSUME NEW k \in Requests
       PROVE  \E p, j : Place(ord, p, j) /\ ord[p][j] = k
  <2>1. Data[k].session \in SessionIds
    BY SessionsAssumption DEF SessionIds
  <2>2. PICK p \in 1 .. N : ids[p] = Data[k].session
    BY <1>9, <2>1 DEF Surjection
  <2>3. \E j \in DOMAIN SessionPayloads(ids[p]) :
          SessionPayloads(ids[p])[j] = k
    BY <2>1, <2>2, OfSession
  <2>4. ord[p] = SessionPayloads(ids[p]) /\ p \in DOMAIN ord
    BY <1>5, <1>6
  <2> QED BY <2>3, <2>4 DEF Place
<1>11. Len(ord) = Cardinality(SessionIds)
  BY <1>6 DEF N
<1> QED BY <1>6, <1>7, <1>8, <1>10, <1>11 DEF Grouped

\* A payload has one place.
LEMMA OnePlace ==
  ASSUME NEW ord, Grouped(ord), NEW p \in DOMAIN ord, NEW q \in DOMAIN ord,
         NEW i \in DOMAIN ord[p], NEW j \in DOMAIN ord[q],
         ord[p][i] = ord[q][j]
  PROVE  p = q /\ i = j
<1>1. p = q
  <2>1. Data[ord[p][i]].session = Data[ord[p][1]].session
    BY DEF Grouped
  <2>2. Data[ord[q][j]].session = Data[ord[q][1]].session
    BY DEF Grouped
  <2>3. Data[ord[p][1]].session = Data[ord[q][1]].session
    BY <2>1, <2>2
  <2> QED BY <2>3 DEF Grouped
<1>2. ord[p] \in Seq(Requests) /\ DOMAIN ord[p] = 1 .. Len(ord[p])
      /\ Len(ord[p]) \in Nat
  <2>1. ord \in Seq(Seq(Requests)) /\ p \in 1 .. Len(ord)
    BY DEF Grouped
  <2>2. ord[p] \in Seq(Requests)
    BY <2>1, ElementOfSeq
  <2> QED BY <2>2
<1>3. i \in 1 .. Len(ord[p]) /\ j \in 1 .. Len(ord[p])
      /\ ord[p][i] = ord[p][j]
  BY <1>1, <1>2
<1>4. \A k \in 1 .. Len(ord[p]) : ord[p][k] \in Nat
  <2>1. \A k \in 1 .. Len(ord[p]) : ord[p][k] \in Requests
    BY <1>2, ElementOfSeq
  <2> QED BY <2>1, SessionsFinite
<1>5. \A k, l \in 1 .. Len(ord[p]) : k < l => ord[p][k] < ord[p][l]
  BY <1>2 DEF Grouped
<1>6. CASE i < j
  BY <1>3, <1>4, <1>5, <1>6
<1>7. CASE j < i
  BY <1>3, <1>4, <1>5, <1>7
<1>8. i = j
  BY <1>2, <1>3, <1>6, <1>7
<1> QED BY <1>1, <1>8

LEMMA PlaceTypes ==
  ASSUME NEW ord, Grouped(ord), NEW p \in DOMAIN ord
  PROVE  /\ DOMAIN ord = 1 .. Len(ord) /\ Len(ord) \in Nat
         /\ ord[p] \in Seq(Requests) /\ Len(ord[p]) \in Nat \ {0}
         /\ DOMAIN ord[p] = 1 .. Len(ord[p])
         /\ \A j \in DOMAIN ord[p] : ord[p][j] \in Requests
<1>1. ord \in Seq(Seq(Requests)) /\ p \in 1 .. Len(ord)
      /\ DOMAIN ord = 1 .. Len(ord) /\ Len(ord) \in Nat
  BY DEF Grouped
<1>2. ord[p] \in Seq(Requests)
  BY <1>1, ElementOfSeq
<1>3. DOMAIN ord[p] = 1 .. Len(ord[p]) /\ Len(ord[p]) \in Nat
  BY <1>2
<1>4. \A j \in 1 .. Len(ord[p]) : ord[p][j] \in Requests
  BY <1>2, ElementOfSeq
<1>5. 1 \in DOMAIN ord[p]
  BY DEF Grouped
<1> QED BY <1>1, <1>2, <1>3, <1>4, <1>5

-----------------------------------------------------------------------------
(* What the invariant says of a busy thread and of a request that is out.  *)

LEMMA BusyThread ==
  ASSUME SessionTypes, ThreadsOK, PlacesOK, NEW t \in Busy
  PROVE  /\ t \in Threads /\ Started /\ Grouped(order)
         /\ thread[t].session \in DOMAIN order
         /\ thread[t].i \in DOMAIN order[thread[t].session]
         /\ thread[t].session \in Nat /\ thread[t].i \in Nat \ {0}
         /\ Place(order, thread[t].session, thread[t].i)
         /\ Payload(t) = order[thread[t].session][thread[t].i]
         /\ Payload(t) \in Requests
<1>1. t \in Threads /\ thread[t].pc # "none"
  BY DEF Busy
<1>2. Started /\ Grouped(order)
  BY <1>1, GroupIsGrouped DEF ThreadsOK
<1>3. thread[t].session \in DOMAIN order
      /\ thread[t].i \in DOMAIN order[thread[t].session]
  BY DEF PlacesOK
<1>4. order[thread[t].session][thread[t].i] \in Requests
      /\ thread[t].session \in Nat /\ thread[t].i \in Nat \ {0}
  <2>1. thread[t].session \in 1 .. Len(order) /\ Len(order) \in Nat
    BY <1>2, <1>3, PlaceTypes
  <2>2. thread[t].i \in 1 .. Len(order[thread[t].session])
        /\ Len(order[thread[t].session]) \in Nat
    BY <1>2, <1>3, PlaceTypes
  <2>3. order[thread[t].session][thread[t].i] \in Requests
    BY <1>2, <1>3, PlaceTypes
  <2> QED BY <2>1, <2>2, <2>3
<1> QED BY <1>1, <1>2, <1>3, <1>4 DEF Place, Payload

\* Two threads are never at the same payload.
LEMMA OwnPayload ==
  ASSUME SessionTypes, ThreadsOK, PlacesOK, NEW t \in Busy, NEW u \in Busy,
         NEW j \in DOMAIN order[thread[u].session],
         order[thread[u].session][j] = Payload(t)
  PROVE  u = t /\ j = thread[t].i
<1>1. /\ Grouped(order)
      /\ thread[t].session \in DOMAIN order
      /\ thread[u].session \in DOMAIN order
      /\ thread[t].i \in DOMAIN order[thread[t].session]
      /\ Payload(t) = order[thread[t].session][thread[t].i]
  BY BusyThread
<1>2. thread[u].session = thread[t].session /\ j = thread[t].i
  BY <1>1, OnePlace
<1> QED BY <1>2 DEF PlacesOK

LEMMA PhaseCases ==
  ASSUME ClientOK, NEW r
  PROVE  /\ Phase(r) \in {"new", "out", "done"}
         /\ Phase(r) = "out" <=> r \in InTransit
         /\ r \in Requests =>
              (Phase(r) = "done" <=> http[r].final_response_sent)
BY DEF Phase, ClientOK

LEMMA OutIsWaited ==
  ASSUME SessionTypes, ClientOK, ThreadsOK, PlacesOK, PhasesOK, EntriesOK,
         NEW r \in InTransit
  PROVE  /\ r \in Requests /\ Started /\ main # "joined"
         /\ Waiting(r) \in Busy
         /\ thread[Waiting(r)].pc = "wait" /\ ~promise[Waiting(r)]
         /\ Payload(Waiting(r)) = r
         /\ records[Waiting(r)] # <<>>
         /\ Last(records[Waiting(r)]).index = r
<1>1. r \in Requests /\ Phase(r) = "out"
  BY DEF ClientOK, Phase
<1>2. Started /\ Grouped(order)
  BY <1>1, GroupIsGrouped DEF PhasesOK, ThreadsOK
<1>3. PICK p, j : Place(order, p, j) /\ order[p][j] = r
  BY <1>1, <1>2 DEF Grouped
<1>4. p \in DOMAIN order /\ j \in DOMAIN order[p]
  BY <1>3 DEF Place
<1>5. Held(p)
  <2> SUFFICES ASSUME ~Held(p) PROVE FALSE
    OBVIOUS
  <2>1. Phase(order[p][j]) =
           IF p <= next_session_index THEN "done" ELSE "new"
    BY <1>2, <1>4 DEF PhasesOK, IdleAt
  <2> QED BY <1>1, <1>3, <2>1
<1>6. PICK t \in Busy : thread[t].session = p
  BY <1>5 DEF Held
<1>7. Phase(r) = IF j < thread[t].i THEN "done"
                 ELSE IF j > thread[t].i THEN "new" ELSE Now(t)
  BY <1>3, <1>4, <1>6 DEF PhasesOK, BusyAt
<1>8. Now(t) = "out" /\ j = thread[t].i
  <2>1. j \in Nat /\ thread[t].i \in Nat
    <3>1. thread[t].i \in Nat
      BY <1>6, BusyThread
    <3>2. DOMAIN order[p] = 1 .. Len(order[p])
      BY <1>2, <1>4, PlaceTypes
    <3> QED BY <1>4, <3>1, <3>2
  <2> QED BY <1>1, <1>7, <2>1
<1>9. t \in Threads /\ thread[t].pc = "wait" /\ ~promise[t]
  BY <1>8 DEF Now, Busy
<1>10. Payload(t) = r
  BY <1>3, <1>6, <1>8 DEF Payload
<1>11. \A u \in Threads : thread[u].pc = "wait" /\ Payload(u) = r => u = t
  <2> SUFFICES ASSUME NEW u \in Threads, thread[u].pc = "wait",
                      Payload(u) = r
               PROVE  u = t
    OBVIOUS
  <2>1. u \in Busy
    BY DEF Busy
  <2>2. thread[u].i \in DOMAIN order[thread[u].session]
        /\ Payload(u) = order[thread[u].session][thread[u].i]
    BY <2>1, BusyThread
  <2> QED BY <1>10, <2>1, <2>2, OwnPayload
<1>12. Waiting(r) = t
  BY <1>9, <1>10, <1>11 DEF Waiting
<1>13. records[t] # <<>> /\ Last(records[t]).index = r
  BY <1>9, <1>10 DEF EntriesOK
<1>14. main # "joined"
  <2> SUFFICES ASSUME main = "joined" PROVE FALSE
    OBVIOUS
  <2>1. t \in 1 .. concurrency
    <3>1. t \in Nat \ {0} /\ concurrency \in Nat
      BY <1>9, SessionsAssumption DEF SessionTypes
    <3>2. ~(t > concurrency)
      BY <1>2, <1>9 DEF ThreadsOK
    <3> QED BY <3>1, <3>2
  <2> QED BY <1>9, <2>1 DEF ThreadsOK
<1> QED BY <1>1, <1>2, <1>6, <1>9, <1>10, <1>12, <1>13, <1>14

\* When the threads are joined every payload is done.
LEMMA JoinedAllDone ==
  ASSUME SessionTypes, ClientOK, ThreadsOK, PhasesOK, main = "joined"
  PROVE  (\A k \in Requests : Phase(k) = "done") /\ InTransit = {}
<1>1. concurrency \in Nat \ {0} /\ Threads \subseteq Nat \ {0}
  BY SessionsAssumption DEF SessionTypes
<1>2. Started /\ Grouped(order)
  BY GroupIsGrouped DEF Started, ThreadsOK
<1>3. ASSUME NEW t \in Threads
      PROVE  thread[t].pc \in {"none", "ended"}
  <2>1. CASE t > concurrency
    BY <1>2, <2>1 DEF ThreadsOK
  <2>2. CASE ~(t > concurrency)
    <3>1. t \in 1 .. concurrency
      BY <1>1, <2>2
    <3> QED BY <3>1 DEF ThreadsOK
  <2> QED BY <2>1, <2>2
<1>4. \A p : ~Held(p)
  BY <1>3 DEF Held, Busy
<1>5. next_session_index >= Len(order)
  <2>1. 1 \in 1 .. concurrency
    BY <1>1
  <2>2. 1 \in Threads /\ thread[1].pc = "ended"
    BY <1>2, <2>1 DEF ThreadsOK
  <2> QED BY <2>2 DEF ThreadsOK
<1>6. ASSUME NEW k \in Requests
      PROVE  Phase(k) = "done"
  <2>1. PICK p, j : Place(order, p, j) /\ order[p][j] = k
    BY <1>2 DEF Grouped
  <2>2. p \in DOMAIN order /\ j \in DOMAIN order[p]
    BY <2>1 DEF Place
  <2>3. p <= next_session_index
    <3>1. p \in 1 .. Len(order) /\ Len(order) \in Nat
      BY <1>2, <2>2, PlaceTypes
    <3> QED BY <1>5, <3>1 DEF SessionTypes
  <2> QED BY <1>2, <1>4, <2>1, <2>2, <2>3 DEF PhasesOK, IdleAt
<1>7. InTransit = {}
  BY <1>6, PhaseCases DEF ClientOK
<1> QED BY <1>6, <1>7

LEMMA LiveRecordAlive ==
  ASSUME Live
  PROVE  RecordAlive
<1> SUFFICES ASSUME NEW r \in InTransit
             PROVE  \E t \in Threads : /\ thread[t].pc = "wait"
                                       /\ Last(records[t]).index = r
                                       /\ Last(records[t]).payload
                                            = http[r].body[1]
  BY DEF RecordAlive
<1> DEFINE t == Waiting(r)
<1>1. /\ r \in Requests /\ t \in Busy /\ thread[t].pc = "wait"
      /\ records[t] # <<>> /\ Last(records[t]).index = r
  BY OutIsWaited DEF Live
<1> HIDE DEF t
<1>2. t \in Threads
  BY <1>1 DEF Busy
<1>3. records[t] \in Seq(RequestRecord)
  BY <1>2 DEF Live, SessionTypes
<1>4. Len(records[t]) \in DOMAIN records[t] /\ Len(records[t]) \in Nat
  BY <1>1, <1>3
<1> DEFINE e == <<t, Len(records[t])>>
<1>5. e \in AllEntries /\ Entry(e) = Last(records[t])
  BY <1>2, <1>4 DEF AllEntries, Entry, Last
<1>6. http[r].body = <<Last(records[t]).payload>>
  <2> HIDE DEF e
  <2> QED BY <1>1, <1>5 DEF Live, EntriesOK, EntryOK
<1>7. http[r].body[1] = Last(records[t]).payload
  BY <1>6
<1> QED BY <1>1, <1>2, <1>7

-----------------------------------------------------------------------------
(* The beginning, and steps that move no request.                          *)

LEMMA NothingOut ==
  ASSUME http = [r \in Requests |-> HttpRequest], InTransit = {}
  PROVE  \A k \in Requests : Phase(k) = "new"
BY DEF Phase, HttpRequest

LEMMA LiveInit ==
  ASSUME SessionsInit
  PROVE  Live /\ ~terminated
<1> USE DEF SessionsInit, ChatInit
<1>1. HttpRequest = [HttpRequest EXCEPT !.body = <<>>]
  BY DEF HttpRequest
<1>2. <<>> \in Bodies /\ <<>> \in Histories /\ <<>> \in Seq(RequestRecord)
  BY EmptySeq DEF Bodies, Histories
<1>3. /\ HttpRequest \in HttpRequests /\ TransferOK(HttpRequest)
      /\ HttpRequest.answer = <<>>
  BY <1>1, <1>2, NewRequestOK
<1>4. InTransit = {}
  BY DEF InTransit
<1>5. \A k \in Requests : Phase(k) = "new"
  BY <1>4, NothingOut
<1>6. SessionTypes
  BY <1>2, <1>3 DEF SessionTypes, SessionThread
<1>7. ClientOK
  BY <1>3, <1>4 DEF ClientOK, Answered
<1>8. Busy = {}
  BY DEF Busy
<1>9. ThreadsOK /\ PlacesOK /\ PhasesOK /\ HistoriesOK
  BY <1>5, <1>8 DEF ThreadsOK, PlacesOK, PhasesOK, HistoriesOK, Started
<1>10. EntriesOK
  <2>1. AllEntries = {}
    BY DEF AllEntries
  <2> QED BY <1>5, <2>1 DEF EntriesOK
<1>11. CountOK
  <2>1. Finished = {}
    BY <1>5 DEF Finished
  <2> QED BY <2>1, FS_EmptySet DEF CountOK
<1> QED BY <1>6, <1>7, <1>9, <1>10, <1>11 DEF Live

\* No request has moved, and none has another body.
Quiet == /\ \A k \in Requests : Phase(k)' = Phase(k)
         /\ \A k \in Requests : http'[k].body = http[k].body

LEMMA QuietWhen ==
  ASSUME UNCHANGED http, InTransit' = InTransit
  PROVE  Quiet
BY DEF Phase, Quiet

LEMMA EntryTypes ==
  ASSUME SessionTypes, NEW e \in AllEntries
  PROVE  /\ e[1] \in Threads /\ e[2] \in DOMAIN records[e[1]]
         /\ e = <<e[1], e[2]>> /\ e[2] \in Nat
         /\ Entry(e) \in RequestRecord /\ Entry(e).index \in Requests
<1>1. e \in Threads \X Nat /\ e[2] \in DOMAIN records[e[1]]
  BY DEF AllEntries
<1>2. e[1] \in Threads /\ e[2] \in Nat /\ e = <<e[1], e[2]>>
  BY <1>1
<1>3. records[e[1]] \in Seq(RequestRecord)
  BY <1>2 DEF SessionTypes
<1>4. e[2] \in 1 .. Len(records[e[1]])
  BY <1>1, <1>3
<1>5. Entry(e) \in RequestRecord
  BY <1>3, <1>4, ElementOfSeq DEF Entry
<1>6. Entry(e).index \in Requests
  BY <1>5 DEF RequestRecord
<1> QED BY <1>1, <1>2, <1>5, <1>6

LEMMA EntriesFrame ==
  ASSUME SessionTypes, EntriesOK, Quiet, UNCHANGED records,
         \A t \in Threads : thread'[t].pc = "wait" /\ ~promise'[t] =>
            /\ thread[t].pc = "wait" /\ ~promise[t]
            /\ Payload(t)' = Payload(t)
  PROVE  EntriesOK'
<1>1. AllEntries' = AllEntries /\ \A e \in AllEntries : Entry(e)' = Entry(e)
  BY DEF AllEntries, Entry
<1>2. \A e \in AllEntries : EntryOK(Entry(e))'
  <2> SUFFICES ASSUME NEW e \in AllEntries PROVE EntryOK(Entry(e))'
    OBVIOUS
  <2> DEFINE rec == Entry(e)
  <2>1. EntryOK(rec) /\ rec.index \in Requests /\ rec' = rec
    BY <1>1, EntryTypes DEF EntriesOK
  <2> HIDE DEF rec
  <2>2. /\ Phase(rec.index)' = Phase(rec.index)
        /\ http'[rec.index].body = http[rec.index].body
    BY <2>1 DEF Quiet
  <2>3. EntryOK(rec)'
    BY <2>1, <2>2 DEF EntryOK
  <2> QED BY <2>3 DEF rec
<1>3. \A d, e \in AllEntries' : Entry(d)'.index = Entry(e)'.index => d = e
  BY <1>1 DEF EntriesOK
<1>4. \A k \in Requests :
        Phase(k)' # "new" => \E e \in AllEntries' : Entry(e)'.index = k
  BY <1>1 DEF EntriesOK, Quiet
<1>5. \A t \in Threads : thread'[t].pc = "wait" /\ ~promise'[t] =>
        records'[t] # <<>> /\ Last(records[t])'.index = Payload(t)'
  BY DEF EntriesOK, Last
<1>6. \A e \in AllEntries' : EntryOK(Entry(e))'
  BY <1>1, <1>2
<1> QED BY <1>3, <1>4, <1>5, <1>6 DEF EntriesOK

LEMMA SaidFrame ==
  ASSUME Grouped(order), Quiet, UNCHANGED order,
         NEW p \in DOMAIN order, NEW i, i = 0 \/ i \in DOMAIN order[p]
  PROVE  Said(p, i)' = Said(p, i)
<1>1. CASE i = 0
  BY <1>1 DEF Said
<1>2. CASE i \in DOMAIN order[p]
  <2> DEFINE k == order[p][i]
  <2>1. k \in Requests /\ k' = k
    BY <1>2, PlaceTypes
  <2>2. Phase(k)' = Phase(k) /\ http'[k].body = http[k].body
    <3> HIDE DEF k
    <3> QED BY <2>1 DEF Quiet
  <2>3. Said(p, i) = IF i = 0 THEN <<>>
                     ELSE http[k].body[1]
                          \o (IF Phase(k) = "done" THEN <<Reply(k)>>
                              ELSE <<>>)
    BY DEF Said
  <2>4. Said(p, i)' = IF i = 0 THEN <<>>
                     ELSE http'[k].body[1]
                          \o (IF Phase(k)' = "done" THEN <<Reply(k)>>
                              ELSE <<>>)
    BY <2>1 DEF Said, Reply
  <2> QED BY <2>2, <2>3, <2>4
<1> QED BY <1>1, <1>2

LEMMA AskedTypes ==
  ASSUME SessionTypes, ThreadsOK, PlacesOK, NEW t \in Busy
  PROVE  Asked(t) = 0 \/ Asked(t) \in DOMAIN order[thread[t].session]
<1>1. /\ thread[t].i \in DOMAIN order[thread[t].session]
      /\ thread[t].i \in Nat \ {0} /\ Grouped(order)
      /\ thread[t].session \in DOMAIN order
  BY BusyThread
<1>2. /\ DOMAIN order[thread[t].session]
           = 1 .. Len(order[thread[t].session])
      /\ Len(order[thread[t].session]) \in Nat
  BY <1>1, PlaceTypes
<1> QED BY <1>1, <1>2 DEF Asked

LEMMA CountFrame ==
  ASSUME CountOK, Quiet, UNCHANGED infer_stat
  PROVE  CountOK'
BY DEF CountOK, Finished, Quiet

\* Nothing but the client has moved, or the threads have been joined.
LEMMA IdleStep ==
  ASSUME Live, Quiet, ClientOK', http' \in [Requests -> HttpRequests],
         UNCHANGED infer_stat,
         UNCHANGED <<dataVars, next_session_index, thread, promise,
                     records>>,
         Started' = Started,
         main' \in {"start", "join", "joined", "threw"},
         main' = "joined" =>
             \A t \in 1 .. concurrency : thread[t].pc = "ended"
  PROVE  Live'
<1> USE DEF dataVars
<1>1. Quiet /\ ClientOK'
  OBVIOUS
<1>2. SessionTypes'
  BY DEF Live, SessionTypes
<1>4. ThreadsOK'
  <2>1. GroupPayloadsBySession' = GroupPayloadsBySession
    BY DEF GroupPayloadsBySession
  <2> QED BY <2>1 DEF Live, ThreadsOK
<1>5. Busy' = Busy /\ \A t \in Busy : Now(t)' = Now(t)
  BY DEF Busy, Now
<1>6. PlacesOK'
  BY <1>5 DEF Live, PlacesOK, IsLastRequest
<1>7. PhasesOK'
  <2>1. ThreadsOK /\ PlacesOK /\ SessionTypes /\ PhasesOK
    BY DEF Live
  <2>2. ASSUME NEW t \in Busy, NEW j \in DOMAIN order[thread[t].session]
        PROVE  BusyAt(t, j)'
    <3>1. order[thread[t].session][j] \in Requests
      BY <2>1, BusyThread, PlaceTypes
    <3>2. Phase(order[thread[t].session][j])' =
            Phase(order[thread[t].session][j])
      BY <1>1, <3>1 DEF Quiet
    <3>3. BusyAt(t, j)
      BY <2>1 DEF PhasesOK
    <3> QED BY <1>5, <3>2, <3>3 DEF BusyAt
  <2>3. ASSUME Started, NEW p \in DOMAIN order, ~Held(p),
               NEW j \in DOMAIN order[p]
        PROVE  IdleAt(p, j)'
    <3>1. order[p][j] \in Requests
      BY <2>1, <2>3, GroupIsGrouped, PlaceTypes DEF ThreadsOK
    <3>2. Phase(order[p][j])' = Phase(order[p][j])
      BY <1>1, <3>1 DEF Quiet
    <3> QED BY <2>1, <2>3, <3>2 DEF PhasesOK, IdleAt
  <2>4. \A p : Held(p)' = Held(p)
    BY <1>5 DEF Held
  <2>5. ~Started' => \A k \in Requests : Phase(k)' = "new"
    BY <1>1, <2>1 DEF PhasesOK, Quiet
  <2> QED BY <1>5, <2>2, <2>3, <2>4, <2>5 DEF PhasesOK
<1>8. EntriesOK'
  <2>1. \A t \in Threads : Payload(t)' = Payload(t)
    BY DEF Payload
  <2> QED BY <1>1, <2>1, EntriesFrame DEF Live
<1>9. HistoriesOK'
  <2> SUFFICES ASSUME NEW t \in Busy
               PROVE  thread[t].chat_history
                        = Said(thread[t].session, Asked(t))'
    BY <1>5 DEF HistoriesOK, HistoryOK
  <2> DEFINE p == thread[t].session
             i == Asked(t)
  <2>1. Grouped(order) /\ p \in DOMAIN order
        /\ (i = 0 \/ i \in DOMAIN order[p])
    BY BusyThread, AskedTypes DEF Live
  <2>2. p' = p /\ i' = i
    BY DEF Asked
  <2>3. Said(p, i)' = Said(p, i)
    <3> HIDE DEF p, i
    <3>1. Said(p, i)' = Said(p, i)
      BY <1>1, <2>1, <2>2, SaidFrame
    <3> QED BY <3>1
  <2> QED BY <2>3 DEF Live, HistoriesOK, HistoryOK
<1>10. CountOK'
  BY <1>1, CountFrame DEF Live
<1> QED BY <1>1, <1>2, <1>4, <1>6, <1>7, <1>8, <1>9, <1>10 DEF Live

LEMMA MakeThreadsKeeps ==
  ASSUME Live, MakeThreads
  PROVE  Live'
<1> USE DEF MakeThreads, chatVars
<1>1. /\ main = "start" /\ ~Started /\ next_session_index = 0
      /\ \A t \in Threads : thread[t].pc = "none" /\ records[t] = <<>>
      /\ \A k \in Requests : Phase(k) = "new"
      /\ thread \in [Threads -> SessionThread]
      /\ concurrency \in Threads
  BY DEF Live, SessionTypes, ThreadsOK, PhasesOK, Started
<1>2. /\ UNCHANGED <<http, infer_stat, concurrency, next_session_index,
                     records, promise>>
      /\ InTransit' = InTransit
  BY DEF InTransit
<1>3. Quiet
  BY <1>2, QuietWhen
<1>4. order' \in GroupPayloadsBySession /\ Grouped(order')
  BY GroupIsGrouped
<1>5. \A t \in Threads :
        /\ thread'[t].pc \in {"none", "next"}
        /\ main' = "join" => (thread'[t].pc # "none" <=> t <= concurrency)
        /\ main' = "threw" => thread'[t].pc = "none"
  <2> SUFFICES ASSUME NEW t \in Threads
               PROVE  /\ thread'[t].pc \in {"none", "next"}
                      /\ main' = "join" =>
                           (thread'[t].pc # "none" <=> t <= concurrency)
                      /\ main' = "threw" => thread'[t].pc = "none"
    OBVIOUS
  <2>1. CASE Len(order') < concurrency
    BY <1>1, <2>1
  <2>2. CASE ~(Len(order') < concurrency)
    <3>1. main' = "join" /\ thread'[t].pc
            = [thread[t] EXCEPT !.pc = IF t <= concurrency THEN "next"
                                       ELSE "none"].pc
      BY <2>2
    <3>2. thread[t] \in SessionThread
      BY <1>1
    <3>3. thread'[t].pc = IF t <= concurrency THEN "next" ELSE "none"
      BY <3>1, <3>2 DEF SessionThread
    <3> QED BY <3>1, <3>3
  <2> QED BY <2>1, <2>2
<1>6. thread' \in [Threads -> SessionThread]
  <2>1. CASE UNCHANGED thread
    BY <1>1, <2>1
  <2>2. CASE thread' = [t \in Threads |->
                 [thread[t] EXCEPT !.pc = IF t <= concurrency THEN "next"
                                          ELSE "none"]]
    <3>1. \A t \in Threads :
            [thread[t] EXCEPT !.pc = IF t <= concurrency THEN "next"
                                     ELSE "none"] \in SessionThread
      BY <1>1 DEF SessionThread
    <3> QED BY <2>2, <3>1
  <2> QED BY <2>1, <2>2
<1>7. main' \in {"join", "threw"}
      /\ (main' = "join" => Len(order') >= concurrency)
  <2>1. Len(order') \in Nat /\ concurrency \in Nat
    <3>1. order' \in Seq(Seq(Requests))
      BY <1>4 DEF Grouped
    <3>2. concurrency \in Nat
      BY <1>1, SessionsAssumption
    <3> QED BY <3>1, <3>2
  <2> QED BY <2>1
<1>8. SessionTypes'
  BY <1>2, <1>6, <1>7 DEF Live, SessionTypes
<1>9. ClientOK'
  BY <1>1, <1>2 DEF Live, ClientOK, Answered
<1>10. ThreadsOK'
  <2>1. GroupPayloadsBySession' = GroupPayloadsBySession
    BY DEF GroupPayloadsBySession
  <2>2. main' = "join" => 1 .. concurrency \subseteq Threads
    <3>1. Len(order') = Cardinality(SessionIds)
      BY <1>4 DEF Grouped
    <3>2. Cardinality(SessionIds) \in Nat /\ concurrency \in Nat
      BY <1>1, SessionsAssumption, SessionsFinite
    <3> QED BY <1>1, <1>7, <3>1, <3>2, SessionsAssumption
  <2>3. \A t \in Threads :
          main' = "join" => (thread'[t].pc = "none" <=> t > concurrency)
    <3>1. \A t \in Threads : t \in Nat /\ concurrency \in Nat
      BY <1>1, SessionsAssumption
    <3> QED BY <1>5, <3>1
  <2> QED BY <1>1, <1>2, <1>4, <1>5, <1>7, <2>1, <2>2, <2>3
          DEF ThreadsOK, Started
<1>11. Busy' = {}
  BY <1>5 DEF Busy
<1>12. PlacesOK' /\ HistoriesOK'
  BY <1>11 DEF PlacesOK, HistoriesOK
<1>13. PhasesOK'
  <2>1. \A k \in Requests : Phase(k)' = "new"
    BY <1>1, <1>3 DEF Quiet
  <2>2. \A p \in DOMAIN order' : \A j \in DOMAIN order'[p] :
          /\ order'[p][j] \in Requests
          /\ ~(p <= next_session_index')
    BY <1>1, <1>2, <1>4, PlaceTypes
  <2>3. \A p \in DOMAIN order' : \A j \in DOMAIN order'[p] :
          Phase(order[p][j])' = "new"
    BY <2>1, <2>2
  <2> QED BY <1>11, <2>1, <2>2, <2>3 DEF PhasesOK, IdleAt
<1>14. EntriesOK'
  <2>1. \A t \in Threads : thread'[t].pc # "wait"
    BY <1>5
  <2> QED BY <1>2, <1>3, <2>1, EntriesFrame DEF Live
<1>15. CountOK'
  BY <1>2, <1>3, CountFrame DEF Live
<1> QED BY <1>8, <1>9, <1>10, <1>12, <1>13, <1>14, <1>15 DEF Live

LEMMA JoinThreadsKeeps ==
  ASSUME Live, JoinThreads
  PROVE  Live'
<1> USE DEF JoinThreads, chatVars, dataVars
<1>1. Started' = Started /\ main = "join" /\ main' = "joined"
  BY DEF Started
<1>2. ~exiting
  BY <1>1 DEF Live, ClientOK
<1>3. InTransit' = InTransit /\ Quiet
  BY QuietWhen DEF InTransit
<1>4. ClientOK' /\ http' \in [Requests -> HttpRequests]
  BY <1>2, <1>3 DEF Live, ClientOK, Answered, SessionTypes
<1>5. main' = "joined" =>
          \A t \in 1 .. concurrency : thread[t].pc = "ended"
  OBVIOUS
<1>6. main' \in {"start", "join", "joined", "threw"}
  BY <1>1
<1>7. UNCHANGED <<dataVars, next_session_index, thread, promise, records>>
      /\ UNCHANGED infer_stat
  OBVIOUS
<1> QED BY <1>1, <1>3, <1>4, <1>5, <1>6, <1>7, IdleStep

LEMMA ClientStepKeeps ==
  ASSUME Live, DestroyManager \/ SessionCurlLoop
                 \/ UNCHANGED chatSessionVars
  PROVE  Live'
<1> USE DEF sessionVars, dataVars
<1>1. UNCHANGED <<sessionVars, http, infer_stat>>
  BY DEF DestroyManager, DestroyClient, SessionCurlLoop, CollectNewRequests,
         Poll, PollReturns, chatSessionVars, chatVars
<1>2. exiting => InTransit = {}
  <2> SUFFICES ASSUME exiting PROVE InTransit = {}
    OBVIOUS
  <2>1. main = "joined"
    BY DEF Live, ClientOK
  <2> QED BY <2>1, JoinedAllDone DEF Live
<1>3. /\ InTransit' = InTransit
      /\ (new_async_requests \cap ongoing_async_requests)' = {}
  <2>1. new_async_requests \cap ongoing_async_requests = {}
    BY DEF Live, ClientOK
  <2>2. CASE CollectNewRequests
    BY <2>1, <2>2 DEF CollectNewRequests, InTransit
  <2>3. CASE PollReturns
    BY <1>2, <2>1, <2>3 DEF PollReturns, InTransit
  <2>4. CASE Poll \/ DestroyClient \/ UNCHANGED chatVars
    BY <2>1, <2>4 DEF Poll, DestroyClient, chatVars, InTransit
  <2> QED BY <2>2, <2>3, <2>4
          DEF DestroyManager, SessionCurlLoop, chatSessionVars
<1>4. exiting' => main' = "joined"
  <2>1. exiting => main = "joined"
    BY DEF Live, ClientOK
  <2> QED BY <1>1, <2>1
          DEF DestroyManager, DestroyClient, SessionCurlLoop,
              CollectNewRequests, Poll, PollReturns, chatSessionVars,
              chatVars
<1>5. Started' = Started /\ main' \in {"start", "join", "joined", "threw"}
  BY <1>1 DEF Started, Live, SessionTypes
<1>6. main' = "joined" =>
          \A t \in 1 .. concurrency : thread[t].pc = "ended"
  BY <1>1 DEF Live, ThreadsOK
<1>7. ClientOK' /\ http' \in [Requests -> HttpRequests]
  BY <1>1, <1>3, <1>4 DEF Live, ClientOK, Answered, SessionTypes
<1>8. Quiet
  BY <1>1, <1>3, QuietWhen
<1>9. UNCHANGED <<dataVars, next_session_index, thread, promise, records>>
      /\ UNCHANGED infer_stat
  BY <1>1
<1> QED BY <1>5, <1>6, <1>7, <1>8, <1>9, IdleStep

-----------------------------------------------------------------------------
(* The steps of a thread that leave the client alone.                      *)

LEMMA ThreadStepFrame ==
  ASSUME Live, NEW t \in Threads, NEW h \in SessionThread, h.pc # "wait",
         UNCHANGED <<chatVars, dataVars, main, promise, records>>,
         next_session_index' \in Nat,
         thread' = [thread EXCEPT ![t] = h]
  PROVE  /\ SessionTypes' /\ ClientOK' /\ Quiet /\ EntriesOK' /\ CountOK'
         /\ UNCHANGED <<order, concurrency, main>>
         /\ Started' = Started
         /\ thread'[t] = h
         /\ \A u \in Threads \ {t} :
               /\ thread'[u] = thread[u]
               /\ u \in Busy <=> u \in Busy'
               /\ Now(u)' = Now(u) /\ Asked(u)' = Asked(u)
         /\ t \in Busy' <=> h.pc \in {"send", "delay"}
<1> USE DEF chatVars, dataVars
<1>1. /\ thread'[t] = h
      /\ \A u \in Threads \ {t} : thread'[u] = thread[u]
      /\ thread' \in [Threads -> SessionThread]
  BY DEF Live, SessionTypes
<1>2. UNCHANGED http /\ InTransit' = InTransit /\ Quiet
  BY QuietWhen DEF InTransit
<1>3. SessionTypes' /\ ClientOK'
  BY <1>1, <1>2 DEF Live, SessionTypes, ClientOK, Answered
<1>4. EntriesOK'
  <2>1. \A u \in Threads : thread'[u].pc = "wait" /\ ~promise'[u] =>
            /\ thread[u].pc = "wait" /\ ~promise[u]
            /\ Payload(u)' = Payload(u)
    BY <1>1 DEF Payload
  <2> QED BY <1>2, <2>1, EntriesFrame DEF Live
<1>5. CountOK'
  BY <1>2, CountFrame DEF Live
<1>6. \A u \in Threads \ {t} :
               /\ u \in Busy <=> u \in Busy'
               /\ Now(u)' = Now(u) /\ Asked(u)' = Asked(u)
  BY <1>1 DEF Busy, Now, Asked
<1>7. t \in Busy' <=> h.pc \in {"send", "delay"}
  BY <1>1 DEF Busy
<1>8. Started' = Started
  BY DEF Started
<1> QED BY <1>1, <1>2, <1>3, <1>4, <1>5, <1>6, <1>7, <1>8

\* The other threads are where they were.
LEMMA OthersHistories ==
  ASSUME Live, NEW t \in Threads, Quiet, UNCHANGED order,
         NEW u \in Busy, u # t, thread'[u] = thread[u], Asked(u)' = Asked(u)
  PROVE  HistoryOK(u)'
<1> DEFINE p == thread[u].session
           i == Asked(u)
<1>1. Grouped(order) /\ p \in DOMAIN order
        /\ (i = 0 \/ i \in DOMAIN order[p])
  BY BusyThread, AskedTypes DEF Live
<1>2. thread[u].chat_history = Said(p, i)
  BY DEF Live, HistoriesOK, HistoryOK
<1>3. p' = p /\ i' = i
  OBVIOUS
<1>4. Said(p, i)' = Said(p, i)
  <2> HIDE DEF p, i
  <2> QED BY <1>1, <1>3, SaidFrame
<1>5. HistoryOK(u)' <=> thread'[u].chat_history = Said(p, i)'
  BY DEF HistoryOK
<1> QED BY <1>2, <1>4, <1>5

LEMMA NextSessionKeeps ==
  ASSUME Live, NEW t \in Threads, NextSession(t)
  PROVE  Live'
<1> USE DEF NextSession
<1>1. /\ thread[t] \in SessionThread /\ thread[t].pc = "next"
      /\ next_session_index \in Nat
      /\ next_session_index' = next_session_index + 1
  BY DEF Live, SessionTypes
<1>2. Len(order) \in Nat
  <2>1. order \in Seq(Seq(Requests))
    BY <1>1, GroupIsGrouped DEF Live, ThreadsOK, Grouped
  <2> QED BY <2>1
<1>3. PICK h \in SessionThread :
        /\ thread' = [thread EXCEPT ![t] = h]
        /\ h.pc \in {"ended", "send"}
        /\ h.pc = "ended" => next_session_index >= Len(order)
        /\ h.pc = "send" => /\ next_session_index < Len(order)
                            /\ h.session = next_session_index + 1
                            /\ h.i = 1 /\ h.chat_history = <<>>
  <2>1. CASE next_session_index >= Len(order)
    <3> DEFINE g == [thread[t] EXCEPT !.pc = "ended"]
    <3>1. g \in SessionThread /\ g.pc = "ended"
      BY <1>1 DEF SessionThread
    <3>2. thread' = [thread EXCEPT ![t] = g]
      BY <2>1
    <3> HIDE DEF g
    <3> QED BY <2>1, <3>1, <3>2
  <2>2. CASE ~(next_session_index >= Len(order))
    <3> DEFINE g == [pc |-> "send", session |-> next_session_index + 1,
                     i |-> 1, chat_history |-> <<>>]
    <3>1. <<>> \in Histories
      BY EmptySeq DEF Histories
    <3>2. g \in SessionThread
      BY <1>1, <3>1 DEF SessionThread
    <3>3. /\ g.pc = "send" /\ g.session = next_session_index + 1
          /\ g.i = 1 /\ g.chat_history = <<>>
      OBVIOUS
    <3>4. thread' = [thread EXCEPT ![t] = g]
      BY <2>2
    <3>5. next_session_index < Len(order)
      BY <1>1, <1>2, <2>2
    <3> HIDE DEF g
    <3>6. /\ g.pc \in {"ended", "send"}
          /\ g.pc = "ended" => next_session_index >= Len(order)
      BY <3>3
    <3> HIDE DEF NextSession
    <3> QED BY <3>2, <3>3, <3>4, <3>5, <3>6
  <2> QED BY <2>1, <2>2
<1>4. /\ SessionTypes' /\ ClientOK' /\ Quiet /\ EntriesOK' /\ CountOK'
      /\ UNCHANGED <<order, concurrency, main>>
      /\ Started' = Started
      /\ thread'[t] = h
      /\ \A u \in Threads \ {t} :
            /\ thread'[u] = thread[u]
            /\ u \in Busy <=> u \in Busy'
            /\ Now(u)' = Now(u) /\ Asked(u)' = Asked(u)
      /\ t \in Busy' <=> h.pc \in {"send", "delay"}
  <2>1. UNCHANGED <<chatVars, dataVars, main, promise, records>>
        /\ h.pc # "wait" /\ next_session_index' \in Nat
    BY <1>1, <1>3
  <2> QED BY <1>3, <2>1, ThreadStepFrame
<1>5. Started /\ Grouped(order) /\ main # "joined" /\ t \notin Busy
  <2>1. Started
    BY <1>1 DEF Live, ThreadsOK
  <2>2. main # "joined"
    <3> SUFFICES ASSUME main = "joined" PROVE FALSE
      OBVIOUS
    <3>1. t \in Nat \ {0} /\ concurrency \in Nat
      BY SessionsAssumption DEF Live, SessionTypes
    <3>2. ~(t > concurrency)
      BY <1>1, <2>1 DEF Live, ThreadsOK
    <3>3. t \in 1 .. concurrency
      BY <3>1, <3>2
    <3> QED BY <1>1, <3>3 DEF Live, ThreadsOK
  <2> QED BY <1>1, <2>1, <2>2, GroupIsGrouped DEF Live, ThreadsOK, Busy
<1>6. DOMAIN order = 1 .. Len(order) /\ Len(order) \in Nat
  <2>1. order \in Seq(Seq(Requests))
    BY <1>5 DEF Grouped
  <2> QED BY <2>1
<1>7. ThreadsOK'
  <2>1. GroupPayloadsBySession' = GroupPayloadsBySession
    BY DEF GroupPayloadsBySession
  <2>2. \A u \in Threads : thread'[u].pc = "none" <=> thread[u].pc = "none"
    BY <1>1, <1>3, <1>4
  <2>3. \A u \in Threads :
          thread'[u].pc = "ended" => next_session_index' >= Len(order)
    BY <1>1, <1>3, <1>4, <1>6 DEF Live, ThreadsOK
  <2>4. records' = records
    OBVIOUS
  <2> QED BY <1>4, <1>5, <2>1, <2>2, <2>3, <2>4 DEF Live, ThreadsOK
<1>8. \A u \in Busy' : u = t \/ u \in Busy
  BY <1>4 DEF Busy
<1>9. h.pc = "send" => h.session \in DOMAIN order
  BY <1>1, <1>3, <1>6
<1>10. PlacesOK'
  <2>1. ASSUME NEW u \in Busy'
        PROVE  /\ thread'[u].session \in DOMAIN order
               /\ thread'[u].session <= next_session_index'
               /\ thread'[u].i \in DOMAIN order[thread'[u].session]
               /\ thread'[u].pc = "delay" => ~IsLastRequest(u)'
    <3>1. CASE u = t
      <4>1. h.pc = "send" /\ h.session \in DOMAIN order /\ h.i = 1
            /\ h.session = next_session_index'
        BY <1>1, <1>3, <1>4, <1>9, <3>1
      <4>2. 1 \in DOMAIN order[h.session]
        BY <1>5, <4>1 DEF Grouped
      <4> QED BY <1>1, <1>4, <3>1, <4>1, <4>2
    <3>2. CASE u # t
      <4>1. u \in Busy /\ thread'[u] = thread[u] /\ u \in Threads
        BY <1>4, <1>8, <3>2 DEF Busy
      <4>2. thread[u].session \in Nat
        BY <4>1, BusyThread DEF Live
      <4> QED BY <1>1, <1>4, <4>1, <4>2 DEF Live, PlacesOK, IsLastRequest
    <3> QED BY <3>1, <3>2
  <2>2. ASSUME NEW u \in Busy', NEW v \in Busy',
               thread'[u].session = thread'[v].session
        PROVE  u = v
    <3> DEFINE Far(w) == /\ w \in Busy /\ thread'[w] = thread[w]
                         /\ thread[w].session \in Nat
                         /\ thread[w].session <= next_session_index
    <3>1. \A w \in Busy' : w # t => Far(w)
      <4> SUFFICES ASSUME NEW w \in Busy', w # t PROVE Far(w)
        OBVIOUS
      <4>1. w \in Busy /\ thread'[w] = thread[w] /\ w \in Threads
        BY <1>4, <1>8 DEF Busy
      <4> QED BY <4>1, BusyThread DEF Live, PlacesOK
    <3>2. t \in Busy' => thread'[t].session = next_session_index + 1
      BY <1>3, <1>4
    <3>3. CASE u # t /\ v # t
      BY <2>2, <3>1, <3>3 DEF Live, PlacesOK
    <3>4. CASE u = t /\ v # t
      BY <1>1, <2>2, <3>1, <3>2, <3>4
    <3>5. CASE u # t /\ v = t
      BY <1>1, <2>2, <3>1, <3>2, <3>5
    <3> QED BY <3>3, <3>4, <3>5
  <2> QED BY <1>4, <2>1, <2>2 DEF PlacesOK
<1>11. \A u \in Busy : u # t /\ u \in Busy' /\ thread'[u] = thread[u]
                       /\ thread[u].session <= next_session_index
                       /\ thread[u].session \in Nat
  <2> SUFFICES ASSUME NEW u \in Busy
               PROVE  u # t /\ u \in Busy' /\ thread'[u] = thread[u]
                      /\ thread[u].session <= next_session_index
                      /\ thread[u].session \in Nat
    OBVIOUS
  <2>1. u # t /\ u \in Threads
    BY <1>5 DEF Busy
  <2> QED BY <1>4, <2>1, BusyThread DEF Live, PlacesOK
<1>12. \A p \in DOMAIN order : \A j \in DOMAIN order[p] :
         /\ order[p][j] \in Requests
         /\ Phase(order[p][j])' = Phase(order[p][j])
  <2> SUFFICES ASSUME NEW p \in DOMAIN order, NEW j \in DOMAIN order[p]
               PROVE  /\ order[p][j] \in Requests
                      /\ Phase(order[p][j])' = Phase(order[p][j])
    OBVIOUS
  <2>1. order[p][j] \in Requests
    BY <1>5, PlaceTypes
  <2> QED BY <1>4, <2>1 DEF Quiet
<1>13. ASSUME NEW u \in Busy', NEW j \in DOMAIN order[thread'[u].session]
       PROVE  BusyAt(u, j)'
  <2>1. CASE u = t
    <3> DEFINE p == h.session
    <3>1. /\ h.pc = "send" /\ p \in DOMAIN order /\ h.i = 1
          /\ p = next_session_index + 1 /\ j \in DOMAIN order[p]
      BY <1>1, <1>3, <1>4, <1>9, <2>1
    <3>2. ~Held(p) /\ ~(p <= next_session_index)
      BY <1>1, <1>11, <3>1 DEF Held
    <3>3. Phase(order[p][j]) = "new"
      BY <1>5, <3>1, <3>2 DEF Live, PhasesOK, IdleAt
    <3>4. Now(t)' = "new"
      BY <1>4, <3>1 DEF Now
    <3>5. j \in Nat /\ j >= 1
      <4>1. DOMAIN order[p] = 1 .. Len(order[p])
        BY <1>5, <3>1, PlaceTypes
      <4> QED BY <3>1, <4>1
    <3>6. Phase(order[p][j])' = "new"
      BY <1>12, <3>1, <3>3
    <3>7. thread'[t].session = p /\ thread'[t].i = 1
      BY <1>4, <3>1
    <3> QED BY <1>4, <2>1, <3>4, <3>5, <3>6, <3>7 DEF BusyAt
  <2>2. CASE u # t
    <3>1. u \in Busy /\ thread'[u] = thread[u] /\ Now(u)' = Now(u)
      BY <1>4, <1>8, <2>2 DEF Busy
    <3>2. thread[u].session \in DOMAIN order
      BY <3>1 DEF Live, PlacesOK
    <3>3. Phase(order[thread[u].session][j])' =
            Phase(order[thread[u].session][j])
      BY <1>12, <3>1, <3>2
    <3>4. BusyAt(u, j)
      BY <3>1 DEF Live, PhasesOK
    <3> QED BY <1>4, <3>1, <3>3, <3>4 DEF BusyAt
  <2> QED BY <2>1, <2>2
<1>14. ASSUME NEW p \in DOMAIN order, ~Held(p)', NEW j \in DOMAIN order[p]
       PROVE  IdleAt(p, j)'
  <2>1. ~Held(p)
    BY <1>11, <1>14 DEF Held
  <2>2. IdleAt(p, j)
    BY <1>5, <2>1 DEF Live, PhasesOK
  <2>3. (p <= next_session_index') <=> (p <= next_session_index)
    <3>1. p # next_session_index'
      <4> SUFFICES ASSUME p = next_session_index' PROVE FALSE
        OBVIOUS
      <4>1. h.pc = "send" /\ h.session = p
        BY <1>1, <1>3, <1>6
      <4>2. t \in Busy' /\ thread'[t].session = p
        BY <1>4, <4>1
      <4> QED BY <1>14, <4>2 DEF Held
    <3> QED BY <1>1, <1>6, <3>1
  <2> QED BY <1>4, <1>12, <2>2, <2>3 DEF IdleAt
<1>15. PhasesOK'
  BY <1>4, <1>5, <1>13, <1>14 DEF PhasesOK
<1>16. HistoriesOK'
  <2> SUFFICES ASSUME NEW u \in Busy'
               PROVE  HistoryOK(u)'
    BY DEF HistoriesOK
  <2>1. CASE u = t
    <3>1. /\ thread'[u].chat_history = <<>>
          /\ thread'[u].pc = "send" /\ thread'[u].i = 1
      BY <1>3, <1>4, <2>1
    <3>2. Asked(u)' = 0
      BY <3>1 DEF Asked
    <3> QED BY <3>1, <3>2 DEF HistoryOK, Said
  <2>2. CASE u # t
    <3>1. u \in Busy /\ thread'[u] = thread[u] /\ Asked(u)' = Asked(u)
      BY <1>4, <1>8, <2>2 DEF Busy
    <3> QED BY <1>4, <2>2, <3>1, OthersHistories
  <2> QED BY <2>1, <2>2
<1> QED BY <1>4, <1>7, <1>10, <1>15, <1>16 DEF Live

\* A busy thread goes on in its session, or leaves it at its end.
MovesOn(h, p) ==
  IF h.pc = "next"
  THEN \A j \in DOMAIN order[p] : Phase(order[p][j]) = "done"
  ELSE /\ h.i \in DOMAIN order[p]
       /\ h.pc = "delay" => h.i # Len(order[p])
       /\ \A j \in DOMAIN order[p] :
             Phase(order[p][j]) =
                 IF j < h.i THEN "done" ELSE IF j > h.i THEN "new"
                 ELSE IF h.pc = "send" THEN "new" ELSE "done"
       /\ h.chat_history = Said(p, IF h.pc = "send" THEN h.i - 1 ELSE h.i)

LEMMA MovedThread ==
  ASSUME Live, NEW t \in Busy, NEW h \in SessionThread,
         UNCHANGED <<chatVars, dataVars, main, promise, records>>,
         UNCHANGED next_session_index,
         thread' = [thread EXCEPT ![t] = h],
         h.pc \in {"next", "send", "delay"},
         h.session = thread[t].session,
         MovesOn(h, h.session)
  PROVE  Live'
<1> DEFINE p == h.session
<1>1. /\ t \in Threads /\ Started /\ Grouped(order)
      /\ p \in DOMAIN order
  BY BusyThread DEF Live
<1>2. /\ SessionTypes' /\ ClientOK' /\ Quiet /\ EntriesOK' /\ CountOK'
      /\ UNCHANGED <<order, concurrency, main>>
      /\ Started' = Started
      /\ thread'[t] = h
      /\ \A u \in Threads \ {t} :
            /\ thread'[u] = thread[u]
            /\ u \in Busy <=> u \in Busy'
            /\ Now(u)' = Now(u) /\ Asked(u)' = Asked(u)
      /\ t \in Busy' <=> h.pc \in {"send", "delay"}
  <2>1. h.pc # "wait" /\ next_session_index' \in Nat
    BY DEF Live, SessionTypes
  <2> QED BY <1>1, <2>1, ThreadStepFrame
<1>3. ThreadsOK'
  <2>1. GroupPayloadsBySession' = GroupPayloadsBySession
    BY DEF GroupPayloadsBySession
  <2>2. \A u \in Threads :
          /\ thread'[u].pc = "none" <=> thread[u].pc = "none"
          /\ thread'[u].pc = "ended" <=> thread[u].pc = "ended"
    BY <1>2 DEF Busy
  <2>3. main # "joined"
    <3> SUFFICES ASSUME main = "joined" PROVE FALSE
      OBVIOUS
    <3>1. t \in Nat \ {0} /\ concurrency \in Nat
      BY <1>1, SessionsAssumption DEF Live, SessionTypes
    <3>2. ~(t > concurrency)
      BY <1>1 DEF Live, ThreadsOK, Busy
    <3>3. t \in 1 .. concurrency
      BY <3>1, <3>2
    <3> QED BY <3>3 DEF Live, ThreadsOK, Busy
  <2>4. UNCHANGED <<records, next_session_index>>
    OBVIOUS
  <2> QED BY <1>1, <1>2, <2>1, <2>2, <2>3, <2>4 DEF Live, ThreadsOK
<1>4. \A u \in Busy' : u = t \/ u \in Busy
  BY <1>2 DEF Busy
<1>5. PlacesOK'
  <2>1. ASSUME NEW u \in Busy'
        PROVE  /\ thread'[u].session = thread[u].session /\ u \in Busy
               /\ thread'[u].session \in DOMAIN order
               /\ thread'[u].session <= next_session_index'
               /\ thread'[u].i \in DOMAIN order[thread'[u].session]
               /\ thread'[u].pc = "delay" => ~IsLastRequest(u)'
    <3>1. CASE u = t
      <4>1. h.pc \in {"send", "delay"}
        BY <1>2, <3>1
      <4> QED BY <1>1, <1>2, <3>1, <4>1
              DEF MovesOn, IsLastRequest, Live, PlacesOK
    <3>2. CASE u # t
      <4>1. u \in Busy /\ thread'[u] = thread[u]
        BY <1>2, <1>4, <3>2 DEF Busy
      <4> QED BY <1>2, <4>1 DEF Live, PlacesOK, IsLastRequest
    <3> QED BY <3>1, <3>2
  <2>2. \A u, v \in Busy' :
          thread'[u].session = thread'[v].session => u = v
    BY <2>1 DEF Live, PlacesOK
  <2> QED BY <1>2, <2>1, <2>2 DEF PlacesOK
<1>6. \A q \in DOMAIN order : \A j \in DOMAIN order[q] :
         /\ order[q][j] \in Requests
         /\ Phase(order[q][j])' = Phase(order[q][j])
  <2> SUFFICES ASSUME NEW q \in DOMAIN order, NEW j \in DOMAIN order[q]
               PROVE  /\ order[q][j] \in Requests
                      /\ Phase(order[q][j])' = Phase(order[q][j])
    OBVIOUS
  <2>1. order[q][j] \in Requests
    BY <1>1, PlaceTypes
  <2> QED BY <1>2, <2>1 DEF Quiet
<1>7. ASSUME NEW u \in Busy', NEW j \in DOMAIN order[thread'[u].session]
      PROVE  BusyAt(u, j)'
  <2>1. CASE u = t
    <3>1. h.pc \in {"send", "delay"}
      BY <1>2, <2>1
    <3>2. Phase(order[p][j]) =
                 IF j < h.i THEN "done" ELSE IF j > h.i THEN "new"
                 ELSE IF h.pc = "send" THEN "new" ELSE "done"
      BY <1>2, <2>1, <3>1 DEF MovesOn
    <3>3. Phase(order[p][j])' = Phase(order[p][j])
      BY <1>1, <1>2, <1>6, <2>1
    <3>4. Now(t)' = IF h.pc = "send" THEN "new" ELSE "done"
      BY <1>2, <3>1 DEF Now
    <3> QED BY <1>2, <2>1, <3>2, <3>3, <3>4 DEF BusyAt
  <2>2. CASE u # t
    <3>1. u \in Busy /\ thread'[u] = thread[u] /\ Now(u)' = Now(u)
      BY <1>2, <1>4, <2>2 DEF Busy
    <3>2. thread[u].session \in DOMAIN order
      BY <3>1 DEF Live, PlacesOK
    <3>3. Phase(order[thread[u].session][j])' =
            Phase(order[thread[u].session][j])
      BY <1>6, <3>1, <3>2
    <3>4. BusyAt(u, j)
      BY <3>1 DEF Live, PhasesOK
    <3> QED BY <1>2, <3>1, <3>3, <3>4 DEF BusyAt
  <2> QED BY <2>1, <2>2
<1>8. ASSUME NEW q \in DOMAIN order, ~Held(q)', NEW j \in DOMAIN order[q]
      PROVE  IdleAt(q, j)'
  <2>1. CASE ~Held(q)
    <3>1. IdleAt(q, j)
      BY <1>1, <2>1 DEF Live, PhasesOK
    <3> QED BY <1>2, <1>6, <3>1 DEF IdleAt
  <2>2. CASE Held(q)
    <3>1. PICK u \in Busy : thread[u].session = q
      BY <2>2 DEF Held
    <3>2. u = t
      <4> SUFFICES ASSUME u # t PROVE FALSE
        OBVIOUS
      <4>1. u \in Busy' /\ thread'[u] = thread[u]
        BY <1>2 DEF Busy
      <4> QED BY <1>8, <3>1, <4>1 DEF Held
    <3>3. q = p /\ h.pc = "next"
      <4>1. q = p
        BY <3>1, <3>2
      <4>2. t \notin Busy'
        BY <1>2, <1>8, <4>1 DEF Held
      <4> QED BY <1>2, <4>1, <4>2
    <3>4. Phase(order[q][j]) = "done" /\ q <= next_session_index
      BY <3>1, <3>3 DEF MovesOn, Live, PlacesOK
    <3> QED BY <1>2, <1>6, <3>4 DEF IdleAt
  <2> QED BY <2>1, <2>2
<1>9. PhasesOK'
  BY <1>1, <1>2, <1>7, <1>8 DEF PhasesOK
<1>10. HistoriesOK'
  <2> SUFFICES ASSUME NEW u \in Busy'
               PROVE  HistoryOK(u)'
    BY DEF HistoriesOK
  <2>1. CASE u = t
    <3> DEFINE i == IF h.pc = "send" THEN h.i - 1 ELSE h.i
    <3>1. h.pc \in {"send", "delay"}
      BY <1>2, <2>1
    <3>2. thread'[u].chat_history = Said(p, i)
      BY <1>2, <2>1, <3>1 DEF MovesOn
    <3>3. Asked(u)' = i
      BY <1>2, <2>1 DEF Asked
    <3>4. i = 0 \/ i \in DOMAIN order[p]
      <4>1. h.i \in 1 .. Len(order[p]) /\ Len(order[p]) \in Nat
            /\ DOMAIN order[p] = 1 .. Len(order[p])
        BY <1>1, <3>1, PlaceTypes DEF MovesOn
      <4> HIDE DEF p
      <4> QED BY <4>1
    <3>5. Said(p, i)' = Said(p, i)
      <4> HIDE DEF p, i
      <4> QED BY <1>1, <1>2, <3>4, SaidFrame
    <3>6. thread'[u].session = p
      BY <1>2, <2>1
    <3> HIDE DEF p, i
    <3> QED BY <3>2, <3>3, <3>5, <3>6 DEF HistoryOK
  <2>2. CASE u # t
    <3>1. u \in Busy /\ thread'[u] = thread[u] /\ Asked(u)' = Asked(u)
      BY <1>2, <1>4, <2>2 DEF Busy
    <3> QED BY <1>1, <1>2, <2>2, <3>1, OthersHistories
  <2> QED BY <2>1, <2>2
<1> QED BY <1>2, <1>3, <1>5, <1>9, <1>10 DEF Live

LEMMA PhasesOfBusy ==
  ASSUME Live, NEW t \in Busy
  PROVE  \A j \in DOMAIN order[thread[t].session] :
            Phase(order[thread[t].session][j]) =
                IF j < thread[t].i THEN "done"
                ELSE IF j > thread[t].i THEN "new" ELSE Now(t)
BY DEF Live, PhasesOK, BusyAt

LEMMA PlaceNumbers ==
  ASSUME Live, NEW t \in Busy
  PROVE  LET q == order[thread[t].session]
         IN  /\ Len(q) \in Nat /\ DOMAIN q = 1 .. Len(q)
             /\ thread[t].i \in 1 .. Len(q)
<1>1. Grouped(order) /\ thread[t].session \in DOMAIN order
      /\ thread[t].i \in DOMAIN order[thread[t].session]
  BY BusyThread DEF Live
<1> QED BY <1>1, PlaceTypes

LEMMA WaitForResponseKeeps ==
  ASSUME Live, NEW t \in Threads, WaitForResponse(t)
  PROVE  Live'
<1> DEFINE q == order[thread[t].session]
<1>1. /\ t \in Busy /\ thread[t].pc = "wait" /\ promise[t]
      /\ thread[t] \in SessionThread
  BY DEF Busy, WaitForResponse, Live, SessionTypes
<1>2. PICK h \in SessionThread :
        /\ thread' = [thread EXCEPT ![t] = h]
        /\ h = [thread[t] EXCEPT !.pc = IF IsLastRequest(t) THEN "next"
                                        ELSE "delay"]
  <2> DEFINE g == [thread[t] EXCEPT !.pc = IF IsLastRequest(t) THEN "next"
                                           ELSE "delay"]
  <2>1. g \in SessionThread /\ thread' = [thread EXCEPT ![t] = g]
    BY <1>1 DEF WaitForResponse, SessionThread
  <2> HIDE DEF g
  <2>2. g = [thread[t] EXCEPT !.pc = IF IsLastRequest(t) THEN "next"
                                     ELSE "delay"]
    BY DEF g
  <2> QED BY <2>1, <2>2
<1>3. /\ h.pc = IF IsLastRequest(t) THEN "next" ELSE "delay"
      /\ h.session = thread[t].session /\ h.i = thread[t].i
      /\ h.chat_history = thread[t].chat_history
  BY <1>1, <1>2 DEF SessionThread
<1>4. /\ Len(q) \in Nat /\ DOMAIN q = 1 .. Len(q)
      /\ thread[t].i \in 1 .. Len(q)
  BY <1>1, PlaceNumbers
<1>5. Now(t) = "done" /\ Asked(t) = thread[t].i
  BY <1>1 DEF Now, Asked
<1>6. \A j \in DOMAIN q : Phase(q[j]) = IF j < h.i THEN "done"
                          ELSE IF j > h.i THEN "new" ELSE "done"
  BY <1>1, <1>3, <1>5, PhasesOfBusy
<1>7. h.chat_history = Said(h.session, h.i)
  BY <1>1, <1>3, <1>5 DEF Live, HistoriesOK, HistoryOK
<1>8. IsLastRequest(t) <=> h.i = Len(q)
  BY <1>3 DEF IsLastRequest
<1>9. MovesOn(h, h.session)
  <2>1. order[h.session] = q
    BY <1>3
  <2> HIDE DEF q
  <2>2. CASE h.i = Len(q)
    <3>1. \A j \in DOMAIN q : Phase(q[j]) = "done"
      BY <1>3, <1>4, <1>6, <2>2
    <3> QED BY <1>3, <1>8, <2>1, <2>2, <3>1 DEF MovesOn
  <2>3. CASE h.i # Len(q)
    BY <1>3, <1>4, <1>6, <1>7, <1>8, <2>1, <2>3 DEF MovesOn
  <2> QED BY <2>2, <2>3
<1>10. UNCHANGED <<chatVars, dataVars, main, promise, records>>
       /\ UNCHANGED next_session_index
  BY DEF WaitForResponse
<1> QED BY <1>1, <1>2, <1>3, <1>9, <1>10, MovedThread

LEMMA NextRequest ==
  ASSUME NEW r \in SessionThread
  PROVE  /\ [r EXCEPT !.pc = "send", !.i = @ + 1] \in SessionThread
         /\ [r EXCEPT !.pc = "send", !.i = @ + 1].pc = "send"
         /\ [r EXCEPT !.pc = "send", !.i = @ + 1].i = r.i + 1
         /\ [r EXCEPT !.pc = "send", !.i = @ + 1].session = r.session
         /\ [r EXCEPT !.pc = "send", !.i = @ + 1].chat_history
              = r.chat_history
<1> DEFINE q == [r EXCEPT !.pc = "send"]
<1>1. q \in SessionThread
  BY DEF SessionThread
<1>2. q.i = r.i /\ q.pc = "send" /\ q.session = r.session
      /\ q.chat_history = r.chat_history
  BY DEF SessionThread
<1>3. [r EXCEPT !.pc = "send", !.i = @ + 1] = [q EXCEPT !.i = q.i + 1]
  BY DEF SessionThread
<1> HIDE DEF q
<1>4. [q EXCEPT !.i = q.i + 1] \in SessionThread
  BY <1>1 DEF SessionThread
<1>5. /\ [q EXCEPT !.i = q.i + 1].pc = q.pc
      /\ [q EXCEPT !.i = q.i + 1].i = q.i + 1
      /\ [q EXCEPT !.i = q.i + 1].session = q.session
      /\ [q EXCEPT !.i = q.i + 1].chat_history = q.chat_history
  BY <1>1 DEF SessionThread
<1> QED BY <1>2, <1>3, <1>4, <1>5

LEMMA GetAndWaitForDelayKeeps ==
  ASSUME Live, NEW t \in Threads, GetAndWaitForDelay(t), ~terminated'
  PROVE  Live'
<1> DEFINE q == order[thread[t].session]
<1>1. /\ t \in Busy /\ thread[t].pc = "delay"
      /\ thread[t] \in SessionThread
  BY DEF Busy, GetAndWaitForDelay, Live, SessionTypes
<1>2. /\ thread' = [thread EXCEPT ![t].pc = "send", ![t].i = @ + 1]
      /\ UNCHANGED <<chatVars, dataVars, main, promise, records>>
      /\ UNCHANGED next_session_index
  BY DEF GetAndWaitForDelay, Terminate
<1>3. PICK h \in SessionThread :
        /\ thread' = [thread EXCEPT ![t] = h]
        /\ h = [thread[t] EXCEPT !.pc = "send", !.i = @ + 1]
  <2> DEFINE g == [thread[t] EXCEPT !.pc = "send", !.i = @ + 1]
  <2>1. g \in SessionThread
    BY <1>1, NextRequest
  <2>2. thread' = [thread EXCEPT ![t] = g]
    BY <1>2
  <2> QED BY <2>1, <2>2
<1>4. /\ h.pc = "send" /\ h.i = thread[t].i + 1
      /\ h.session = thread[t].session
      /\ h.chat_history = thread[t].chat_history
  BY <1>1, <1>3, NextRequest
<1>5. /\ Len(q) \in Nat /\ DOMAIN q = 1 .. Len(q)
      /\ thread[t].i \in 1 .. Len(q) /\ thread[t].i # Len(q)
  <2>1. thread[t].i # Len(q)
    BY <1>1 DEF Live, PlacesOK, IsLastRequest
  <2> QED BY <1>1, <2>1, PlaceNumbers
<1>6. Now(t) = "done" /\ Asked(t) = thread[t].i
  BY <1>1 DEF Now, Asked
<1>7. \A j \in DOMAIN q : Phase(q[j]) = IF j < thread[t].i THEN "done"
                          ELSE IF j > thread[t].i THEN "new" ELSE "done"
  BY <1>1, <1>6, PhasesOfBusy
<1>8. h.chat_history = Said(h.session, h.i - 1)
  <2>1. h.i - 1 = thread[t].i
    BY <1>4, <1>5
  <2> QED BY <1>1, <1>4, <1>6, <2>1 DEF Live, HistoriesOK, HistoryOK
<1>9. MovesOn(h, h.session)
  <2>1. order[h.session] = q
    BY <1>4
  <2> HIDE DEF q
  <2>2. h.i \in DOMAIN q
    BY <1>4, <1>5
  <2>3. \A j \in DOMAIN q : Phase(q[j]) = IF j < h.i THEN "done"
                          ELSE IF j > h.i THEN "new" ELSE "new"
    BY <1>4, <1>5, <1>7
  <2> QED BY <1>4, <1>8, <2>1, <2>2, <2>3 DEF MovesOn
<1> QED BY <1>1, <1>2, <1>3, <1>4, <1>9, MovedThread

-----------------------------------------------------------------------------
(* Steps that move one request: it is sent, or it is answered.             *)

\* Every request but k is where it was, with the body it had.
QuietBut(k) == \A q \in Requests \ {k} :
                  Phase(q)' = Phase(q) /\ http'[q].body = http[q].body

\* Thread t's request has moved with it; all threads are where they were.
MovesWith(t) ==
  /\ QuietBut(Payload(t)) /\ Phase(Payload(t))' = Now(t)'
  /\ UNCHANGED <<order, next_session_index, main>>
  /\ \A u \in Threads :
        /\ u \in Busy <=> u \in Busy'
        /\ thread'[u].session = thread[u].session
        /\ thread'[u].i = thread[u].i
        /\ u # t => thread'[u] = thread[u] /\ Now(u)' = Now(u)

LEMMA PhasesMove ==
  ASSUME Live, NEW t \in Busy, MovesWith(t)
  PROVE  PhasesOK'
<1> DEFINE k == Payload(t)
           p == thread[t].session
<1>1. /\ t \in Threads /\ Started /\ Started' /\ Grouped(order)
      /\ p \in DOMAIN order /\ thread[t].i \in DOMAIN order[p]
      /\ k = order[p][thread[t].i] /\ k \in Requests
  BY BusyThread DEF Live, MovesWith, Started
<1>2. Busy' = Busy
  BY DEF MovesWith, Busy
<1>3. ASSUME NEW q \in DOMAIN order, NEW j \in DOMAIN order[q],
             order[q][j] # k
      PROVE  Phase(order[q][j])' = Phase(order[q][j])
  <2>1. order[q][j] \in Requests
    BY <1>1, PlaceTypes
  <2> QED BY <1>3, <2>1 DEF MovesWith, QuietBut
<1>4. ASSUME NEW u \in Busy, NEW j \in DOMAIN order[thread[u].session]
      PROVE  BusyAt(u, j)'
  <2>1. BusyAt(u, j)
    BY DEF Live, PhasesOK
  <2>2. u \in Threads /\ thread[u].session \in DOMAIN order
    BY BusyThread DEF Live
  <2>3. thread'[u].session = thread[u].session /\ thread'[u].i = thread[u].i
        /\ order' = order
    BY <2>2 DEF MovesWith
  <2>4. CASE order[thread[u].session][j] = k
    <3>1. u = t /\ j = thread[t].i
      BY <2>4, OwnPayload DEF Live
    <3>2. Phase(k)' = Now(t)'
      BY DEF MovesWith
    <3>3. j \in Nat
      BY <3>1, BusyThread DEF Live
    <3>4. Phase(order[thread[u].session][j])' = Phase(k)'
      BY <2>3, <2>4, <3>1 DEF Payload
    <3> QED BY <2>3, <3>1, <3>2, <3>3, <3>4 DEF BusyAt
  <2>5. CASE order[thread[u].session][j] # k
    <3>1. Phase(order[thread[u].session][j])'
            = Phase(order[thread[u].session][j])
      BY <1>3, <2>2, <2>3, <2>5
    <3>2. CASE u # t
      <4>1. Now(u)' = Now(u)
        BY <2>2, <3>2 DEF MovesWith
      <4> QED BY <2>1, <2>3, <3>1, <4>1 DEF BusyAt
    <3>3. CASE u = t
      <4>1. j # thread[t].i
        BY <1>1, <2>5, <3>3
      <4>2. j \in Nat /\ thread[t].i \in Nat
        <5>1. DOMAIN order[p] = 1 .. Len(order[p])
          BY <1>1, PlaceTypes
        <5>2. thread[t].i \in Nat
          BY BusyThread DEF Live
        <5> QED BY <3>3, <5>1, <5>2
      <4> QED BY <2>1, <2>3, <3>1, <3>3, <4>1, <4>2 DEF BusyAt
    <3> QED BY <3>2, <3>3
  <2> QED BY <2>4, <2>5
<1>5. \A q : Held(q)' <=> Held(q)
  BY <1>2 DEF MovesWith, Held, Busy
<1>6. ASSUME NEW q \in DOMAIN order, ~Held(q), NEW j \in DOMAIN order[q]
      PROVE  IdleAt(q, j)'
  <2>1. IdleAt(q, j)
    BY <1>1, <1>6 DEF Live, PhasesOK
  <2>2. order[q][j] # k
    <3> SUFFICES ASSUME order[q][j] = k PROVE FALSE
      OBVIOUS
    <3>1. q = p
      BY <1>1, OnePlace
    <3> QED BY <1>6, <3>1 DEF Held
  <2> QED BY <1>3, <2>1, <2>2 DEF IdleAt, MovesWith
<1>7. \A u \in Busy' : \A j \in DOMAIN order'[thread'[u].session] :
        BusyAt(u, j)'
  <2>1. /\ order' = order
        /\ \A u \in Busy : thread'[u].session = thread[u].session
    BY DEF MovesWith, Busy
  <2> QED BY <1>2, <1>4, <2>1
<1>8. \A q \in DOMAIN order' : ~Held(q)' =>
        \A j \in DOMAIN order'[q] : IdleAt(q, j)'
  <2>1. order' = order
    BY DEF MovesWith
  <2> QED BY <1>5, <1>6, <2>1
<1> QED BY <1>1, <1>7, <1>8 DEF PhasesOK

LEMMA PlacesStay ==
  ASSUME PlacesOK, NEW t \in Busy, MovesWith(t), thread'[t].pc # "delay"
  PROVE  PlacesOK'
<1>1. Busy' = Busy /\ UNCHANGED <<order, next_session_index>>
      /\ \A u \in Busy : /\ thread'[u].session = thread[u].session
                         /\ thread'[u].i = thread[u].i
                         /\ u # t => thread'[u] = thread[u]
  BY DEF MovesWith, Busy
<1> QED BY <1>1 DEF PlacesOK, IsLastRequest

\* The other threads' histories.
LEMMA OthersStay ==
  ASSUME Live, NEW t \in Busy, MovesWith(t), NEW u \in Busy, u # t
  PROVE  HistoryOK(u)'
<1> DEFINE p == thread[u].session
           i == Asked(u)
<1>1. /\ Grouped(order) /\ p \in DOMAIN order /\ u \in Threads
      /\ (i = 0 \/ i \in DOMAIN order[p])
  BY BusyThread, AskedTypes DEF Live
<1>2. thread[u].chat_history = Said(p, i)
  BY DEF Live, HistoriesOK, HistoryOK
<1>3. thread'[u] = thread[u] /\ order' = order
  BY <1>1 DEF MovesWith
<1>4. p' = p /\ i' = i
  BY <1>3 DEF Asked
<1>5. Said(p, i)' = Said(p, i)
  <2>1. CASE i = 0
    BY <1>4, <2>1 DEF Said
  <2>2. CASE i \in DOMAIN order[p]
    <3> DEFINE k == order[p][i]
    <3>1. k \in Requests /\ k' = k
      BY <1>1, <1>3, <1>4, <2>2, PlaceTypes
    <3>2. k # Payload(t)
      BY <2>2, OwnPayload DEF Live
    <3>3. Phase(k)' = Phase(k) /\ http'[k].body = http[k].body
      <4> HIDE DEF k
      <4> QED BY <3>1, <3>2 DEF MovesWith, QuietBut
    <3>4. Said(p, i) = IF i = 0 THEN <<>>
                       ELSE http[k].body[1]
                            \o (IF Phase(k) = "done" THEN <<Reply(k)>>
                                ELSE <<>>)
      BY DEF Said
    <3>5. Said(p, i)' = IF i = 0 THEN <<>>
                        ELSE http'[k].body[1]
                             \o (IF Phase(k)' = "done" THEN <<Reply(k)>>
                                 ELSE <<>>)
      BY <1>3, <1>4, <3>1 DEF Said, Reply
    <3> QED BY <3>3, <3>4, <3>5
  <2> QED BY <1>1, <2>1, <2>2
<1>6. HistoryOK(u)' <=> thread'[u].chat_history = Said(p, i)'
  BY DEF HistoryOK
<1> QED BY <1>2, <1>3, <1>5, <1>6

\* The bodies that were sent are histories.
LEMMA BodyOf ==
  ASSUME SessionTypes, ClientOK, EntriesOK,
         NEW k \in Requests, Phase(k) # "new"
  PROVE  \E e \in AllEntries :
            /\ Entry(e).index = k /\ Entry(e) \in RequestRecord
            /\ http[k].body = <<Entry(e).payload>>
            /\ http[k].body[1] = Entry(e).payload
            /\ http[k].body[1] \in Histories
            /\ http[k].body[1] # <<>> => Last(http[k].body[1]) # Reply(k)
<1>1. PICK e \in AllEntries : Entry(e).index = k
  BY DEF EntriesOK
<1>2. Entry(e) \in RequestRecord /\ EntryOK(Entry(e))
  BY EntryTypes DEF EntriesOK
<1>3. Entry(e).payload \in Histories
  BY <1>2 DEF RequestRecord
<1>4. http[k].body = <<Entry(e).payload>>
  BY <1>1, <1>2 DEF EntryOK
<1>5. http[k].body[1] = Entry(e).payload
  BY <1>4
<1> QED BY <1>1, <1>2, <1>3, <1>4, <1>5 DEF EntryOK

LEMMA ConcatEmpty ==
  ASSUME NEW h \in Histories
  PROVE  h \o <<>> = h /\ <<>> \o h = h
BY DEF Histories

LEMMA SaidIs ==
  ASSUME SessionTypes, ClientOK, EntriesOK, Grouped(order),
         NEW p \in DOMAIN order, NEW i \in DOMAIN order[p], i # 0,
         NEW k, k = order[p][i], Phase(k) # "new"
  PROVE  IF Phase(k) = "done"
         THEN Said(p, i) = Append(http[k].body[1], Reply(k))
         ELSE Said(p, i) = http[k].body[1]
<1>1. k \in Requests
  BY PlaceTypes
<1>2. http[k].body[1] \in Histories
  BY <1>1, BodyOf
<1>3. \A h \in Histories : \A m : h \o <<m>> = Append(h, m)
  BY DEF Histories
<1> QED BY <1>2, <1>3, ConcatEmpty DEF Said

\* What a payload adds to a history never ends in the payload's reply.
LEMMA MessagesTyped ==
  ASSUME NEW k \in Requests
  PROVE  /\ Messages(k) \in Histories /\ Reply(k) \in Message
         /\ Messages(k) # <<>> => Last(Messages(k)) # Reply(k)
<1>1. /\ k \in Nat /\ Data[k].messages \in Nat
      /\ Messages(k) = [j \in 1 .. Data[k].messages |-> <<"user", k, j>>]
  BY SessionsFinite, SessionsAssumption DEF Messages
<1>2. \A j \in Nat : <<"user", k, j>> \in Message
  BY <1>1 DEF Message
<1>3. \A j \in 1 .. Data[k].messages : <<"user", k, j>> \in Message
  BY <1>1, <1>2
<1>4. Messages(k) \in Seq(Message) /\ Len(Messages(k)) = Data[k].messages
  <2> HIDE DEF Message
  <2> DEFINE n == Data[k].messages
             f(j) == <<"user", k, j>>
  <2>1. n \in Nat /\ \A j \in 1 .. n : f(j) \in Message
    BY <1>1, <1>3
  <2>2. Messages(k) = [j \in 1 .. n |-> f(j)]
    BY <1>1
  <2> HIDE DEF n, f
  <2>3. [j \in 1 .. n |-> f(j)] \in Seq(Message)
        /\ Len([j \in 1 .. n |-> f(j)]) = n
    BY <2>1
  <2> QED BY <2>2, <2>3 DEF n
<1>5. ASSUME Messages(k) # <<>> PROVE Last(Messages(k)) # Reply(k)
  <2>1. Len(Messages(k)) \in 1 .. Data[k].messages
    BY <1>1, <1>4, <1>5
  <2>2. Last(Messages(k)) = <<"user", k, Len(Messages(k))>>
    BY <1>1, <2>1 DEF Last
  <2>3. Last(Messages(k))[1] = "user" /\ Reply(k)[1] = "assistant"
    BY <2>2 DEF Reply
  <2> QED BY <2>3
<1>6. Reply(k) \in Message
  BY <1>1 DEF Reply, Message
<1> QED BY <1>4, <1>5, <1>6 DEF Histories

LEMMA LastOfConcat ==
  ASSUME NEW g \in Histories, NEW h \in Histories
  PROVE  /\ g \o h \in Histories
         /\ h # <<>> => g \o h # <<>> /\ Last(g \o h) = Last(h)
<1>1. /\ g \o h \in Seq(Message) /\ Len(g \o h) = Len(g) + Len(h)
      /\ Len(g) \in Nat /\ Len(h) \in Nat
      /\ \A i \in 1 .. Len(g) + Len(h) :
            (g \o h)[i] = IF i <= Len(g) THEN g[i] ELSE h[i - Len(g)]
  BY DEF Histories
<1>2. ASSUME h # <<>> PROVE g \o h # <<>> /\ Last(g \o h) = Last(h)
  <2>1. Len(h) > 0
    BY <1>1, <1>2 DEF Histories
  <2>2. Len(g) + Len(h) \in 1 .. Len(g) + Len(h)
        /\ ~(Len(g) + Len(h) <= Len(g))
        /\ Len(g) + Len(h) - Len(g) = Len(h)
    BY <1>1, <2>1
  <2>3. (g \o h)[Len(g) + Len(h)] = h[Len(h)]
    BY <1>1, <2>2
  <2>4. g \o h # <<>>
    BY <1>1, <2>1
  <2> QED BY <1>1, <2>3, <2>4 DEF Last
<1> QED BY <1>1, <1>2 DEF Histories

\* Before a request of a session is sent, the history is the talk so far.
LEMMA HistoryBefore ==
  ASSUME Live, NEW t \in Busy, thread[t].pc = "send"
  PROVE  /\ thread[t].chat_history \in Histories
         /\ thread[t].chat_history # <<>> =>
              \E k \in Requests : /\ k # Payload(t)
                                  /\ Last(thread[t].chat_history) = Reply(k)
<1> DEFINE p == thread[t].session
           i == thread[t].i
           q == order[p]
<1>1. /\ Grouped(order) /\ p \in DOMAIN order /\ i \in DOMAIN q
      /\ i \in Nat \ {0} /\ Payload(t) = q[i] /\ t \in Threads
  BY BusyThread DEF Live
<1>2. thread[t].chat_history = Said(p, i - 1)
  BY DEF Live, HistoriesOK, HistoryOK, Asked
<1>3. thread[t].chat_history \in Histories
  BY <1>1 DEF Live, SessionTypes, SessionThread
<1>4. CASE i = 1
  BY <1>2, <1>3, <1>4 DEF Said
<1>5. CASE i # 1
  <2> DEFINE k == q[i - 1]
  <2>1. DOMAIN q = 1 .. Len(q) /\ Len(q) \in Nat
    BY <1>1, PlaceTypes
  <2>2. i - 1 \in DOMAIN q /\ i - 1 # 0 /\ i - 1 < i
    BY <1>1, <1>5, <2>1
  <2>3. k \in Requests
    BY <1>1, <2>2, PlaceTypes
  <2>4. Phase(k) = "done"
    BY <2>2, PhasesOfBusy
  <2>5. k # Payload(t)
    <3> SUFFICES ASSUME k = q[i] PROVE FALSE
      BY <1>1
    <3>1. i - 1 = i
      BY <1>1, <2>2, OnePlace
    <3> QED BY <1>1, <3>1
  <2>6. Said(p, i - 1) = Append(http[k].body[1], Reply(k))
    <3> DEFINE n == i - 1
    <3>1. n \in DOMAIN order[p] /\ n # 0 /\ k = order[p][n]
      BY <2>2
    <3> HIDE DEF n, k
    <3>2. Said(p, n) = Append(http[k].body[1], Reply(k))
      <4>1. Phase(k) # "new"
        BY <2>4
      <4> HIDE DEF p, i
      <4> QED BY <1>1, <2>4, <3>1, <4>1, SaidIs DEF Live
    <3> QED BY <3>2 DEF n
  <2>7. http[k].body[1] \in Histories
    <3> HIDE DEF k
    <3>1. Phase(k) # "new"
      BY <2>4
    <3> QED BY <2>3, <3>1, BodyOf DEF Live
  <2>8. \A h \in Histories : \A m \in Message : Last(Append(h, m)) = m
    BY DEF Histories, Last
  <2>9. Last(thread[t].chat_history) = Reply(k)
    <3> HIDE DEF k, p, i, q
    <3>1. Reply(k) \in Message
      BY <2>3, MessagesTyped
    <3>2. Last(Append(http[k].body[1], Reply(k))) = Reply(k)
      BY <2>7, <2>8, <3>1
    <3>3. thread[t].chat_history = Append(http[k].body[1], Reply(k))
      BY <1>2, <2>6
    <3> QED BY <3>2, <3>3
  <2> QED BY <1>3, <2>3, <2>5, <2>9
<1> QED BY <1>4, <1>5

LEMMA HistorySent ==
  ASSUME Live, NEW t \in Busy, thread[t].pc = "send"
  PROVE  /\ UpdateHistory(t) \in Histories
         /\ UpdateHistory(t) # <<>> =>
              Last(UpdateHistory(t)) # Reply(Payload(t))
<1> DEFINE g == thread[t].chat_history
           k == Payload(t)
           h == Messages(k)
<1>1. k \in Requests
  BY BusyThread DEF Live
<1>2. h \in Histories /\ (h # <<>> => Last(h) # Reply(k))
  <2> HIDE DEF k
  <2> QED BY <1>1, MessagesTyped
<1>3. /\ g \in Histories
      /\ g # <<>> => \E r \in Requests : r # k /\ Last(g) = Reply(r)
  BY HistoryBefore
<1>4. \A r \in Requests : r # k => Reply(r) # Reply(k)
  <2>1. \A r, s : <<"assistant", r>> = <<"assistant", s>> => r = s
    OBVIOUS
  <2> QED BY <2>1 DEF Reply
<1>5. UpdateHistory(t) = g \o h
  BY DEF UpdateHistory
<1> HIDE DEF g, h, k
<1>6. CASE h # <<>>
  BY <1>2, <1>3, <1>5, <1>6, LastOfConcat DEF k
<1>7. CASE h = <<>>
  <2>1. g \o h = g
    BY <1>3, <1>7, ConcatEmpty
  <2> QED BY <1>3, <1>4, <1>5, <2>1 DEF k
<1> QED BY <1>6, <1>7

\* What a thread's sending of a request changes.
LEMMA SendChangesSession ==
  ASSUME Live, NEW t \in Threads, SendSessionRequest(t), ~terminated'
  PROVE  /\ t \in Busy /\ thread[t].pc = "send"
         /\ Payload(t) \in Requests /\ Phase(Payload(t)) = "new"
         /\ records' = [records EXCEPT ![t] =
              Append(@, Record(Payload(t), UpdateHistory(t)))]
         /\ promise' = [promise EXCEPT ![t] = FALSE]
         /\ thread' = [thread EXCEPT ![t].pc = "wait",
                          ![t].chat_history = UpdateHistory(t)]
         /\ UNCHANGED <<order, next_session_index, main, concurrency,
                        infer_stat, exiting, ongoing_async_requests>>
         /\ new_async_requests' = new_async_requests \cup {Payload(t)}
         /\ http' = [http EXCEPT ![Payload(t)] =
              [HttpRequest EXCEPT !.body = <<UpdateHistory(t)>>]]
<1>1. t \in Busy /\ thread[t].pc = "send"
  BY DEF Busy, SendSessionRequest
<1>2. Payload(t) \notin malformed
  BY DEF SendSessionRequest, Terminate
<1>3. Payload(t) \in Requests /\ Phase(Payload(t)) = "new"
  <2>1. /\ thread[t].i \in DOMAIN order[thread[t].session]
        /\ Payload(t) = order[thread[t].session][thread[t].i]
        /\ Payload(t) \in Requests /\ thread[t].i \in Nat
    BY <1>1, BusyThread DEF Live
  <2>2. Now(t) = "new"
    BY <1>1 DEF Now
  <2> QED BY <1>1, <2>1, <2>2, PhasesOfBusy
<1>4. ~exiting
  <2> SUFFICES ASSUME exiting PROVE FALSE
    OBVIOUS
  <2>1. main = "joined"
    BY DEF Live, ClientOK
  <2>2. Phase(Payload(t)) = "done"
    BY <1>3, <2>1, JoinedAllDone DEF Live
  <2> QED BY <1>3, <2>2
<1>5. PrepareForRequest(AppendRaw([data_str |-> <<>>, bufs |-> <<>>],
                                  UpdateHistory(t))).data_str
        = <<UpdateHistory(t)>>
  <2> HIDE DEF UpdateHistory
  <2> QED BY DEF PrepareForRequest, AppendRaw
<1>6. /\ new_async_requests' = new_async_requests \cup {Payload(t)}
      /\ http' = [http EXCEPT ![Payload(t)] =
              [HttpRequest EXCEPT !.body = <<UpdateHistory(t)>>]]
      /\ UNCHANGED <<infer_stat, exiting, ongoing_async_requests>>
  BY <1>2, <1>4, <1>5
     DEF SendSessionRequest, AsyncInfer, ClientAsyncInfer, Send
<1> QED BY <1>1, <1>2, <1>3, <1>6 DEF SendSessionRequest, dataVars

LEMMA SendSessionKeeps ==
  ASSUME Live, NEW t \in Threads, SendSessionRequest(t), ~terminated'
  PROVE  Live' /\ MovesWith(t)
<1>1. PICK k \in Requests : k = Payload(t)
  BY SendChangesSession
<1>2. /\ t \in Busy /\ thread[t].pc = "send" /\ Phase(k) = "new"
      /\ UpdateHistory(t) \in Histories
      /\ UpdateHistory(t) # <<>> => Last(UpdateHistory(t)) # Reply(k)
  BY <1>1, SendChangesSession, HistorySent
<1>3. PICK g \in Histories : g = UpdateHistory(t)
  BY <1>2
<1> DEFINE x == [HttpRequest EXCEPT !.body = <<g>>]
           rec == Record(k, g)
<1>4. /\ records' = [records EXCEPT ![t] = Append(@, rec)]
      /\ promise' = [promise EXCEPT ![t] = FALSE]
      /\ thread' = [thread EXCEPT ![t].pc = "wait",
                                  ![t].chat_history = g]
      /\ UNCHANGED <<order, next_session_index, main, concurrency,
                     infer_stat, exiting, ongoing_async_requests>>
      /\ new_async_requests' = new_async_requests \cup {k}
      /\ http' = [http EXCEPT ![k] = x]
  BY <1>1, <1>3, SendChangesSession
<1>5. /\ x \in HttpRequests /\ TransferOK(x) /\ x.answer = <<>>
      /\ ~x.final_response_sent /\ x.body = <<g>>
  <2>1. <<g>> \in Bodies
    BY DEF Bodies, Histories
  <2>2. x.body = <<g>>
    BY DEF HttpRequest
  <2> HIDE DEF x
  <2> QED BY <2>1, <2>2, NewRequestOK DEF x
<1>6. /\ thread \in [Threads -> SessionThread]
      /\ promise \in [Threads -> BOOLEAN]
      /\ records \in [Threads -> Seq(RequestRecord)]
      /\ http \in [Requests -> HttpRequests]
      /\ new_async_requests \cap ongoing_async_requests = {}
      /\ InTransit \subseteq Requests
  BY DEF Live, SessionTypes, ClientOK
<1>7. /\ thread'[t] = [thread[t] EXCEPT !.pc = "wait",
                                        !.chat_history = g]
      /\ \A u \in Threads \ {t} : thread'[u] = thread[u]
      /\ promise'[t] = FALSE
      /\ \A u \in Threads \ {t} : promise'[u] = promise[u]
      /\ promise' \in [Threads -> BOOLEAN]
  BY <1>4, <1>6
<1>8. /\ thread'[t].pc = "wait" /\ thread'[t].session = thread[t].session
      /\ thread'[t].i = thread[t].i /\ thread'[t].chat_history = g
      /\ thread' \in [Threads -> SessionThread]
  <2>1. thread[t] \in SessionThread
    BY <1>6
  <2>2. ASSUME NEW r \in SessionThread
        PROVE  LET s == [r EXCEPT !.pc = "wait", !.chat_history = g]
               IN  /\ s.pc = "wait" /\ s.session = r.session
                   /\ s.i = r.i /\ s.chat_history = g
                   /\ s \in SessionThread
    <3> DEFINE a == [r EXCEPT !.pc = "wait"]
               s == [r EXCEPT !.pc = "wait", !.chat_history = g]
    <3>1. a \in SessionThread /\ a.pc = "wait" /\ a.session = r.session
          /\ a.i = r.i
      BY DEF SessionThread
    <3>2. s = [a EXCEPT !.chat_history = g]
      BY DEF SessionThread
    <3> HIDE DEF a, s
    <3>3. s \in SessionThread /\ s.pc = a.pc /\ s.session = a.session
          /\ s.i = a.i /\ s.chat_history = g
      BY <3>1, <3>2 DEF SessionThread
    <3> QED BY <3>1, <3>3 DEF s
  <2>3. thread'[t] \in SessionThread
    BY <1>7, <2>1, <2>2
  <2>4. thread' \in [Threads -> SessionThread]
    BY <1>4, <1>6, <1>7, <2>3
  <2> QED BY <1>7, <2>1, <2>2, <2>4
<1>9. /\ http'[k] = x /\ \A q \in Requests \ {k} : http'[q] = http[q]
      /\ http' \in [Requests -> HttpRequests]
  <2> HIDE DEF x
  <2> QED BY <1>4, <1>5, <1>6
<1>10. InTransit' = InTransit \cup {k} /\ k \notin InTransit
  <2>1. k \notin InTransit
    BY <1>2 DEF Phase
  <2> QED BY <1>4, <2>1 DEF InTransit
<1>11. Phase(k)' = "out" /\ QuietBut(k)
  <2>1. \A q \in Requests \ {k} : Phase(q)' = Phase(q)
    BY <1>9, <1>10 DEF Phase
  <2>2. Phase(k)' = "out"
    BY <1>10 DEF Phase
  <2> QED BY <1>9, <2>1, <2>2 DEF QuietBut
<1>12. Now(t)' = "out" /\ \A u \in Threads \ {t} : Now(u)' = Now(u)
  BY <1>7, <1>8 DEF Now
<1>13. \A u \in Threads : u \in Busy <=> u \in Busy'
  BY <1>2, <1>7, <1>8 DEF Busy
<1>14. \A u \in Threads : Payload(u)' = Payload(u)
  BY <1>4, <1>7, <1>8 DEF Payload
<1>15. MovesWith(t)
  <2>1. Phase(Payload(t))' = "out"
    BY <1>1, <1>2, <1>11, <1>14 DEF Busy
  <2>2. QuietBut(Payload(t))
    BY <1>1, <1>11
  <2>3. UNCHANGED <<order, next_session_index, main>>
    BY <1>4
  <2>4. \A u \in Threads :
          /\ u \in Busy <=> u \in Busy'
          /\ thread'[u].session = thread[u].session
          /\ thread'[u].i = thread[u].i
          /\ u # t => thread'[u] = thread[u] /\ Now(u)' = Now(u)
    BY <1>7, <1>8, <1>12, <1>13
  <2> QED BY <1>12, <2>1, <2>2, <2>3, <2>4 DEF MovesWith
<1>16a. PICK n \in Nat : n = Len(records[t])
  <2>1. records[t] \in Seq(RequestRecord)
    BY <1>6
  <2> QED BY <2>1
<1> DEFINE new == <<t, n + 1>>
<1>16. /\ rec \in RequestRecord /\ rec.index = k /\ rec.payload = g
       /\ rec.responses = <<>>
  <2>1. <<>> \in Seq(Seq(STRING))
    BY EmptySeq
  <2> QED BY <2>1 DEF Record, RequestRecord
<1>17. /\ records' \in [Threads -> Seq(RequestRecord)]
       /\ records'[t] = Append(records[t], rec)
       /\ Len(records'[t]) = n + 1 /\ Len(records[t]) = n
       /\ DOMAIN records'[t] = 1 .. n + 1
       /\ DOMAIN records[t] = 1 .. n
       /\ records'[t][n + 1] = rec
       /\ \A a \in 1 .. n : records'[t][a] = records[t][a]
       /\ \A u \in Threads \ {t} : records'[u] = records[u]
  <2>1. records' = [records EXCEPT ![t] = Append(@, rec)]
    BY <1>4
  <2>2. records[t] \in Seq(RequestRecord)
    BY <1>6
  <2> HIDE DEF rec
  <2>3. Append(records[t], rec) \in Seq(RequestRecord)
        /\ Len(Append(records[t], rec)) = n + 1
        /\ Append(records[t], rec)[n + 1] = rec
        /\ \A a \in 1 .. n :
              Append(records[t], rec)[a] = records[t][a]
    BY <1>16, <1>16a, <2>2, AppendProperties
  <2>4. records'[t] = Append(records[t], rec)
    BY <1>6, <2>1
  <2> QED BY <1>6, <1>16a, <2>1, <2>2, <2>3, <2>4
<1>18. /\ AllEntries' = AllEntries \cup {new} /\ new \notin AllEntries
       /\ Entry(new)' = rec
       /\ \A e \in AllEntries : Entry(e)' = Entry(e)
  <2> HIDE DEF rec
  <2>1. \A e \in AllEntries : /\ e[1] \in Threads /\ e[2] \in Nat
                              /\ e = <<e[1], e[2]>>
                              /\ e[2] \in DOMAIN records[e[1]]
    BY EntryTypes DEF Live
  <2>2. new \notin AllEntries /\ new \in AllEntries'
    BY <1>17 DEF AllEntries
  <2>3. ASSUME NEW e \in AllEntries
        PROVE  e \in AllEntries' /\ Entry(e)' = Entry(e)
    <3>1. CASE e[1] = t
      BY <1>17, <2>1, <3>1 DEF AllEntries, Entry
    <3>2. CASE e[1] # t
      BY <1>17, <2>1, <3>2 DEF AllEntries, Entry
    <3> QED BY <3>1, <3>2
  <2>4. ASSUME NEW e \in AllEntries', e \notin AllEntries
        PROVE  e = new
    <3>1. e \in Threads \X Nat /\ e[2] \in DOMAIN records'[e[1]]
      BY DEF AllEntries
    <3>2. e[1] = t
      BY <1>17, <2>4, <3>1 DEF AllEntries
    <3>3. e[2] = n + 1
      BY <1>17, <2>4, <3>1, <3>2 DEF AllEntries
    <3> QED BY <3>1, <3>2, <3>3
  <2>5. Entry(new)' = rec
    BY <1>17 DEF Entry
  <2> QED BY <2>2, <2>3, <2>4, <2>5
<1>19. \A e \in AllEntries : /\ Entry(e).index \in Requests
                             /\ Entry(e).index # k
                             /\ EntryOK(Entry(e))
  <2>1. \A e \in AllEntries : EntryOK(Entry(e))
    BY DEF Live, EntriesOK
  <2> QED BY <1>2, <2>1, EntryTypes DEF Live, EntryOK
<1>20. SessionTypes'
  BY <1>4, <1>7, <1>8, <1>9, <1>17 DEF Live, SessionTypes
<1>21. ClientOK'
  <2> HIDE DEF x
  <2>1. InTransit' \subseteq Requests
    BY <1>6, <1>10
  <2>2. (new_async_requests \cap ongoing_async_requests)' = {}
    BY <1>4, <1>6, <1>10 DEF InTransit
  <2>3. \A r \in Requests :
           /\ TransferOK(http'[r])
           /\ http'[r].answer # <<>> =>
                http'[r].sent = BodyRead(http'[r].answer[1])
    BY <1>5, <1>9 DEF Live, ClientOK, Answered
  <2>4. \A r \in InTransit' : ~http'[r].final_response_sent
    BY <1>5, <1>6, <1>9, <1>10 DEF Live, ClientOK
  <2>5. exiting' => main' = "joined"
    BY <1>4 DEF Live, ClientOK
  <2> QED BY <2>1, <2>2, <2>3, <2>4, <2>5 DEF ClientOK, Answered
<1>22. ThreadsOK'
  <2>1. GroupPayloadsBySession' = GroupPayloadsBySession
    BY DEF GroupPayloadsBySession
  <2>2. \A u \in Threads :
          /\ thread'[u].pc = "none" <=> thread[u].pc = "none"
          /\ thread'[u].pc = "ended" <=> thread[u].pc = "ended"
    BY <1>2, <1>7, <1>8
  <2>3. \A u \in Threads : thread'[u].pc = "none" => records'[u] = records[u]
    BY <1>8, <1>17
  <2>4. Started' = Started
    BY <1>4 DEF Started
  <2>5. main # "joined"
    <3> SUFFICES ASSUME main = "joined" PROVE FALSE
      OBVIOUS
    <3>1. Phase(k) = "done"
      BY JoinedAllDone DEF Live
    <3> QED BY <1>2, <3>1
  <2> QED BY <1>4, <2>1, <2>2, <2>3, <2>4, <2>5 DEF Live, ThreadsOK
<1>23. PlacesOK' /\ PhasesOK'
  BY <1>2, <1>8, <1>15, PhasesMove, PlacesStay DEF Live
<1>24. EntriesOK'
  <2> HIDE DEF rec, x, new
  <2>1. EntryOK(rec)'
    <3>1. http'[k].body = <<g>>
      BY <1>5, <1>9
    <3>2. Len(rec.responses) = 0
      BY <1>16
    <3>3. g # <<>> => Last(g) # Reply(k)
      BY <1>2, <1>3
    <3> QED BY <1>11, <1>16, <3>1, <3>2, <3>3 DEF EntryOK
  <2>2. ASSUME NEW e \in AllEntries
        PROVE  EntryOK(Entry(e))'
    <3>1. PICK r : r = Entry(e)
      OBVIOUS
    <3>2. EntryOK(r) /\ r.index \in Requests \ {k}
      BY <1>19, <3>1
    <3>3. /\ Phase(r.index)' = Phase(r.index)
          /\ http'[r.index].body = http[r.index].body
      BY <1>11, <3>2 DEF QuietBut
    <3>4. EntryOK(r)'
      BY <3>2, <3>3 DEF EntryOK
    <3>5. Entry(e)' = r
      BY <1>18, <3>1
    <3> QED BY <3>4, <3>5
  <2>3. \A e \in AllEntries' : EntryOK(Entry(e))'
    BY <1>18, <2>1, <2>2
  <2>4. \A d, e \in AllEntries' : Entry(d)'.index = Entry(e)'.index => d = e
    BY <1>16, <1>18, <1>19 DEF Live, EntriesOK
  <2>5. \A q \in Requests :
          Phase(q)' # "new" => \E e \in AllEntries' : Entry(e)'.index = q
    <3> SUFFICES ASSUME NEW q \in Requests, Phase(q)' # "new"
                 PROVE  \E e \in AllEntries' : Entry(e)'.index = q
      OBVIOUS
    <3>1. CASE q = k
      BY <1>16, <1>18, <3>1
    <3>2. CASE q # k
      <4>1. Phase(q) # "new"
        BY <1>11, <3>2 DEF QuietBut
      <4>2. PICK e \in AllEntries : Entry(e).index = q
        BY <4>1 DEF Live, EntriesOK
      <4> QED BY <1>18, <4>2
    <3> QED BY <3>1, <3>2
  <2>6. \A u \in Threads : thread'[u].pc = "wait" /\ ~promise'[u] =>
          records'[u] # <<>> /\ Last(records'[u]).index = Payload(u)'
    <3> SUFFICES ASSUME NEW u \in Threads, thread'[u].pc = "wait",
                        ~promise'[u]
                 PROVE  /\ records'[u] # <<>>
                        /\ Last(records'[u]).index = Payload(u)'
      OBVIOUS
    <3>1. CASE u = t
      <4>1. Last(records'[t]) = rec /\ records'[t] # <<>>
        BY <1>17 DEF Last
      <4> QED BY <1>1, <1>14, <1>16, <3>1, <4>1
    <3>2. CASE u # t
      <4>1. /\ thread'[u] = thread[u] /\ promise'[u] = promise[u]
            /\ records'[u] = records[u] /\ Payload(u)' = Payload(u)
        BY <1>7, <1>14, <1>17, <3>2
      <4>2. /\ records[u] # <<>>
            /\ Last(records[u]).index = Payload(u)
        BY <4>1 DEF Live, EntriesOK
      <4> QED BY <4>1, <4>2 DEF Last
    <3> QED BY <3>1, <3>2
  <2> QED BY <2>3, <2>4, <2>5, <2>6 DEF EntriesOK, Last
<1>25. HistoriesOK'
  <2> SUFFICES ASSUME NEW u \in Busy' PROVE HistoryOK(u)'
    BY DEF HistoriesOK
  <2>1. u \in Busy
    BY <1>13 DEF Busy
  <2>2. CASE u # t
    BY <1>2, <1>15, <2>1, <2>2, OthersStay
  <2>3. CASE u = t
    <3> DEFINE p == thread[t].session
               i == thread[t].i
    <3>1. thread'[t].session = p /\ Asked(t)' = i
      BY <1>8 DEF Asked
    <3>2. order[p][i] = k /\ order' = order /\ i # 0
      BY <1>1, <1>2, <1>4, BusyThread DEF Live
    <3>3. http'[k].body[1] = g
      BY <1>5, <1>9
    <3>4. g \o <<>> = g
      BY ConcatEmpty
    <3>5. order'[thread'[t].session][Asked(t)'] = k /\ Asked(t)' # 0
      BY <3>1, <3>2
    <3>6. Said(thread[t].session, Asked(t))' = g
      <4> HIDE DEF p, i, x
      <4> QED BY <1>11, <3>3, <3>4, <3>5 DEF Said
    <3> QED BY <1>8, <2>3, <3>6 DEF HistoryOK
  <2> QED BY <2>2, <2>3
<1>26. CountOK'
  <2>1. Finished' = Finished
    BY <1>2, <1>11 DEF Finished, QuietBut
  <2> QED BY <1>4, <2>1 DEF Live, CountOK
<1> QED BY <1>15, <1>20, <1>21, <1>22, <1>23, <1>24, <1>25, <1>26 DEF Live

-----------------------------------------------------------------------------
(* The curl thread's steps on a request.                                   *)

LEMMA TransfersLive ==
  ASSUME SessionTypes, ClientOK
  PROVE  TransfersOK
BY DEF SessionTypes, ClientOK, TransfersOK, RunningOK

\* What was sent is not touched by the transfer.
LEMMA BodiesStay ==
  ASSUME SessionTypes, NEW r \in Requests,
         RequestProvider(r) \/ ResponseHandler(r) \/ CompleteTransfer(r)
  PROVE  \A q \in Requests :
            /\ http'[q].body = http[q].body
            /\ ~RequestProvider(r) => http'[q].sent = http[q].sent
<1>1. http \in [Requests -> HttpRequests]
  BY DEF SessionTypes
<1>2. CASE RequestProvider(r)
  <2>1. PICK a \in Answers :
          http' = [http EXCEPT ![r].answer = <<a>>, ![r].sent = BodyRead(a),
                               ![r].is_stream = a.stream]
    BY <1>2 DEF RequestProvider
  <2> QED BY <1>1, <1>2, <2>1 DEF HttpRequests
<1>3. CASE ResponseHandler(r)
  <2>1. http' = [http EXCEPT
         ![r].got = @ + 1,
         ![r].response_buffer = IF http[r].is_stream THEN <<>>
                                ELSE Append(@, Piece(r)),
         ![r].final_response_sent =
            IF http[r].is_stream THEN Piece(r) = "[DONE]" ELSE @]
    BY <1>3 DEF ResponseHandler
  <2> HIDE DEF Piece
  <2> QED BY <1>1, <2>1 DEF HttpRequests
<1>4. CASE CompleteTransfer(r)
  <2>1. http' = [http EXCEPT
         ![r].final_response_sent = TRUE,
         ![r].response_buffer =
            IF http[r].final_response_sent THEN @ ELSE <<>>]
    BY <1>4 DEF CompleteTransfer
  <2> QED BY <1>1, <2>1 DEF HttpRequests
<1> QED BY <1>2, <1>3, <1>4

LEMMA ProviderKeeps ==
  ASSUME Live, NEW r \in Requests, RequestProvider(r), UNCHANGED sessionVars
  PROVE  Live'
<1>1. /\ r \in ongoing_async_requests /\ http[r].answer = <<>>
      /\ http'[r] \in HttpRequests /\ TransferOK(http'[r])
      /\ ~http'[r].final_response_sent
      /\ http' = [http EXCEPT ![r] = http'[r]]
  BY TransfersLive, RequestProviderChanges DEF Live
<1>2. r \in InTransit /\ ~http[r].final_response_sent
  BY <1>1 DEF InTransit, Live, ClientOK
<1>3. /\ http' \in [Requests -> HttpRequests]
      /\ \A q \in Requests \ {r} : http'[q] = http[q]
  BY <1>1 DEF Live, SessionTypes
<1>4. UNCHANGED <<new_async_requests, ongoing_async_requests, exiting,
                  infer_stat>>
      /\ InTransit' = InTransit
  BY DEF RequestProvider, InTransit
<1>5. PICK a \in Answers :
        http' = [http EXCEPT ![r].answer = <<a>>, ![r].sent = BodyRead(a),
                             ![r].is_stream = a.stream]
  BY DEF RequestProvider
<1>6. http'[r].answer = <<a>> /\ http'[r].sent = BodyRead(a)
  BY <1>5 DEF Live, SessionTypes, HttpRequests
<1>7. ClientOK'
  <2>1. \A q \in Requests :
           /\ TransferOK(http'[q])
           /\ http'[q].answer # <<>> =>
                http'[q].sent = BodyRead(http'[q].answer[1])
    BY <1>1, <1>3, <1>6 DEF Live, ClientOK, Answered
  <2>2. \A q \in InTransit : ~http'[q].final_response_sent
    BY <1>1, <1>3 DEF Live, ClientOK
  <2>3. exiting' => main' = "joined"
    BY <1>4 DEF Live, ClientOK, sessionVars
  <2> QED BY <1>4, <2>1, <2>2, <2>3 DEF Live, ClientOK, Answered
<1>8. Quiet
  <2>1. \A q \in Requests : Phase(q)' = Phase(q)
    BY <1>1, <1>2, <1>3, <1>4 DEF Phase
  <2> QED BY <2>1, BodiesStay DEF Quiet, Live
<1>9. /\ UNCHANGED <<dataVars, next_session_index, thread, promise, records>>
      /\ UNCHANGED <<main, concurrency>>
  BY DEF sessionVars, dataVars
<1>10. Started' = Started /\ main' \in {"start", "join", "joined", "threw"}
       /\ (main' = "joined" =>
             \A t \in 1 .. concurrency : thread[t].pc = "ended")
  BY <1>9 DEF Started, Live, SessionTypes, ThreadsOK
<1>11. UNCHANGED infer_stat
  BY <1>4
<1> QED BY <1>3, <1>7, <1>8, <1>9, <1>10, <1>11, IdleStep

LEMMA NoSinglePiece ==
  \A s, q : (s = <<>>) => ~IsCompletion(Append(s, q))
<1> SUFFICES ASSUME NEW q PROVE ~IsCompletion(Append(<<>>, q))
  OBVIOUS
<1>1. Append(<<>>, q) = <<q>>
  OBVIOUS
<1>2. Len(<<q>>) = 1 /\ Len(<<"{choices:", "message}">>) = 2
  OBVIOUS
<1> QED BY <1>1, <1>2 DEF IsCompletion

\* A streamed piece ends the program; a plain one is only kept.
LEMMA PieceIs ==
  ASSUME SessionTypes, ClientOK, NEW r \in Requests, ResponseHandler(r)
  PROVE  IF http[r].is_stream
         THEN /\ PieceResult(r) # <<>>
              /\ ~IsCompletion(PieceResult(r).buffer)
         ELSE PieceResult(r) = <<>>
<1>1. CASE ~http[r].is_stream
  BY <1>1 DEF PieceResult
<1>2. CASE http[r].is_stream
  <2>1. http[r].response_buffer = <<>>
    BY <1>2 DEF ResponseHandler, Answered, ClientOK, TransferOK
  <2>2. PieceResult(r) =
          Result(200, Append(http[r].response_buffer, Piece(r)),
                 Piece(r) = "[DONE]", Piece(r) = "[DONE]")
    BY <1>2 DEF PieceResult
  <2>3. /\ PieceResult(r) # <<>>
        /\ PieceResult(r).buffer = Append(http[r].response_buffer, Piece(r))
    BY <2>2 DEF Result
  <2> QED BY <1>2, <2>1, <2>3, NoSinglePiece
<1> QED BY <1>1, <1>2 DEF SessionTypes, HttpRequests

LEMMA HandlerKeeps ==
  ASSUME Live, ~terminated, NEW r \in Requests, ResponseHandler(r),
         Callback(r, PieceResult(r)), ~terminated'
  PROVE  Live'
<1>1. /\ r \in ongoing_async_requests /\ http[r].answer # <<>>
      /\ http'[r] \in HttpRequests /\ TransferOK(http'[r])
      /\ http'[r].answer = http[r].answer
      /\ http'[r].final_response_sent =
           IF http[r].is_stream THEN Piece(r) = "[DONE]"
           ELSE http[r].final_response_sent
      /\ http' = [http EXCEPT ![r] = http'[r]]
  BY TransfersLive, ResponseHandlerChanges DEF Live
<1>2. r \in InTransit /\ ~http[r].final_response_sent
  BY <1>1 DEF InTransit, Live, ClientOK
<1>3. ~http[r].is_stream /\ UNCHANGED sessionVars
  <2>1. IF http[r].is_stream
        THEN /\ PieceResult(r) # <<>>
             /\ ~IsCompletion(PieceResult(r).buffer)
        ELSE PieceResult(r) = <<>>
    BY PieceIs DEF Live
  <2> QED BY <2>1 DEF Callback, Terminate
<1>4. /\ http' \in [Requests -> HttpRequests]
      /\ \A q \in Requests \ {r} : http'[q] = http[q]
  BY <1>1 DEF Live, SessionTypes
<1>5. UNCHANGED <<new_async_requests, ongoing_async_requests, exiting,
                  infer_stat>>
      /\ InTransit' = InTransit
  BY DEF ResponseHandler, InTransit
<1>6. ~http'[r].final_response_sent /\ http'[r].sent = http[r].sent
  <2>1. ~RequestProvider(r)
    BY <1>1 DEF RequestProvider, Answered
  <2> QED BY <1>1, <1>2, <1>3, <2>1, BodiesStay DEF Live
<1>7. ClientOK'
  <2>1. \A q \in Requests :
           /\ TransferOK(http'[q])
           /\ http'[q].answer # <<>> =>
                http'[q].sent = BodyRead(http'[q].answer[1])
    BY <1>1, <1>4, <1>6 DEF Live, ClientOK, Answered
  <2>2. \A q \in InTransit : ~http'[q].final_response_sent
    BY <1>4, <1>6 DEF Live, ClientOK
  <2>3. exiting' => main' = "joined"
    BY <1>3, <1>5 DEF Live, ClientOK, sessionVars
  <2> QED BY <1>5, <2>1, <2>2, <2>3 DEF Live, ClientOK, Answered
<1>8. Quiet
  <2>1. \A q \in Requests : Phase(q)' = Phase(q)
    BY <1>2, <1>4, <1>5, <1>6 DEF Phase
  <2> QED BY <2>1, BodiesStay DEF Quiet, Live
<1>9. /\ UNCHANGED <<dataVars, next_session_index, thread, promise, records>>
      /\ UNCHANGED <<main, concurrency>>
  BY <1>3 DEF sessionVars, dataVars
<1>10. Started' = Started /\ main' \in {"start", "join", "joined", "threw"}
       /\ (main' = "joined" =>
             \A t \in 1 .. concurrency : thread[t].pc = "ended")
  BY <1>9 DEF Started, Live, SessionTypes, ThreadsOK
<1>11. UNCHANGED infer_stat
  BY <1>5
<1> QED BY <1>4, <1>7, <1>8, <1>9, <1>10, <1>11, IdleStep

\* What the end of a transfer that does not end the program changes.
LEMMA CompleteChangesSession ==
  ASSUME Live, ~terminated, NEW r \in Requests, CompleteTransfer(r),
         Callback(r, FinalResult(r)), ~terminated'
  PROVE  /\ r \in ongoing_async_requests /\ r \in InTransit
         /\ http[r].answer # <<>>
         /\ http'[r] \in HttpRequests /\ TransferOK(http'[r])
         /\ http'[r].answer = http[r].answer
         /\ http'[r].final_response_sent
         /\ http'[r].sent = http[r].sent /\ http[r].sent
         /\ http' = [http EXCEPT ![r] = http'[r]]
         /\ infer_stat' = infer_stat + 1
         /\ ongoing_async_requests' = ongoing_async_requests \ {r}
         /\ UNCHANGED <<new_async_requests, exiting, order, main,
                        next_session_index, concurrency>>
         /\ http[r].response_buffer \in Seq(STRING)
         /\ records' = [records EXCEPT
              ![Waiting(r)][Len(records[Waiting(r)])].responses =
                 Append(@, http[r].response_buffer)]
         /\ thread' = [thread EXCEPT
              ![Waiting(r)].chat_history = Append(@, Reply(r))]
         /\ promise' = [promise EXCEPT ![Waiting(r)] = TRUE]
<1>1. /\ r \in ongoing_async_requests /\ http[r].answer # <<>>
      /\ http'[r] \in HttpRequests /\ TransferOK(http'[r])
      /\ http'[r].answer = http[r].answer
      /\ ongoing_async_requests' = ongoing_async_requests \ {r}
      /\ http'[r].final_response_sent
      /\ http' = [http EXCEPT ![r] = http'[r]]
  BY TransfersLive, CompleteTransferChanges DEF Live
<1>2. r \in InTransit /\ ~http[r].final_response_sent
      /\ http \in [Requests -> HttpRequests]
  BY <1>1 DEF InTransit, Live, ClientOK, SessionTypes
<1>3. http[r].response_buffer \in Seq(STRING)
  BY <1>2 DEF HttpRequests
<1> DEFINE a == http[r].answer[1]
           result == FinalResult(r)
<1>4. result = Result(HttpCode(a), http[r].response_buffer, TRUE, FALSE)
  BY <1>2 DEF FinalResult
<1>5. /\ result # <<>> /\ result.code = HttpCode(a)
      /\ result.buffer = http[r].response_buffer
  <2> HIDE DEF a, result
  <2> QED BY <1>4 DEF Result
<1>6. /\ ~RequestFailed(result)
      /\ records' = [records EXCEPT
              ![Waiting(r)][Len(records[Waiting(r)])].responses =
                 Append(@, http[r].response_buffer)]
      /\ thread' = [thread EXCEPT
              ![Waiting(r)].chat_history = Append(@, Reply(r))]
      /\ promise' = [promise EXCEPT ![Waiting(r)] = TRUE]
      /\ UNCHANGED <<order, main, next_session_index, concurrency>>
  <2>1. ~(RequestFailed(result) \/ ~IsCompletion(result.buffer))
    <3> HIDE DEF a, result
    <3> QED BY <1>5 DEF Callback, Terminate, result
  <2> HIDE DEF a, result
  <2> QED BY <1>5, <2>1 DEF Callback, result, dataVars
<1>7. a.end = "complete"
  <2> SUFFICES ASSUME a.end # "complete" PROVE FALSE
    OBVIOUS
  <2>1. HttpCode(a) \in {499, 400}
    BY DEF HttpCode
  <2> HIDE DEF a, result
  <2> QED BY <1>5, <1>6, <2>1 DEF RequestFailed
<1>8. http[r].sent
  BY <1>1, <1>7 DEF Live, ClientOK, Answered, BodyRead
<1>9. infer_stat' = infer_stat + 1 /\ UNCHANGED <<new_async_requests, exiting>>
  BY <1>8 DEF CompleteTransfer, UpdateInferStat
<1>10. http'[r].sent = http[r].sent
  <2>1. ~RequestProvider(r)
    BY <1>1 DEF RequestProvider, Answered
  <2> QED BY <2>1, BodiesStay DEF Live
<1> QED BY <1>1, <1>2, <1>3, <1>6, <1>8, <1>9, <1>10

LEMMA CompleteKeeps ==
  ASSUME Live, ~terminated, NEW r \in Requests, CompleteTransfer(r),
         Callback(r, FinalResult(r)), ~terminated'
  PROVE  Live' /\ MovesWith(Waiting(r))
<1>1. PICK t \in Busy : t = Waiting(r)
  <2>1. r \in InTransit
    BY CompleteChangesSession
  <2> QED BY <2>1, OutIsWaited DEF Live
<1>2. /\ thread[t].pc = "wait" /\ ~promise[t] /\ Payload(t) = r
      /\ records[t] # <<>> /\ Last(records[t]).index = r
      /\ t \in Threads /\ Started /\ main # "joined"
  <2>1. r \in InTransit
    BY CompleteChangesSession
  <2> QED BY <1>1, <2>1, OutIsWaited DEF Live, Busy
<1>3. PICK buffer \in Seq(STRING) : buffer = http[r].response_buffer
  BY CompleteChangesSession
<1>4. PICK n \in Nat \ {0} : n = Len(records[t])
  <2>1. records[t] \in Seq(RequestRecord)
    BY <1>2 DEF Live, SessionTypes
  <2> QED BY <1>2, <2>1
<1>5. PICK x \in HttpRequests : x = http'[r]
  BY CompleteChangesSession
<1>6. /\ r \in ongoing_async_requests /\ r \in InTransit
      /\ http' = [http EXCEPT ![r] = x]
      /\ TransferOK(x) /\ x.answer = http[r].answer
      /\ x.final_response_sent /\ x.sent = http[r].sent
      /\ infer_stat' = infer_stat + 1
      /\ ongoing_async_requests' = ongoing_async_requests \ {r}
      /\ UNCHANGED <<new_async_requests, exiting, order, main,
                     next_session_index, concurrency>>
      /\ records' = [records EXCEPT ![t][n].responses = Append(@, buffer)]
      /\ thread' = [thread EXCEPT ![t].chat_history = Append(@, Reply(r))]
      /\ promise' = [promise EXCEPT ![t] = TRUE]
  BY <1>1, <1>3, <1>4, <1>5, CompleteChangesSession
<1>7. /\ thread \in [Threads -> SessionThread]
      /\ promise \in [Threads -> BOOLEAN]
      /\ records \in [Threads -> Seq(RequestRecord)]
      /\ http \in [Requests -> HttpRequests]
      /\ new_async_requests \cap ongoing_async_requests = {}
      /\ InTransit \subseteq Requests /\ infer_stat \in Nat
  BY DEF Live, SessionTypes, ClientOK
<1>8. /\ thread'[t] = [thread[t] EXCEPT
                        !.chat_history = Append(@, Reply(r))]
      /\ \A u \in Threads \ {t} : thread'[u] = thread[u]
      /\ promise'[t] = TRUE
      /\ \A u \in Threads \ {t} : promise'[u] = promise[u]
      /\ promise' \in [Threads -> BOOLEAN]
  BY <1>2, <1>6, <1>7
<1>9. /\ thread'[t].pc = "wait" /\ thread'[t].session = thread[t].session
      /\ thread'[t].i = thread[t].i
      /\ thread'[t].chat_history = Append(thread[t].chat_history, Reply(r))
      /\ thread' \in [Threads -> SessionThread]
  <2>1. thread[t] \in SessionThread
    BY <1>2, <1>7
  <2>2. Append(thread[t].chat_history, Reply(r)) \in Histories
    <3>1. Reply(r) \in Message
      BY MessagesTyped
    <3>2. thread[t].chat_history \in Seq(Message)
      BY <2>1 DEF SessionThread, Histories
    <3> QED BY <3>1, <3>2, AppendProperties DEF Histories
  <2>3. thread'[t] \in SessionThread
    BY <1>8, <2>1, <2>2 DEF SessionThread
  <2>4. thread' \in [Threads -> SessionThread]
    BY <1>2, <1>6, <1>7, <1>8, <2>3
  <2> QED BY <1>2, <1>8, <2>1, <2>4 DEF SessionThread
<1>10. /\ http'[r] = x /\ \A q \in Requests \ {r} : http'[q] = http[q]
       /\ http' \in [Requests -> HttpRequests]
  BY <1>6, <1>7
<1>11. InTransit' = InTransit \ {r} /\ r \notin InTransit'
  <2>1. r \notin new_async_requests
    BY <1>6, <1>7
  <2> QED BY <1>6, <2>1 DEF InTransit
<1>12. /\ Phase(r) = "out" /\ Phase(r)' = "done" /\ QuietBut(r)
       /\ http'[r].body = http[r].body
  <2>1. \A q \in Requests \ {r} : Phase(q)' = Phase(q)
    BY <1>10, <1>11 DEF Phase
  <2>2. Phase(r)' = "done" /\ Phase(r) = "out"
    BY <1>6, <1>10, <1>11 DEF Phase
  <2>3. \A q \in Requests : http'[q].body = http[q].body
    BY BodiesStay DEF Live
  <2> QED BY <2>1, <2>2, <2>3 DEF QuietBut
<1>13. Now(t)' = "done" /\ \A u \in Threads \ {t} : Now(u)' = Now(u)
  BY <1>8, <1>9 DEF Now
<1>14. \A u \in Threads : u \in Busy <=> u \in Busy'
  BY <1>1, <1>8, <1>9 DEF Busy
<1>15. \A u \in Threads : Payload(u)' = Payload(u)
  BY <1>6, <1>8, <1>9 DEF Payload
<1>16. MovesWith(t)
  <2>1. Phase(Payload(t))' = "done"
    BY <1>2, <1>12, <1>15
  <2>2. QuietBut(Payload(t))
    BY <1>2, <1>12
  <2>3. UNCHANGED <<order, next_session_index, main>>
    BY <1>6
  <2>4. \A u \in Threads :
          /\ u \in Busy <=> u \in Busy'
          /\ thread'[u].session = thread[u].session
          /\ thread'[u].i = thread[u].i
          /\ u # t => thread'[u] = thread[u] /\ Now(u)' = Now(u)
    BY <1>8, <1>9, <1>13, <1>14
  <2> QED BY <1>13, <2>1, <2>2, <2>3, <2>4 DEF MovesWith
<1> DEFINE old == <<t, n>>
<1>17. old \in AllEntries /\ Entry(old) = records[t][n]
       /\ Entry(old).index = r /\ records[t][n] \in RequestRecord
  <2>1. records[t] \in Seq(RequestRecord) /\ n \in 1 .. Len(records[t])
    BY <1>2, <1>4, <1>7
  <2>2. n \in DOMAIN records[t]
    BY <2>1
  <2>3. records[t][n] \in RequestRecord
    BY <2>1
  <2>4. Last(records[t]) = records[t][n]
    BY <1>4 DEF Last
  <2> QED BY <1>2, <2>2, <2>3, <2>4 DEF AllEntries, Entry
<1>18. PICK rec \in RequestRecord : rec = records[t][n]
  BY <1>17
<1>19. EntryOK(rec) /\ rec.index = r /\ rec.responses = <<>>
  <2>1. EntryOK(Entry(old)) /\ Entry(old) = rec
    BY <1>17, <1>18 DEF Live, EntriesOK
  <2>2. Len(rec.responses) = 0
    BY <1>12, <1>17, <2>1 DEF EntryOK
  <2>3. rec.responses \in Seq(Seq(STRING))
    BY DEF RequestRecord
  <2> QED BY <1>17, <2>1, <2>2, <2>3
<1>20. PICK new : new = [rec EXCEPT !.responses = Append(@, buffer)]
  OBVIOUS
<1>21. /\ new \in RequestRecord /\ new.index = r
       /\ new.payload = rec.payload /\ Len(new.responses) = 1
  <2>1. rec.responses \in Seq(Seq(STRING)) /\ Len(rec.responses) = 0
    BY <1>19 DEF RequestRecord
  <2>2. /\ Append(rec.responses, buffer) \in Seq(Seq(STRING))
        /\ Len(Append(rec.responses, buffer)) = 1
    BY <2>1, AppendProperties
  <2>3. new = [rec EXCEPT !.responses = Append(rec.responses, buffer)]
    BY <1>20
  <2>4. PICK z \in Seq(Seq(STRING)) : z = Append(rec.responses, buffer)
    BY <2>2
  <2>5. new = [rec EXCEPT !.responses = z]
    BY <2>3, <2>4
  <2> QED BY <1>19, <2>2, <2>4, <2>5 DEF RequestRecord
<1>22. /\ records'[t] = [records[t] EXCEPT ![n] = new]
       /\ \A u \in Threads \ {t} : records'[u] = records[u]
       /\ records' \in [Threads -> Seq(RequestRecord)]
  <2>1. records'[t] = [records[t] EXCEPT ![n].responses = Append(@, buffer)]
    BY <1>2, <1>6, <1>7
  <2>2. records'[t] = [records[t] EXCEPT ![n] = new]
    BY <1>18, <1>20, <2>1
  <2>3. \A u \in Threads \ {t} : records'[u] = records[u]
    BY <1>2, <1>6, <1>7
  <2>4. records[t] \in Seq(RequestRecord)
    BY <1>2, <1>7
  <2>5. records'[t] \in Seq(RequestRecord)
    BY <1>4, <1>21, <2>2, <2>4
  <2> QED BY <1>2, <1>6, <1>7, <2>2, <2>3, <2>5
<1>23. /\ DOMAIN records'[t] = DOMAIN records[t] /\ records'[t][n] = new
       /\ Len(records'[t]) = Len(records[t]) /\ records'[t] # <<>>
       /\ \A a \in DOMAIN records[t] \ {n} : records'[t][a] = records[t][a]
  <2>1. records[t] \in Seq(RequestRecord) /\ n \in DOMAIN records[t]
    BY <1>2, <1>4, <1>7
  <2>2. records'[t] \in Seq(RequestRecord)
    BY <1>2, <1>22
  <2> QED BY <1>22, <2>1, <2>2
<1>24. /\ AllEntries' = AllEntries /\ Entry(old)' = new
       /\ \A e \in AllEntries : e # old => Entry(e)' = Entry(e)
  <2>1. \A u \in Threads : DOMAIN records'[u] = DOMAIN records[u]
    BY <1>22, <1>23
  <2>2. AllEntries' = AllEntries
    BY <2>1 DEF AllEntries
  <2>3. ASSUME NEW e \in AllEntries, e # old PROVE Entry(e)' = Entry(e)
    <3>1. e[1] \in Threads /\ e[2] \in DOMAIN records[e[1]]
          /\ e = <<e[1], e[2]>>
      BY EntryTypes DEF Live
    <3>2. CASE e[1] = t
      <4>1. e[2] # n
        BY <2>3, <3>1, <3>2
      <4> QED BY <1>23, <3>1, <3>2, <4>1 DEF Entry
    <3>3. CASE e[1] # t
      BY <1>22, <3>1, <3>3 DEF Entry
    <3> QED BY <3>2, <3>3
  <2> QED BY <1>23, <2>2, <2>3 DEF Entry
<1>25. SessionTypes'
  <2>1. infer_stat' \in Nat
    BY <1>6, <1>7
  <2> QED BY <1>6, <1>8, <1>9, <1>10, <1>22, <2>1 DEF Live, SessionTypes
<1>26. ClientOK'
  <2>1. InTransit' \subseteq Requests
    BY <1>7, <1>11
  <2>2. (new_async_requests \cap ongoing_async_requests)' = {}
    BY <1>6, <1>7
  <2>3. \A q \in Requests :
           /\ TransferOK(http'[q])
           /\ http'[q].answer # <<>> =>
                http'[q].sent = BodyRead(http'[q].answer[1])
    BY <1>6, <1>10 DEF Live, ClientOK, Answered
  <2>4. \A q \in InTransit' : ~http'[q].final_response_sent
    BY <1>7, <1>10, <1>11 DEF Live, ClientOK
  <2>5. exiting' => main' = "joined"
    BY <1>6 DEF Live, ClientOK
  <2> QED BY <2>1, <2>2, <2>3, <2>4, <2>5 DEF ClientOK, Answered
<1>27. ThreadsOK'
  <2>1. GroupPayloadsBySession' = GroupPayloadsBySession
    BY DEF GroupPayloadsBySession
  <2>2. \A u \in Threads :
          /\ thread'[u].pc = "none" <=> thread[u].pc = "none"
          /\ thread'[u].pc = "ended" <=> thread[u].pc = "ended"
    BY <1>2, <1>8, <1>9
  <2>3. \A u \in Threads : thread'[u].pc = "none" => records'[u] = records[u]
    BY <1>9, <1>22
  <2>4. Started' = Started
    BY <1>6 DEF Started
  <2> QED BY <1>2, <1>6, <2>1, <2>2, <2>3, <2>4 DEF Live, ThreadsOK
<1>28. PlacesOK' /\ PhasesOK'
  BY <1>1, <1>9, <1>16, PhasesMove, PlacesStay DEF Live
<1>29. EntriesOK'
  <2> HIDE DEF old
  <2>1. EntryOK(new)'
    BY <1>12, <1>19, <1>21 DEF EntryOK
  <2>2. ASSUME NEW e \in AllEntries, e # old
        PROVE  EntryOK(Entry(e))'
    <3>1. PICK q : q = Entry(e)
      OBVIOUS
    <3>2. EntryOK(q) /\ q.index \in Requests /\ q.index # r
      BY <1>17, <2>2, <3>1, EntryTypes DEF Live, EntriesOK
    <3>3. /\ Phase(q.index)' = Phase(q.index)
          /\ http'[q.index].body = http[q.index].body
      BY <1>12, <3>2 DEF QuietBut
    <3>4. EntryOK(q)'
      BY <3>2, <3>3 DEF EntryOK
    <3>5. Entry(e)' = q
      BY <1>24, <2>2, <3>1
    <3> QED BY <3>4, <3>5
  <2>3. \A e \in AllEntries' : EntryOK(Entry(e))'
    BY <1>24, <2>1, <2>2
  <2>4. \A e \in AllEntries : Entry(e)'.index = Entry(e).index
    BY <1>17, <1>21, <1>24
  <2>5. \A d, e \in AllEntries' : Entry(d)'.index = Entry(e)'.index => d = e
    BY <1>24, <2>4 DEF Live, EntriesOK
  <2>6. \A q \in Requests :
          Phase(q)' # "new" => \E e \in AllEntries' : Entry(e)'.index = q
    <3>1. \A q \in Requests : Phase(q)' # "new" => Phase(q) # "new"
      BY <1>12 DEF QuietBut
    <3> QED BY <1>24, <2>4, <3>1 DEF Live, EntriesOK
  <2>7. \A u \in Threads : thread'[u].pc = "wait" /\ ~promise'[u] =>
          records'[u] # <<>> /\ Last(records'[u]).index = Payload(u)'
    <3> SUFFICES ASSUME NEW u \in Threads, thread'[u].pc = "wait",
                        ~promise'[u]
                 PROVE  /\ records'[u] # <<>>
                        /\ Last(records'[u]).index = Payload(u)'
      OBVIOUS
    <3>1. u # t
      BY <1>8
    <3>2. /\ thread'[u] = thread[u] /\ promise'[u] = promise[u]
          /\ records'[u] = records[u] /\ Payload(u)' = Payload(u)
      BY <1>8, <1>15, <1>22, <3>1
    <3>3. /\ records[u] # <<>>
          /\ Last(records[u]).index = Payload(u)
      BY <3>2 DEF Live, EntriesOK
    <3> QED BY <3>2, <3>3 DEF Last
  <2> QED BY <2>3, <2>5, <2>6, <2>7 DEF EntriesOK, Last
<1>30. HistoriesOK'
  <2> SUFFICES ASSUME NEW u \in Busy' PROVE HistoryOK(u)'
    BY DEF HistoriesOK
  <2>1. u \in Busy
    BY <1>14 DEF Busy
  <2>2. CASE u # t
    BY <1>1, <1>16, <2>1, <2>2, OthersStay
  <2>3. CASE u = t
    <3>1. PICK p : p = thread[t].session
      OBVIOUS
    <3>2. PICK i : i = thread[t].i
      OBVIOUS
    <3>3. /\ order[p][i] = r /\ i # 0 /\ Grouped(order)
          /\ p \in DOMAIN order /\ i \in DOMAIN order[p]
      BY <1>1, <1>2, <3>1, <3>2, BusyThread DEF Live
    <3>4. /\ thread'[t].session = p /\ Asked(t)' = i /\ Asked(t) = i
          /\ order' = order
      BY <1>2, <1>6, <1>9, <3>1, <3>2 DEF Asked
    <3>5. Said(p, i) = http[r].body[1]
      BY <1>12, <3>3, SaidIs DEF Live
    <3>6. thread[t].chat_history = Said(p, i)
      BY <1>1, <3>1, <3>4 DEF Live, HistoriesOK, HistoryOK
    <3>7. thread'[t].chat_history = Append(http[r].body[1], Reply(r))
      BY <1>9, <3>5, <3>6
    <3>8. http[r].body[1] \in Seq(Message)
      BY <1>12, BodyOf DEF Live, Histories
    <3>9. http'[r].body[1] \o <<Reply(r)>>
            = Append(http[r].body[1], Reply(r))
      BY <1>12, <3>8
    <3>10. Said(p, i)' = Append(http[r].body[1], Reply(r))
      BY <1>12, <3>3, <3>4, <3>9 DEF Said
    <3> QED BY <2>3, <3>4, <3>7, <3>10 DEF HistoryOK
  <2> QED BY <2>2, <2>3
<1>31. CountOK'
  <2>1. Finished' = Finished \cup {r} /\ r \notin Finished
    BY <1>12 DEF Finished, QuietBut
  <2>2. IsFiniteSet(Finished)
    <3>1. Finished \subseteq Requests
      BY DEF Finished
    <3> QED BY <3>1, SessionsFinite, FS_Subset
  <2>3. Cardinality(Finished \cup {r}) = Cardinality(Finished) + 1
    <3> HIDE DEF Finished
    <3> QED BY <2>1, <2>2, FS_AddElement
  <2> QED BY <1>6, <2>1, <2>3 DEF Live, CountOK
<1>32. Live'
  BY <1>25, <1>26, <1>27, <1>28, <1>29, <1>30, <1>31 DEF Live
<1> QED BY <1>1, <1>16, <1>32

-----------------------------------------------------------------------------
(* The steps that end the program.                                         *)

LEMMA BusyNotJoined ==
  ASSUME SessionTypes, ThreadsOK, NEW t \in Busy
  PROVE  main # "joined"
<1> SUFFICES ASSUME main = "joined" PROVE FALSE
  OBVIOUS
<1>1. t \in Threads /\ thread[t].pc \notin {"none", "ended"}
  BY DEF Busy
<1>2. t \in Nat \ {0} /\ concurrency \in Nat
  BY <1>1, SessionsAssumption DEF SessionTypes
<1>3. ~(t > concurrency)
  BY <1>1 DEF ThreadsOK, Started
<1>4. t \in 1 .. concurrency
  BY <1>2, <1>3
<1> QED BY <1>1, <1>4 DEF ThreadsOK

\* The program's end leaves the threads and their records as they are.
LEMMA AliveAtTheEnd ==
  ASSUME Live, Terminate, InTransit' \subseteq InTransit,
         \A q \in Requests : http'[q].body = http[q].body
  PROVE  RecordAlive'
<1>1. UNCHANGED <<thread, records>>
  BY DEF Terminate
<1>2. ASSUME NEW r \in InTransit'
      PROVE  \E t \in Threads : /\ thread'[t].pc = "wait"
                                /\ Last(records'[t]).index = r
                                /\ Last(records'[t]).payload
                                     = http'[r].body[1]
  <2>1. r \in InTransit /\ r \in Requests /\ ~http[r].final_response_sent
    BY DEF Live, ClientOK
  <2>2. PICK t \in Threads : /\ thread[t].pc = "wait"
                             /\ Last(records[t]).index = r
                             /\ Last(records[t]).payload = http[r].body[1]
    BY <2>1, LiveRecordAlive DEF RecordAlive
  <2>3. Last(records'[t]) = Last(records[t])
    BY <1>1
  <2> QED BY <1>1, <2>1, <2>2, <2>3
<1> QED BY <1>2 DEF RecordAlive, Last

LEMMA DelayLacking ==
  ASSUME Live, NEW t \in Threads, thread[t].pc = "delay",
         Payload(t) \in undelayed
  PROVE  \E k \in undelayed : k # Last(SessionPayloads(Data[k].session))
<1> DEFINE p == thread[t].session
           i == thread[t].i
<1>1. t \in Busy
  BY DEF Busy
<1>2. /\ Grouped(order) /\ p \in DOMAIN order /\ i \in DOMAIN order[p]
      /\ Payload(t) = order[p][i] /\ i # Len(order[p])
  BY <1>1, BusyThread DEF Live, PlacesOK, IsLastRequest
<1> HIDE DEF p, i
<1>3. Len(order[p]) \in DOMAIN order[p]
  BY <1>2, PlaceTypes
<1>4. SessionPayloads(Data[order[p][i]].session) = order[p]
  BY <1>2 DEF Grouped
<1>5. Last(order[p]) = order[p][Len(order[p])]
  BY DEF Last
<1>6. order[p][i] # order[p][Len(order[p])]
  BY <1>2, <1>3, OnePlace
<1> QED BY <1>2, <1>4, <1>5, <1>6

\* Answers other than one whole completion.
NoCompletion(a) == ~ (/\ a.end = "complete" /\ a.code = 200 /\ ~a.stream
                      /\ IsCompletion(a.pieces))

LEMMA WholeCompletion ==
  ASSUME SessionTypes, ClientOK, NEW r \in Requests, CompleteTransfer(r),
         ~http[r].final_response_sent, ~NoCompletion(http[r].answer[1])
  PROVE  /\ FinalResult(r) # <<>> /\ ~RequestFailed(FinalResult(r))
         /\ IsCompletion(FinalResult(r).buffer)
<1> DEFINE a == http[r].answer[1]
<1>1. /\ a.end = "complete" /\ a.code = 200 /\ ~a.stream
      /\ IsCompletion(a.pieces)
  BY DEF NoCompletion
<1>2. http[r].answer # <<>> /\ http[r].got = Len(Pieces(http[r]))
  BY TransfersLive, CompleteTransferChanges
<1>3. http[r].response_buffer = SubSeq(Pieces(http[r]), 1, http[r].got)
  BY <1>1, <1>2 DEF ClientOK, TransferOK
<1>4. SubSeq(a.pieces, 1, Len(a.pieces)) = a.pieces
  <2> HIDE DEF a
  <2>1. a.pieces \in Seq(STRING)
    <3>1. Pieces(http[r]) \in Seq(STRING)
      BY <1>2, AnswerType DEF SessionTypes
    <3> QED BY <3>1 DEF Pieces, a
  <2> QED BY <2>1, SubSeqFull
<1>5. http[r].response_buffer = a.pieces
  BY <1>2, <1>3, <1>4 DEF Pieces
<1>6. HttpCode(a) = 200
  BY <1>1 DEF HttpCode
<1>7. FinalResult(r) = Result(200, a.pieces, TRUE, FALSE)
  BY <1>5, <1>6 DEF FinalResult
<1> HIDE DEF a
<1>8. FinalResult(r) # <<>> /\ FinalResult(r).code = 200
      /\ FinalResult(r).buffer = a.pieces
  BY <1>7 DEF Result
<1> QED BY <1>1, <1>8 DEF RequestFailed

LEMMA DyingStep ==
  ASSUME Live, ~terminated, SessionsNext, terminated'
  PROVE  main' # "joined" /\ RecordAlive' /\ DiesOnlyOfFault'
<1>1. ASSUME NEW t \in Threads, Thread(t)
      PROVE  main' # "joined" /\ RecordAlive' /\ DiesOnlyOfFault'
  <2>1. /\ Terminate /\ UNCHANGED chatVars /\ t \in Busy
        /\ \/ malformed # {}
           \/ thread[t].pc = "delay" /\ Payload(t) \in undelayed
    <3>1. CASE NextSession(t)
      BY <3>1 DEF NextSession
    <3>2. CASE SendSessionRequest(t)
      BY <3>2 DEF SendSessionRequest, Busy
    <3>3. CASE WaitForResponse(t)
      BY <3>3 DEF WaitForResponse
    <3>4. CASE GetAndWaitForDelay(t)
      BY <3>4 DEF GetAndWaitForDelay, Busy
    <3> QED BY <1>1, <3>1, <3>2, <3>3, <3>4 DEF Thread
  <2>2. main' # "joined"
    BY <2>1, BusyNotJoined DEF Live, Terminate
  <2>3. RecordAlive'
    BY <2>1, AliveAtTheEnd DEF chatVars, InTransit
  <2>4. UNCHANGED <<malformed, undelayed>>
    BY <2>1 DEF Terminate, dataVars
  <2>5. DiesOnlyOfFault'
    <3>1. \/ malformed # {}
          \/ \E k \in undelayed : k # Last(SessionPayloads(Data[k].session))
      BY <2>1, DelayLacking
    <3> QED BY <2>4, <3>1 DEF DiesOnlyOfFault
  <2> QED BY <2>2, <2>3, <2>5
<1>2. ASSUME NEW r \in Requests, SessionTransfer(r)
      PROVE  main' # "joined" /\ RecordAlive' /\ DiesOnlyOfFault'
  <2>1. CASE RequestProvider(r) /\ UNCHANGED sessionVars
    BY <2>1 DEF sessionVars
  <2>2. CASE ResponseHandler(r) /\ Callback(r, PieceResult(r))
    <3>1. /\ r \in ongoing_async_requests /\ http[r].answer # <<>>
          /\ http'[r].answer = http[r].answer
      BY <2>2, TransfersLive, ResponseHandlerChanges DEF Live
    <3>2. Terminate /\ PieceResult(r) # <<>>
      BY <2>2 DEF Callback, sessionVars
    <3>3. http[r].is_stream
      BY <2>2, <3>2, PieceIs DEF Live
    <3>4. http[r].answer[1].stream
      BY <3>1, <3>3 DEF Live, ClientOK, TransferOK
    <3>5. Answered(r)' /\ http'[r].answer[1].stream
      BY <3>1, <3>4 DEF Answered
    <3>6. InTransit' = InTransit /\ r \in InTransit
      BY <2>2, <3>1 DEF ResponseHandler, InTransit
    <3>7. \A q \in Requests : http'[q].body = http[q].body
      BY <2>2, BodiesStay DEF Live
    <3>8. RecordAlive'
      BY <3>2, <3>6, <3>7, AliveAtTheEnd
    <3>9. main' # "joined"
      BY <3>2, <3>6, OutIsWaited DEF Live, Terminate
    <3> QED BY <3>5, <3>8, <3>9 DEF DiesOnlyOfFault
  <2>3. CASE CompleteTransfer(r) /\ Callback(r, FinalResult(r))
    <3>1. /\ r \in ongoing_async_requests /\ http[r].answer # <<>>
          /\ http'[r].answer = http[r].answer
          /\ ongoing_async_requests' = ongoing_async_requests \ {r}
      BY <2>3, TransfersLive, CompleteTransferChanges DEF Live
    <3>2. Terminate
      BY <2>3 DEF Callback, sessionVars
    <3>3. r \in InTransit /\ ~http[r].final_response_sent
      BY <3>1 DEF InTransit, Live, ClientOK
    <3>4. InTransit' \subseteq InTransit
      BY <2>3, <3>1 DEF CompleteTransfer, InTransit
    <3>5. \A q \in Requests : http'[q].body = http[q].body
      BY <2>3, BodiesStay DEF Live
    <3>6. NoCompletion(http[r].answer[1])
      <4> SUFFICES ASSUME ~NoCompletion(http[r].answer[1]) PROVE FALSE
        OBVIOUS
      <4>1. /\ FinalResult(r) # <<>> /\ ~RequestFailed(FinalResult(r))
            /\ IsCompletion(FinalResult(r).buffer)
        BY <2>3, <3>3, WholeCompletion DEF Live
      <4> QED BY <2>3, <4>1 DEF Callback
    <3>7. DiesOnlyOfFault'
      BY <3>1, <3>6 DEF DiesOnlyOfFault, NoCompletion, Answered
    <3>8. RecordAlive'
      BY <3>2, <3>4, <3>5, AliveAtTheEnd
    <3>9. main' # "joined"
      BY <3>2, <3>3, OutIsWaited DEF Live, Terminate
    <3> QED BY <3>7, <3>8, <3>9
  <2> QED BY <1>2, <2>1, <2>2, <2>3 DEF SessionTransfer
<1>3. CASE Main
  BY <1>3 DEF Main, MakeThreads, JoinThreads, DestroyManager, sessionVars
<1>4. CASE SessionCurlLoop
  BY <1>4 DEF SessionCurlLoop, sessionVars
<1> QED BY <1>1, <1>2, <1>3, <1>4 DEF SessionsNext

-----------------------------------------------------------------------------
(* What is gathered when the threads are joined.                           *)

\* The loop of FlattenSeq over the first k sequences.
Flattening(seqs, g, k) ==
  g = [i \in 1 .. k |-> IF i = 1 THEN seqs[i] ELSE g[i - 1] \o seqs[i]]

LEMMA FlattenUnfolds ==
  ASSUME NEW seqs, Len(seqs) \in Nat \ {0}
  PROVE  \E g : /\ Flattening(seqs, g, Len(seqs))
                /\ FlattenSeq(seqs) = g[Len(seqs)]
<1> DEFINE D == {k \in Nat : \E g : Flattening(seqs, g, k)}
<1>1. 0 \in D
  <2>1. Flattening(seqs, <<>>, 0)
    BY DEF Flattening
  <2> QED BY <2>1
<1>2. ASSUME NEW k \in Nat, k \in D
      PROVE  k + 1 \in D
  <2>1. PICK g : Flattening(seqs, g, k)
    BY <1>2
  <2> DEFINE h == [i \in 1 .. k + 1 |->
                     IF i = k + 1
                     THEN IF i = 1 THEN seqs[i] ELSE g[k] \o seqs[i]
                     ELSE g[i]]
  <2>2. ASSUME NEW i \in 1 .. k + 1
        PROVE  h[i] = IF i = 1 THEN seqs[i] ELSE h[i - 1] \o seqs[i]
    <3>1. CASE i = k + 1
      <4>1. i # 1 => i - 1 \in 1 .. k + 1 /\ i - 1 # k + 1 /\ i - 1 = k
        BY <3>1
      <4>2. i # 1 => h[i - 1] = g[k]
        BY <4>1
      <4> QED BY <3>1, <4>2
    <3>2. CASE i # k + 1
      <4>1. i \in 1 .. k
        BY <3>2
      <4>2. i # 1 => i - 1 \in 1 .. k + 1 /\ i - 1 # k + 1
        BY <4>1
      <4>3. g[i] = IF i = 1 THEN seqs[i] ELSE g[i - 1] \o seqs[i]
        BY <2>1, <4>1 DEF Flattening
      <4>4. h[i] = g[i] /\ (i # 1 => h[i - 1] = g[i - 1])
        BY <3>2, <4>2
      <4> QED BY <4>3, <4>4
    <3> QED BY <3>1, <3>2
  <2>3. Flattening(seqs, h, k + 1)
    BY <2>2 DEF Flattening
  <2>4. k + 1 \in Nat
    OBVIOUS
  <2> HIDE DEF h
  <2> QED BY <2>3, <2>4
<1> DEFINE N == Len(seqs)
           g == CHOOSE g : Flattening(seqs, g, N)
<1>3. Flattening(seqs, g, N)
  <2>1. N \in D
    <3> HIDE DEF D
    <3> QED BY <1>1, <1>2, Induction
  <2> QED BY <2>1
<1>4. FlattenSeq(seqs) = g[N]
  BY DEF FlattenSeq, Flattening
<1> HIDE DEF g
<1> QED BY <1>3, <1>4

\* flat holds every record of the first m lists once, and nothing else.
Gathered(flat, lists, m) ==
  /\ flat \in Seq(RequestRecord)
  /\ \A u \in 1 .. m : \A a \in DOMAIN lists[u] :
        \E j \in DOMAIN flat : flat[j] = lists[u][a]
  /\ \A j \in DOMAIN flat : \E u \in 1 .. m : \E a \in DOMAIN lists[u] :
        flat[j] = lists[u][a]
  /\ \A i, j \in DOMAIN flat : flat[i].index = flat[j].index => i = j

\* No two records are of one request.
Distinct(lists) ==
  \A u, v \in DOMAIN lists :
     \A a \in DOMAIN lists[u] : \A b \in DOMAIN lists[v] :
        lists[u][a].index = lists[v][b].index => u = v /\ a = b

LEMMA OneMoreList ==
  ASSUME NEW lists \in Seq(Seq(RequestRecord)), Distinct(lists),
         NEW m \in Nat, m + 1 \in DOMAIN lists,
         NEW flat, Gathered(flat, lists, m)
  PROVE  Gathered(flat \o lists[m + 1], lists, m + 1)
<1>1. PICK q \in Seq(RequestRecord) : q = lists[m + 1]
  BY ElementOfSeq
<1>2. PICK f \in Seq(RequestRecord) : f = flat
  BY DEF Gathered
<1>3. PICK g : g = f \o q
  OBVIOUS
<1>4. /\ g \in Seq(RequestRecord) /\ Len(g) = Len(f) + Len(q)
      /\ \A i \in 1 .. Len(f) + Len(q) :
            g[i] = IF i <= Len(f) THEN f[i] ELSE q[i - Len(f)]
  BY <1>3, ConcatProperties
<1>5. /\ Len(f) \in Nat /\ Len(q) \in Nat /\ DOMAIN f = 1 .. Len(f)
      /\ DOMAIN q = 1 .. Len(q) /\ DOMAIN g = 1 .. Len(f) + Len(q)
  BY <1>4
<1>6. /\ \A i \in DOMAIN f : i \in DOMAIN g /\ g[i] = f[i]
      /\ \A a \in DOMAIN q :
            Len(f) + a \in DOMAIN g /\ g[Len(f) + a] = q[a]
  <2>1. ASSUME NEW i \in DOMAIN f PROVE i \in DOMAIN g /\ g[i] = f[i]
    BY <1>4, <1>5
  <2>2. ASSUME NEW a \in DOMAIN q
        PROVE  Len(f) + a \in DOMAIN g /\ g[Len(f) + a] = q[a]
    <3>1. /\ Len(f) + a \in 1 .. Len(f) + Len(q)
          /\ ~(Len(f) + a <= Len(f)) /\ Len(f) + a - Len(f) = a
      BY <1>5
    <3> QED BY <1>4, <1>5, <3>1
  <2> QED BY <2>1, <2>2
<1>7. ASSUME NEW j \in DOMAIN g
      PROVE  \/ j \in DOMAIN f /\ g[j] = f[j]
             \/ \E a \in DOMAIN q : j = Len(f) + a /\ g[j] = q[a]
  <2>1. CASE j <= Len(f)
    BY <1>4, <1>5, <2>1
  <2>2. CASE ~(j <= Len(f))
    <3>1. j - Len(f) \in DOMAIN q /\ j = Len(f) + (j - Len(f))
      BY <1>5, <2>2
    <3> QED BY <1>4, <1>5, <2>2, <3>1
  <2> QED BY <2>1, <2>2
<1>8. ASSUME NEW u \in 1 .. m + 1, NEW a \in DOMAIN lists[u]
      PROVE  \E j \in DOMAIN g : g[j] = lists[u][a]
  <2>1. CASE u = m + 1
    BY <1>1, <1>6, <2>1
  <2>2. CASE u # m + 1
    <3>1. u \in 1 .. m
      BY <2>2
    <3>2. \E j \in DOMAIN f : f[j] = lists[u][a]
      BY <1>2, <3>1 DEF Gathered
    <3> QED BY <1>6, <3>2
  <2> QED BY <2>1, <2>2
<1>9. \A j \in DOMAIN f : \E u \in 1 .. m : \E a \in DOMAIN lists[u] :
        f[j] = lists[u][a]
  BY <1>2 DEF Gathered
<1>10. 1 .. m \subseteq 1 .. m + 1 /\ m + 1 \in 1 .. m + 1
       /\ 1 .. m \subseteq DOMAIN lists /\ m + 1 \notin 1 .. m
  OBVIOUS
<1>11. ASSUME NEW j \in DOMAIN g
       PROVE  \E u \in 1 .. m + 1 : \E a \in DOMAIN lists[u] :
                 g[j] = lists[u][a]
  BY <1>1, <1>7, <1>9, <1>10
<1>12. ASSUME NEW i \in DOMAIN f, NEW a \in DOMAIN q
       PROVE  f[i].index # q[a].index
  <2>1. PICK u \in 1 .. m : \E b \in DOMAIN lists[u] : f[i] = lists[u][b]
    BY <1>9
  <2>2. PICK b \in DOMAIN lists[u] : f[i] = lists[u][b]
    BY <2>1
  <2>3. u \in DOMAIN lists /\ u # m + 1
    BY <1>10, <2>1
  <2> QED BY <1>1, <2>2, <2>3 DEF Distinct
<1>13. ASSUME NEW i \in DOMAIN g, NEW j \in DOMAIN g,
              g[i].index = g[j].index
       PROVE  i = j
  <2>1. CASE i \in DOMAIN f /\ g[i] = f[i]
    <3>1. j \in DOMAIN f /\ g[j] = f[j]
      BY <1>7, <1>12, <1>13, <2>1
    <3> QED BY <1>2, <1>13, <2>1, <3>1 DEF Gathered
  <2>2. ASSUME NEW a \in DOMAIN q, i = Len(f) + a, g[i] = q[a]
        PROVE  i = j
    <3>1. PICK b \in DOMAIN q : j = Len(f) + b /\ g[j] = q[b]
      BY <1>7, <1>12, <1>13, <2>2
    <3>2. a = b
      BY <1>1, <1>13, <2>2, <3>1 DEF Distinct
    <3> QED BY <2>2, <3>1, <3>2
  <2> QED BY <1>7, <2>1, <2>2
<1>14. Gathered(g, lists, m + 1)
  BY <1>4, <1>8, <1>11, <1>13 DEF Gathered
<1> QED BY <1>1, <1>2, <1>3, <1>14

LEMMA AllGathered ==
  ASSUME NEW lists \in Seq(Seq(RequestRecord)), Distinct(lists),
         lists # <<>>
  PROVE  Gathered(FlattenSeq(lists), lists, Len(lists))
<1>1. PICK N \in Nat \ {0} : N = Len(lists)
  OBVIOUS
<1>2. DOMAIN lists = 1 .. N
  BY <1>1
<1>3. PICK g : Flattening(lists, g, N) /\ FlattenSeq(lists) = g[N]
  BY <1>1, FlattenUnfolds
<1> DEFINE D == {m \in Nat : m < N => Gathered(g[m + 1], lists, m + 1)}
<1>4. 0 \in D
  <2>1. g[1] = lists[1] /\ lists[1] \in Seq(RequestRecord)
    <3>1. 1 \in 1 .. N
      BY <1>1
    <3>2. g[1] = lists[1]
      BY <1>3, <3>1 DEF Flattening
    <3> QED BY <1>1, <3>1, <3>2, ElementOfSeq
  <2>2. 1 \in DOMAIN lists /\ 1 .. 1 = {1}
    BY <1>1
  <2>3. Gathered(lists[1], lists, 1)
    BY <2>1, <2>2 DEF Gathered, Distinct
  <2> QED BY <2>1, <2>3
<1>5. ASSUME NEW m \in Nat, m \in D
      PROVE  m + 1 \in D
  <2>1. CASE m + 1 < N
    <3>1. Gathered(g[m + 1], lists, m + 1)
      BY <1>1, <1>5, <2>1
    <3>2. /\ m + 2 \in 1 .. N /\ m + 2 # 1 /\ m + 1 \in Nat
          /\ (m + 2) - 1 = m + 1 /\ (m + 1) + 1 = m + 2
      BY <1>1, <2>1
    <3>3. g[m + 2] = g[m + 1] \o lists[m + 2]
      BY <1>3, <3>2 DEF Flattening
    <3>4. Gathered(g[m + 1] \o lists[(m + 1) + 1], lists, (m + 1) + 1)
      <4> HIDE DEF D
      <4>1. (m + 1) + 1 \in DOMAIN lists
        BY <1>2, <3>2
      <4> QED BY <3>1, <3>2, <4>1, OneMoreList
    <3> QED BY <3>2, <3>3, <3>4
  <2>2. CASE ~(m + 1 < N)
    BY <2>2
  <2> QED BY <2>1, <2>2
<1>6. N - 1 \in D
  <2>1. N - 1 \in Nat
    BY <1>1
  <2> HIDE DEF D
  <2> QED BY <1>4, <1>5, <2>1, Induction
<1>7. (N - 1) + 1 = N /\ N - 1 < N
  BY <1>1
<1> QED BY <1>1, <1>3, <1>6, <1>7

LEMMA JoinedRecordsComplete ==
  ASSUME Live, main = "joined"
  PROVE  /\ Len(GetRequestRecords) = Len(Data)
         /\ \A k \in DOMAIN Data : \E n \in DOMAIN GetRequestRecords :
               /\ GetRequestRecords[n].index = k
               /\ Len(GetRequestRecords[n].responses) = 1
         /\ infer_stat = Len(Data)
<1> DEFINE lists == [t \in 1 .. concurrency |-> records[t]]
           G == GetRequestRecords
<1>1. /\ \A k \in Requests : Phase(k) = "done"
      /\ Started /\ concurrency \in Nat \ {0}
  BY JoinedAllDone, SessionsAssumption DEF Live, Started, SessionTypes
<1>2. 1 .. concurrency \subseteq Threads
      /\ records \in [Threads -> Seq(RequestRecord)]
  BY <1>1 DEF Live, ThreadsOK, SessionTypes
<1>3. lists \in Seq(Seq(RequestRecord)) /\ lists # <<>>
      /\ DOMAIN lists = 1 .. concurrency /\ Len(lists) = concurrency
  BY <1>1, <1>2
<1>4. Distinct(lists)
  <2> SUFFICES ASSUME NEW u \in 1 .. concurrency, NEW v \in 1 .. concurrency,
                      NEW a \in DOMAIN records[u],
                      NEW b \in DOMAIN records[v],
                      records[u][a].index = records[v][b].index
               PROVE  u = v /\ a = b
    BY DEF Distinct
  <2>1. u \in Threads /\ v \in Threads /\ a \in Nat /\ b \in Nat
    <3>1. /\ records[u] \in Seq(RequestRecord)
          /\ records[v] \in Seq(RequestRecord)
      BY <1>2
    <3> QED BY <1>2, <3>1
  <2> DEFINE d == <<u, a>>
             e == <<v, b>>
  <2>2. d \in AllEntries /\ e \in AllEntries
        /\ Entry(d) = records[u][a] /\ Entry(e) = records[v][b]
    BY <2>1 DEF AllEntries, Entry
  <2>3. d = e
    <3> HIDE DEF d, e
    <3> QED BY <2>2 DEF Live, EntriesOK
  <2> QED BY <2>3
<1>5. Gathered(G, lists, concurrency)
  <2> HIDE DEF lists
  <2>1. Gathered(FlattenSeq(lists), lists, Len(lists))
    BY <1>3, <1>4, AllGathered
  <2> QED BY <1>3, <2>1 DEF GetRequestRecords, lists
<1> HIDE DEF G
<1>6. G \in Seq(RequestRecord) /\ DOMAIN G = 1 .. Len(G) /\ Len(G) \in Nat
  BY <1>5 DEF Gathered
<1>7. ASSUME NEW k \in Requests
      PROVE  \E n \in DOMAIN G : /\ G[n].index = k
                                 /\ Len(G[n].responses) = 1
  <2>1. PICK e \in AllEntries : Entry(e).index = k
    BY <1>1 DEF Live, EntriesOK
  <2>2. Len(Entry(e).responses) = 1
    BY <1>1, <2>1 DEF Live, EntriesOK, EntryOK
  <2>3. /\ e[1] \in Threads /\ e[2] \in DOMAIN records[e[1]]
        /\ records[e[1]] \in Seq(RequestRecord)
    BY <1>2, EntryTypes DEF Live
  <2>4. thread[e[1]].pc # "none"
    BY <2>3 DEF Live, ThreadsOK
  <2>5. e[1] \in 1 .. concurrency
    <3>1. e[1] \in Nat \ {0}
      BY <2>3, SessionsAssumption
    <3>2. ~(e[1] > concurrency)
      BY <1>1, <2>3, <2>4 DEF Live, ThreadsOK
    <3> QED BY <1>1, <3>1, <3>2
  <2>6. lists[e[1]][e[2]] = Entry(e) /\ e[2] \in DOMAIN lists[e[1]]
    BY <2>3, <2>5 DEF Entry
  <2>7. \E n \in DOMAIN G : G[n] = Entry(e)
    <3> HIDE DEF lists
    <3> QED BY <1>5, <2>5, <2>6 DEF Gathered
  <2> QED BY <2>1, <2>2, <2>7
<1>8. Len(G) = Len(Data)
  <2> DEFINE f == [n \in 1 .. Len(G) |-> G[n].index]
  <2>1. \A n \in 1 .. Len(G) : G[n].index \in Requests
    <3>1. \A n \in 1 .. Len(G) : G[n] \in RequestRecord
      BY <1>6, ElementOfSeq
    <3> QED BY <3>1 DEF RequestRecord
  <2>2. f \in Injection(1 .. Len(G), Requests)
    <3>1. \A i, j \in DOMAIN G : G[i].index = G[j].index => i = j
      BY <1>5 DEF Gathered
    <3> QED BY <1>6, <2>1, <3>1 DEF Injection, IsInjective
  <2>3. f \in Surjection(1 .. Len(G), Requests)
    <3>1. \A k \in Requests : \E n \in 1 .. Len(G) : f[n] = k
      BY <1>6, <1>7
    <3> QED BY <2>1, <3>1 DEF Surjection
  <2>4. Cardinality(1 .. Len(G)) = Len(G)
    <3>1. 1 \in Int /\ Len(G) \in Int
      BY <1>6
    <3>2. Cardinality(1 .. Len(G)) = IF 1 > Len(G) THEN 0 ELSE Len(G) - 1 + 1
      BY <3>1, FS_Interval
    <3> QED BY <1>6, <3>2
  <2>5. Cardinality(1 .. Len(G)) = Cardinality(Requests)
    <3> HIDE DEF f
    <3> QED BY <2>2, <2>3, FS_Injection, SessionsFinite
  <2> QED BY <2>4, <2>5, SessionsFinite
<1>9. infer_stat = Len(Data)
  <2>1. Finished = Requests
    BY <1>1 DEF Finished
  <2> QED BY <2>1, SessionsFinite DEF Live, CountOK
<1>10. DOMAIN Data = Requests
  BY SessionsAssumption
<1> QED BY <1>7, <1>8, <1>9, <1>10 DEF G

-----------------------------------------------------------------------------
(* The invariant of the sessions.                                          *)

LEMMA LiveStep ==
  ASSUME Live, ~terminated, [SessionsNext]_chatSessionVars, ~terminated'
  PROVE  Live'
<1>1. CASE Main
  BY <1>1, MakeThreadsKeeps, JoinThreadsKeeps, ClientStepKeeps DEF Main
<1>2. CASE SessionCurlLoop \/ UNCHANGED chatSessionVars
  BY <1>2, ClientStepKeeps
<1>3. ASSUME NEW t \in Threads, Thread(t)
      PROVE  Live'
  BY <1>3, NextSessionKeeps, SendSessionKeeps, WaitForResponseKeeps,
     GetAndWaitForDelayKeeps DEF Thread
<1>4. ASSUME NEW r \in Requests, SessionTransfer(r)
      PROVE  Live'
  BY <1>4, ProviderKeeps, HandlerKeeps, CompleteKeeps DEF SessionTransfer
<1> QED BY <1>1, <1>2, <1>3, <1>4 DEF SessionsNext

LEMMA SessionsInitInv == SessionsInit => SessionInv
BY LiveInit DEF SessionInv

LEMMA SessionsStepInv ==
  SessionInv /\ [SessionsNext]_chatSessionVars => SessionInv'
<1> SUFFICES ASSUME SessionInv, [SessionsNext]_chatSessionVars
             PROVE  SessionInv'
  OBVIOUS
<1>1. CASE terminated
  <2>1. UNCHANGED chatSessionVars
    BY <1>1 DEF SessionsNext
  <2>2. UNCHANGED <<terminated, main, http, thread, records, malformed,
                    undelayed, new_async_requests, ongoing_async_requests>>
    BY <2>1 DEF chatSessionVars, sessionVars, chatVars
  <2>3. InTransit' = InTransit
    BY <2>2 DEF InTransit
  <2>4. main # "joined" /\ RecordAlive /\ DiesOnlyOfFault
    BY <1>1 DEF SessionInv
  <2>5. RecordAlive'
    BY <2>2, <2>3, <2>4 DEF RecordAlive, Last
  <2>6. DiesOnlyOfFault'
    BY <2>2, <2>4 DEF DiesOnlyOfFault, Answered
  <2> QED BY <1>1, <2>2, <2>4, <2>5, <2>6 DEF SessionInv
<1>2. CASE ~terminated /\ ~terminated'
  BY <1>2, LiveStep DEF SessionInv
<1>3. CASE ~terminated /\ terminated'
  <2>1. SessionsNext
    BY <1>3 DEF chatSessionVars, sessionVars
  <2> QED BY <1>3, <2>1, DyingStep DEF SessionInv
<1> QED BY <1>1, <1>2, <1>3

LEMMA SessionInvHolds == SessionsSpec => []SessionInv
<1> QED BY SessionsInitInv, SessionsStepInv, PTL DEF SessionsSpec

\* The response callback keeps references into its thread's vector of records
\* and writes through them from the curl thread (PrepareCallback): the record
\* of a request that is out is still the last of a thread that waits.  And
\* when MakeAndWaitForThreads has joined all threads, GetRequestRecords has
\* every payload once, with its one response.
THEOREM SessionRecordsKept == SessionsSpec => []RecordsKept
<1>1. SessionInv => RecordsKept
  <2> SUFFICES ASSUME SessionInv PROVE RecordsKept
    OBVIOUS
  <2>1. RecordAlive
    BY LiveRecordAlive DEF SessionInv
  <2>2. RecordsComplete
    BY JoinedRecordsComplete DEF SessionInv, RecordsComplete
  <2> QED BY <2>1, <2>2 DEF RecordsKept
<1> QED BY <1>1, SessionInvHolds, PTL

\* An exception that leaves a thread or the curl thread ends the program
\* (std::terminate): only a payload without messages, a payload without a
\* delay in mid-session, or an answer that is no completion lets one escape.
THEOREM SessionsDieOnlyOfFault == SessionsSpec => []DiesOnlyOfFault
<1>1. SessionInv => DiesOnlyOfFault
  BY DEF SessionInv, DiesOnlyOfFault
<1> QED BY <1>1, SessionInvHolds, PTL

-----------------------------------------------------------------------------
(* The sessions as a pool of conversations.                                *)

SessionAt(p) == Data[order[p][1]].session

LEMMA PoolCardinality == \A S : Pool!Cardinality(S) = Cardinality(S)
BY DEF Pool!Cardinality, Cardinality

\* Every session has its place in the order, and only one.
LEMMA PlaceOfSession ==
  ASSUME Grouped(order)
  PROVE  /\ \A s \in SessionIds : \E p \in DOMAIN order : SessionAt(p) = s
         /\ \A p \in DOMAIN order : SessionAt(p) \in SessionIds
         /\ \A p, q \in DOMAIN order : SessionAt(p) = SessionAt(q) => p = q
<1>1. ASSUME NEW s \in SessionIds
      PROVE  \E p \in DOMAIN order : SessionAt(p) = s
  <2>1. PICK k \in DOMAIN Data : Data[k].session = s
    BY DEF SessionIds
  <2>2. k \in Requests
    BY SessionsAssumption
  <2>3. PICK p, j : Place(order, p, j) /\ order[p][j] = k
    BY <2>2 DEF Grouped
  <2>4. p \in DOMAIN order /\ j \in DOMAIN order[p]
    BY <2>3 DEF Place
  <2>5. Data[order[p][j]].session = SessionAt(p)
    BY <2>4 DEF Grouped, SessionAt
  <2> QED BY <2>1, <2>3, <2>4, <2>5
<1> QED BY <1>1 DEF Grouped, SessionAt

\* The records of a session are entries of its payloads.
LEMMA RecordsAreEntries ==
  ASSUME SessionTypes, NEW s
  PROVE  /\ \A rec \in SessionRecords(s) :
               /\ \E e \in AllEntries : Entry(e) = rec
               /\ rec \in RequestRecord /\ rec.index \in Requests
               /\ Data[rec.index].session = s
         /\ \A e \in AllEntries : Data[Entry(e).index].session = s =>
               Entry(e) \in SessionRecords(s)
<1>1. ASSUME NEW rec \in SessionRecords(s)
      PROVE  \E e \in AllEntries : Entry(e) = rec
  <2>1. PICK t \in Threads : rec \in ToSet(records[t])
    BY DEF SessionRecords
  <2>2. PICK a \in DOMAIN records[t] : records[t][a] = rec
    BY <2>1 DEF ToSet
  <2>3. records[t] \in Seq(RequestRecord)
    BY DEF SessionTypes
  <2>4. a \in Nat
    BY <2>3
  <2>5. <<t, a>> \in AllEntries /\ Entry(<<t, a>>) = rec
    BY <2>2, <2>4 DEF AllEntries, Entry
  <2> QED BY <2>5
<1>2. ASSUME NEW e \in AllEntries, Data[Entry(e).index].session = s
      PROVE  Entry(e) \in SessionRecords(s)
  <2>1. e[1] \in Threads /\ e[2] \in DOMAIN records[e[1]]
    BY EntryTypes
  <2>2. Entry(e) \in ToSet(records[e[1]])
    BY <2>1 DEF Entry, ToSet
  <2> QED BY <1>2, <2>1, <2>2 DEF SessionRecords
<1>3. ASSUME NEW rec \in SessionRecords(s)
      PROVE  rec \in RequestRecord /\ rec.index \in Requests
  BY <1>1, EntryTypes
<1>4. \A rec \in SessionRecords(s) : Data[rec.index].session = s
  BY DEF SessionRecords
<1> QED BY <1>1, <1>2, <1>3, <1>4

\* Where the first n payloads of a session were sent, there are n records of
\* it, and the talk is what was said up to the n-th.
LEMMA TalkIsSaid ==
  ASSUME SessionTypes, ClientOK, EntriesOK, Grouped(order),
         NEW p \in DOMAIN order, NEW n \in 0 .. Len(order[p]),
         \A j \in DOMAIN order[p] : Phase(order[p][j]) # "new" <=> j <= n
  PROVE  /\ Cardinality(SessionRecords(SessionAt(p))) = n
         /\ Talk(SessionAt(p)) = Said(p, n)
<1> DEFINE s == SessionAt(p)
           R == SessionRecords(s)
           q == order[p]
<1>1. /\ DOMAIN q = 1 .. Len(q) /\ Len(q) \in Nat
      /\ \A j \in DOMAIN q : q[j] \in Requests /\ q[j] \in Nat
      /\ \A i, j \in DOMAIN q : i < j => q[i] < q[j]
      /\ \A j \in DOMAIN q : Data[q[j]].session = s
      /\ n \in Nat /\ 1 .. n \subseteq DOMAIN q
  <2>1. DOMAIN q = 1 .. Len(q) /\ Len(q) \in Nat
    BY PlaceTypes
  <2>2. \A j \in DOMAIN q : q[j] \in Requests
    BY PlaceTypes
  <2>3. \A j \in DOMAIN q : q[j] \in Nat
    BY <2>2, SessionsFinite
  <2>4. /\ \A i, j \in DOMAIN q : i < j => q[i] < q[j]
        /\ \A j \in DOMAIN q : Data[q[j]].session = s
    BY DEF Grouped, SessionAt
  <2> HIDE DEF q
  <2>5. n \in Nat /\ 1 .. n \subseteq DOMAIN q
    BY <2>1 DEF q
  <2> QED BY <2>1, <2>2, <2>3, <2>4, <2>5
<1>2. ASSUME NEW rec \in R
      PROVE  /\ rec \in RequestRecord /\ EntryOK(rec)
             /\ \E j \in 1 .. n : rec.index = q[j]
  <2>1. PICK e \in AllEntries : Entry(e) = rec
    BY RecordsAreEntries
  <2>2. /\ rec \in RequestRecord /\ rec.index \in Requests
        /\ Data[rec.index].session = s /\ EntryOK(rec)
    BY <2>1, RecordsAreEntries DEF EntriesOK
  <2>3. PICK p2, j : Place(order, p2, j) /\ order[p2][j] = rec.index
    BY <2>2 DEF Grouped
  <2>4. p2 \in DOMAIN order /\ j \in DOMAIN order[p2]
    BY <2>3 DEF Place
  <2>5. SessionAt(p2) = s
    BY <2>2, <2>3, <2>4 DEF Grouped, SessionAt
  <2>6. p2 = p
    BY <2>4, <2>5, PlaceOfSession
  <2>7. j <= n
    BY <2>2, <2>3, <2>4, <2>6 DEF EntryOK
  <2> QED BY <1>1, <2>2, <2>3, <2>4, <2>6, <2>7
<1>3. ASSUME NEW j \in 1 .. n
      PROVE  \E rec \in R : rec.index = q[j]
  <2>1. j \in DOMAIN q /\ j <= n
    BY <1>1
  <2>2. PICK e \in AllEntries : Entry(e).index = q[j]
    BY <1>1, <2>1 DEF EntriesOK
  <2>3. Data[Entry(e).index].session = s
    BY <1>1, <2>1, <2>2
  <2> QED BY <2>2, <2>3, RecordsAreEntries
<1>4. ASSUME NEW a \in R, NEW b \in R, a.index = b.index
      PROVE  a = b
  <2>1. PICK d \in AllEntries : Entry(d) = a
    BY RecordsAreEntries
  <2>2. PICK e \in AllEntries : Entry(e) = b
    BY RecordsAreEntries
  <2>3. d = e
    BY <1>4, <2>1, <2>2 DEF EntriesOK
  <2> QED BY <2>1, <2>2, <2>3
<1> DEFINE f == [j \in 1 .. n |-> CHOOSE rec \in R : rec.index = q[j]]
<1> HIDE DEF R, q, s
<1>5. \A j \in 1 .. n : f[j] \in R /\ f[j].index = q[j]
  BY <1>3
<1>6. \A rec \in R : \E j \in 1 .. n : f[j] = rec
  BY <1>2, <1>4, <1>5
<1>7. \A i, j \in 1 .. n : f[i] = f[j] => i = j
  <2> SUFFICES ASSUME NEW i \in 1 .. n, NEW j \in 1 .. n, f[i] = f[j]
               PROVE  i = j
    OBVIOUS
  <2>1. q[i] = q[j] /\ i \in DOMAIN q /\ j \in DOMAIN q
    BY <1>1, <1>5
  <2>2. ~(i < j) /\ ~(j < i)
    BY <1>1, <2>1
  <2> QED BY <2>2
<1>8. Cardinality(R) = n
  <2>1. f \in Surjection(1 .. n, R)
    BY <1>5, <1>6 DEF Surjection
  <2>2. f \in Injection(1 .. n, R)
    BY <1>5, <1>7 DEF Injection, IsInjective
  <2>3. IsFiniteSet(1 .. n) /\ Cardinality(1 .. n) = n
    <3>1. 1 \in Int /\ n \in Int
      BY <1>1
    <3>2. /\ IsFiniteSet(1 .. n)
          /\ Cardinality(1 .. n) = IF 1 > n THEN 0 ELSE n - 1 + 1
      BY <3>1, FS_Interval
    <3> QED BY <1>1, <3>2
  <2> HIDE DEF f
  <2> QED BY <2>1, <2>2, <2>3, FS_Surjection
<1>9. Talk(s) = Said(p, n)
  <2>1. CASE n = 0
    <3>1. R = {}
      BY <1>2, <2>1
    <3> QED BY <2>1, <3>1 DEF Talk, Said, R
  <2>2. CASE n # 0
    <3>1. n \in 1 .. n
      BY <1>1, <2>2
    <3>2. PICK top \in R : top.index = q[n]
      BY <1>3, <3>1
    <3>3. \A other \in R : other.index <= top.index
      <4>1. ASSUME NEW j \in 1 .. n PROVE q[j] <= q[n]
        <5>1. j \in DOMAIN q /\ n \in DOMAIN q /\ (j = n \/ j < n)
          BY <1>1, <3>1
        <5> QED BY <1>1, <5>1
      <4> QED BY <1>2, <3>2, <4>1
    <3>4. ASSUME NEW rec \in R,
                 \A other \in R : other.index <= rec.index
          PROVE  rec = top
      <4>1. top.index <= rec.index /\ rec.index <= top.index
        BY <3>3, <3>4
      <4>2. rec.index \in Nat /\ top.index \in Nat
        BY <1>1, <1>2
      <4>3. rec.index = top.index
        BY <4>1, <4>2
      <4> QED BY <1>4, <4>3
    <3> DEFINE last == CHOOSE rec \in R :
                         \A other \in R : other.index <= rec.index
    <3>5. last = top
      BY <3>3, <3>4
    <3>6. Talk(s) = http[top.index].body[1]
                    \o [i \in DOMAIN top.responses |-> Reply(top.index)]
      <4>1. R # {}
        BY <3>2
      <4>2. Talk(s) =
              IF R = {} THEN <<>>
              ELSE http[last.index].body[1]
                   \o [i \in DOMAIN last.responses |-> Reply(last.index)]
        BY DEF Talk, R
      <4> HIDE DEF R, last
      <4> QED BY <3>5, <4>1, <4>2
    <3>7. PICK k \in Requests : k = q[n]
      BY <1>1, <3>1
    <3>8. [i \in DOMAIN top.responses |-> Reply(k)]
            = IF Phase(k) = "done" THEN <<Reply(k)>> ELSE <<>>
      <4>1. top.responses \in Seq(Seq(STRING))
        BY <1>2 DEF RequestRecord
      <4>2. Len(top.responses) = IF Phase(k) = "done" THEN 1 ELSE 0
        BY <1>2, <3>2, <3>7 DEF EntryOK
      <4>3. CASE Phase(k) = "done"
        <5>1. DOMAIN top.responses = 1 .. 1
          BY <4>1, <4>2, <4>3
        <5> QED BY <4>3, <5>1
      <4>4. CASE Phase(k) # "done"
        <5>1. DOMAIN top.responses = 1 .. 0
          BY <4>1, <4>2, <4>4
        <5> QED BY <4>4, <5>1
      <4> QED BY <4>3, <4>4
    <3> QED BY <2>2, <3>2, <3>6, <3>7, <3>8 DEF Said, q
  <2> QED BY <2>1, <2>2
<1> QED BY <1>8, <1>9 DEF R, s

Spoken(p, n) == /\ Cardinality(SessionRecords(SessionAt(p))) = n
                /\ Talk(SessionAt(p)) = Said(p, n)

\* How much of every session has been said.
TalkOK ==
  /\ Started =>
        /\ \A t \in Busy : Spoken(thread[t].session, Asked(t))
        /\ \A p \in DOMAIN order : ~Held(p) =>
              Spoken(p, IF p <= next_session_index THEN Len(order[p]) ELSE 0)
  /\ ~Started => \A s \in SessionIds : SessionRecords(s) = {}

LEMMA LiveTalk == Live => TalkOK
<1> SUFFICES ASSUME Live PROVE TalkOK
  OBVIOUS
<1>1. SessionTypes /\ ClientOK /\ EntriesOK
  BY DEF Live
<1>2. ASSUME Started, NEW t \in Busy
      PROVE  Spoken(thread[t].session, Asked(t))
  <2>1. PICK p : p = thread[t].session
    OBVIOUS
  <2>2. PICK n : n = Asked(t)
    OBVIOUS
  <2>3. /\ Grouped(order) /\ p \in DOMAIN order
        /\ thread[t].i \in DOMAIN order[p]
    BY <2>1, BusyThread DEF Live
  <2>4. DOMAIN order[p] = 1 .. Len(order[p]) /\ Len(order[p]) \in Nat
    BY <2>3, PlaceTypes
  <2>5. n \in 0 .. Len(order[p])
    BY <2>2, <2>3, <2>4 DEF Asked
  <2>6. ASSUME NEW j \in DOMAIN order[p]
        PROVE  Phase(order[p][j]) # "new" <=> j <= n
    <3>1. BusyAt(t, j)
      BY <2>1 DEF Live, PhasesOK
    <3>2. j \in Nat /\ thread[t].i \in Nat
      BY <2>3, <2>4
    <3>3. Now(t) = "new" <=> thread[t].pc = "send"
      BY DEF Now
    <3> QED BY <2>1, <2>2, <3>1, <3>2, <3>3 DEF BusyAt, Asked
  <2> QED BY <1>1, <2>1, <2>2, <2>3, <2>5, <2>6, TalkIsSaid DEF Spoken
<1>3. ASSUME Started, NEW p \in DOMAIN order, ~Held(p)
      PROVE  Spoken(p, IF p <= next_session_index THEN Len(order[p]) ELSE 0)
  <2>1. PICK n : n = IF p <= next_session_index THEN Len(order[p]) ELSE 0
    OBVIOUS
  <2>2. Grouped(order)
    BY <1>3, GroupIsGrouped DEF Live, ThreadsOK
  <2>3. DOMAIN order[p] = 1 .. Len(order[p]) /\ Len(order[p]) \in Nat
    BY <2>2, PlaceTypes
  <2>4. n \in 0 .. Len(order[p])
    BY <2>1, <2>3
  <2>5. ASSUME NEW j \in DOMAIN order[p]
        PROVE  Phase(order[p][j]) # "new" <=> j <= n
    <3>1. IdleAt(p, j)
      BY <1>3 DEF Live, PhasesOK
    <3> QED BY <2>1, <2>3, <3>1 DEF IdleAt
  <2> QED BY <1>1, <2>1, <2>2, <2>4, <2>5, TalkIsSaid DEF Spoken
<1>4. ASSUME ~Started, NEW s \in SessionIds
      PROVE  SessionRecords(s) = {}
  <2> SUFFICES ASSUME NEW rec \in SessionRecords(s) PROVE FALSE
    OBVIOUS
  <2>1. PICK e \in AllEntries : Entry(e) = rec
    BY <1>1, RecordsAreEntries
  <2>2. rec.index \in Requests /\ Phase(rec.index) # "new"
    BY <1>1, <2>1, RecordsAreEntries DEF EntriesOK, EntryOK
  <2> QED BY <1>4, <2>2 DEF Live, PhasesOK
<1> QED BY <1>2, <1>3, <1>4 DEF TalkOK

LEMMA LiveTalkNext == Live' => TalkOK'
BY LiveTalk, PTL

\* There is a latest record of a session that has any.
LEMMA LatestRecord ==
  ASSUME NEW R, R # {},
         \A rec \in R : rec.index \in Requests
  PROVE  \E rec \in R : \A other \in R : other.index <= rec.index
<1>1. Requests = 1 .. Len(Data) /\ Len(Data) \in Nat
  BY SessionsAssumption
<1> DEFINE S == {m \in Nat : \E rec \in R : rec.index + m = Len(Data)}
<1>2. S # {}
  <2>1. PICK rec \in R : rec.index \in 1 .. Len(Data)
    BY <1>1
  <2>2. Len(Data) - rec.index \in S
    BY <1>1, <2>1
  <2> QED BY <2>2
<1>3. PICK m \in S : \A j \in S : m <= j
  <2>1. S \in SUBSET Nat
    OBVIOUS
  <2> HIDE DEF S
  <2> QED BY <1>2, <2>1, LeastNatural
<1>4. PICK rec \in R : rec.index + m = Len(Data)
  OBVIOUS
<1>5. ASSUME NEW other \in R
      PROVE  other.index <= rec.index
  <2>1. other.index \in 1 .. Len(Data) /\ rec.index \in 1 .. Len(Data)
    BY <1>1
  <2>2. Len(Data) - other.index \in S
    BY <1>1, <2>1
  <2>3. m <= Len(Data) - other.index
    BY <1>3, <2>2
  <2> QED BY <1>1, <1>4, <2>1, <2>3
<1> QED BY <1>5

\* A step that leaves the records and the bodies leaves the talks.
LEMMA TalkFrame ==
  ASSUME SessionTypes, UNCHANGED records,
         \A q \in Requests : http'[q].body = http[q].body, NEW s
  PROVE  /\ SessionRecords(s)' = SessionRecords(s)
         /\ Talk(s)' = Talk(s)
<1>1. SessionRecords(s)' = SessionRecords(s)
  BY DEF SessionRecords
<1>2. PICK R : R = SessionRecords(s)
  OBVIOUS
<1>3. \A rec \in R : rec.index \in Requests
  BY <1>2, RecordsAreEntries
<1>4. PICK last : last = CHOOSE rec \in R :
                            \A other \in R : other.index <= rec.index
  OBVIOUS
<1>5. Talk(s) = IF R = {} THEN <<>>
                ELSE http[last.index].body[1]
                     \o [i \in DOMAIN last.responses |-> Reply(last.index)]
  BY <1>2, <1>4 DEF Talk
<1>6. Talk(s)' = IF R = {} THEN <<>>
                 ELSE http'[last.index].body[1]
                      \o [i \in DOMAIN last.responses |-> Reply(last.index)]
  BY <1>1, <1>2, <1>4 DEF Talk
<1>7. R # {} => last \in R
  BY <1>3, <1>4, LatestRecord
<1>8. R # {} => http'[last.index].body = http[last.index].body
  BY <1>3, <1>7
<1> QED BY <1>1, <1>5, <1>6, <1>8

\* While thread t's request moves, the other sessions' talks do not.
LEMMA OtherTalks ==
  ASSUME Live, Live', NEW t \in Busy, MovesWith(t), Started',
         NEW q \in DOMAIN order, q # thread[t].session
  PROVE  /\ Cardinality(SessionRecords(SessionAt(q)))'
               = Cardinality(SessionRecords(SessionAt(q)))
         /\ Talk(SessionAt(q))' = Talk(SessionAt(q))
<1>1. /\ Grouped(order) /\ Started /\ t \in Threads /\ order' = order
      /\ next_session_index' = next_session_index
  BY BusyThread DEF Live, MovesWith
<1>2. TalkOK /\ TalkOK'
  BY LiveTalk, LiveTalkNext
<1>3. Busy' = Busy
  BY DEF MovesWith, Busy
<1>4. SessionAt(q)' = SessionAt(q)
  BY <1>1 DEF SessionAt
<1>5. PICK s : s = SessionAt(q)
  OBVIOUS
<1>6. CASE Held(q)
  <2>1. PICK u \in Busy : thread[u].session = q
    BY <1>6 DEF Held
  <2>2. u # t /\ u \in Threads /\ u \in Busy'
    BY <1>3, <2>1 DEF Busy
  <2>3. thread'[u] = thread[u]
    BY <2>2 DEF MovesWith
  <2>4. PICK n : n = Asked(u)
    OBVIOUS
  <2>5. Asked(u)' = n /\ thread'[u].session = q
    BY <2>1, <2>3, <2>4 DEF Asked
  <2>6. Spoken(q, n)
    BY <1>1, <1>2, <2>1, <2>4 DEF TalkOK
  <2>7. Spoken(q, n)'
    <3>1. Spoken(thread[u].session, Asked(u))'
      BY <1>2, <2>2 DEF TalkOK
    <3> QED BY <2>5, <3>1 DEF Spoken
  <2>8. thread[u].chat_history = Said(q, n)
    BY <2>1, <2>4 DEF Live, HistoriesOK, HistoryOK
  <2>9. thread'[u].chat_history = Said(q, n)'
    <3>1. HistoryOK(u)'
      BY <2>2 DEF Live, HistoriesOK
    <3> QED BY <2>5, <3>1 DEF HistoryOK
  <2>10. Said(q, n)' = Said(q, n)
    BY <2>3, <2>8, <2>9
  <2> QED BY <1>4, <2>6, <2>7, <2>10 DEF Spoken
<1>7. CASE ~Held(q)
  <2>1. ~Held(q)'
    BY <1>3, <1>7 DEF Held, MovesWith, Busy
  <2>2. PICK n : n = IF q <= next_session_index THEN Len(order[q]) ELSE 0
    OBVIOUS
  <2>3. Spoken(q, n)
    BY <1>1, <1>2, <1>7, <2>2 DEF TalkOK
  <2>4. Spoken(q, n)'
    BY <1>1, <1>2, <2>1, <2>2 DEF TalkOK
  <2>5. Said(q, n)' = Said(q, n)
    <3>1. CASE n = 0
      BY <3>1 DEF Said
    <3>2. CASE n # 0
      <4>1. n \in DOMAIN order[q] /\ order[q][n] \in Requests
        <5>1. DOMAIN order[q] = 1 .. Len(order[q])
              /\ Len(order[q]) \in Nat \ {0}
              /\ \A j \in DOMAIN order[q] : order[q][j] \in Requests
          BY <1>1, PlaceTypes
        <5> QED BY <2>2, <3>2, <5>1
      <4>2. order[q][n] # Payload(t)
        <5>1. /\ thread[t].session \in DOMAIN order
              /\ thread[t].i \in DOMAIN order[thread[t].session]
              /\ Payload(t) = order[thread[t].session][thread[t].i]
          BY BusyThread DEF Live
        <5> QED BY <1>1, <4>1, <5>1, OnePlace
      <4>3. PICK k \in Requests \ {Payload(t)} : k = order[q][n]
        BY <4>1, <4>2
      <4>4. Phase(k)' = Phase(k) /\ http'[k].body = http[k].body
        BY <4>3 DEF MovesWith, QuietBut
      <4> QED BY <1>1, <4>3, <4>4 DEF Said
    <3> QED BY <3>1, <3>2
  <2> QED BY <1>4, <2>3, <2>4, <2>5 DEF Spoken
<1> QED BY <1>6, <1>7

LEMMA OpenAre == OpenSessions = {SessionAt(thread[t].session) : t \in Busy}
BY DEF OpenSessions, SessionAt, Busy

LEMMA PoolStays ==
  ASSUME \A s \in SessionIds :
            /\ Talk(s)' = Talk(s)
            /\ Cardinality(SessionRecords(s))'
                 = Cardinality(SessionRecords(s)),
         OpenSessions' = OpenSessions, concurrency' = concurrency,
         terminated' = terminated, main' = "threw" <=> main = "threw"
  PROVE  UNCHANGED Pool!poolVars
<1>1. [s \in SessionIds |-> Talk(s)]' = [s \in SessionIds |-> Talk(s)]
  OBVIOUS
<1>2. [s \in SessionIds |-> Cardinality(SessionRecords(s))]'
        = [s \in SessionIds |-> Cardinality(SessionRecords(s))]
  OBVIOUS
<1>3. (terminated \/ main = "threw")' = (terminated \/ main = "threw")
  OBVIOUS
<1> HIDE DEF OpenSessions, Talk, SessionRecords
<1> QED BY <1>1, <1>2, <1>3 DEF Pool!poolVars

\* A step that leaves records, bodies and threads is none of the pool's.
LEMMA PoolFrame ==
  ASSUME SessionTypes, UNCHANGED <<records, thread, concurrency, terminated>>,
         \A q \in Requests : http'[q].body = http[q].body,
         order' = order \/ (Busy = {} /\ Busy' = {}),
         main' = "threw" <=> main = "threw"
  PROVE  UNCHANGED Pool!poolVars
<1>1. \A s \in SessionIds :
         /\ Talk(s)' = Talk(s)
         /\ Cardinality(SessionRecords(s))' = Cardinality(SessionRecords(s))
  BY TalkFrame
<1>2. OpenSessions' = OpenSessions
  BY DEF OpenSessions, Busy
<1> QED BY <1>1, <1>2, PoolStays

LEMMA DyingChanges ==
  ASSUME Live, ~terminated, SessionsNext, terminated'
  PROVE  /\ Terminate /\ main # "threw"
         /\ \A q \in Requests : http'[q].body = http[q].body
<1>1. ASSUME NEW t \in Threads, Thread(t)
      PROVE  Terminate /\ UNCHANGED http /\ main # "threw"
  <2>1. Terminate /\ UNCHANGED chatVars /\ t \in Busy
    <3>1. CASE NextSession(t)
      BY <3>1 DEF NextSession
    <3>2. CASE SendSessionRequest(t)
      BY <3>2 DEF SendSessionRequest, Busy
    <3>3. CASE WaitForResponse(t)
      BY <3>3 DEF WaitForResponse
    <3>4. CASE GetAndWaitForDelay(t)
      BY <3>4 DEF GetAndWaitForDelay, Busy
    <3> QED BY <1>1, <3>1, <3>2, <3>3, <3>4 DEF Thread
  <2> QED BY <2>1, BusyThread DEF Live, Started, chatVars
<1>2. ASSUME NEW r \in Requests, SessionTransfer(r)
      PROVE  /\ Terminate /\ main # "threw"
             /\ \A q \in Requests : http'[q].body = http[q].body
  <2>1. CASE RequestProvider(r) /\ UNCHANGED sessionVars
    BY <2>1 DEF sessionVars
  <2>2. CASE \/ ResponseHandler(r) /\ Callback(r, PieceResult(r))
             \/ CompleteTransfer(r) /\ Callback(r, FinalResult(r))
    <3>1. Terminate
      BY <2>2 DEF Callback, sessionVars
    <3>2. r \in InTransit
      BY <2>2 DEF ResponseHandler, CompleteTransfer, InTransit
    <3> QED BY <2>2, <3>1, <3>2, BodiesStay, OutIsWaited DEF Live, Started
  <2> QED BY <1>2, <2>1, <2>2 DEF SessionTransfer
<1>3. CASE Main
  BY <1>3 DEF Main, MakeThreads, JoinThreads, DestroyManager, sessionVars
<1>4. CASE SessionCurlLoop
  BY <1>4 DEF SessionCurlLoop, sessionVars
<1> QED BY <1>1, <1>2, <1>3, <1>4 DEF SessionsNext

\* The program's end gives the pool up.
LEMMA DyingGivesUp ==
  ASSUME Live, ~terminated, SessionsNext, terminated'
  PROVE  Pool!PoolNext
<1>1. /\ Terminate /\ main # "threw"
      /\ \A q \in Requests : http'[q].body = http[q].body
  BY DyingChanges
<1>2. \A s \in SessionIds :
         /\ Talk(s)' = Talk(s)
         /\ Cardinality(SessionRecords(s))' = Cardinality(SessionRecords(s))
  BY <1>1, TalkFrame DEF Live, Terminate
<1>3. OpenSessions' = OpenSessions /\ concurrency' = concurrency
  BY <1>1 DEF OpenSessions, Terminate, dataVars
<1>4. [s \in SessionIds |-> Talk(s)]' = [s \in SessionIds |-> Talk(s)]
  BY <1>2
<1>5. [s \in SessionIds |-> Cardinality(SessionRecords(s))]'
        = [s \in SessionIds |-> Cardinality(SessionRecords(s))]
  BY <1>2
<1>6. (terminated \/ main = "threw")' = TRUE
  OBVIOUS
<1> HIDE DEF OpenSessions, Talk, SessionRecords
<1>7. Pool!GiveUp
  BY <1>3, <1>4, <1>5, <1>6 DEF Pool!GiveUp
<1> QED BY <1>1, <1>7 DEF Pool!PoolNext

\* Main's steps, the curl loop and the pieces of plain answers.
LEMMA MainInPool ==
  ASSUME Live, ~terminated, Main
  PROVE  Pool!PoolNext \/ UNCHANGED Pool!poolVars
<1>1. CASE MakeThreads
  <2>1. /\ Busy = {} /\ main # "threw"
        /\ UNCHANGED <<http, records, concurrency, terminated>>
    <3>1. \A t \in Threads : thread[t].pc = "none"
      BY <1>1 DEF MakeThreads, Live, ThreadsOK, Started
    <3> QED BY <1>1, <3>1 DEF MakeThreads, Busy, chatVars
  <2>2. \A s \in SessionIds :
           /\ Talk(s)' = Talk(s)
           /\ Cardinality(SessionRecords(s))' = Cardinality(SessionRecords(s))
    BY <2>1, TalkFrame DEF Live
  <2>3. Busy' = {}
    <3>1. \A t \in Threads : thread'[t].pc \in {"next", "none"}
      <4>1. CASE UNCHANGED thread
        BY <1>1, <4>1 DEF MakeThreads, Live, ThreadsOK, Started
      <4>2. CASE thread' = [t \in Threads |->
                   [thread[t] EXCEPT !.pc = IF t <= concurrency THEN "next"
                                            ELSE "none"]]
        <5>1. \A t \in Threads : thread[t] \in SessionThread
          BY DEF Live, SessionTypes
        <5>2. ASSUME NEW t \in Threads
              PROVE  thread'[t].pc \in {"next", "none"}
          <6>1. thread'[t] = [thread[t] EXCEPT
                                 !.pc = IF t <= concurrency THEN "next"
                                        ELSE "none"]
            BY <4>2
          <6> QED BY <5>1, <6>1 DEF SessionThread
        <5> QED BY <5>2
      <4> QED BY <1>1, <4>1, <4>2 DEF MakeThreads
    <3> QED BY <3>1 DEF Busy
  <2>4. OpenSessions' = OpenSessions
    <3>1. OpenSessions = {}
      BY <2>1 DEF OpenSessions, Busy
    <3>2. OpenSessions' = {}
      BY <2>3 DEF OpenSessions, Busy
    <3> QED BY <3>1, <3>2
  <2>5. CASE main' # "threw"
    BY <2>1, <2>2, <2>4, <2>5, PoolStays
  <2>6. CASE main' = "threw"
    <3>1. [s \in SessionIds |-> Talk(s)]' = [s \in SessionIds |-> Talk(s)]
      BY <2>2
    <3>2. [s \in SessionIds |-> Cardinality(SessionRecords(s))]'
            = [s \in SessionIds |-> Cardinality(SessionRecords(s))]
      BY <2>2
    <3>3. (terminated \/ main = "threw")' = TRUE
      BY <2>6
    <3> HIDE DEF OpenSessions, Talk, SessionRecords
    <3>4. Pool!GiveUp
      BY <2>1, <2>4, <3>1, <3>2, <3>3 DEF Pool!GiveUp
    <3> QED BY <2>1, <3>4 DEF Pool!PoolNext
  <2> QED BY <2>5, <2>6
<1>2. CASE JoinThreads
  BY <1>2, PoolFrame DEF JoinThreads, chatVars, dataVars, Live
<1>3. CASE DestroyManager
  BY <1>3, PoolFrame DEF DestroyManager, DestroyClient, sessionVars, Live
<1> QED BY <1>1, <1>2, <1>3 DEF Main

\* What the pool says of the payloads of a session.
LEMMA TurnsAt ==
  ASSUME Grouped(order), NEW p \in DOMAIN order
  PROVE  /\ SessionAt(p) \in SessionIds
         /\ Len(TurnsOfSession[SessionAt(p)]) = Len(order[p])
         /\ \A i \in DOMAIN order[p] :
               /\ TurnsOfSession[SessionAt(p)][i] = Messages(order[p][i])
               /\ RepliesOfSession[SessionAt(p)][i] = Reply(order[p][i])
<1>1. PICK s \in SessionIds : s = SessionAt(p)
  BY PlaceOfSession
<1>2. PICK q : q = order[p]
  OBVIOUS
<1>3. SessionPayloads(s) = q
  BY <1>1, <1>2 DEF Grouped, SessionAt
<1>4. DOMAIN q = 1 .. Len(q) /\ Len(q) \in Nat
  BY <1>2, PlaceTypes
<1>5. /\ TurnsOfSession[s] = [i \in 1 .. Len(q) |-> Messages(q[i])]
      /\ RepliesOfSession[s] = [i \in 1 .. Len(q) |-> Reply(q[i])]
  BY <1>3, <1>4 DEF TurnsOfSession, RepliesOfSession
<1>6. Len(TurnsOfSession[s]) = Len(q)
  BY <1>4, <1>5
<1> QED BY <1>1, <1>2, <1>4, <1>5, <1>6

\* A busy thread's session is open, and replied to unless its request is out.
LEMMA BusyTalk ==
  ASSUME Live, NEW t \in Busy, NEW s, s = SessionAt(thread[t].session)
  PROVE  /\ s \in SessionIds /\ s \in OpenSessions
         /\ Cardinality(SessionRecords(s)) = Asked(t)
         /\ Talk(s) = thread[t].chat_history
         /\ Pool!Replied(s) <=> Now(t) # "out"
<1>1. PICK p : p = thread[t].session
  OBVIOUS
<1>2. PICK n : n = Asked(t)
  OBVIOUS
<1>3. /\ Grouped(order) /\ p \in DOMAIN order /\ Started
      /\ thread[t].i \in DOMAIN order[p] /\ s = SessionAt(p)
  BY <1>1, BusyThread DEF Live
<1>4. DOMAIN order[p] = 1 .. Len(order[p]) /\ Len(order[p]) \in Nat
      /\ \A j \in DOMAIN order[p] : order[p][j] \in Requests
  BY <1>3, PlaceTypes
<1>5. s \in SessionIds /\ s \in OpenSessions
  BY <1>1, <1>3, PlaceOfSession, OpenAre
<1>6. Cardinality(SessionRecords(s)) = n /\ Talk(s) = Said(p, n)
  <2>1. TalkOK
    BY LiveTalk
  <2> QED BY <1>1, <1>2, <1>3, <2>1 DEF TalkOK, Spoken
<1>7. Talk(s) = thread[t].chat_history
  BY <1>1, <1>2, <1>6 DEF Live, HistoriesOK, HistoryOK
<1>8. PICK h : h = Talk(s)
  OBVIOUS
<1>9. Pool!Replied(s) <=>
        (n > 0 => h # <<>> /\ h[Len(h)] = RepliesOfSession[s][n])
  <2>1. /\ [q \in SessionIds |-> Talk(q)][s] = h
        /\ [q \in SessionIds |-> Cardinality(SessionRecords(q))][s] = n
    BY <1>5, <1>6, <1>8
  <2> HIDE DEF Talk, SessionRecords
  <2> QED BY <2>1 DEF Pool!Replied
<1>10. CASE n = 0
  <2>1. thread[t].pc = "send"
    BY <1>2, <1>3, <1>4, <1>10 DEF Asked
  <2>2. Now(t) = "new"
    BY <2>1 DEF Now
  <2> QED BY <1>2, <1>5, <1>6, <1>7, <1>9, <1>10, <2>2
<1>11. CASE n # 0
  <2>1. n \in DOMAIN order[p] /\ n > 0
    BY <1>2, <1>3, <1>4, <1>11 DEF Asked
  <2>2. PICK k \in Requests : k = order[p][n]
    BY <1>4, <2>1
  <2>3. Phase(k) = IF Now(t) = "out" THEN "out" ELSE "done"
    <3>1. BusyAt(t, n)
      BY <1>1, <2>1 DEF Live, PhasesOK
    <3>2. CASE thread[t].pc = "send"
      <4>1. n < thread[t].i /\ Now(t) = "new"
        BY <1>2, <1>3, <1>4, <3>2 DEF Asked, Now
      <4> QED BY <1>1, <2>2, <3>1, <4>1 DEF BusyAt
    <3>3. CASE thread[t].pc # "send"
      <4>1. n = thread[t].i /\ Now(t) \in {"out", "done"}
        BY <1>2, <3>3 DEF Asked, Now
      <4>2. ~(n < thread[t].i) /\ ~(n > thread[t].i)
        BY <1>4, <2>1, <4>1
      <4> QED BY <1>1, <2>2, <3>1, <4>1, <4>2 DEF BusyAt
    <3> QED BY <3>2, <3>3
  <2>4. /\ http[k].body[1] \in Histories
        /\ http[k].body[1] # <<>> => Last(http[k].body[1]) # Reply(k)
    BY <2>3, BodyOf DEF Live
  <2>5. h = IF Now(t) = "out" THEN http[k].body[1]
            ELSE Append(http[k].body[1], Reply(k))
    <3>1. Phase(k) # "new" /\ n # 0
      BY <1>11, <2>3
    <3> QED BY <1>3, <1>6, <1>8, <2>1, <2>2, <2>3, <3>1, SaidIs DEF Live
  <2>6. RepliesOfSession[s][n] = Reply(k)
    BY <1>3, <2>1, <2>2, TurnsAt
  <2>7. (h # <<>> /\ h[Len(h)] = Reply(k)) <=> Now(t) # "out"
    <3>1. CASE Now(t) = "out"
      BY <2>4, <2>5, <3>1 DEF Last
    <3>2. CASE Now(t) # "out"
      <4>1. PICK g \in Seq(Message) : g = http[k].body[1]
        BY <2>4 DEF Histories
      <4>2. PICK m \in Message : m = Reply(k)
        BY MessagesTyped
      <4>3. h = Append(g, m)
        BY <2>5, <3>2, <4>1, <4>2
      <4>4. h # <<>> /\ h[Len(h)] = m
        BY <4>3
      <4> QED BY <3>2, <4>2, <4>4
    <3> QED BY <3>1, <3>2
  <2> QED BY <1>2, <1>5, <1>6, <1>7, <1>9, <2>1, <2>6, <2>7
<1> QED BY <1>2, <1>10, <1>11, <1>4, <1>3 DEF Asked

\* NextSession opens a session that was not, or ends the thread.
LEMMA NextSessionInPool ==
  ASSUME Live, Live', ~terminated, NEW t \in Threads, NextSession(t)
  PROVE  Pool!PoolNext \/ UNCHANGED Pool!poolVars
<1>1. /\ UNCHANGED <<records, http, order, concurrency, main, terminated>>
      /\ thread[t].pc = "next" /\ thread \in [Threads -> SessionThread]
  BY DEF NextSession, chatVars, dataVars, Live, SessionTypes
<1>2. Started /\ Grouped(order) /\ main # "threw"
  BY <1>1, GroupIsGrouped DEF Live, ThreadsOK, Started
<1>3. \A s \in SessionIds :
         /\ Talk(s)' = Talk(s)
         /\ Cardinality(SessionRecords(s))' = Cardinality(SessionRecords(s))
  BY <1>1, TalkFrame DEF Live
<1>4. t \notin Busy
  BY <1>1 DEF Busy
<1>5. \A u \in Threads \ {t} : thread'[u] = thread[u]
  BY <1>1 DEF NextSession
<1>6. CASE next_session_index >= Len(order)
  <2>1. thread'[t].pc = "ended"
    BY <1>1, <1>6 DEF NextSession, SessionThread
  <2>2. Busy' = Busy
    BY <1>4, <1>5, <2>1 DEF Busy
  <2>3. \A u \in Busy : thread'[u] = thread[u]
    BY <1>4, <1>5 DEF Busy
  <2>4. OpenSessions' = OpenSessions
    <3>1. OpenSessions = {SessionAt(thread[u].session) : u \in Busy}
      BY OpenAre
    <3>2. OpenSessions' = {SessionAt(thread'[u].session) : u \in Busy'}
      BY <1>1 DEF OpenSessions, SessionAt, Busy
    <3> QED BY <2>2, <2>3, <3>1, <3>2
  <2> QED BY <1>1, <1>3, <2>4, PoolStays
<1>7. CASE ~(next_session_index >= Len(order))
  <2>1. PICK p : p = next_session_index + 1
    OBVIOUS
  <2>2. next_session_index \in Nat /\ Len(order) \in Nat
        /\ DOMAIN order = 1 .. Len(order)
    BY <1>2 DEF Grouped, Live, SessionTypes
  <2>3. p \in DOMAIN order /\ ~(p <= next_session_index)
    BY <1>7, <2>1, <2>2
  <2>4. PICK s \in SessionIds : s = SessionAt(p)
    BY <1>2, <2>3, PlaceOfSession
  <2>5. thread'[t].pc = "send" /\ thread'[t].session = p
    BY <1>1, <1>7, <2>1 DEF NextSession
  <2>6. Busy' = Busy \cup {t}
    BY <1>4, <1>5, <2>5 DEF Busy
  <2>7. \A u \in Busy : thread'[u] = thread[u] /\ thread[u].session # p
    BY <1>4, <1>5, <2>3 DEF Busy, Live, PlacesOK
  <2>8. OpenSessions' = OpenSessions \cup {s}
    <3>1. OpenSessions = {SessionAt(thread[u].session) : u \in Busy}
      BY OpenAre
    <3>2. OpenSessions' = {SessionAt(thread'[u].session) : u \in Busy'}
      BY <1>1 DEF OpenSessions, SessionAt, Busy
    <3> QED BY <2>4, <2>5, <2>6, <2>7, <3>1, <3>2
  <2>9. s \notin OpenSessions
    <3> SUFFICES ASSUME s \in OpenSessions PROVE FALSE
      OBVIOUS
    <3>1. PICK u \in Busy : s = SessionAt(thread[u].session)
      BY OpenAre
    <3>2. thread[u].session \in DOMAIN order
      BY BusyThread DEF Live
    <3>3. thread[u].session = p
      BY <1>2, <2>3, <2>4, <3>1, <3>2, PlaceOfSession
    <3> QED BY <2>7, <3>3
  <2>10. Cardinality(SessionRecords(s)) = 0
    <3>1. ~Held(p)
      BY <2>7 DEF Held
    <3>2. TalkOK
      BY LiveTalk
    <3> QED BY <1>2, <2>3, <2>4, <3>1, <3>2 DEF TalkOK, Spoken
  <2>11. Cardinality(OpenSessions) < concurrency
    <3> DEFINE f == [u \in Busy |-> SessionAt(thread[u].session)]
               C == 1 .. concurrency
    <3>1. concurrency \in Nat \ {0} /\ Threads \subseteq Nat \ {0}
      BY SessionsAssumption DEF Live, SessionTypes
    <3>2. IsFiniteSet(C) /\ Cardinality(C) = concurrency
      <4>1. 1 \in Int /\ concurrency \in Int
        BY <3>1
      <4>2. /\ IsFiniteSet(C)
            /\ Cardinality(C) = IF 1 > concurrency THEN 0
                                ELSE concurrency - 1 + 1
        <5> HIDE DEF C
        <5> QED BY <4>1, FS_Interval DEF C
      <4> QED BY <3>1, <4>2
    <3>3. ASSUME NEW u \in Threads, thread[u].pc # "none"
          PROVE  u \in C
      <4>1. ~(u > concurrency)
        BY <1>2, <3>3 DEF Live, ThreadsOK
      <4> QED BY <3>1, <4>1
    <3>4. t \in C /\ Busy \subseteq C \ {t}
      BY <1>1, <1>4, <3>3 DEF Busy
    <3> HIDE DEF C
    <3>5. IsFiniteSet(C \ {t}) /\ Cardinality(C \ {t}) = concurrency - 1
      BY <3>2, <3>4, FS_RemoveElement
    <3>6. IsFiniteSet(Busy) /\ Cardinality(Busy) <= concurrency - 1
      BY <3>4, <3>5, FS_Subset
    <3>7. f \in Surjection(Busy, OpenSessions)
      BY OpenAre DEF Surjection
    <3> HIDE DEF f
    <3>8. /\ IsFiniteSet(OpenSessions)
          /\ Cardinality(OpenSessions) <= Cardinality(Busy)
      BY <3>6, <3>7, FS_Surjection
    <3>9. Cardinality(OpenSessions) \in Nat /\ Cardinality(Busy) \in Nat
      BY <3>6, <3>8, FS_CardinalityType
    <3> QED BY <3>1, <3>6, <3>8, <3>9
  <2>12. [q \in SessionIds |-> Talk(q)]' = [q \in SessionIds |-> Talk(q)]
    BY <1>3
  <2>13. [q \in SessionIds |-> Cardinality(SessionRecords(q))]'
           = [q \in SessionIds |-> Cardinality(SessionRecords(q))]
    BY <1>3
  <2>14. /\ (terminated \/ main = "threw")' = FALSE
         /\ (terminated \/ main = "threw") = FALSE
    BY <1>1, <1>2
  <2> HIDE DEF OpenSessions, Talk, SessionRecords
  <2>15. Pool!Open(s)
    BY <1>1, <2>8, <2>9, <2>10, <2>11, <2>12, <2>13, <2>14,
       PoolCardinality DEF Pool!Open
  <2> QED BY <2>14, <2>15 DEF Pool!PoolNext, Pool!Proceed
<1> QED BY <1>6, <1>7

\* What a step of the request a thread is at means to the pool.
LEMMA PoolMoves ==
  ASSUME Live, Live', NEW t \in Busy, MovesWith(t),
         UNCHANGED <<concurrency, terminated>>, ~terminated,
         NEW s, s = SessionAt(thread[t].session)
  PROVE  /\ s \in SessionIds /\ OpenSessions' = OpenSessions
         /\ [q \in SessionIds |-> Talk(q)]' =
              [[q \in SessionIds |-> Talk(q)] EXCEPT
                  ![s] = thread'[t].chat_history]
         /\ [q \in SessionIds |-> Cardinality(SessionRecords(q))]' =
              [[q \in SessionIds |-> Cardinality(SessionRecords(q))] EXCEPT
                  ![s] = Asked(t)']
         /\ (terminated \/ main = "threw")' = FALSE
         /\ (terminated \/ main = "threw") = FALSE
<1>1. PICK p : p = thread[t].session
  OBVIOUS
<1>2. /\ Grouped(order) /\ p \in DOMAIN order /\ Started /\ t \in Threads
      /\ UNCHANGED <<order, main>> /\ s = SessionAt(p)
  BY <1>1, BusyThread DEF Live, MovesWith
<1>3. s \in SessionIds
  BY <1>2, PlaceOfSession
<1>4. Busy' = Busy /\ t \in Busy'
  BY DEF MovesWith, Busy
<1>5. Started' /\ thread'[t].session = p
  BY <1>1, <1>2 DEF Started, MovesWith
<1>6. TalkOK'
  BY LiveTalkNext
<1>7. PICK n : n = Asked(t)'
  OBVIOUS
<1>8. PICK h : h = thread'[t].chat_history
  OBVIOUS
<1>9. Cardinality(SessionRecords(s))' = n /\ Talk(s)' = h
  <2>1. Spoken(p, n)'
    <3>1. Spoken(thread[t].session, Asked(t))'
      BY <1>4, <1>5, <1>6 DEF TalkOK
    <3> QED BY <1>5, <1>7, <3>1 DEF Spoken
  <2>2. Said(p, n)' = h
    <3>1. HistoryOK(t)'
      BY <1>4 DEF Live, HistoriesOK
    <3> QED BY <1>5, <1>7, <1>8, <3>1 DEF HistoryOK
  <2>3. SessionAt(p)' = s
    BY <1>2 DEF SessionAt
  <2> QED BY <2>1, <2>2, <2>3 DEF Spoken
<1>10. ASSUME NEW q \in SessionIds, q # s
       PROVE  /\ Cardinality(SessionRecords(q))'
                    = Cardinality(SessionRecords(q))
              /\ Talk(q)' = Talk(q)
  <2>1. PICK p2 \in DOMAIN order : SessionAt(p2) = q
    BY <1>2, PlaceOfSession
  <2>2. p2 # thread[t].session
    BY <1>1, <1>2, <1>10, <2>1
  <2>3. SessionAt(p2)' = q
    BY <1>2, <2>1 DEF SessionAt
  <2> QED BY <1>5, <2>1, <2>2, <2>3, OtherTalks
<1>11. OpenSessions' = OpenSessions
  <2>1. \A u \in Busy : thread'[u].session = thread[u].session
    BY DEF MovesWith, Busy
  <2>2. OpenSessions' = {SessionAt(thread'[u].session) : u \in Busy'}
    BY <1>2 DEF OpenSessions, SessionAt, Busy
  <2> QED BY <1>4, <2>1, <2>2, OpenAre
<1>12. [q \in SessionIds |-> Talk(q)]' =
         [[q \in SessionIds |-> Talk(q)] EXCEPT ![s] = h]
  <2> HIDE DEF Talk
  <2> QED BY <1>3, <1>9, <1>10
<1>13. [q \in SessionIds |-> Cardinality(SessionRecords(q))]' =
         [[q \in SessionIds |-> Cardinality(SessionRecords(q))] EXCEPT
             ![s] = n]
  <2> HIDE DEF SessionRecords
  <2> QED BY <1>3, <1>9, <1>10
<1>14. /\ (terminated \/ main = "threw")' = FALSE
       /\ (terminated \/ main = "threw") = FALSE
  BY <1>2 DEF Started
<1> QED BY <1>3, <1>7, <1>8, <1>11, <1>12, <1>13, <1>14

LEMMA SendInPool ==
  ASSUME Live, Live', ~terminated, NEW t \in Threads, SendSessionRequest(t),
         ~terminated'
  PROVE  Pool!PoolNext
<1>1. /\ t \in Busy /\ thread[t].pc = "send" /\ MovesWith(t)
      /\ UNCHANGED concurrency
  BY SendChangesSession, SendSessionKeeps
<1>2. PICK s : s = SessionAt(thread[t].session)
  OBVIOUS
<1>3. PICK i : i = thread[t].i
  OBVIOUS
<1>4. PICK g : g = thread[t].chat_history
  OBVIOUS
<1>5. thread' = [thread EXCEPT ![t].pc = "wait",
                               ![t].chat_history = UpdateHistory(t)]
  BY SendChangesSession
<1>6. thread'[t].chat_history = UpdateHistory(t) /\ Asked(t)' = i
  <2>1. thread[t] \in SessionThread
        /\ thread'[t] = [thread[t] EXCEPT !.pc = "wait",
                                          !.chat_history = UpdateHistory(t)]
    BY <1>5 DEF Live, SessionTypes
  <2>2. /\ thread'[t].pc = "wait" /\ thread'[t].i = i
        /\ thread'[t].chat_history = UpdateHistory(t)
    <3> HIDE DEF UpdateHistory
    <3> QED BY <1>3, <2>1 DEF SessionThread
  <2> QED BY <2>2 DEF Asked
<1>7. /\ s \in SessionIds /\ s \in OpenSessions
      /\ Cardinality(SessionRecords(s)) = i - 1 /\ Talk(s) = g
      /\ Pool!Replied(s)
  <2>1. Asked(t) = i - 1 /\ Now(t) # "out"
    BY <1>1, <1>3 DEF Asked, Now
  <2> QED BY <1>1, <1>2, <1>4, <2>1, BusyTalk
<1>8. /\ i \in Nat \ {0} /\ Grouped(order)
      /\ thread[t].session \in DOMAIN order
      /\ i \in DOMAIN order[thread[t].session]
      /\ Payload(t) = order[thread[t].session][i]
  BY <1>1, <1>3, BusyThread DEF Live
<1>9. /\ i - 1 < Len(TurnsOfSession[s]) /\ (i - 1) + 1 = i
      /\ UpdateHistory(t) = g \o TurnsOfSession[s][i]
  <2>1. /\ Len(TurnsOfSession[s]) = Len(order[thread[t].session])
        /\ TurnsOfSession[s][i] = Messages(Payload(t))
    BY <1>2, <1>8, TurnsAt
  <2>2. i \in 1 .. Len(order[thread[t].session])
        /\ Len(order[thread[t].session]) \in Nat
    BY <1>8, PlaceTypes
  <2> QED BY <1>4, <2>1, <2>2 DEF UpdateHistory
<1>10. /\ OpenSessions' = OpenSessions
       /\ [q \in SessionIds |-> Talk(q)]' =
            [[q \in SessionIds |-> Talk(q)] EXCEPT
                ![s] = g \o TurnsOfSession[s][i]]
       /\ [q \in SessionIds |-> Cardinality(SessionRecords(q))]' =
            [[q \in SessionIds |-> Cardinality(SessionRecords(q))] EXCEPT
                ![s] = i]
       /\ (terminated \/ main = "threw")' = FALSE
       /\ (terminated \/ main = "threw") = FALSE
  <2>1. UNCHANGED terminated
    BY DEF SendSessionRequest, Terminate
  <2>2. thread'[t].chat_history = g \o TurnsOfSession[s][i]
    BY <1>6, <1>9
  <2> HIDE DEF UpdateHistory, TurnsOfSession
  <2> QED BY <1>1, <1>2, <1>6, <2>1, <2>2, PoolMoves
<1> DEFINE talk == [q \in SessionIds |-> Talk(q)]
           turn == [q \in SessionIds |-> Cardinality(SessionRecords(q))]
<1>11. talk[s] = g /\ turn[s] = i - 1
  BY <1>7
<1> HIDE DEF OpenSessions, Talk, SessionRecords, TurnsOfSession
<1>12. /\ talk' = [talk EXCEPT ![s] = @ \o TurnsOfSession[s][turn[s] + 1]]
       /\ turn' = [turn EXCEPT ![s] = @ + 1]
  BY <1>7, <1>9, <1>10, <1>11
<1>13. Pool!Ask(s)
  BY <1>1, <1>7, <1>9, <1>10, <1>11, <1>12 DEF Pool!Ask
<1> QED BY <1>7, <1>10, <1>13 DEF Pool!PoolNext, Pool!Proceed

LEMMA CompleteInPool ==
  ASSUME Live, Live', ~terminated, NEW r \in Requests, CompleteTransfer(r),
         Callback(r, FinalResult(r)), ~terminated'
  PROVE  Pool!PoolNext
<1>1. PICK t \in Busy : t = Waiting(r)
  <2>1. r \in InTransit
    BY CompleteChangesSession
  <2> QED BY <2>1, OutIsWaited DEF Live
<1>2. /\ thread[t].pc = "wait" /\ ~promise[t] /\ Payload(t) = r
      /\ t \in Threads
  <2>1. r \in InTransit
    BY CompleteChangesSession
  <2> QED BY <1>1, <2>1, OutIsWaited DEF Live, Busy
<1>3. /\ MovesWith(t) /\ UNCHANGED concurrency
      /\ thread' = [thread EXCEPT ![t].chat_history = Append(@, Reply(r))]
  BY <1>1, CompleteChangesSession, CompleteKeeps
<1>4. PICK s : s = SessionAt(thread[t].session)
  OBVIOUS
<1>5. PICK i : i = thread[t].i
  OBVIOUS
<1>6. PICK g : g = thread[t].chat_history
  OBVIOUS
<1>7. thread'[t].chat_history = Append(g, Reply(r)) /\ Asked(t)' = i
  <2>1. thread[t] \in SessionThread
        /\ thread'[t] = [thread[t] EXCEPT
                           !.chat_history = Append(@, Reply(r))]
    BY <1>2, <1>3 DEF Live, SessionTypes
  <2>2. /\ thread'[t].pc = "wait" /\ thread'[t].i = i
        /\ thread'[t].chat_history = Append(g, Reply(r))
    BY <1>2, <1>5, <1>6, <2>1 DEF SessionThread
  <2> QED BY <2>2 DEF Asked
<1>8. /\ s \in SessionIds /\ s \in OpenSessions
      /\ Cardinality(SessionRecords(s)) = i /\ Talk(s) = g
      /\ ~Pool!Replied(s)
  <2>1. Asked(t) = i /\ Now(t) = "out"
    BY <1>2, <1>5 DEF Asked, Now
  <2> QED BY <1>1, <1>4, <1>6, <2>1, BusyTalk
<1>9. RepliesOfSession[s][i] = Reply(r)
  <2>1. /\ Grouped(order)
        /\ thread[t].session \in DOMAIN order
        /\ i \in DOMAIN order[thread[t].session]
        /\ Payload(t) = order[thread[t].session][i]
    BY <1>1, <1>5, BusyThread DEF Live
  <2> QED BY <1>2, <1>4, <2>1, TurnsAt
<1>10. /\ OpenSessions' = OpenSessions
       /\ [q \in SessionIds |-> Talk(q)]' =
            [[q \in SessionIds |-> Talk(q)] EXCEPT
                ![s] = Append(g, Reply(r))]
       /\ [q \in SessionIds |-> Cardinality(SessionRecords(q))]' =
            [[q \in SessionIds |-> Cardinality(SessionRecords(q))] EXCEPT
                ![s] = i]
       /\ (terminated \/ main = "threw")' = FALSE
       /\ (terminated \/ main = "threw") = FALSE
  <2>1. UNCHANGED terminated
    BY <1>1, <1>2 DEF Callback, Terminate, sessionVars, FinalResult
  <2> QED BY <1>1, <1>3, <1>4, <1>7, <2>1, PoolMoves
<1> DEFINE talk == [q \in SessionIds |-> Talk(q)]
           turn == [q \in SessionIds |-> Cardinality(SessionRecords(q))]
<1>11. talk[s] = g /\ turn[s] = i
  BY <1>8
<1> HIDE DEF OpenSessions, Talk, SessionRecords, RepliesOfSession
<1>12. /\ talk' = [talk EXCEPT ![s] =
                     Append(@, RepliesOfSession[s][turn[s]])]
       /\ turn' = turn
  BY <1>8, <1>9, <1>10, <1>11
<1>13. Pool!Reply(s)
  BY <1>3, <1>8, <1>10, <1>12 DEF Pool!Reply
<1> QED BY <1>8, <1>10, <1>13 DEF Pool!PoolNext, Pool!Proceed

\* WaitForResponse closes the session after its last reply.
LEMMA WaitInPool ==
  ASSUME Live, Live', ~terminated, NEW t \in Threads, WaitForResponse(t)
  PROVE  Pool!PoolNext \/ UNCHANGED Pool!poolVars
<1>1. /\ UNCHANGED <<records, http, order, concurrency, main, terminated>>
      /\ thread[t].pc = "wait" /\ promise[t] /\ t \in Busy
      /\ thread \in [Threads -> SessionThread]
  BY DEF WaitForResponse, chatVars, dataVars, Live, SessionTypes, Busy
<1>2. PICK p : p = thread[t].session
  OBVIOUS
<1>3. PICK s : s = SessionAt(p)
  OBVIOUS
<1>4. /\ Started /\ Grouped(order) /\ main # "threw" /\ p \in DOMAIN order
  BY <1>1, <1>2, BusyThread DEF Live, Started
<1>5. \A q \in SessionIds :
         /\ Talk(q)' = Talk(q)
         /\ Cardinality(SessionRecords(q))' = Cardinality(SessionRecords(q))
  BY <1>1, TalkFrame DEF Live
<1>6. thread[t] \in SessionThread
      /\ thread'[t] = [thread[t] EXCEPT !.pc = IF IsLastRequest(t) THEN "next"
                                               ELSE "delay"]
      /\ \A u \in Threads \ {t} : thread'[u] = thread[u]
  BY <1>1 DEF WaitForResponse
<1>7. thread'[t].session = p
  BY <1>2, <1>6 DEF SessionThread
<1>8. OpenSessions' = {SessionAt(thread'[u].session) : u \in Busy'}
  BY <1>1 DEF OpenSessions, SessionAt, Busy
<1>9. CASE ~IsLastRequest(t)
  <2>1. thread'[t].pc = "delay"
    BY <1>6, <1>9 DEF SessionThread
  <2>2. Busy' = Busy
    BY <1>1, <1>6, <2>1 DEF Busy
  <2>3. \A u \in Busy : thread'[u].session = thread[u].session
    BY <1>2, <1>6, <1>7 DEF Busy
  <2>4. OpenSessions' = OpenSessions
    BY <1>8, <2>2, <2>3, OpenAre
  <2> QED BY <1>1, <1>5, <2>4, PoolStays
<1>10. CASE IsLastRequest(t)
  <2>1. thread'[t].pc = "next"
    BY <1>6, <1>10 DEF SessionThread
  <2>2. Busy' = Busy \ {t}
    BY <1>1, <1>6, <2>1 DEF Busy
  <2>3. ASSUME NEW u \in Busy \ {t}
        PROVE  thread'[u] = thread[u] /\ SessionAt(thread[u].session) # s
    <3>1. u \in Threads /\ thread[u].session \in DOMAIN order
      BY BusyThread DEF Live
    <3>2. thread[u].session # p
      BY <1>1, <1>2 DEF Live, PlacesOK
    <3>3. SessionAt(thread[u].session) # s
      BY <1>3, <1>4, <3>1, <3>2, PlaceOfSession
    <3> QED BY <1>6, <3>1, <3>3
  <2>4. OpenSessions' = OpenSessions \ {s}
    <3>1. OpenSessions = {SessionAt(thread[u].session) : u \in Busy}
      BY OpenAre
    <3>2. Busy = (Busy \ {t}) \cup {t}
      BY <1>1
    <3> QED BY <1>2, <1>3, <1>8, <2>2, <2>3, <3>1, <3>2
  <2>5. PICK n : n = Len(order[p])
    OBVIOUS
  <2>6. /\ s \in SessionIds /\ s \in OpenSessions /\ Pool!Replied(s)
        /\ Cardinality(SessionRecords(s)) = n
    <3>1. Asked(t) = n /\ Now(t) # "out"
      BY <1>1, <1>2, <1>10, <2>5 DEF Asked, Now, IsLastRequest
    <3> QED BY <1>1, <1>2, <1>3, <3>1, BusyTalk
  <2>7. Len(TurnsOfSession[s]) = n
    BY <1>3, <1>4, <2>5, TurnsAt
  <2>8. [q \in SessionIds |-> Talk(q)]' = [q \in SessionIds |-> Talk(q)]
    BY <1>5
  <2>9. [q \in SessionIds |-> Cardinality(SessionRecords(q))]'
          = [q \in SessionIds |-> Cardinality(SessionRecords(q))]
    BY <1>5
  <2>10. /\ (terminated \/ main = "threw")' = FALSE
         /\ (terminated \/ main = "threw") = FALSE
    BY <1>1, <1>4
  <2> HIDE DEF OpenSessions, Talk, SessionRecords, TurnsOfSession
  <2>11. Pool!Close(s)
    BY <1>1, <2>4, <2>6, <2>7, <2>8, <2>9, <2>10 DEF Pool!Close
  <2> QED BY <2>6, <2>10, <2>11 DEF Pool!PoolNext, Pool!Proceed
<1> QED BY <1>9, <1>10

LEMMA DelayInPool ==
  ASSUME Live, NEW t \in Threads, GetAndWaitForDelay(t), ~terminated,
         ~terminated'
  PROVE  UNCHANGED Pool!poolVars
<1>1. /\ UNCHANGED <<records, http, order, concurrency, main, terminated>>
      /\ thread[t].pc = "delay" /\ t \in Busy
      /\ thread' = [thread EXCEPT ![t].pc = "send", ![t].i = @ + 1]
      /\ thread \in [Threads -> SessionThread]
  BY DEF GetAndWaitForDelay, Terminate, chatVars, dataVars, Live,
         SessionTypes, Busy
<1>2. /\ thread'[t].pc = "send" /\ thread'[t].session = thread[t].session
      /\ \A u \in Threads \ {t} : thread'[u] = thread[u]
  <2>1. thread[t] \in SessionThread
        /\ thread'[t] = [thread[t] EXCEPT !.pc = "send", !.i = @ + 1]
    BY <1>1
  <2> QED BY <1>1, <2>1, NextRequest
<1>3. Busy' = Busy /\ \A u \in Busy : thread'[u].session = thread[u].session
  BY <1>1, <1>2 DEF Busy
<1>4. OpenSessions' = {SessionAt(thread'[u].session) : u \in Busy'}
  BY <1>1 DEF OpenSessions, SessionAt, Busy
<1>5. OpenSessions' = OpenSessions
  BY <1>3, <1>4, OpenAre
<1> QED BY <1>1, <1>5, TalkFrame, PoolStays DEF Live

\* The promise of session concurrency mode, but for its progress.
PoolSafe == Pool!PoolInit /\ [][Pool!PoolNext]_(Pool!poolVars)

LEMMA PoolInitHolds == SessionsInit => Pool!PoolInit
<1> SUFFICES ASSUME SessionsInit PROVE Pool!PoolInit
  OBVIOUS
<1>1. Live /\ ~terminated /\ ~Started /\ main = "start"
  BY LiveInit DEF SessionsInit, Started
<1>2. \A s \in SessionIds : SessionRecords(s) = {}
  BY <1>1, LiveTalk DEF TalkOK
<1>3. \A s \in SessionIds :
         Talk(s) = <<>> /\ Cardinality(SessionRecords(s)) = 0
  BY <1>2, FS_EmptySet DEF Talk
<1>4. OpenSessions = {}
  <2>1. Busy = {}
    BY <1>1 DEF Live, ThreadsOK, Busy
  <2> QED BY <2>1, OpenAre
<1>5. concurrency \in Nat \ {0}
  BY <1>1, SessionsAssumption DEF Live, SessionTypes
<1>6. (terminated \/ main = "threw") = FALSE
  BY <1>1
<1> HIDE DEF Talk, SessionRecords, OpenSessions
<1> QED BY <1>3, <1>4, <1>5, <1>6 DEF Pool!PoolInit

LEMMA PoolStep ==
  SessionInv /\ SessionInv' /\ [SessionsNext]_chatSessionVars
    => [Pool!PoolNext]_(Pool!poolVars)
<1> SUFFICES ASSUME SessionInv, SessionInv', [SessionsNext]_chatSessionVars
             PROVE  Pool!PoolNext \/ UNCHANGED Pool!poolVars
  OBVIOUS
<1>1. CASE UNCHANGED chatSessionVars
  <2>1. UNCHANGED <<records, http, thread, order, concurrency, main,
                    terminated>>
    BY <1>1 DEF chatSessionVars, sessionVars, chatVars
  <2>2. \A s : Talk(s)' = Talk(s) /\ SessionRecords(s)' = SessionRecords(s)
    BY <2>1 DEF Talk, SessionRecords
  <2>3. OpenSessions' = OpenSessions
    BY <2>1 DEF OpenSessions
  <2> HIDE DEF Talk, SessionRecords, OpenSessions
  <2> QED BY <2>1, <2>2, <2>3, PoolStays
<1>2. CASE SessionsNext /\ terminated'
  BY <1>2, DyingGivesUp DEF SessionInv, SessionsNext
<1>3. CASE SessionsNext /\ ~terminated'
  <2>1. Live /\ Live' /\ ~terminated
    BY <1>3 DEF SessionInv, SessionsNext
  <2>2. CASE Main
    BY <2>1, <2>2, MainInPool
  <2>3. CASE SessionCurlLoop
    BY <2>1, <2>3, PoolFrame DEF SessionCurlLoop, CollectNewRequests, Poll,
       PollReturns, sessionVars, Live
  <2>4. ASSUME NEW t \in Threads, Thread(t)
        PROVE  Pool!PoolNext \/ UNCHANGED Pool!poolVars
    BY <1>3, <2>1, <2>4, NextSessionInPool, SendInPool, WaitInPool,
       DelayInPool DEF Thread
  <2>5. ASSUME NEW r \in Requests, SessionTransfer(r)
        PROVE  Pool!PoolNext \/ UNCHANGED Pool!poolVars
    <3>1. CASE RequestProvider(r) /\ UNCHANGED sessionVars
      BY <2>1, <3>1, BodiesStay, PoolFrame DEF sessionVars, Live
    <3>2. CASE ResponseHandler(r) /\ Callback(r, PieceResult(r))
      <4>1. UNCHANGED sessionVars
        <5>1. IF http[r].is_stream
              THEN /\ PieceResult(r) # <<>>
                   /\ ~IsCompletion(PieceResult(r).buffer)
              ELSE PieceResult(r) = <<>>
          BY <2>1, <3>2, PieceIs DEF Live
        <5> QED BY <1>3, <3>2, <5>1 DEF Callback, Terminate
      <4> QED BY <2>1, <3>2, <4>1, BodiesStay, PoolFrame
              DEF sessionVars, Live
    <3>3. CASE CompleteTransfer(r) /\ Callback(r, FinalResult(r))
      BY <1>3, <2>1, <3>3, CompleteInPool
    <3> QED BY <2>5, <3>1, <3>2, <3>3 DEF SessionTransfer
  <2> QED BY <1>3, <2>2, <2>3, <2>4, <2>5 DEF SessionsNext
<1> QED BY <1>1, <1>2, <1>3

\* Every step of the threads, the client and the curl thread is one step of
\* SessionPool or none: SendSequentialRequestsForOneSession sends the payloads
\* of a session in file order, each after the reply to the one before and
\* with the whole conversation, and ProcessSessionsUntilComplete holds every
\* session at most once, with no more open than the session concurrency.
THEOREM SessionsImplementPool == SessionsSpec => PoolSafe
<1> QED BY PoolInitHolds, PoolStep, SessionInvHolds, PTL
        DEF SessionsSpec, PoolSafe

=============================================================================
