-------------------------- MODULE TorchServeClient -------------------------
(***************************************************************************)
(* torchserve::HttpClient: a request posts the file its input names, read  *)
(* by callbacks of curl, through one easy handle and one mime handle for   *)
(* all requests of a context.                                              *)
(***************************************************************************)
EXTENDS Naturals, Sequences, FiniteSets

VARIABLES
    file,     \* file_ptr_: the open file, or NoFile
    mime,     \* the mime handles not freed
    send_end  \* whether SEND_END of the request was captured

torch == <<file, mime, send_end>>

\* file_ptr_ is null.
NoFile == ""

TorchServeInit == file = NoFile /\ mime = 0 /\ send_end = FALSE

\* OpenFileData for all inputs in turn, each closing the file before; a file
\* that cannot be opened ends the request, which closes its file.
OpenFileData(paths, exists) ==
    IF \A i \in DOMAIN paths : paths[i] \in exists
    THEN paths[Len(paths)] ELSE NoFile

\* PreRunProcessing: a mime handle is made, then the files are opened.  When
\* one cannot be, the handle is not freed.
TorchPreRunProcessing(paths, exists) ==
    /\ mime' = mime + 1 /\ send_end' = FALSE
    /\ file' = OpenFileData(paths, exists)

\* curl_easy_perform: ReadCallback gives the file in pieces and notes SEND_END
\* at its end; a connection may break before or after that.
Perform(outcome) == send_end' = (outcome # "broken_sending")

TorchFinishKeepingMime == file' = NoFile /\ UNCHANGED mime

\* CloseFileData and curl_mime_free, whatever came of the request.
TorchFinish == file' = NoFile /\ mime' = mime - 1

\* RequestStatus: the code is 400 when curl fails.
HttpOk(outcome) == outcome = "answered"
=============================================================================
