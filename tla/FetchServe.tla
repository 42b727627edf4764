----------------------------- MODULE FetchServe -----------------------------
(***************************************************************************)
(* Lasm.Fetch.serve on the targets that answer one request per run: WASI   *)
(* (CGI), Fastly Compute and wasi-http.  serveOnce of                      *)
(* library/Lasm/Fetch.lean over the lasm_fetch_ functions of               *)
(* src/wasi/lasm_fetch_wasi.c (CGI, Fastly) and src/wasi/lasm_wasi_http.c, *)
(* down to the host's answer to the client.                                *)
(*                                                                         *)
(* main runs serveOnce, once; the handler, the producer of a streamed      *)
(* response and the tasks they start may call Read and Write, through      *)
(* closures that outlive the response.  Each function is one step: it      *)
(* blocks the program's only thread.  WasiServe says who runs when.        *)
(***************************************************************************)
EXTENDS Naturals

CONSTANT Platforms      \* the targets checked

ASSUME PlatformAssumption == Platforms \subseteq {"cgi", "fastly", "wasi-http"}

VARIABLES
    platform,   \* what the program was built for
    phase,      \* where main is in serveOnce
    req,        \* the request's body and, on wasi-http, its stream
    res,        \* the response
    broken,     \* history: the body was not written completely, or its producer threw
    trapped     \* history: a handle was used against the rules of the host

serveVars == <<platform, phase, req, res, broken, trapped>>

\* A handle is 0, open or dropped.
Handle == {"none", "open", "done"}

ServeTypeOK ==
    /\ platform \in Platforms
    /\ phase \in {"main", "reading", "handler", "produce", "after"}
    /\ req \in [body : Handle, stream : Handle]
    \* responded is the static of that name; answers counts the responses the host
    \* was given; client is what the client was told of the body.
    /\ res \in [responded : BOOLEAN, body : Handle, stream : Handle, answers : Nat,
                client : {"nothing", "head", "complete", "cut"}]
    /\ broken \in BOOLEAN /\ trapped \in BOOLEAN

ServeInit ==
    /\ platform \in Platforms
    /\ phase = "main"
    /\ req = [body |-> "none", stream |-> "none"]
    /\ res = [responded |-> FALSE, body |-> "none", stream |-> "none", answers |-> 0,
              client |-> "nothing"]
    /\ broken = FALSE /\ trapped = FALSE

Wasi == platform = "wasi-http"

-----------------------------------------------------------------------------
(* The request. *)

\* request_head: the host gives a body and its stream, or (wasi-http) only the
\* body; a request may have none.  On Fastly it may fail, on CGI there may be no
\* request: then serve throws.
TakeRequestHead(streamed) ==
    /\ phase = "main"
    /\ \/ /\ req' \in [body : {"none", "open"}, stream : {"none", "open"}]
          /\ req'.stream = "open" => Wasi /\ req'.body = "open"
          /\ phase' = IF streamed THEN "handler" ELSE "reading"
       \/ ~Wasi /\ phase' = "after" /\ UNCHANGED req
    /\ UNCHANGED <<platform, res, broken, trapped>>

\* lasm_fetch_read calls the host only while the body is open.
Readable == IF Wasi THEN req.stream = "open" ELSE req.body = "open"

\* read_request at the end of the body, or at an error of its stream: the stream
\* is dropped, then the body finished, which the host refuses while it has a
\* stream.  CGI closes its body; Fastly keeps the handle.
EndRequestBody ==
    LET closed == [req EXCEPT !.stream = IF Wasi THEN "done" ELSE @]
    IN  IF platform = "fastly" THEN UNCHANGED <<req, trapped>>
        ELSE /\ req' = [closed EXCEPT !.body = "done"]
             /\ trapped' = (trapped \/ closed.stream = "open")

\* The read that meets the end of the body; any task may make it.
Read ==
    /\ phase \in {"handler", "produce", "after"}
    /\ Readable
    /\ EndRequestBody
    /\ UNCHANGED <<platform, phase, res, broken>>

\* req.readAll before the handler, up to the end; Fastly's read errors are thrown.
ReadAll ==
    /\ phase = "reading"
    /\ \/ /\ IF Readable THEN EndRequestBody ELSE UNCHANGED <<req, trapped>>
          /\ phase' = "handler"
       \/ platform = "fastly" /\ phase' = "after" /\ UNCHANGED <<req, trapped>>
    /\ UNCHANGED <<platform, res, broken>>

-----------------------------------------------------------------------------
(* The response. *)

\* The host has the status and the headers (the outparam is set).
HeadSent(r) == [r EXCEPT !.responded = Wasi, !.body = "open", !.answers = @ + 1, !.client = "head"]

\* Mutant: the response is marked as sent with its stream.
UnstartedMarkedLate(r) ==
    {r} \cup (IF Wasi THEN {[HeadSent(r) EXCEPT !.responded = FALSE]} ELSE {})

\* start failed: before the host has the response, or (wasi-http) after, or (CGI)
\* with a part of the head written.
Unstarted(r) ==
    {r} \cup (IF Wasi THEN {HeadSent(r)} ELSE {})
        \cup (IF platform = "cgi" THEN {[r EXCEPT !.answers = @ + 1, !.client = "cut"]} ELSE {})

\* start, and lasm_fetch_start_response.
Started(r) == [HeadSent(r) EXCEPT !.stream = IF Wasi THEN "open" ELSE @]

\* Mutant: the body ends as complete whatever happened.
EndedAnyway(r, ok) == {[r EXCEPT !.stream = "done", !.body = "done", !.client = "complete"]}

\* finish and lasm_fetch_finish: the stream is dropped, then the body finished (the
\* host may find it wrong) or dropped.  CGI ignores ok: its body ends at exit.
Ended(r, ok) ==
    IF platform = "cgi" THEN {r}
    ELSE {[r EXCEPT !.stream = IF @ = "open" THEN "done" ELSE @, !.body = "done", !.client = c] :
              c \in IF ok THEN {"complete", "cut"} ELSE {"cut"}}

\* The host traps when a body ends before its stream.
Respect(r) == trapped' = (trapped \/ (r.body = "done" /\ r.stream = "open"))

\* respond and lasm_fetch_send_response: the handler's response, or 500 if it threw.
\* On wasi-http the head goes first; Fastly sends all or nothing.
SendResponse ==
    /\ phase = "handler"
    /\ phase' = "after"
    /\ \/ res' \in Unstarted(res) /\ UNCHANGED broken
       \/ platform = "fastly" /\ res' = [HeadSent(res) EXCEPT !.body = "none", !.client = "complete"]
                              /\ UNCHANGED broken
       \/ \E ok \in BOOLEAN : /\ platform # "fastly"
                              /\ platform = "cgi" => ok
                              /\ res' \in Ended(Started(res), ok)
                              /\ broken' = ~ok
    /\ Respect(res')
    /\ UNCHANGED <<platform, req>>

\* lasm_fetch_start_response, and the producer runs; a response without a body
\* is finished at once.
StartResponse(bodyless) ==
    /\ phase = "handler"
    /\ \/ res' \in Unstarted(res) /\ phase' = "after"
       \/ ~bodyless /\ res' = Started(res) /\ phase' = "produce"
       \/ bodyless /\ res' \in Ended(Started(res), TRUE) /\ phase' = "after"
    /\ Respect(res')
    /\ UNCHANGED <<platform, req, broken>>

\* Mutant: lasm_fetch_write without its check.
WritableAlways == TRUE

\* lasm_fetch_write calls the host; wasi-http only while the response has a stream.
Writable == ~Wasi \/ res.stream = "open"

\* A write through the producer's closure, by the producer or a task, during the
\* response or after it; the host traps on a stream that was dropped.  The
\* producer may let a write's failure through.
Write ==
    /\ phase \in {"produce", "after"} /\ res.client # "nothing"
    /\ trapped' = (trapped \/ (Writable /\ Wasi /\ res.stream # "open"))
    /\ broken' \in IF phase = "produce" THEN {broken, TRUE} ELSE {broken}
    /\ UNCHANGED <<platform, phase, req, res>>

\* The producer returns, or throws.
ProducerEnds ==
    /\ phase = "produce"
    /\ phase' = "after"
    /\ broken' \in {broken, TRUE}
    /\ res' \in Ended(res, ~broken')
    /\ Respect(res')
    /\ UNCHANGED <<platform, req>>

\* main has returned.  handle answers 500 if nothing was sent; a body that was not
\* ended is incomplete, except that CGI's body ends with standard output.
Exit ==
    /\ phase \in {"main", "after"}
    /\ res' = IF Wasi /\ ~res.responded
              THEN [HeadSent(res) EXCEPT !.responded = FALSE, !.body = "none", !.client = "complete"]
              ELSE [res EXCEPT !.client = IF @ # "head" THEN @
                                          ELSE IF platform = "cgi" THEN "complete" ELSE "cut"]
    /\ UNCHANGED <<platform, phase, req, broken, trapped>>
=============================================================================
