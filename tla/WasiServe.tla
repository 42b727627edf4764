----------------------------- MODULE WasiServe -----------------------------
(***************************************************************************)
(* A program of the WASI targets that serves a request: serveOnce          *)
(* (FetchServe) on the cooperative runtime (CoopLoop).  main runs          *)
(* serveOnce; the handler and the producer of its response make the calls  *)
(* of CoopLoop, and their tasks run inside its waits, also after serve.    *)
(* Reads and writes are calls too, made by main or by any task.            *)
(***************************************************************************)
EXTENDS CoopLoop, FetchServe

allVars == <<vars, serveVars>>

WasiInit == Init /\ ServeInit

\* main runs: no wait is below it.
InMain == pc = "lean" /\ Top.kind = "main"

\* The program's own code runs: the handler, the producer or a task; after serve
\* main at most waits for a task or a promise.
UserCode ==
    \/ phase \in {"handler", "produce"} /\ Program
    \/ phase = "after" /\ Top.kind # "main" /\ Program
    \/ phase = "after" /\ Top.kind = "main" /\ \E x \in Awaitable : Get({x})

Body == Read \/ Write

\* A step of serveOnce.
Serve ==
    /\ InMain
    /\ \/ \E streamed \in BOOLEAN : TakeRequestHead(streamed)
       \/ ReadAll
       \/ SendResponse
       \/ \E bodyless \in BOOLEAN : StartResponse(bodyless)
       \/ ProducerEnds
    /\ UNCHANGED vars

\* main returns: lasm_wasi_run_main, and on wasi-http the end of handle.
MainEnds == InMain /\ Return /\ Exit

WasiNext ==
    \/ UserCode /\ pc' # "exited" /\ UNCHANGED serveVars
    \/ Call /\ Body /\ UNCHANGED <<pc, stack, blocking, leanVars, hostVars>>
    \/ Serve
    \/ MainEnds
    \/ (Runtime \/ Tick \/ (\E r \in Requests : Arrive(r)) \/ Over) /\ UNCHANGED serveVars

(***************************************************************************)
(* As in CoopLoop; main's own code goes on as well.                        *)
(***************************************************************************)
WasiSpec ==
    /\ WasiInit /\ [][WasiNext]_allVars
    /\ WF_allVars(Runtime /\ UNCHANGED serveVars)
    /\ WF_allVars(Top.kind # "main" /\ Return /\ UNCHANGED serveVars)
    /\ WF_allVars(Serve \/ MainEnds)
    /\ WF_allVars(Tick /\ UNCHANGED serveVars)
    /\ \A r \in Requests : WF_allVars(Arrive(r) /\ UNCHANGED serveVars)

-----------------------------------------------------------------------------
(* Properties. *)

\* Types of both parts.
WasiTypeOK == TypeOK /\ ServeTypeOK

(***************************************************************************)
(* The host of a wasi-http component gets a response from every run that   *)
(* ends, whether main threw, never served or failed in the middle of the   *)
(* response, and never a second one.                                       *)
(***************************************************************************)
AnsweredOnce ==
    /\ res.answers <= 1
    /\ platform = "wasi-http" /\ pc = "exited" => res.answers = 1 /\ res.client # "head"

(***************************************************************************)
(* docs/FETCH.md: "A streamed response that fails after it started is      *)
(* abandoned, so the client sees an incomplete body."  CGI cannot tell the *)
(* client.  A failed write that the producer swallows is no failure here:  *)
(* finish is then told that all is well.                                   *)
(***************************************************************************)
FailedIsIncomplete == broken /\ platform # "cgi" => res.client # "complete"

(***************************************************************************)
(* No task, however late it runs, uses a stream the program dropped, and   *)
(* no body ends before its stream: the host would trap.                    *)
(***************************************************************************)
NoTrap == ~trapped

(***************************************************************************)
(* Every program ends: main returns, or lasm_edge_wait stops it for a      *)
(* deadlock.  The only runs that hang have an innermost wait nothing can   *)
(* end, below a sleep of an outer frame or beside a repeating timer that   *)
(* keeps lasm_edge_wait from seeing it (StuckWaitStops is the claim of the *)
(* docs without this exception).                                           *)
(***************************************************************************)
RunEnds ==
    \/ <>(pc \in {"exited", "failed"})
    \/ <>[](Stuck /\ (blocking # <<>> \/ \E t \in Repeating \cap alive : timer[t].armed))
=============================================================================
