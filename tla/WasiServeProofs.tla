--------------------------- MODULE WasiServeProofs ---------------------------
(***************************************************************************)
(* Theorems about the program that serves one request on the cooperative   *)
(* runtime, for any tasks, timers, requests and bounds of CoopLoop: it is  *)
(* answered once, a response that failed is never complete to the client,  *)
(* and the host is never made to trap.                                     *)
(*                                                                         *)
(* The invariant is ServeTypeOK /\ ServeInv.  It needs of the runtime only *)
(* that nothing but the end of main makes pc "exited" (OnlyMainExits), so  *)
(* every step that is not one of serveOnce leaves it alone.  The other way *)
(* round, every step is one of the runtime (StepsOfRuntime), so what       *)
(* CoopLoopProofs shows of the runtime holds while it serves.              *)
(***************************************************************************)
EXTENDS WasiServe, CoopLoopProofs

\* The types of a response, and the one that was not sent.
Response == [responded : BOOLEAN, body : Handle, stream : Handle, answers : Nat,
             client : {"nothing", "head", "complete", "cut"}]

NoResponse == [responded |-> FALSE, body |-> "none", stream |-> "none", answers |-> 0,
               client |-> "nothing"]

\* What the client was told in each phase.
Told ==
    /\ pc # "exited" /\ phase \in {"main", "reading", "handler"} =>
          res = NoResponse
    /\ phase = "produce" => pc # "exited" /\ res.client = "head" /\ res.answers = 1
    /\ res.answers <= 1
    /\ Wasi => IF pc = "exited" THEN res.answers = 1 /\ res.client # "head"
               ELSE (res.responded => res.answers = 1) /\ (~res.responded => res.answers = 0)

\* A response that failed is still being written, or was cut.
Failed ==
    /\ broken => phase \in {"produce", "after"}
    /\ broken /\ platform # "cgi" =>
          /\ res.client = "cut" \/ phase = "produce"
          /\ Wasi => res.responded

\* The streams are dropped before their bodies are finished.
Streams ==
    /\ req.stream = "open" => Wasi
    /\ res.stream = "open" => Wasi /\ res.body = "open" /\ phase = "produce"
    /\ NoTrap

ServeInv == Told /\ Failed /\ Streams

USE DEF Handle, Wasi

\* NoResponse is a response.
LEMMA NoResponseTyped == NoResponse \in Response
BY DEF Response, NoResponse

\* What HeadSent makes of a response.
LEMMA HeadSentFacts ==
  ASSUME NEW r \in Response
  PROVE  /\ HeadSent(r) \in Response
         /\ Wasi => HeadSent(r).responded
         /\ HeadSent(r).body = "open" /\ HeadSent(r).stream = r.stream
         /\ HeadSent(r).answers = r.answers + 1 /\ HeadSent(r).client = "head"
<1>1. r.answers + 1 \in Nat
  BY DEF Response
<1> QED BY <1>1, Zenon DEF Response, HeadSent

\* What Started makes of the response that was not sent.
LEMMA StartedFacts ==
  LET r == Started(NoResponse)
  IN  /\ r \in Response
      /\ Wasi => r.responded
      /\ r.body = "open" /\ r.answers = 0 + 1 /\ r.client = "head"
      /\ r.stream = "open" => Wasi
<1>1. /\ HeadSent(NoResponse) \in Response
      /\ Wasi => HeadSent(NoResponse).responded
      /\ HeadSent(NoResponse).body = "open" /\ HeadSent(NoResponse).stream = "none"
      /\ HeadSent(NoResponse).answers = 0 + 1 /\ HeadSent(NoResponse).client = "head"
  BY NoResponseTyped, HeadSentFacts, Zenon DEF NoResponse
<1> QED BY <1>1, Zenon DEF Started, Response

\* What Unstarted may make of the response that was not sent.
LEMMA UnstartedFacts ==
  ASSUME NEW r \in Unstarted(NoResponse)
  PROVE  /\ r \in Response
         /\ r.answers <= 1 /\ r.stream = "none" /\ r.body # "done"
         /\ Wasi => (r.responded => r.answers = 1) /\ (~r.responded => r.answers = 0)
<1>1. NoResponse \in Response /\ NoResponse.stream = "none" /\ NoResponse.body = "none"
  BY DEF Response, NoResponse
<1>2. CASE r = NoResponse
  BY <1>1, <1>2 DEF NoResponse
<1>3. CASE Wasi /\ r = HeadSent(NoResponse)
  <2>1. /\ r \in Response /\ r.stream = "none" /\ r.body = "open"
        /\ r.answers = 0 + 1 /\ r.responded
    BY <1>1, <1>3, HeadSentFacts, Zenon DEF NoResponse
  <2> QED BY <1>3, <2>1
<1>4. CASE platform = "cgi" /\ r = [NoResponse EXCEPT !.answers = @ + 1, !.client = "cut"]
  <2>1. 0 + 1 \in Nat /\ 0 + 1 <= 1
    OBVIOUS
  <2>2. r \in Response /\ r.answers = 0 + 1 /\ r.stream = "none" /\ r.body = "none"
    BY <1>4, <2>1, Zenon DEF NoResponse, Response
  <2> QED BY <1>4, <2>1, <2>2
<1> QED BY <1>2, <1>3, <1>4 DEF Unstarted

\* What Ended may make of a response.
LEMMA EndedFacts ==
  ASSUME NEW r \in Response, NEW ok \in BOOLEAN, NEW e \in Ended(r, ok)
  PROVE  /\ e \in Response
         /\ e.responded = r.responded /\ e.answers = r.answers
         /\ platform = "cgi" => e = r
         /\ platform # "cgi" => /\ e.body = "done" /\ e.stream # "open"
                                /\ e.client = "cut" \/ (ok /\ e.client = "complete")
<1>1. CASE platform = "cgi"
  BY <1>1 DEF Ended
<1>2. CASE platform # "cgi"
  <2>1. PICK c \in IF ok THEN {"complete", "cut"} ELSE {"cut"} :
          e = [r EXCEPT !.stream = IF @ = "open" THEN "done" ELSE @, !.body = "done", !.client = c]
    BY <1>2 DEF Ended
  <2> QED BY <1>2, <2>1 DEF Response
<1> QED BY <1>1, <1>2

\* The invariant holds initially.
LEMMA InitServe ==
  ASSUME WasiInit
  PROVE  ServeTypeOK /\ ServeInv
<1>1. ServeTypeOK
  BY DEF WasiInit, ServeInit, ServeTypeOK
<1>2. ServeInv
  BY DEF WasiInit, Init, ServeInit, ServeInv, Told, Failed, Streams, NoTrap, NoResponse
<1> QED BY <1>1, <1>2

\* A response that ended, whole or cut or never begun, satisfies the invariant.
LEMMA AfterInv ==
  ASSUME ServeTypeOK, ServeInv, pc = "lean", pc' = pc,
         phase' = "after", UNCHANGED <<platform, req>>,
         res' \in Response, res'.answers <= 1,
         Wasi => (res'.responded => res'.answers = 1) /\ (~res'.responded => res'.answers = 0),
         res'.stream # "open",
         broken' \in BOOLEAN, trapped' = FALSE,
         broken' /\ platform # "cgi" => res'.client = "cut" /\ (Wasi => res'.responded)
  PROVE  ServeTypeOK' /\ ServeInv'
<1>1. ServeTypeOK'
  BY Zenon DEF ServeTypeOK, Response
<1>2. Told'
  BY DEF Told
<1>3. Failed'
  BY DEF Failed
<1>4. Streams'
  BY DEF ServeInv, Streams, NoTrap
<1> QED BY <1>1, <1>2, <1>3, <1>4 DEF ServeInv

\* A request has a stream only on wasi-http, and nothing was sent yet.
LEMMA TakeRequestHeadInv ==
  ASSUME ServeTypeOK, ServeInv, pc = "lean", pc' = pc, NEW streamed \in BOOLEAN, TakeRequestHead(streamed)
  PROVE  ServeTypeOK' /\ ServeInv'
<1>1. ServeTypeOK'
  BY DEF ServeTypeOK, TakeRequestHead
<1>2. Told'
  BY PlatformAssumption DEF ServeTypeOK, ServeInv, Told, TakeRequestHead
<1>3. Failed'
  BY PlatformAssumption DEF ServeTypeOK, ServeInv, Told, Failed, TakeRequestHead
<1>4. Streams'
  BY PlatformAssumption DEF ServeTypeOK, ServeInv, Told, Streams, NoTrap, TakeRequestHead
<1> QED BY <1>1, <1>2, <1>3, <1>4 DEF ServeInv

\* The end of the request's body drops its stream first.
LEMMA ReadInv ==
  ASSUME ServeTypeOK, ServeInv, pc = "lean", pc' = pc, Read
  PROVE  ServeTypeOK' /\ ServeInv'
<1>1. ServeTypeOK'
  BY ZenonT(30) DEF ServeTypeOK, Read, Readable, EndRequestBody
<1>2. Told'
  BY PlatformAssumption DEF ServeTypeOK, ServeInv, Told, Read, Readable, EndRequestBody
<1>3. Failed'
  BY PlatformAssumption DEF ServeTypeOK, ServeInv, Told, Failed, Read, Readable, EndRequestBody
<1>4. Streams'
  BY PlatformAssumption DEF ServeTypeOK, ServeInv, Told, Streams, NoTrap, Read, Readable, EndRequestBody
<1> QED BY <1>1, <1>2, <1>3, <1>4 DEF ServeInv

\* Reading the whole body before the handler sends nothing.
LEMMA ReadAllInv ==
  ASSUME ServeTypeOK, ServeInv, pc = "lean", pc' = pc, ReadAll
  PROVE  ServeTypeOK' /\ ServeInv'
<1>1. ServeTypeOK'
  BY DEF ServeTypeOK, ReadAll, Readable, EndRequestBody
<1>2. Told'
  BY PlatformAssumption DEF ServeTypeOK, ServeInv, Told, ReadAll, Readable, EndRequestBody
<1>3. Failed'
  BY PlatformAssumption DEF ServeTypeOK, ServeInv, Told, Failed, ReadAll, Readable, EndRequestBody
<1>4. Streams'
  BY PlatformAssumption DEF ServeTypeOK, ServeInv, Told, Streams, NoTrap, ReadAll, Readable, EndRequestBody
<1> QED BY <1>1, <1>2, <1>3, <1>4 DEF ServeInv

\* A response sent at once is the first; when it breaks the client sees it cut.
LEMMA SendResponseInv ==
  ASSUME ServeTypeOK, ServeInv, pc = "lean", pc' = pc, SendResponse
  PROVE  ServeTypeOK' /\ ServeInv'
<1> USE DEF SendResponse
<1>1. res = NoResponse /\ broken = FALSE /\ trapped = FALSE /\ phase' = "after"
  BY DEF ServeTypeOK, ServeInv, Told, Failed, Streams, NoTrap
<1>3. CASE res' \in Unstarted(res) /\ UNCHANGED broken
  <2>1. /\ res' \in Response /\ res'.answers <= 1 /\ res'.stream = "none" /\ res'.body # "done"
        /\ Wasi => (res'.responded => res'.answers = 1) /\ (~res'.responded => res'.answers = 0)
    BY <1>1, <1>3, UnstartedFacts
  <2>2. broken' = FALSE /\ trapped' = FALSE
    BY <1>1, <1>3, <2>1 DEF Respect
  <2> QED BY Zenon, AfterInv, <1>1, <2>1, <2>2
<1>4. CASE platform = "fastly" /\ UNCHANGED broken
           /\ res' = [HeadSent(res) EXCEPT !.body = "none", !.client = "complete"]
  <2>1. /\ HeadSent(res) \in Response /\ HeadSent(res).answers = 1
        /\ HeadSent(res).stream = "none"
    BY <1>1, NoResponseTyped, HeadSentFacts DEF NoResponse
  <2>3. /\ res' \in Response /\ res'.answers = 1 /\ res'.stream = "none" /\ res'.body = "none"
    BY <1>4, <2>1, Zenon DEF Response
  <2>2. broken' = FALSE /\ trapped' = FALSE
    BY <1>1, <1>4, <2>3 DEF Respect
  <2>4. ~Wasi /\ 1 <= 1
    BY <1>4
  <2> QED BY Zenon, AfterInv, <1>1, <1>4, <2>2, <2>3, <2>4
<1>5. ASSUME NEW ok \in BOOLEAN, platform = "cgi" => ok, res' \in Ended(Started(res), ok), broken' = ~ok
      PROVE  ServeTypeOK' /\ ServeInv'
  <2>1. /\ res' \in Response
        /\ res'.answers = 1 /\ 1 <= 1
        /\ Wasi => res'.responded
        /\ platform = "cgi" => res'.body = "open" /\ res'.stream # "open"
        /\ platform # "cgi" => /\ res'.stream # "open"
                               /\ res'.client = "cut" \/ (ok /\ res'.client = "complete")
    BY <1>1, <1>5, StartedFacts, EndedFacts
  <2>2. trapped' = FALSE
    BY <1>1, <2>1 DEF Respect
  <2>3. broken' \in BOOLEAN /\ (broken' => ~ok)
    BY <1>5
  <2> QED BY Zenon, AfterInv, <1>1, <1>5, <2>1, <2>2, <2>3
<1> QED BY <1>3, <1>4, <1>5

\* A streamed response is the first, whether its start succeeds or fails.
LEMMA StartResponseInv ==
  ASSUME ServeTypeOK, ServeInv, pc = "lean", pc' = pc,
         NEW bodyless \in BOOLEAN, StartResponse(bodyless)
  PROVE  ServeTypeOK' /\ ServeInv'
<1> USE DEF StartResponse
<1>1. res = NoResponse /\ broken' = FALSE /\ trapped = FALSE
  BY DEF ServeTypeOK, ServeInv, Told, Failed, Streams, NoTrap
<1>3. CASE res' \in Unstarted(res) /\ phase' = "after"
  <2>1. /\ res' \in Response /\ res'.answers <= 1 /\ res'.stream = "none" /\ res'.body # "done"
        /\ Wasi => (res'.responded => res'.answers = 1) /\ (~res'.responded => res'.answers = 0)
    BY <1>1, <1>3, UnstartedFacts
  <2>2. trapped' = FALSE
    BY <1>1, <2>1 DEF Respect
  <2> QED BY Zenon, AfterInv, <1>1, <1>3, <2>1, <2>2
<1>4. CASE res' = Started(res) /\ phase' = "produce"
  <2>1. /\ res' \in Response /\ res'.answers = 1 /\ res'.client = "head"
        /\ Wasi => res'.responded
        /\ res'.stream = "open" => Wasi /\ res'.body = "open"
    BY <1>1, <1>4, StartedFacts
  <2>2. trapped' = FALSE
    BY <1>1, <1>4, StartedFacts DEF Respect
  <2>3. ServeTypeOK'
    BY <1>1, <1>4, <2>1, <2>2, Zenon DEF ServeTypeOK, Response
  <2>4. ServeInv'
    BY <1>1, <1>4, <2>1, <2>2 DEF ServeInv, Told, Failed, Streams, NoTrap
  <2> QED BY <2>3, <2>4
<1>5. CASE res' \in Ended(Started(res), TRUE) /\ phase' = "after"
  <2>1. /\ res' \in Response /\ res'.answers = 1
        /\ Wasi => res'.responded
        /\ res'.stream # "open"
    <3>1. /\ Started(res) \in Response /\ Started(res).answers = 1
          /\ Wasi => Started(res).responded
          /\ Started(res).stream = "open" => Wasi
      BY <1>1, StartedFacts
    <3>2. platform = "cgi" => ~Wasi
      OBVIOUS
    <3>3. /\ res' \in Response
          /\ res'.responded = Started(res).responded /\ res'.answers = Started(res).answers
          /\ platform = "cgi" => res' = Started(res)
          /\ platform # "cgi" => res'.stream # "open"
      BY <1>5, <3>1, EndedFacts, Zenon
    <3> QED BY <3>1, <3>2, <3>3, Zenon
  <2>3. 1 <= 1
    OBVIOUS
  <2>2. trapped' = FALSE
    BY <1>1, <2>1 DEF Respect
  <2> QED BY Zenon, AfterInv, <1>1, <1>5, <2>1, <2>2, <2>3
<1> QED BY <1>3, <1>4, <1>5

\* A write may break the response only while its producer runs.
LEMMA WriteInv ==
  ASSUME ServeTypeOK, ServeInv, pc = "lean", pc' = pc, Write
  PROVE  ServeTypeOK' /\ ServeInv'
<1>1. ServeTypeOK'
  BY ZenonT(30) DEF ServeTypeOK, Write, Writable
<1>2. Told'
  BY PlatformAssumption DEF ServeTypeOK, ServeInv, Told, Write, Writable
<1>3. Failed'
  <2>1. phase = "produce" /\ Wasi => res.responded
    BY DEF ServeInv, Told
  <2>2. phase \in {"produce", "after"} /\ (phase = "after" => broken' = broken)
        /\ UNCHANGED <<platform, phase, res>>
    BY DEF Write
  <2> QED BY <2>1, <2>2 DEF ServeInv, Failed
<1>4. Streams'
  BY PlatformAssumption DEF ServeTypeOK, ServeInv, Told, Streams, NoTrap, Write, Writable
<1> QED BY <1>1, <1>2, <1>3, <1>4 DEF ServeInv

\* The producer's response is cut when it broke.
LEMMA ProducerEndsInv ==
  ASSUME ServeTypeOK, ServeInv, pc = "lean", pc' = pc, ProducerEnds
  PROVE  ServeTypeOK' /\ ServeInv'
<1> USE DEF ProducerEnds
<1>1. /\ res \in Response /\ res.answers = 1 /\ trapped = FALSE
      /\ Wasi => res.responded
      /\ res.stream = "open" => Wasi
  BY DEF ServeTypeOK, ServeInv, Told, Streams, NoTrap, Response
<1>3. broken' \in BOOLEAN
  BY Zenon DEF ServeTypeOK
<1>2. 1 <= 1
  OBVIOUS
<1>6. platform = "cgi" => ~Wasi
  OBVIOUS
<1>7. /\ res' \in Response
      /\ res'.responded = res.responded /\ res'.answers = res.answers
      /\ platform = "cgi" => res' = res
      /\ platform # "cgi" => res'.stream # "open" /\ (res'.client = "cut" \/ ~broken')
  BY <1>1, <1>3, EndedFacts, Zenon
<1>4. /\ res' \in Response /\ res'.answers = 1
      /\ Wasi => res'.responded
      /\ res'.stream # "open"
      /\ platform # "cgi" => res'.client = "cut" \/ ~broken'
  BY <1>1, <1>6, <1>7, Zenon
<1>5. trapped' = FALSE
  BY <1>1, <1>4 DEF Respect
<1> QED BY Zenon, AfterInv, <1>1, <1>2, <1>3, <1>4, <1>5

\* The end of main answers what was not answered, and completes no broken response.
LEMMA ExitInv ==
  ASSUME ServeTypeOK, ServeInv, pc = "lean", pc' = "exited", Exit
  PROVE  ServeTypeOK' /\ ServeInv'
<1> USE DEF Exit
<1>1. /\ res \in Response /\ res.answers <= 1 /\ res.stream # "open"
      /\ Wasi => (res.responded => res.answers = 1) /\ (~res.responded => res.answers = 0)
      /\ phase \in {"main", "after"} /\ UNCHANGED <<platform, phase, req, broken, trapped>>
  BY DEF ServeTypeOK, ServeInv, Told, Streams, Response
<1>2. CASE Wasi /\ ~res.responded
  <2>1. /\ HeadSent(res) \in Response /\ HeadSent(res).answers = res.answers + 1
        /\ HeadSent(res).stream = res.stream
    BY <1>1, HeadSentFacts, Zenon
  <2>2. /\ res' \in Response /\ res'.answers = res.answers + 1
        /\ res'.stream = res.stream /\ res'.client = "complete"
    BY <1>2, <2>1, Zenon DEF Response
  <2>3. res'.answers = 1
    BY <1>1, <1>2, <2>2
  <2>4. ~broken
    BY <1>1, <1>2 DEF ServeInv, Failed
  <2> QED BY <1>1, <1>2, <2>2, <2>3, <2>4 DEF ServeTypeOK, ServeInv, Told, Failed, Streams, NoTrap, Response
<1>3. CASE ~(Wasi /\ ~res.responded)
  <2>1. /\ res' \in Response /\ res'.answers = res.answers
        /\ res'.stream = res.stream /\ res'.responded = res.responded
        /\ res'.client # "head"
        /\ platform # "cgi" /\ res.client = "cut" => res'.client = "cut"
    BY <1>1, <1>3 DEF Response
  <2>2. broken /\ platform # "cgi" => res.client = "cut" /\ (Wasi => res.responded)
    BY <1>1 DEF ServeInv, Failed
  <2> QED BY <1>1, <1>3, <2>1, <2>2 DEF ServeTypeOK, ServeInv, Told, Failed, Streams, NoTrap, Response
<1> QED BY <1>2, <1>3

\* Steps of the runtime and of the environment neither end main nor undo its end.
LEMMA OnlyMainExits ==
  ASSUME Runtime \/ Tick \/ (\E r \in Requests : Arrive(r)) \/ Over
  PROVE  pc' = "exited" <=> pc = "exited"
<1>1. CASE Runtime
  BY <1>1 DEF Runtime, WaitReturns, RunOne, Poll, PollAgain, WaitDone, WaitTurn, WaitFails, AfterWait
<1>2. CASE Tick \/ (\E r \in Requests : Arrive(r)) \/ Over
  BY <1>2 DEF Tick, Arrive, Over, vars
<1> QED BY <1>1, <1>2

\* A step that leaves serveOnce and the end of main alone preserves the invariant.
LEMMA OtherInv ==
  ASSUME ServeTypeOK, ServeInv, pc' = "exited" <=> pc = "exited", UNCHANGED serveVars
  PROVE  ServeTypeOK' /\ ServeInv'
BY DEF serveVars, ServeTypeOK, ServeInv, Told, Failed, Streams, NoTrap

\* Every step preserves the invariant.
LEMMA StepServe ==
  ASSUME ServeTypeOK, ServeInv, [WasiNext]_allVars
  PROVE  ServeTypeOK' /\ ServeInv'
<1>1. CASE UNCHANGED allVars
  BY <1>1, OtherInv DEF allVars, vars
<1>2. CASE UserCode /\ pc' # "exited" /\ UNCHANGED serveVars
  <2>1. pc = "lean"
    BY <1>2 DEF UserCode, Program, Spawn, Continue, MakeTimer, NextTimer, ResetTimer, StopTimer,
       CancelTimer, DropTimer, SendRequest, StartRequest, Get, Sleep, Return, Call
  <2> QED BY <1>2, <2>1, OtherInv
<1>3. CASE Call /\ Body /\ UNCHANGED <<pc, stack, blocking, leanVars, hostVars>>
  BY <1>3, ReadInv, WriteInv DEF Call, Body
<1>4. CASE Serve
  <2>1. pc = "lean" /\ pc' = pc
    BY <1>4 DEF Serve, InMain, vars
  <2> QED BY <1>4, <2>1, TakeRequestHeadInv, ReadAllInv, SendResponseInv, StartResponseInv,
             ProducerEndsInv DEF Serve
<1>5. CASE MainEnds
  BY <1>5, ExitInv DEF MainEnds, InMain, Return
<1>6. CASE (Runtime \/ Tick \/ (\E r \in Requests : Arrive(r)) \/ Over) /\ UNCHANGED serveVars
  BY <1>6, OnlyMainExits, OtherInv
<1> QED BY <1>1, <1>2, <1>3, <1>4, <1>5, <1>6 DEF WasiNext

\* What holds in every reachable state.
LEMMA ServeInvariance == WasiSpec => [](ServeTypeOK /\ ServeInv)
<1>1. WasiInit => ServeTypeOK /\ ServeInv
  BY InitServe
<1>2. ServeTypeOK /\ ServeInv /\ [WasiNext]_allVars => (ServeTypeOK /\ ServeInv)'
  BY StepServe
<1> QED BY <1>1, <1>2, PTL DEF WasiSpec

\* A step of the program is one of the runtime, or at most makes a call.
LEMMA StepsOfRuntime ==
  ASSUME HostTypeOK, [WasiNext]_allVars
  PROVE  Next \/ Quiet
<1>1. budget \in Nat
  BY DEF HostTypeOK
<1>2. CASE UNCHANGED allVars
  BY <1>1, <1>2 DEF allVars, vars, Quiet
<1>3. CASE UserCode
  <2>1. \A x \in Awaitable : {x} = {x, x}
    OBVIOUS
  <2>2. (\E x \in Awaitable : Get({x})) => \E x, y \in Awaitable : Get({x, y})
    BY <2>1, Zenon
  <2> QED BY <1>3, <2>2, Zenon DEF UserCode, Program, Next
<1>4. CASE Call /\ Body /\ UNCHANGED <<pc, stack, blocking, leanVars, hostVars>>
  <2>1. budget' \in 0..budget
    BY <1>1, <1>4 DEF Call
  <2> QED BY <1>4, <2>1 DEF Quiet
<1>5. CASE Serve
  BY <1>1, <1>5 DEF Serve, vars, Quiet
<1>6. CASE MainEnds
  BY <1>6, Zenon DEF MainEnds, Next, Program
<1>7. CASE (Runtime \/ Tick \/ (\E r \in Requests : Arrive(r)) \/ Over) /\ UNCHANGED serveVars
  BY <1>7, Zenon DEF Next
<1> QED BY <1>2, <1>3, <1>4, <1>5, <1>6, <1>7 DEF WasiNext

\* So the runtime's invariant holds while the program serves its request.
LEMMA RuntimeInvariance ==
  WasiSpec => [](HostTypeOK /\ HostInv /\ LeanTypeOK /\ LeanInv)
<1> DEFINE Inv == HostTypeOK /\ HostInv /\ LeanTypeOK /\ LeanInv
<1>1. WasiInit => Inv
  BY InitHost, InitLean DEF WasiInit
<1>2. Inv /\ [WasiNext]_allVars => Inv'
  BY StepsOfRuntime, StepHost, StepLean
<1> QED BY <1>1, <1>2, PTL DEF WasiSpec

(***************************************************************************)
(* The host has at most one response, and one, begun or whole, from every  *)
(* wasi-http run that ends: lasm_wasi_http's handle answers for a main     *)
(* that never did.                                                         *)
(***************************************************************************)
THEOREM Answers == WasiSpec => []AnsweredOnce
<1>1. ServeInv => AnsweredOnce
  BY DEF ServeInv, Told, AnsweredOnce
<1> QED BY <1>1, ServeInvariance, PTL

(***************************************************************************)
(* Except on CGI, a response whose body was not written, or whose producer *)
(* threw, is never complete to the client.                                 *)
(***************************************************************************)
THEOREM FailuresShow == WasiSpec => []FailedIsIncomplete
<1>1. ServeInv => FailedIsIncomplete
  BY DEF ServeInv, Told, Failed, FailedIsIncomplete
<1> QED BY <1>1, ServeInvariance, PTL

(***************************************************************************)
(* No body ends before its stream and no dropped stream is written to,     *)
(* however late a task reads or writes.                                    *)
(***************************************************************************)
THEOREM NeverTraps == WasiSpec => []NoTrap
<1>1. ServeInv => NoTrap
  BY DEF ServeInv, Streams
<1> QED BY <1>1, ServeInvariance, PTL

(***************************************************************************)
(* The program, the runtime below it and the response keep their types.    *)
(***************************************************************************)
THEOREM WasiTyped == WasiSpec => []WasiTypeOK
<1>1. HostTypeOK /\ HostInv /\ LeanTypeOK /\ LeanInv /\ ServeTypeOK => WasiTypeOK
  BY Promises DEF WasiTypeOK
<1> QED BY <1>1, RuntimeInvariance, ServeInvariance, PTL

(***************************************************************************)
(* While a request is served, each promise of a timer or an operation is   *)
(* in one table of the host, is settled by its own generation, and those   *)
(* who wait for a timer wait for one that will fire.                       *)
(***************************************************************************)
THEOREM WasiPromises == WasiSpec => [](OneReference /\ WaitersWillBeSettled /\ OwnGeneration)
BY RuntimeInvariance, Promises, PTL

(***************************************************************************)
(* While a request is served, the blocking calls are those of the sleeping *)
(* frames, and the program is stopped only in a wait nothing can end.      *)
(***************************************************************************)
THEOREM WasiWaits == WasiSpec => [](BlockingIsStack /\ NoFalseDeadlock)
<1>1. LeanInv => BlockingIsStack /\ NoFalseDeadlock
  BY DEF LeanInv
<1> QED BY <1>1, RuntimeInvariance, PTL
=============================================================================
