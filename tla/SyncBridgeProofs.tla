------------------------- MODULE SyncBridgeProofs -------------------------
(***************************************************************************)
(* Theorems about synchronous callbacks, for any slots, operations and     *)
(* sizes: types, at most one execution of a request whichever server takes *)
(* it, the result of a callback, refinement of HostCall, and that a wait   *)
(* is stopped only if nothing can end it, with any number of threads.      *)
(*                                                                         *)
(* SyncInv is HostSlot's invariant for two servers.  The main thread takes *)
(* the place of the event loop's server from its load of a slot to its     *)
(* notify (Server), which is sound only because the loop is blocked        *)
(* meanwhile, with no server on the stack but one that runs an operation   *)
(* (Blocked), and because a slot it finds unregistered is recorded         *)
(* (Turn).  Channel says whose turn it is at the channel.                  *)
(*                                                                         *)
(* NoWrongStop is about the past: the wait is stopped on two looks at a    *)
(* list of waits that changes meanwhile, by any number of workers, each    *)
(* with host calls at any depth.  Stack says that a thread stands at its   *)
(* innermost host call, Working where a worker stands when it is listed.   *)
(* Recent says that no wait of the callback has the number of an earlier   *)
(* one, so a word that is equal is the same wait.  Mark says what an       *)
(* unchanged list means: a thread that was on its way at the mark and has  *)
(* arrived since rests, with its wait still listed.  Once the wait is      *)
(* Stuck, Quiet is kept by every step: a thread that rests goes on only if *)
(* another one gives it a reason, and none does.  The callback's thread    *)
(* sees the word at last, and nobody has finished its task.                *)
(***************************************************************************)
EXTENDS SyncBridge, HostSlotProofs

-----------------------------------------------------------------------------
(* The invariant of the two servers and of the channel.                    *)

\* The slot that the main thread serves inline, from its load to its notify, and
\* where the server of a slot stands, whichever of the two has it.  A request or
\* copy is looked at where the event loop's server dispatches it.
Inline(s) == cur = s /\ mpc \in {"run", "write", "set", "wake"}
Server(s) == IF ~Inline(s) THEN srv[s] ELSE IF mpc = "run" THEN "dispatch" ELSE mpc

\* Control of HostSlot, for two servers.
Turn(s) ==
  /\ srv[s] \in OnMain <=> main = s
  /\ Inline(s) => srv[s] \in {"message", "armed", "woken"}
  /\ Server(s) \in Taken => cpc[s] \in Posted /\ seq[s] = served[s] /\ ready[s] = 0
  /\ seq[s] # served[s] => cpc[s] \in Posted /\ ready[s] = 0
  /\ cpc[s] \in Posted /\ seq[s] = served[s] /\ Server(s) \notin Taken => ready[s] = 1
  /\ cpc[s] = "bump" => ready[s] = 0
  /\ cpc[s] = "sleep" /\ ready[s] = 1 => Server(s) = "wake"
  /\ srv[s] = "armed" /\ seq[s] # served[s] => cpc[s] = "notify"
  /\ srv[s] = "none" => cpc[s] = "idle" /\ served[s] = 0
  /\ srv[s] = "message" /\ s \notin inlined =>
       Fresh(s) /\ kind[s] = "request" /\ served[s] = 0 /\ ~Inline(s)
  /\ s \in inlined => srv[s] = "message"
  /\ cpc[s] # "idle" /\ Parent[s] # None => cpc[Parent[s]] = "nested"

\* Carried of HostSlot, for two servers.
Load(s) ==
  /\ cpc[s] = "idle" <=> want[s] = None
  /\ cpc[s] = "idle" => runs[s] = 0 /\ out[s] = None /\ large[s] = None
  /\ runs[s] <= 1
  /\ cpc[s] # "idle" /\ kind[s] = "request" =>
       /\ op[s] = want[s]
       /\ Fresh(s) \/ Server(s) \in {"dispatch", "loading", "run"}
            => runs[s] = 0 /\ out[s] = None /\ large[s] = None
       /\ Server(s) = "pending" => runs[s] = 1 /\ out[s] = None /\ large[s] = None
       /\ Server(s) = "write" => large[s] = None
  /\ cpc[s] # "idle" /\ kind[s] = "copy" =>
       /\ out[s] # None
       /\ Fresh(s) \/ Server(s) = "dispatch"
            => large[s] = <<want[s], out[s]>> /\ capacity[s] = Size[large[s]]
       /\ Server(s) \notin {"loading", "run", "pending"}
       /\ Server(s) = "write" => large[s] = None /\ capacity[s] = Size[job[s]]
  /\ Server(s) = "write" => out[s] # None /\ job[s] = <<want[s], out[s]>>
  /\ \/ Server(s) = "set"
     \/ cpc[s] \in Posted /\ seq[s] = served[s] /\ Server(s) \notin Taken
     => out[s] # None /\ Answered(s)

\* The event loop is blocked while the main thread is inside a callback.
Blocked ==
  /\ host = "loaded"
  /\ mpc # "out" /\ main # None => srv[main] = "run"
  /\ cur # None <=> mpc \in {"walk", "run", "write", "set", "wake"}
  /\ cur # None => Thread[cur] = S0

Served == Blocked /\ \A s \in Slots : Turn(s) /\ Load(s)

\* Whose turn it is at the channel, and what it holds.
Results(k) == {<<"result", k, v>> : v \in Verdicts \cup {"stopped"}}
InWait == spc \in {"wait", "poll"}

Channel ==
  /\ mpc # "out" => call \in Callbacks
  /\ mpc \in {"out", "bell", "sequence", "post"} => chan = 0
  /\ mpc \in {"bell", "sequence", "post"} \/ chan = 1 => payload = <<"arguments", call>>
  /\ spc \in {"body", "wait", "poll", "post"} => chan = 1 /\ running = call
  /\ chan \in {2, 3} => /\ payload \in Results(call)
                        /\ payload = <<"result", call, "stopped">> <=> chan = 3 /\ stopped
  /\ stopped => chan = 3 \/ (spc = "post" /\ verdict = "stopped")
  /\ spc = "post" => (stopped <=> verdict = "stopped")
  /\ spc \notin {"post", "ring", "tail"} => verdict = "ok"
  /\ mpc \in {"list", "swap"} => look # None
  /\ OwnResult

\* What a step of a slot depends on and keeps besides.
MainPCs == {"out", "bell", "sequence", "post", "notify", "loop", "changed", "wait", "reread",
            "look", "list", "swap", "walk", "run", "write", "set", "wake"}

\* The types of the slots and of the inline server.
MainTypes ==
  /\ TypeOK
  /\ mpc \in MainPCs
  /\ cur \in Slots \cup {None} /\ back \in {"loop", "look"}

USE DEF clientVars, wordVars, waitVars, hostVars, ghostVars, GoTo, ServerAt, Inline, Server,
        ClientPCs, ServerPCs, OnMain, Posted, Taken, Fresh

-----------------------------------------------------------------------------
(* Steps of HostSlot keep it, the server's only outside callbacks.         *)

\* Call keeps the two servers' turns: a nested call needs the parent asleep, so no
\* other slot loses its parent.
LEMMA CallServed ==
  ASSUME MainTypes, Served, NEW s \in Slots, NEW o \in Operations, Call(s, o),
         UNCHANGED <<mpc, cur, back>>
  PROVE  MainTypes' /\ Served'
<1>1. TypeOK'
  BY DEF MainTypes, TypeOK, Call
<1>2. ASSUME NEW t \in Slots PROVE Turn(t)'
  <2>1. cpc'[t] # "idle" /\ Parent[t] # None => cpc'[Parent[t]] = "nested"
    <3> SUFFICES ASSUME cpc'[t] # "idle", Parent[t] # None PROVE cpc'[Parent[t]] = "nested"
      OBVIOUS
    <3>1. Parent[t] \in Slots /\ Parent[t] # t
      BY SlotsAssumption
    <3>2. CASE t = s
      BY <3>1, <3>2 DEF Call
    <3>3. CASE t # s
      <4>1. cpc[t] # "idle"
        BY <3>3, SlotsAssumption DEF Call
      <4>2. cpc[Parent[t]] = "nested"
        BY <4>1 DEF Served, Turn
      <4> QED BY <3>1, <4>2 DEF Call
    <3> QED BY <3>2, <3>3
  <2>2. CASE t = s
    BY SMTT(20), <2>1, <2>2, SlotsAssumption
       DEF MainTypes, TypeOK, Served, Turn, Call
  <2>3. CASE t # s
    BY <2>1, <2>3, SlotsAssumption DEF MainTypes, TypeOK, Served, Turn, Call
  <2> QED BY <2>2, <2>3
<1>3. ASSUME NEW t \in Slots PROVE Load(t)'
  BY SlotsAssumption, OperationsAssumption
     DEF MainTypes, TypeOK, Served, Turn, Load, Answered, Call
<1>4. Blocked'
  BY DEF MainTypes, TypeOK, Served, Blocked, Call
<1> QED BY <1>1, <1>2, <1>3, <1>4 DEF Served, MainTypes

\* ClearReady keeps the two servers' turns.
LEMMA ClearReadyServed ==
  ASSUME MainTypes, Served, NEW s \in Slots, ClearReady(s),
         UNCHANGED <<mpc, cur, back>>
  PROVE  MainTypes' /\ Served'
<1>1. TypeOK'
  BY SlotsAssumption, OperationsAssumption, SizesAssumption, BoundsAssumption
     DEF MainTypes, TypeOK, Served, Turn, Load, ClearReady, Statuses, Replies
<1>2. ASSUME NEW t \in Slots PROVE Turn(t)'
  BY SlotsAssumption
     DEF MainTypes, TypeOK, Served, Turn, ClearReady
<1>3. ASSUME NEW t \in Slots PROVE Load(t)'
  BY SlotsAssumption, OperationsAssumption, SizesAssumption
     DEF MainTypes, TypeOK, Served, Turn, Load, Answered, ClearReady
<1>4. Blocked'
  BY DEF MainTypes, TypeOK, Served, Blocked, ClearReady
<1> QED BY <1>1, <1>2, <1>3, <1>4 DEF Served, MainTypes

\* BumpSequence keeps the two servers' turns.
LEMMA BumpSequenceServed ==
  ASSUME MainTypes, Served, NEW s \in Slots, BumpSequence(s),
         UNCHANGED <<mpc, cur, back>>
  PROVE  MainTypes' /\ Served'
<1>1. TypeOK'
  BY SlotsAssumption, OperationsAssumption, SizesAssumption, BoundsAssumption, NextSequence
     DEF MainTypes, TypeOK, Served, Turn, Load, BumpSequence, Statuses, Replies
<1>2. ASSUME NEW t \in Slots PROVE Turn(t)'
  BY SlotsAssumption, NextSequence
     DEF MainTypes, TypeOK, Served, Turn, BumpSequence
<1>3. ASSUME NEW t \in Slots PROVE Load(t)'
  BY SlotsAssumption, OperationsAssumption, SizesAssumption, NextSequence
     DEF MainTypes, TypeOK, Served, Turn, Load, Answered, BumpSequence
<1>4. Blocked'
  BY DEF MainTypes, TypeOK, Served, Blocked, BumpSequence
<1> QED BY <1>1, <1>2, <1>3, <1>4 DEF Served, MainTypes

\* NotifySequence keeps the two servers' turns.
LEMMA NotifySequenceServed ==
  ASSUME MainTypes, Served, NEW s \in Slots, NotifySequence(s),
         UNCHANGED <<mpc, cur, back>>
  PROVE  MainTypes' /\ Served'
<1>1. TypeOK'
  BY SlotsAssumption, OperationsAssumption, SizesAssumption, BoundsAssumption
     DEF MainTypes, TypeOK, Served, Turn, Load, NotifySequence, Statuses, Replies
<1>2. ASSUME NEW t \in Slots PROVE Turn(t)'
  BY SlotsAssumption
     DEF MainTypes, TypeOK, Served, Turn, NotifySequence
<1>3. ASSUME NEW t \in Slots PROVE Load(t)'
  BY SlotsAssumption, OperationsAssumption, SizesAssumption
     DEF MainTypes, TypeOK, Served, Turn, Load, Answered, NotifySequence
<1>4. Blocked'
  BY DEF MainTypes, TypeOK, Served, Blocked, NotifySequence
<1> QED BY <1>1, <1>2, <1>3, <1>4 DEF Served, MainTypes

\* RingDoorbell keeps the two servers' turns.
LEMMA RingDoorbellServed ==
  ASSUME MainTypes, Served, NEW s \in Slots, RingDoorbell(s),
         UNCHANGED <<mpc, cur, back>>
  PROVE  MainTypes' /\ Served'
<1>1. TypeOK'
  BY SlotsAssumption, OperationsAssumption, SizesAssumption, BoundsAssumption
     DEF MainTypes, TypeOK, Served, Turn, Load, RingDoorbell, Statuses, Replies
<1>2. ASSUME NEW t \in Slots PROVE Turn(t)'
  BY SlotsAssumption
     DEF MainTypes, TypeOK, Served, Turn, RingDoorbell
<1>3. ASSUME NEW t \in Slots PROVE Load(t)'
  BY SlotsAssumption, OperationsAssumption, SizesAssumption
     DEF MainTypes, TypeOK, Served, Turn, Load, Answered, RingDoorbell
<1>4. Blocked'
  BY DEF MainTypes, TypeOK, Served, Blocked, RingDoorbell
<1> QED BY <1>1, <1>2, <1>3, <1>4 DEF Served, MainTypes

\* SeePending keeps the two servers' turns.
LEMMA SeePendingServed ==
  ASSUME MainTypes, Served, NEW s \in Slots, SeePending(s),
         UNCHANGED <<mpc, cur, back>>
  PROVE  MainTypes' /\ Served'
<1>1. TypeOK'
  BY SlotsAssumption, OperationsAssumption, SizesAssumption, BoundsAssumption
     DEF MainTypes, TypeOK, Served, Turn, Load, SeePending, Statuses, Replies
<1>2. ASSUME NEW t \in Slots PROVE Turn(t)'
  BY SlotsAssumption
     DEF MainTypes, TypeOK, Served, Turn, SeePending
<1>3. ASSUME NEW t \in Slots PROVE Load(t)'
  BY SlotsAssumption, OperationsAssumption, SizesAssumption
     DEF MainTypes, TypeOK, Served, Turn, Load, Answered, SeePending
<1>4. Blocked'
  BY DEF MainTypes, TypeOK, Served, Blocked, SeePending
<1> QED BY <1>1, <1>2, <1>3, <1>4 DEF Served, MainTypes

\* EnterWaits keeps the two servers' turns.
LEMMA EnterWaitsServed ==
  ASSUME MainTypes, Served, NEW s \in Slots, EnterWaits(s),
         UNCHANGED <<mpc, cur, back>>
  PROVE  MainTypes' /\ Served'
<1>1. TypeOK'
  BY SlotsAssumption, OperationsAssumption, SizesAssumption, BoundsAssumption
     DEF MainTypes, TypeOK, Served, Turn, Load, EnterWaits, Statuses, Replies
<1>2. ASSUME NEW t \in Slots PROVE Turn(t)'
  BY SlotsAssumption
     DEF MainTypes, TypeOK, Served, Turn, EnterWaits
<1>3. ASSUME NEW t \in Slots PROVE Load(t)'
  BY SlotsAssumption, OperationsAssumption, SizesAssumption
     DEF MainTypes, TypeOK, Served, Turn, Load, Answered, EnterWaits
<1>4. Blocked'
  BY DEF MainTypes, TypeOK, Served, Blocked, EnterWaits
<1> QED BY <1>1, <1>2, <1>3, <1>4 DEF Served, MainTypes

\* FutexWait keeps the two servers' turns.
LEMMA FutexWaitServed ==
  ASSUME MainTypes, Served, NEW s \in Slots, FutexWait(s),
         UNCHANGED <<mpc, cur, back>>
  PROVE  MainTypes' /\ Served'
<1>1. TypeOK'
  BY SlotsAssumption, OperationsAssumption, SizesAssumption, BoundsAssumption
     DEF MainTypes, TypeOK, Served, Turn, Load, FutexWait, Statuses, Replies
<1>2. ASSUME NEW t \in Slots PROVE Turn(t)'
  BY SlotsAssumption
     DEF MainTypes, TypeOK, Served, Turn, FutexWait
<1>3. ASSUME NEW t \in Slots PROVE Load(t)'
  BY SlotsAssumption, OperationsAssumption, SizesAssumption
     DEF MainTypes, TypeOK, Served, Turn, Load, Answered, FutexWait
<1>4. Blocked'
  BY DEF MainTypes, TypeOK, Served, Blocked, FutexWait
<1> QED BY <1>1, <1>2, <1>3, <1>4 DEF Served, MainTypes

\* LeaveWaits keeps the two servers' turns.
LEMMA LeaveWaitsServed ==
  ASSUME MainTypes, Served, NEW s \in Slots, LeaveWaits(s),
         UNCHANGED <<mpc, cur, back>>
  PROVE  MainTypes' /\ Served'
<1>1. TypeOK'
  BY SlotsAssumption, OperationsAssumption, SizesAssumption, BoundsAssumption
     DEF MainTypes, TypeOK, Served, Turn, Load, LeaveWaits, Statuses, Replies
<1>2. ASSUME NEW t \in Slots PROVE Turn(t)'
  BY SlotsAssumption
     DEF MainTypes, TypeOK, Served, Turn, LeaveWaits
<1>3. ASSUME NEW t \in Slots PROVE Load(t)'
  BY SlotsAssumption, OperationsAssumption, SizesAssumption
     DEF MainTypes, TypeOK, Served, Turn, Load, Answered, LeaveWaits
<1>4. Blocked'
  BY DEF MainTypes, TypeOK, Served, Blocked, LeaveWaits
<1> QED BY <1>1, <1>2, <1>3, <1>4 DEF Served, MainTypes

\* AskForCopy keeps the two servers' turns.
LEMMA AskForCopyServed ==
  ASSUME MainTypes, Served, NEW s \in Slots, AskForCopy(s),
         UNCHANGED <<mpc, cur, back>>
  PROVE  MainTypes' /\ Served'
<1>1. TypeOK'
  BY SlotsAssumption, OperationsAssumption, SizesAssumption, BoundsAssumption
     DEF MainTypes, TypeOK, Served, Turn, Load, AskForCopy, Statuses, Replies
<1>2. ASSUME NEW t \in Slots PROVE Turn(t)'
  BY SlotsAssumption
     DEF MainTypes, TypeOK, Served, Turn, AskForCopy
<1>3. ASSUME NEW t \in Slots PROVE Load(t)'
  BY SlotsAssumption, OperationsAssumption, SizesAssumption
     DEF MainTypes, TypeOK, Served, Turn, Load, Answered, AskForCopy
<1>4. Blocked'
  BY DEF MainTypes, TypeOK, Served, Blocked, AskForCopy
<1> QED BY <1>1, <1>2, <1>3, <1>4 DEF Served, MainTypes

\* Return keeps the two servers' turns.
LEMMA ReturnServed ==
  ASSUME MainTypes, Served, NEW s \in Slots, Return(s),
         UNCHANGED <<mpc, cur, back>>
  PROVE  MainTypes' /\ Served'
<1>1. TypeOK'
  BY SlotsAssumption, OperationsAssumption, SizesAssumption, BoundsAssumption
     DEF MainTypes, TypeOK, Served, Turn, Load, Return, Statuses, Replies
<1>2. ASSUME NEW t \in Slots PROVE Turn(t)'
  <2>1. cpc'[t] # "idle" /\ Parent[t] # None => cpc'[Parent[t]] = "nested"
    <3> SUFFICES ASSUME cpc'[t] # "idle", Parent[t] # None PROVE cpc'[Parent[t]] = "nested"
      OBVIOUS
    <3>1. t # s /\ Parent[t] \in Slots /\ Parent[t] # t
      BY SlotsAssumption DEF Return
    <3>2. cpc[t] # "idle"
      BY <3>1, SlotsAssumption DEF Served, Turn, Return
    <3>3. cpc[Parent[t]] = "nested" /\ cpc[s] = "check"
      BY <3>2 DEF Served, Turn, Return
    <3>4. Parent[t] # s /\ Parent[t] # Parent[s]
      BY <3>1, <3>3, SlotsAssumption
    <3> QED BY <3>1, <3>3, <3>4 DEF Return
  <2>2. CASE t = s
    BY <2>1, <2>2 DEF MainTypes, TypeOK, Served, Turn, Return
  <2>3. CASE t # s
    BY <2>1, <2>3, SlotsAssumption
       DEF MainTypes, TypeOK, Served, Turn, Return
  <2> QED BY <2>2, <2>3
<1>3. ASSUME NEW t \in Slots PROVE Load(t)'
  BY SlotsAssumption, OperationsAssumption, SizesAssumption
     DEF MainTypes, TypeOK, Served, Turn, Load, Answered, Return
<1>4. Blocked'
  BY DEF MainTypes, TypeOK, Served, Blocked, Return
<1> QED BY <1>1, <1>2, <1>3, <1>4 DEF Served, MainTypes

\* RegisterSlot keeps the two servers' turns.
LEMMA RegisterSlotServed ==
  ASSUME MainTypes, Served, NEW s \in Slots, RegisterSlot(s), mpc = "out",
         UNCHANGED <<mpc, cur, back>>
  PROVE  MainTypes' /\ Served'
<1>1. TypeOK'
  BY SlotsAssumption, OperationsAssumption, SizesAssumption, BoundsAssumption
     DEF MainTypes, TypeOK, Served, Turn, Load, RegisterSlot, Statuses, Replies
<1>2. ASSUME NEW t \in Slots PROVE Turn(t)'
  BY SlotsAssumption
     DEF MainTypes, TypeOK, Served, Turn, RegisterSlot
<1>3. ASSUME NEW t \in Slots PROVE Load(t)'
  <2>1. served' = served
    BY DEF MainTypes, TypeOK, Served, Turn, RegisterSlot
  <2>2. large' = large
    BY DEF MainTypes, TypeOK, Served, Turn, Load, RegisterSlot
  <2> QED BY <2>1, <2>2
     DEF MainTypes, TypeOK, Served, Turn, Load, Answered, RegisterSlot
<1>4. Blocked'
  BY DEF MainTypes, TypeOK, Served, Blocked, RegisterSlot
<1> QED BY <1>1, <1>2, <1>3, <1>4 DEF Served, MainTypes

\* Resume keeps the two servers' turns.
LEMMA ResumeServed ==
  ASSUME MainTypes, Served, NEW s \in Slots, Resume(s), mpc = "out",
         UNCHANGED <<mpc, cur, back>>
  PROVE  MainTypes' /\ Served'
<1>1. TypeOK'
  BY SlotsAssumption, OperationsAssumption, SizesAssumption, BoundsAssumption
     DEF MainTypes, TypeOK, Served, Turn, Load, Resume, Statuses, Replies
<1>2. ASSUME NEW t \in Slots PROVE Turn(t)'
  BY SlotsAssumption
     DEF MainTypes, TypeOK, Served, Turn, Resume
<1>3. ASSUME NEW t \in Slots PROVE Load(t)'
  BY SlotsAssumption, OperationsAssumption, SizesAssumption
     DEF MainTypes, TypeOK, Served, Turn, Load, Answered, Resume
<1>4. Blocked'
  BY DEF MainTypes, TypeOK, Served, Blocked, Resume
<1> QED BY <1>1, <1>2, <1>3, <1>4 DEF Served, MainTypes

\* LoadSequence keeps the two servers' turns.
LEMMA LoadSequenceServed ==
  ASSUME MainTypes, Served, NEW s \in Slots, LoadSequence(s), mpc = "out",
         UNCHANGED <<mpc, cur, back>>
  PROVE  MainTypes' /\ Served'
<1>1. TypeOK'
  BY SlotsAssumption, OperationsAssumption, SizesAssumption, BoundsAssumption
     DEF MainTypes, TypeOK, Served, Turn, Load, LoadSequence, Statuses, Replies
<1>2. ASSUME NEW t \in Slots PROVE Turn(t)'
  BY SlotsAssumption
     DEF MainTypes, TypeOK, Served, Turn, LoadSequence
<1>3. ASSUME NEW t \in Slots PROVE Load(t)'
  BY SlotsAssumption, OperationsAssumption, SizesAssumption
     DEF MainTypes, TypeOK, Served, Turn, Load, Answered, LoadSequence
<1>4. Blocked'
  BY DEF MainTypes, TypeOK, Served, Blocked, LoadSequence
<1> QED BY <1>1, <1>2, <1>3, <1>4 DEF Served, MainTypes

\* Arm keeps the two servers' turns.
LEMMA ArmServed ==
  ASSUME MainTypes, Served, NEW s \in Slots, Arm(s), mpc = "out",
         UNCHANGED <<mpc, cur, back>>
  PROVE  MainTypes' /\ Served'
<1>1. TypeOK'
  BY SMTT(20), SlotsAssumption, OperationsAssumption, SizesAssumption, BoundsAssumption
     DEF MainTypes, TypeOK, Served, Turn, Load, Arm, Statuses, Replies
<1>2. ASSUME NEW t \in Slots PROVE Turn(t)'
  BY SlotsAssumption
     DEF MainTypes, TypeOK, Served, Turn, Arm
<1>3. ASSUME NEW t \in Slots PROVE Load(t)'
  BY SlotsAssumption, OperationsAssumption, SizesAssumption
     DEF MainTypes, TypeOK, Served, Turn, Load, Answered, Arm
<1>4. Blocked'
  BY DEF MainTypes, TypeOK, Served, Blocked, Arm
<1> QED BY <1>1, <1>2, <1>3, <1>4 DEF Served, MainTypes

\* ServeCopy keeps the two servers' turns.
LEMMA ServeCopyServed ==
  ASSUME MainTypes, Served, NEW s \in Slots, ServeCopy(s), mpc = "out",
         UNCHANGED <<mpc, cur, back>>
  PROVE  MainTypes' /\ Served'
<1>1. TypeOK'
  BY SlotsAssumption, OperationsAssumption, SizesAssumption, BoundsAssumption
     DEF MainTypes, TypeOK, Served, Turn, Load, ServeCopy, Statuses, Replies
<1>2. ASSUME NEW t \in Slots PROVE Turn(t)'
  BY SlotsAssumption
     DEF MainTypes, TypeOK, Served, Turn, ServeCopy
<1>3. ASSUME NEW t \in Slots PROVE Load(t)'
  BY SlotsAssumption, OperationsAssumption, SizesAssumption
     DEF MainTypes, TypeOK, Served, Turn, Load, Answered, ServeCopy
<1>4. Blocked'
  BY DEF MainTypes, TypeOK, Served, Blocked, ServeCopy
<1> QED BY <1>1, <1>2, <1>3, <1>4 DEF Served, MainTypes

\* ServeRequest keeps the two servers' turns.
LEMMA ServeRequestServed ==
  ASSUME MainTypes, Served, NEW s \in Slots, ServeRequest(s), mpc = "out",
         UNCHANGED <<mpc, cur, back>>
  PROVE  MainTypes' /\ Served'
<1>1. TypeOK'
  <2>1. CASE host = "loaded"
    BY <2>1 DEF MainTypes, TypeOK, ServeRequest
  <2>2. CASE host # "loaded"
    BY <2>2 DEF MainTypes, TypeOK, ServeRequest
  <2> QED BY <2>1, <2>2
<1>2. ASSUME NEW t \in Slots PROVE Turn(t)'
  BY SlotsAssumption
     DEF MainTypes, TypeOK, Served, Turn, ServeRequest
<1>3. ASSUME NEW t \in Slots PROVE Load(t)'
  BY SlotsAssumption, OperationsAssumption, SizesAssumption
     DEF MainTypes, TypeOK, Served, Turn, Load, Answered, ServeRequest
<1>4. Blocked'
  BY DEF MainTypes, TypeOK, Served, Blocked, ServeRequest
<1> QED BY <1>1, <1>2, <1>3, <1>4 DEF Served, MainTypes

\* AfterLoad keeps the two servers' turns.
LEMMA AfterLoadServed ==
  ASSUME MainTypes, Served, NEW s \in Slots, AfterLoad(s), mpc = "out",
         UNCHANGED <<mpc, cur, back>>
  PROVE  MainTypes' /\ Served'
<1>1. TypeOK'
  BY DEF MainTypes, TypeOK, Served, Blocked, AfterLoad
<1>2. ASSUME NEW t \in Slots PROVE Turn(t)'
  BY SlotsAssumption
     DEF MainTypes, TypeOK, Served, Turn, AfterLoad
<1>3. ASSUME NEW t \in Slots PROVE Load(t)'
  BY SlotsAssumption, OperationsAssumption, SizesAssumption
     DEF MainTypes, TypeOK, Served, Turn, Load, Answered, AfterLoad
<1>4. Blocked'
  BY DEF MainTypes, TypeOK, Served, Blocked, AfterLoad
<1> QED BY <1>1, <1>2, <1>3, <1>4 DEF Served, MainTypes

\* RunNow keeps the two servers' turns.
LEMMA RunNowServed ==
  ASSUME MainTypes, Served, NEW s \in Slots, NEW r \in Outcomes, RunNow(s, r), mpc = "out",
         UNCHANGED <<mpc, cur, back>>
  PROVE  MainTypes' /\ Served'
<1>1. TypeOK'
  <2>1. <<op[s], r>> \in Replies
    <3>1. srv[s] \in Taken
      BY DEF RunNow, Taken
    <3>2. cpc[s] # "idle" /\ kind[s] = "request"
      BY <3>1 DEF MainTypes, TypeOK, Served, Turn, Load, Posted, RunNow
    <3>3. op[s] = want[s] /\ want[s] # None
      BY <3>2 DEF Served, Load
    <3> QED BY <3>3, OperationsAssumption DEF MainTypes, TypeOK, Replies
  <2> QED BY <2>1, OperationsAssumption DEF MainTypes, TypeOK, RunNow
<1>2. ASSUME NEW t \in Slots PROVE Turn(t)'
  BY SlotsAssumption
     DEF MainTypes, TypeOK, Served, Turn, RunNow
<1>3. ASSUME NEW t \in Slots PROVE Load(t)'
  BY SlotsAssumption, OperationsAssumption, SizesAssumption
     DEF MainTypes, TypeOK, Served, Turn, Load, Answered, RunNow
<1>4. Blocked'
  BY DEF MainTypes, TypeOK, Served, Blocked, RunNow
<1> QED BY <1>1, <1>2, <1>3, <1>4 DEF Served, MainTypes

\* RunAsync keeps the two servers' turns.
LEMMA RunAsyncServed ==
  ASSUME MainTypes, Served, NEW s \in Slots, RunAsync(s), mpc = "out",
         UNCHANGED <<mpc, cur, back>>
  PROVE  MainTypes' /\ Served'
<1>1. TypeOK'
  BY SlotsAssumption, OperationsAssumption, SizesAssumption, BoundsAssumption
     DEF MainTypes, TypeOK, Served, Turn, Load, RunAsync, Statuses, Replies
<1>2. ASSUME NEW t \in Slots PROVE Turn(t)'
  BY SlotsAssumption
     DEF MainTypes, TypeOK, Served, Turn, RunAsync
<1>3. ASSUME NEW t \in Slots PROVE Load(t)'
  BY SlotsAssumption, OperationsAssumption, SizesAssumption
     DEF MainTypes, TypeOK, Served, Turn, Load, Answered, RunAsync
<1>4. Blocked'
  BY DEF MainTypes, TypeOK, Served, Blocked, RunAsync
<1> QED BY <1>1, <1>2, <1>3, <1>4 DEF Served, MainTypes

\* Settle keeps the two servers' turns.
LEMMA SettleServed ==
  ASSUME MainTypes, Served, NEW s \in Slots, NEW r \in Outcomes, Settle(s, r), mpc = "out",
         UNCHANGED <<mpc, cur, back>>
  PROVE  MainTypes' /\ Served'
<1>1. TypeOK'
  <2>1. <<op[s], r>> \in Replies
    <3>1. srv[s] \in Taken
      BY DEF Settle, Taken
    <3>2. cpc[s] # "idle" /\ kind[s] = "request"
      BY <3>1 DEF MainTypes, TypeOK, Served, Turn, Load, Posted, Settle
    <3>3. op[s] = want[s] /\ want[s] # None
      BY <3>2 DEF Served, Load
    <3> QED BY <3>3, OperationsAssumption DEF MainTypes, TypeOK, Replies
  <2> QED BY <2>1, OperationsAssumption DEF MainTypes, TypeOK, Settle
<1>2. ASSUME NEW t \in Slots PROVE Turn(t)'
  BY SlotsAssumption
     DEF MainTypes, TypeOK, Served, Turn, Settle
<1>3. ASSUME NEW t \in Slots PROVE Load(t)'
  BY SlotsAssumption, OperationsAssumption, SizesAssumption
     DEF MainTypes, TypeOK, Served, Turn, Load, Answered, Settle
<1>4. Blocked'
  BY DEF MainTypes, TypeOK, Served, Blocked, Settle
<1> QED BY <1>1, <1>2, <1>3, <1>4 DEF Served, MainTypes

\* WriteReply keeps the two servers' turns.
LEMMA WriteReplyServed ==
  ASSUME MainTypes, Served, NEW s \in Slots, WriteReply(s), mpc = "out",
         UNCHANGED <<mpc, cur, back>>
  PROVE  MainTypes' /\ Served'
<1>1. TypeOK'
  <2>1. job[s] \in Replies
    <3>1. cpc[s] # "idle"
      BY DEF Served, Turn, Posted, Taken, WriteReply
    <3>2. job[s] = <<want[s], out[s]>> /\ want[s] # None /\ out[s] # None
      BY <3>1 DEF Served, Load, WriteReply
    <3> QED BY <3>2 DEF MainTypes, TypeOK, Replies
  <2>2. Size[job[s]] \in Nat /\ job[s][1] \in Operations /\ job[s][2] \in Statuses
    BY <2>1, SizesAssumption DEF Replies, Statuses
  <2>3. /\ length' \in [Slots -> Nat]
        /\ status' \in [Slots -> Statuses]
        /\ buffer' \in [Slots -> Operations \cup {None}]
        /\ large' \in [Slots -> Replies \cup {None}]
    BY <2>1, <2>2, Zenon DEF MainTypes, TypeOK, WriteReply, PutReply, Statuses
  <2> QED BY <2>3 DEF MainTypes, TypeOK, WriteReply
<1>2. ASSUME NEW t \in Slots PROVE Turn(t)'
  BY SlotsAssumption
     DEF MainTypes, TypeOK, Served, Turn, WriteReply
<1>3. ASSUME NEW t \in Slots PROVE Load(t)'
  BY SlotsAssumption, OperationsAssumption, SizesAssumption
     DEF MainTypes, TypeOK, Served, Turn, Load, Answered, WriteReply, PutReply
<1>4. Blocked'
  BY DEF MainTypes, TypeOK, Served, Blocked, WriteReply
<1> QED BY <1>1, <1>2, <1>3, <1>4 DEF Served, MainTypes

\* SetReady keeps the two servers' turns.
LEMMA SetReadyServed ==
  ASSUME MainTypes, Served, NEW s \in Slots, SetReady(s), mpc = "out",
         UNCHANGED <<mpc, cur, back>>
  PROVE  MainTypes' /\ Served'
<1>1. TypeOK'
  BY SlotsAssumption, OperationsAssumption, SizesAssumption, BoundsAssumption
     DEF MainTypes, TypeOK, Served, Turn, Load, SetReady, Statuses, Replies
<1>2. ASSUME NEW t \in Slots PROVE Turn(t)'
  BY SlotsAssumption
     DEF MainTypes, TypeOK, Served, Turn, SetReady
<1>3. ASSUME NEW t \in Slots PROVE Load(t)'
  BY SlotsAssumption, OperationsAssumption, SizesAssumption
     DEF MainTypes, TypeOK, Served, Turn, Load, Answered, SetReady
<1>4. Blocked'
  BY DEF MainTypes, TypeOK, Served, Blocked, SetReady
<1> QED BY <1>1, <1>2, <1>3, <1>4 DEF Served, MainTypes

\* WakeCaller keeps the two servers' turns.
LEMMA WakeCallerServed ==
  ASSUME MainTypes, Served, NEW s \in Slots, WakeCaller(s), mpc = "out",
         UNCHANGED <<mpc, cur, back>>
  PROVE  MainTypes' /\ Served'
<1>1. TypeOK'
  BY DEF MainTypes, TypeOK, WakeCaller
<1>2. ASSUME NEW t \in Slots PROVE Turn(t)'
  BY SlotsAssumption
     DEF MainTypes, TypeOK, Served, Turn, WakeCaller
<1>3. ASSUME NEW t \in Slots PROVE Load(t)'
  BY SlotsAssumption, OperationsAssumption, SizesAssumption
     DEF MainTypes, TypeOK, Served, Turn, Load, Answered, WakeCaller
<1>4. Blocked'
  BY DEF MainTypes, TypeOK, Served, Blocked, WakeCaller
<1> QED BY <1>1, <1>2, <1>3, <1>4 DEF Served, MainTypes

-----------------------------------------------------------------------------
(* Steps of the inline server.                                             *)

\* A step that keeps the slots, and the one served inline.
LEMMA QuietServed ==
  ASSUME MainTypes, Served,
         bell' \in BOOLEAN, listed' \in SUBSET Slots, moved' \in BOOLEAN,
         UNCHANGED <<clientVars, seq, ready, wordVars, hostVars, ghostVars>>,
         mpc' \in MainPCs, cur' \in Slots \cup {None}, back' \in {"loop", "look"},
         \/ UNCHANGED <<mpc, cur>>
         \/ /\ mpc \notin {"run", "write", "set", "wake"}
            /\ mpc' \notin {"run", "write", "set", "wake"}
            /\ IF mpc' = "walk" THEN cur' \in Slots /\ Thread[cur'] = S0
                                ELSE cur' = None
            /\ mpc = "out" /\ main # None => srv[main] = "run"
  PROVE  MainTypes' /\ Served'
<1>1. TypeOK'
  BY DEF MainTypes, TypeOK
<1>2. Blocked'
  BY SlotsAssumption DEF MainTypes, Served, Blocked
<1>3. ASSUME NEW t \in Slots PROVE Server(t)' = Server(t) /\ Inline(t)' = Inline(t)
  BY DEF Served, Blocked
<1>4. ASSUME NEW t \in Slots PROVE Turn(t)' /\ Load(t)'
  BY <1>3 DEF Served, Turn, Load, Answered
<1> QED BY <1>1, <1>2, <1>4 DEF MainTypes, Served

\* The slot the main thread goes on to is one of the callback's thread, at a depth
\* of its own.
LEMMA WalkOnFacts ==
  ASSUME MainTypes, Served, mpc \in {"walk", "wake"}, WalkOn
  PROVE  /\ cur \in Slots
         /\ mpc' \in MainPCs /\ cur' \in Slots \cup {None}
         /\ IF mpc' = "walk" THEN cur' \in Slots /\ Thread[cur'] = S0
                             ELSE cur' = None /\ mpc' \in {"loop", "look"}
<1>1. cur \in Slots
  BY DEF MainTypes, Served, Blocked
<1>2. NextDepth(cur) # None => NextDepth(cur) \in Linked(cur)
  BY DEF NextDepth
<1>3. Linked(cur) \subseteq Slots /\ \A t \in Linked(cur) : Parent[t] = cur
  BY DEF Linked
<1>4. Thread[cur] = S0
  BY <1>1, SlotsAssumption DEF Served, Blocked, MainTypes
<1>5. \A t \in Linked(cur) : Thread[t] = S0
  BY <1>1, <1>3, <1>4, SlotsAssumption, ThreadAssumption
<1> QED BY <1>1, <1>2, <1>3, <1>5, SlotsAssumption DEF WalkOn, MainAt, MainPCs, MainTypes

\* A slot that is loaded inline is taken only if its request is not served yet, and
\* no server of the event loop is at work for it.
LEMMA WalkLoadServed ==
  ASSUME MainTypes, Served, WalkLoad
  PROVE  MainTypes' /\ Served'
<1>1. /\ cur \in Slots /\ mpc' \in MainPCs /\ cur' \in Slots \cup {None} /\ back' = back
      /\ IF seq[cur] = served[cur]
         THEN IF mpc' = "walk" THEN cur' \in Slots /\ Thread[cur'] = S0
                               ELSE cur' = None /\ mpc' \in {"loop", "look"}
         ELSE cur' = cur /\ mpc' = "run"
  BY WalkOnFacts DEF WalkLoad, MainTypes, MainPCs, MainAt, Served, Blocked
<1>2. TypeOK'
  BY <1>1 DEF MainTypes, TypeOK, WalkLoad
<1>3. Blocked'
  BY <1>1, SlotsAssumption DEF MainTypes, Served, Blocked, WalkLoad
<1>4. seq[cur] # served[cur] => srv[cur] \in {"message", "armed", "woken"}
  BY <1>1 DEF MainTypes, TypeOK, Served, Blocked, Turn, WalkLoad
<1>5. ASSUME NEW t \in Slots PROVE Turn(t)'
  BY <1>1, <1>4 DEF MainTypes, TypeOK, Served, Turn, WalkLoad
<1>6. ASSUME NEW t \in Slots PROVE Load(t)'
  BY <1>1, <1>4 DEF MainTypes, TypeOK, Served, Turn, Load, Answered, WalkLoad
<1> QED BY <1>1, <1>2, <1>3, <1>5, <1>6 DEF MainTypes, Served

\* A copy is answered with the reply that was kept.
LEMMA WalkCopyServed ==
  ASSUME MainTypes, Served, WalkCopy
  PROVE  MainTypes' /\ Served'
<1>1. /\ cur \in Slots /\ mpc' = "write" /\ cur' = cur /\ back' = back
  BY DEF WalkCopy, MainTypes, MainAt, Served, Blocked
<1>2. TypeOK'
  BY <1>1 DEF MainTypes, TypeOK, WalkCopy
<1>3. Blocked'
  BY <1>1 DEF MainTypes, Served, Blocked, WalkCopy
<1>5. ASSUME NEW t \in Slots PROVE Turn(t)'
  BY <1>1 DEF MainTypes, TypeOK, Served, Turn, WalkCopy
<1>6. ASSUME NEW t \in Slots PROVE Load(t)'
  BY <1>1 DEF MainTypes, TypeOK, Served, Turn, Load, Answered, WalkCopy
<1> QED BY <1>1, <1>2, <1>3, <1>5, <1>6 DEF MainTypes, MainPCs, Served

\* A request runs for the first time.
LEMMA WalkRunServed ==
  ASSUME MainTypes, Served, NEW r \in Outcomes, WalkRun(r)
  PROVE  MainTypes' /\ Served'
<1>1. /\ cur \in Slots /\ mpc = "run" /\ mpc' = "write" /\ cur' = cur /\ back' = back
  BY DEF WalkRun, MainTypes, MainAt, Served, Blocked
<1>2. TypeOK'
  <2>1. op[cur] = want[cur] /\ want[cur] # None
    BY <1>1 DEF MainTypes, TypeOK, Served, Turn, Load, WalkRun
  <2>2. <<op[cur], r>> \in Replies
    BY <1>1, <2>1 DEF MainTypes, TypeOK, Replies
  <2> QED BY <1>1, <2>2 DEF MainTypes, TypeOK, WalkRun
<1>3. Blocked'
  BY <1>1 DEF MainTypes, Served, Blocked, WalkRun
<1>5. ASSUME NEW t \in Slots PROVE Turn(t)'
  BY <1>1 DEF MainTypes, TypeOK, Served, Turn, WalkRun
<1>6. ASSUME NEW t \in Slots PROVE Load(t)'
  BY <1>1, OperationsAssumption DEF MainTypes, TypeOK, Served, Turn, Load, Answered, WalkRun
<1> QED BY <1>1, <1>2, <1>3, <1>5, <1>6 DEF MainTypes, MainPCs, Served

\* The reply is written where the thread will look for it.
LEMMA WalkWriteServed ==
  ASSUME MainTypes, Served, WalkWrite
  PROVE  MainTypes' /\ Served'
<1>1. /\ cur \in Slots /\ mpc = "write" /\ mpc' = "set" /\ cur' = cur /\ back' = back
  BY DEF WalkWrite, MainTypes, MainAt, Served, Blocked
<1>2. TypeOK'
  <2>1. job[cur] \in Replies
    <3>1. cpc[cur] # "idle"
      BY <1>1 DEF Served, Turn
    <3>2. job[cur] = <<want[cur], out[cur]>> /\ want[cur] # None /\ out[cur] # None
      BY <1>1, <3>1 DEF Served, Load
    <3> QED BY <1>1, <3>2 DEF MainTypes, TypeOK, Replies
  <2>2. Size[job[cur]] \in Nat /\ job[cur][1] \in Operations /\ job[cur][2] \in Statuses
    BY <2>1, SizesAssumption DEF Replies, Statuses
  <2>3. /\ length' \in [Slots -> Nat]
        /\ status' \in [Slots -> Statuses]
        /\ buffer' \in [Slots -> Operations \cup {None}]
        /\ large' \in [Slots -> Replies \cup {None}]
    BY <2>1, <2>2, Zenon DEF MainTypes, TypeOK, WalkWrite, PutReply, Statuses
  <2> QED BY <2>3 DEF MainTypes, TypeOK, WalkWrite
<1>3. Blocked'
  BY <1>1 DEF MainTypes, Served, Blocked, WalkWrite
<1>5. ASSUME NEW t \in Slots PROVE Turn(t)'
  BY <1>1 DEF MainTypes, TypeOK, Served, Turn, WalkWrite
<1>6. ASSUME NEW t \in Slots PROVE Load(t)'
  BY <1>1, OperationsAssumption, SizesAssumption
     DEF MainTypes, TypeOK, Served, Turn, Load, Answered, WalkWrite, PutReply
<1> QED BY <1>1, <1>2, <1>3, <1>5, <1>6 DEF MainTypes, MainPCs, Served

\* The reply word is stored, ...
LEMMA WalkSetServed ==
  ASSUME MainTypes, Served, WalkSet
  PROVE  MainTypes' /\ Served'
<1>1. /\ cur \in Slots /\ mpc = "set" /\ mpc' = "wake" /\ cur' = cur /\ back' = back
  BY DEF WalkSet, MainTypes, MainAt, Served, Blocked
<1>2. TypeOK'
  BY <1>1 DEF MainTypes, TypeOK, WalkSet
<1>3. Blocked'
  BY <1>1 DEF MainTypes, Served, Blocked, WalkSet
<1>5. ASSUME NEW t \in Slots PROVE Turn(t)'
  BY <1>1 DEF MainTypes, TypeOK, Served, Turn, WalkSet
<1>6. ASSUME NEW t \in Slots PROVE Load(t)'
  BY <1>1 DEF MainTypes, TypeOK, Served, Turn, Load, Answered, WalkSet
<1> QED BY <1>1, <1>2, <1>3, <1>5, <1>6 DEF MainTypes, MainPCs, Served

\* ... and the thread, if it sleeps on it, is woken.
LEMMA WalkWakeServed ==
  ASSUME MainTypes, Served, WalkWake
  PROVE  MainTypes' /\ Served'
<1>1. /\ cur \in Slots /\ mpc = "wake"
      /\ mpc' \in MainPCs /\ cur' \in Slots \cup {None} /\ back' = back
      /\ IF mpc' = "walk" THEN cur' \in Slots /\ Thread[cur'] = S0
                          ELSE cur' = None /\ mpc' \in {"loop", "look"}
  BY WalkOnFacts DEF WalkWake, MainTypes
<1>2. TypeOK'
  BY <1>1 DEF MainTypes, TypeOK, WalkWake
<1>3. Blocked'
  BY <1>1, SlotsAssumption DEF MainTypes, Served, Blocked, WalkWake
<1>5. ASSUME NEW t \in Slots PROVE Turn(t)'
  <2>1. CASE t = cur
    BY <1>1, <2>1, SlotsAssumption DEF MainTypes, TypeOK, Served, Turn, WalkWake
  <2>2. CASE t # cur
    BY <1>1, <2>2, SlotsAssumption DEF MainTypes, TypeOK, Served, Turn, WalkWake
  <2> QED BY <2>1, <2>2
<1>6. ASSUME NEW t \in Slots PROVE Load(t)'
  BY <1>1 DEF MainTypes, TypeOK, Served, Turn, Load, Answered, WalkWake
<1> QED BY <1>1, <1>2, <1>3, <1>5, <1>6 DEF MainTypes, Served

-----------------------------------------------------------------------------
(* Types and the channel.                                                  *)

USE DEF MainPCs, MainAt, MainOnly, SyncAt, SyncFree, SyncKeeps, HostKeeps, WorkerKeeps,
        chanVars, mainVars, syncThread, workVars, slotVars

\* The main thread inside a callback takes its turn at the channel and gives it up.
LEMMA MainChannel ==
  ASSUME SyncTypeOK, Served, Channel, MainTypes', InCallback
  PROVE  SyncTypeOK' /\ Channel'
<1>1. CASE ReadBell
  <2>1. SyncTypeOK'
    BY <1>1, SyncAssumption DEF SyncTypeOK, MainTypes, Waits, Channel, ReadBell
  <2>2. Channel'
    BY <1>1 DEF SyncTypeOK, Channel, OwnResult, Results, ReadBell
  <2> QED BY <2>1, <2>2
<1>2. CASE ReadSequence
  <2>1. SyncTypeOK'
    BY <1>2, SyncAssumption DEF SyncTypeOK, MainTypes, TypeOK, ReadSequence
  <2>2. Channel'
    BY <1>2 DEF SyncTypeOK, Channel, OwnResult, Results, ReadSequence
  <2> QED BY <2>1, <2>2
<1>3. CASE PostCall
  <2>1. SyncTypeOK'
    BY <1>3, SyncAssumption DEF SyncTypeOK, MainTypes, Waits, Channel, PostCall
  <2>2. Channel'
    BY <1>3 DEF SyncTypeOK, Channel, OwnResult, Results, PostCall
  <2> QED BY <2>1, <2>2
<1>4. CASE NotifyCall
  <2>1. SyncTypeOK'
    BY <1>4, SyncAssumption DEF SyncTypeOK, MainTypes, Waits, Channel, NotifyCall
  <2>2. Channel'
    BY <1>4 DEF SyncTypeOK, Channel, OwnResult, Results, NotifyCall
  <2> QED BY <2>1, <2>2
<1>5. CASE TakeResult
  <2>1. SyncTypeOK'
    <3>1. stopped' \in BOOLEAN
      BY <1>5 DEF SyncTypeOK, TakeResult
    <3>5. chan' \in 0..3
      BY <1>5 DEF TakeResult
    <3>2. /\ UNCHANGED <<payload, word, syncThread, workVars>>
          /\ call' = None /\ lastSeq' = 0 /\ look' = None /\ seen' = None /\ lagging' = {}
      BY <1>5 DEF TakeResult
    <3>3. 0 \in 0..(SeqModulus - 1)
      BY BoundsAssumption
    <3>4. /\ payload' \in {None} \cup ({"arguments"} \X Callbacks)
                       \cup ({"result"} \X Callbacks \X (Verdicts \cup {"stopped"}))
          /\ word' \in Waits
      BY <3>2 DEF SyncTypeOK
    <3> QED BY <3>1, <3>2, <3>3, <3>4, <3>5 DEF SyncTypeOK, MainTypes
  <2>2. Channel'
    BY <1>5 DEF SyncTypeOK, Channel, OwnResult, Results, TakeResult
  <2> QED BY <2>1, <2>2
<1>6. CASE NoResult
  <2>1. SyncTypeOK'
    BY <1>6, SyncAssumption DEF SyncTypeOK, MainTypes, Waits, Channel, NoResult
  <2>2. Channel'
    BY <1>6 DEF SyncTypeOK, Channel, OwnResult, Results, NoResult
  <2> QED BY <2>1, <2>2
<1>7. CASE SequenceChanged
  <2>1. SyncTypeOK'
    <3>1. lastSeq' \in 0..(SeqModulus - 1)
      BY <1>7, SyncAssumption DEF SyncTypeOK, TypeOK, SequenceChanged
    <3> QED BY <1>7, <3>1 DEF SyncTypeOK, MainTypes, SequenceChanged
  <2>2. Channel'
    BY <1>7 DEF SyncTypeOK, Channel, OwnResult, Results, SequenceChanged, ServeInline
  <2> QED BY <2>1, <2>2
<1>8. CASE BellRings
  <2>1. SyncTypeOK'
    BY <1>8, SyncAssumption DEF SyncTypeOK, MainTypes, Waits, Channel, BellRings
  <2>2. Channel'
    BY <1>8 DEF SyncTypeOK, Channel, OwnResult, Results, BellRings
  <2> QED BY <2>1, <2>2
<1>9. CASE BellTimesOut
  <2>1. SyncTypeOK'
    BY <1>9 DEF SyncTypeOK, MainTypes, BellTimesOut
  <2>2. Channel'
    BY <1>9 DEF SyncTypeOK, Channel, OwnResult, Results, BellTimesOut, ServeInline
  <2> QED BY <2>1, <2>2
<1>10. CASE RereadBell
  <2>1. SyncTypeOK'
    BY <1>10, SyncAssumption DEF SyncTypeOK, MainTypes, Waits, Channel, RereadBell
  <2>2. Channel'
    BY <1>10 DEF SyncTypeOK, Channel, OwnResult, Results, RereadBell
  <2> QED BY <2>1, <2>2
<1>11. CASE LookAtWait
  <2>1. word \in Waits /\ moved \in BOOLEAN /\ (lagging = {}) \in BOOLEAN
    BY DEF SyncTypeOK, TypeOK
  <2>2. <<word, moved, lagging = {}>> \in Waits \X BOOLEAN \X BOOLEAN
    BY <2>1, Zenon
  <2>3. \/ mpc' = "list" /\ look' \in Waits \X BOOLEAN \X BOOLEAN /\ seen' = seen
        \/ mpc' = "reread" /\ look' = None /\ seen' = None
    BY <1>11, <2>2 DEF LookAtWait
  <2>4. mpc = "look" /\ UNCHANGED <<chanVars, call, lastSeq, lagging, got, syncThread, workVars>>
    BY <1>11 DEF LookAtWait
  <2>5. SyncTypeOK'
    BY <2>3, <2>4 DEF SyncTypeOK, MainTypes
  <2>6. Channel'
    BY <2>3, <2>4, SyncAssumption DEF SyncTypeOK, Channel, OwnResult, Results
  <2> QED BY <2>5, <2>6
<1>12. CASE LookAtList
  <2>1. SyncTypeOK'
    BY <1>12, SyncAssumption DEF SyncTypeOK, MainTypes, Waits, Channel, LookAtList
  <2>2. Channel'
    BY <1>12 DEF SyncTypeOK, Channel, OwnResult, Results, LookAtList
  <2> QED BY <2>1, <2>2
<1>13. CASE StillYoung
  <2>1. SyncTypeOK'
    BY <1>13, SyncAssumption DEF SyncTypeOK, MainTypes, Waits, Channel, StillYoung
  <2>2. Channel'
    BY <1>13 DEF SyncTypeOK, Channel, OwnResult, Results, StillYoung
  <2> QED BY <2>1, <2>2
<1>14. CASE AskToStop
  <2>1. SyncTypeOK'
    BY <1>14, SyncAssumption DEF SyncTypeOK, MainTypes, Waits, Channel, AskToStop
  <2>2. Channel'
    BY <1>14 DEF SyncTypeOK, Channel, OwnResult, Results, AskToStop
  <2> QED BY <2>1, <2>2
<1>15. CASE SwapWait
  <2>1. SyncTypeOK'
    BY <1>15, SyncAssumption DEF SyncTypeOK, MainTypes, Waits, Channel, SwapWait
  <2>2. Channel'
    BY <1>15 DEF SyncTypeOK, Channel, OwnResult, Results, SwapWait
  <2> QED BY <2>1, <2>2
<1>16. CASE WalkLoad
  <2>1. SyncTypeOK'
    BY <1>16 DEF SyncTypeOK, MainTypes, WalkLoad
  <2>2. mpc = "walk" /\ mpc' \in {"walk", "run", "loop", "look"}
    BY <1>16, WalkOnFacts DEF SyncTypeOK, WalkLoad, MainTypes
  <2>3. Channel'
    BY <1>16, <2>2 DEF SyncTypeOK, Channel, OwnResult, Results, WalkLoad
  <2> QED BY <2>1, <2>3
<1>17. CASE WalkCopy
  <2>1. SyncTypeOK'
    BY <1>17, SyncAssumption DEF SyncTypeOK, MainTypes, Waits, Channel, WalkCopy
  <2>2. Channel'
    BY <1>17 DEF SyncTypeOK, Channel, OwnResult, Results, WalkCopy
  <2> QED BY <2>1, <2>2
<1>18. ASSUME NEW r \in Outcomes, WalkRun(r)
      PROVE  SyncTypeOK' /\ Channel'
  <2>1. SyncTypeOK'
    BY <1>18, SyncAssumption DEF SyncTypeOK, MainTypes, Waits, Channel, WalkRun
  <2>2. Channel'
    BY <1>18 DEF SyncTypeOK, Channel, OwnResult, Results, WalkRun
  <2> QED BY <2>1, <2>2
<1>19. CASE WalkWrite
  <2>1. SyncTypeOK'
    BY <1>19, SyncAssumption DEF SyncTypeOK, MainTypes, Waits, Channel, WalkWrite
  <2>2. Channel'
    BY <1>19 DEF SyncTypeOK, Channel, OwnResult, Results, WalkWrite
  <2> QED BY <2>1, <2>2
<1>20. CASE WalkSet
  <2>1. SyncTypeOK'
    BY <1>20, SyncAssumption DEF SyncTypeOK, MainTypes, Waits, Channel, WalkSet
  <2>2. Channel'
    BY <1>20 DEF SyncTypeOK, Channel, OwnResult, Results, WalkSet
  <2> QED BY <2>1, <2>2
<1>21. CASE WalkWake
  <2>1. SyncTypeOK'
    BY <1>21 DEF SyncTypeOK, MainTypes, WalkWake
  <2>2. mpc = "wake" /\ mpc' \in {"walk", "loop", "look"}
    BY <1>21, WalkOnFacts DEF SyncTypeOK, WalkWake, MainTypes
  <2>3. Channel'
    BY <1>21, <2>2 DEF SyncTypeOK, Channel, OwnResult, Results, WalkWake
  <2> QED BY <2>1, <2>3
<1> QED BY <1>1, <1>2, <1>3, <1>4, <1>5, <1>6, <1>7, <1>8, <1>9, <1>10, <1>11, <1>12, <1>13,
      <1>14, <1>15, <1>16, <1>17, <1>18, <1>19, <1>20, <1>21 DEF InCallback

\* So does the callback's thread, and the state it reads does not go back.
LEMMA ThreadChannel ==
  ASSUME SyncTypeOK, Served, Channel, MainTypes', SyncStep
  PROVE  SyncTypeOK' /\ Channel'
<1>1. CASE LookAtChannel
  <2>1. SyncTypeOK'
    BY <1>1, SyncAssumption
       DEF SyncTypeOK, MainTypes, Waits, Channel, LookAtChannel, InBody, Verdicts, Arrives
  <2>2. Channel'
    BY <1>1
       DEF SyncTypeOK, Channel, OwnResult, Results, LookAtChannel, InBody, Verdicts, Arrives
  <2> QED BY <2>1, <2>2
<1>2. CASE EnterIdle
  <2>1. SyncTypeOK'
    BY <1>2, SyncAssumption
       DEF SyncTypeOK, MainTypes, Waits, Channel, EnterIdle, InBody, Verdicts, Arrives
  <2>2. Channel'
    BY <1>2
       DEF SyncTypeOK, Channel, OwnResult, Results, EnterIdle, InBody, Verdicts, Arrives
  <2> QED BY <2>1, <2>2
<1>3. CASE IdleFutex
  <2>1. SyncTypeOK'
    BY <1>3, SyncAssumption
       DEF SyncTypeOK, MainTypes, Waits, Channel, IdleFutex, InBody, Verdicts, Arrives
  <2>2. Channel'
    BY <1>3
       DEF SyncTypeOK, Channel, OwnResult, Results, IdleFutex, InBody, Verdicts, Arrives
  <2> QED BY <2>1, <2>2
<1>4. CASE LeaveIdle
  <2>1. SyncTypeOK'
    BY <1>4, SyncAssumption
       DEF SyncTypeOK, MainTypes, Waits, Channel, LeaveIdle, InBody, Verdicts, Arrives
  <2>2. Channel'
    BY <1>4
       DEF SyncTypeOK, Channel, OwnResult, Results, LeaveIdle, InBody, Verdicts, Arrives
  <2> QED BY <2>1, <2>2
<1>5. ASSUME NEW o \in BodyOps, BodyCalls(o)
      PROVE  SyncTypeOK' /\ Channel'
  <2>1. SyncTypeOK'
    BY <1>5, SyncAssumption
       DEF SyncTypeOK, MainTypes, Waits, Channel, BodyCalls, InBody, Verdicts, Arrives
  <2>2. Channel'
    BY <1>5
       DEF SyncTypeOK, Channel, OwnResult, Results, BodyCalls, InBody, Verdicts, Arrives
  <2> QED BY <2>1, <2>2
<1>6. ASSUME NEW k \in Tasks, SpawnTask(k)
      PROVE  SyncTypeOK' /\ Channel'
  <2>1. wpc' \in [Others -> {"enter", "futex", "asleep", "leave", "work"}] /\ fuel' \in 0..MaxBody
    BY <1>6, SyncAssumption DEF SyncTypeOK, SpawnTask, InBody, Spawn, Rouse
  <2>2. /\ task' \in [Tasks -> {"none", "queued", "running", "finished"}]
        /\ gate' \in [Tasks -> BOOLEAN]
    BY <1>6 DEF SyncTypeOK, SpawnTask, Spawn
  <2>3. UNCHANGED <<chanVars, mainVars, lagging, spc, sv, running, verdict, awaited, wfuel, doing>>
    BY <1>6 DEF SpawnTask
  <2>4. SyncTypeOK'
    BY <2>1, <2>2, <2>3 DEF SyncTypeOK, MainTypes
  <2>5. Channel'
    BY <2>3 DEF SyncTypeOK, Channel, OwnResult, Results
  <2> QED BY <2>4, <2>5
<1>7. ASSUME NEW k \in Tasks, OpenGate(k)
      PROVE  SyncTypeOK' /\ Channel'
  <2>1. wpc' \in [Others -> {"enter", "futex", "asleep", "leave", "work"}] /\ fuel' \in 0..MaxBody
    BY <1>7, SyncAssumption DEF SyncTypeOK, OpenGate, InBody, Open, Rouse
  <2>2. gate' \in [Tasks -> BOOLEAN]
    BY <1>7 DEF SyncTypeOK, OpenGate, Open
  <2>3. /\ UNCHANGED <<chanVars, mainVars, lagging, spc, sv, running, verdict, awaited>>
        /\ UNCHANGED <<wfuel, doing, task>>
    BY <1>7 DEF OpenGate, Open
  <2>4. SyncTypeOK'
    BY <2>1, <2>2, <2>3 DEF SyncTypeOK, MainTypes
  <2>5. Channel'
    BY <2>3 DEF SyncTypeOK, Channel, OwnResult, Results
  <2> QED BY <2>4, <2>5
<1>8. ASSUME NEW ks \in SUBSET Tasks, StartWait(ks)
      PROVE  SyncTypeOK' /\ Channel'
  <2>1. SyncTypeOK'
    BY <1>8, SyncAssumption DEF SyncTypeOK, MainTypes, Waits, StartWait, NextNumber, InBody
  <2>2. Channel'
    BY <1>8 DEF SyncTypeOK, Channel, OwnResult, Results, StartWait, NextNumber, InBody
  <2> QED BY <2>1, <2>2
<1>9. CASE EndWait
  <2>1. SyncTypeOK'
    <3>1. word' \in Waits /\ lagging' \subseteq lagging
      BY <1>9 DEF SyncTypeOK, Waits, EndWait, Arrives
    <3> QED BY <1>9, <3>1 DEF SyncTypeOK, MainTypes, EndWait
  <2>2. Channel'
    BY <1>9 DEF SyncTypeOK, Channel, OwnResult, Results, EndWait
  <2> QED BY <2>1, <2>2
<1>10. CASE SeeUnfinished
  <2>1. SyncTypeOK'
    BY <1>10, SyncAssumption
       DEF SyncTypeOK, MainTypes, Waits, Channel, SeeUnfinished, InBody, Verdicts, Arrives
  <2>2. Channel'
    BY <1>10
       DEF SyncTypeOK, Channel, OwnResult, Results, SeeUnfinished, InBody, Verdicts, Arrives
  <2> QED BY <2>1, <2>2
<1>11. CASE StopWait
  <2>1. SyncTypeOK'
    <3>1. word' \in Waits /\ lagging' \subseteq lagging
      BY <1>11 DEF SyncTypeOK, Waits, StopWait, Arrives
    <3>2. stopped' \in BOOLEAN
      BY <1>11 DEF SyncTypeOK, StopWait
    <3> QED BY <1>11, <3>1, <3>2 DEF SyncTypeOK, MainTypes, StopWait
  <2>2. Channel'
    BY <1>11 DEF SyncTypeOK, Channel, OwnResult, Results, StopWait
  <2> QED BY <2>1, <2>2
<1>12. ASSUME NEW v \in Verdicts, FinishBody(v)
      PROVE  SyncTypeOK' /\ Channel'
  <2>1. SyncTypeOK'
    BY <1>12, SyncAssumption
       DEF SyncTypeOK, MainTypes, Waits, Channel, FinishBody, InBody, Verdicts, Arrives
  <2>2. Channel'
    BY <1>12
       DEF SyncTypeOK, Channel, OwnResult, Results, FinishBody, InBody, Verdicts, Arrives
  <2> QED BY <2>1, <2>2
<1>13. CASE PostResult
  <2>1. SyncTypeOK'
    BY <1>13, SyncAssumption
       DEF SyncTypeOK, MainTypes, Waits, Channel, PostResult, InBody, Verdicts, Arrives
  <2>2. Channel'
    BY <1>13
       DEF SyncTypeOK, Channel, OwnResult, Results, PostResult, InBody, Verdicts, Arrives
  <2> QED BY <2>1, <2>2
<1>14. CASE RingResult
  <2>1. SyncTypeOK'
    BY <1>14, SyncAssumption
       DEF SyncTypeOK, MainTypes, Waits, Channel, RingResult, InBody, Verdicts, Arrives
  <2>2. Channel'
    BY <1>14
       DEF SyncTypeOK, Channel, OwnResult, Results, RingResult, InBody, Verdicts, Arrives
  <2> QED BY <2>1, <2>2
<1>15. CASE DropResult
  <2>1. SyncTypeOK'
    BY <1>15, SyncAssumption
       DEF SyncTypeOK, MainTypes, Waits, Channel, DropResult, InBody, Verdicts, Arrives
  <2>2. Channel'
    BY <1>15
       DEF SyncTypeOK, Channel, OwnResult, Results, DropResult, InBody, Verdicts, Arrives
  <2> QED BY <2>1, <2>2
<1> QED BY <1>1, <1>2, <1>3, <1>4, <1>5, <1>6, <1>7, <1>8, <1>9, <1>10, <1>11, <1>12, <1>13,
      <1>14, <1>15 DEF SyncStep

\* The workers have no part in it.
LEMMA WorkerChannel ==
  ASSUME SyncTypeOK, Served, Channel, MainTypes', NEW w \in Others, WorkStep(w)
  PROVE  SyncTypeOK' /\ Channel'
<1>1. UNCHANGED <<chanVars, mainVars, syncThread>> /\ lagging' \subseteq lagging
  BY DEF WorkStep, EnterWork, WorkFutex, LeaveWork, WorkCalls, TaskSpawns, TaskOpens, WaitForGate,
     FinishTask, Arrives
<1>2. Channel'
  BY <1>1 DEF Channel, OwnResult, Results
<1>3. /\ wpc' \in [Others -> {"enter", "futex", "asleep", "leave", "work"}]
      /\ wfuel' \in [Others -> 0..MaxTask] /\ doing' \in [Others -> Tasks \cup {None}]
      /\ task' \in [Tasks -> {"none", "queued", "running", "finished"}]
      /\ gate' \in [Tasks -> BOOLEAN]
  <2>1. CASE EnterWork(w) \/ WorkFutex(w)
    BY <2>1 DEF SyncTypeOK, EnterWork, WorkFutex, WorkerAt
  <2>2. CASE LeaveWork(w)
    BY <2>2, SyncAssumption DEF SyncTypeOK, LeaveWork, WorkerAt
  <2>3. ASSUME NEW o \in TaskOps, WorkCalls(w, o)
        PROVE  wfuel' \in [Others -> 0..MaxTask] /\ UNCHANGED <<wpc, doing, task, gate>>
    BY <2>3, SyncAssumption DEF SyncTypeOK, WorkCalls
  <2>4. ASSUME NEW k \in Tasks, TaskSpawns(w, k) \/ TaskOpens(w, k)
        PROVE  /\ wpc' \in [Others -> {"enter", "futex", "asleep", "leave", "work"}]
               /\ task' \in [Tasks -> {"none", "queued", "running", "finished"}]
               /\ gate' \in [Tasks -> BOOLEAN] /\ UNCHANGED <<wfuel, doing>>
    <3>1. CASE TaskSpawns(w, k)
      BY <2>4, <3>1 DEF SyncTypeOK, TaskSpawns, Spawn, Rouse
    <3>2. CASE TaskOpens(w, k)
      <4>1. task' = task /\ gate' = [gate EXCEPT ![k] = TRUE] /\ UNCHANGED <<wfuel, doing>>
        BY <2>4, <3>2 DEF TaskOpens, Open
      <4>2. wpc' \in [Others -> {"enter", "futex", "asleep", "leave", "work"}]
        BY <2>4, <3>2 DEF SyncTypeOK, TaskOpens, Open, Rouse
      <4> QED BY <2>4, <4>1, <4>2 DEF SyncTypeOK
    <3> QED BY <2>4, <3>1, <3>2
  <2>5. CASE WaitForGate(w) \/ FinishTask(w)
    BY <2>5 DEF SyncTypeOK, WaitForGate, FinishTask, WorkerAt
  <2> QED BY <2>1, <2>2, <2>3, <2>4, <2>5 DEF WorkStep, SyncTypeOK
<1>4. SyncTypeOK'
  BY <1>1, <1>3 DEF SyncTypeOK, MainTypes
<1> QED BY <1>2, <1>4

\* Steps of a host call or of the event loop leave the channel and both threads'
\* positions as they are.
LEMMA SlotChannel ==
  ASSUME SyncTypeOK, Channel, MainTypes', Alongside, lagging' \subseteq lagging
  PROVE  SyncTypeOK' /\ Channel'
<1>1. UNCHANGED <<chanVars, mainVars, syncThread, workVars>>
  BY DEF Alongside
<1>2. SyncTypeOK'
  BY <1>1 DEF SyncTypeOK, MainTypes
<1>3. Channel'
  BY <1>1 DEF Channel, OwnResult, Results
<1> QED BY <1>2, <1>3

\* JavaScript calls the function.
LEMMA EnterChannel ==
  ASSUME SyncTypeOK, Served, Channel, NEW k \in Callbacks, EnterCallback(k)
  PROVE  SyncTypeOK' /\ Served' /\ Channel'
<1>1. MainTypes' /\ Served'
  BY QuietServed DEF SyncTypeOK, MainTypes, TypeOK, Served, Blocked, EnterCallback
<1>2. SyncTypeOK'
  <2>1. payload' \in {"arguments"} \X Callbacks
    BY DEF EnterCallback
  <2> QED BY <1>1, <2>1 DEF SyncTypeOK, MainTypes, EnterCallback
<1>3. Channel'
  BY DEF SyncTypeOK, Channel, OwnResult, Results, EnterCallback
<1> QED BY <1>1, <1>2, <1>3

-----------------------------------------------------------------------------
(* Together.                                                               *)

\* The inductive invariant.
SyncInv == SyncTypeOK /\ Served /\ Channel

\* At the start only the callback thread's slot is registered, and answered.
LEMMA SyncInitInv == SyncInit => SyncInv
<1> SUFFICES ASSUME SyncInit PROVE SyncInv
  OBVIOUS
<1>1. TypeOK
  <2>1. /\ "failure" \in Statuses
        /\ 0 \in 0..(SeqModulus - 1) /\ 1 \in 0..(SeqModulus - 1)
        /\ ReplyBytes \in Nat
    BY OperationsAssumption, SizesAssumption, BoundsAssumption DEF Statuses
  <2> QED BY <2>1, SyncAssumption DEF SyncInit, TypeOK, All, Others
<1>2. SyncTypeOK
  <2>1. /\ 0 \in 0..(SeqModulus - 1) /\ 0 \in 0..(Generations - 1)
        /\ 0 \in 0..MaxBody /\ 0 \in 0..MaxTask
    BY SyncAssumption, BoundsAssumption
  <2>2. word \in Waits
    BY <2>1 DEF SyncInit, Waits
  <2>3. /\ chan = 0 /\ stopped = FALSE /\ payload = None
        /\ mpc = "out" /\ cur = None /\ back = "loop"
        /\ call = None /\ lastSeq = 0 /\ look = None /\ seen = None /\ lagging = {}
        /\ spc = "look" /\ sv = 0 /\ running = None /\ fuel = 0 /\ verdict = "ok"
        /\ awaited = {}
    BY DEF SyncInit
  <2>4. chan \in 0..3 /\ sv \in 0..3
    BY <2>3
  <2>5. lastSeq \in 0..(SeqModulus - 1) /\ fuel \in 0..MaxBody
    BY <2>1, <2>3
  <2>7. /\ wpc \in [Others -> {"enter", "futex", "asleep", "leave", "work"}]
        /\ wfuel \in [Others -> 0..MaxTask] /\ doing \in [Others -> Tasks \cup {None}]
        /\ task \in [Tasks -> {"none", "queued", "running", "finished"}]
        /\ gate \in [Tasks -> BOOLEAN] /\ awaited \in SUBSET Tasks
    BY <2>1 DEF SyncInit
  <2>6. lagging \in SUBSET (Others \cup {S0})
    BY <2>3
  <2> QED BY <1>1, <2>2, <2>3, <2>4, <2>5, <2>6, <2>7, Zenon DEF SyncTypeOK, Verdicts
<1>3. Served
  <2>1. ASSUME NEW s \in Slots PROVE Turn(s) /\ Load(s)
    <3>1. /\ cpc[s] = "idle" /\ want[s] = None /\ seq[s] = served[s] /\ kind[s] = "request"
          /\ srv[s] = (IF s = S0 THEN "armed" ELSE "none") /\ (s # S0 => served[s] = 0)
          /\ s \notin inlined /\ main # s /\ ~Inline(s) /\ Server(s) = srv[s]
      BY SyncAssumption, SlotsAssumption DEF SyncInit, All
    <3>2. runs[s] = 0 /\ out[s] = None /\ large[s] = None
      BY DEF SyncInit, All
    <3>3. Turn(s)
      BY <3>1 DEF Turn
    <3>4. Load(s)
      BY <3>1, <3>2 DEF Load
    <3> QED BY <3>3, <3>4
  <2> QED BY <2>1 DEF Served, Blocked, SyncInit
<1>4. Channel
  BY DEF SyncInit, Channel, OwnResult
<1> QED BY <1>2, <1>3, <1>4 DEF SyncInv

\* A step of a host call keeps what the two servers agree on.
LEMMA InHostCallServed ==
  ASSUME SyncInv, NEW s \in Slots, InHostCall(s)
  PROVE  SyncInv'
<1>1. MainTypes /\ Served /\ Channel /\ SyncTypeOK
  BY DEF SyncInv, SyncTypeOK, MainTypes
<1>2. UNCHANGED <<mpc, cur, back>> /\ lagging' \subseteq lagging
  BY DEF InHostCall, Alongside, Arrives
<1>3. MainTypes' /\ Served'
  BY <1>1, <1>2, ClearReadyServed, BumpSequenceServed, NotifySequenceServed, RingDoorbellServed,
     SeePendingServed, EnterWaitsServed, FutexWaitServed, LeaveWaitsServed, AskForCopyServed,
     ReturnServed DEF InHostCall, ThreadStep
<1> QED BY <1>1, <1>2, <1>3, SlotChannel DEF SyncInv, InHostCall

\* So does a call made inside the wait of another ...
LEMMA CallsNestedServed ==
  ASSUME SyncInv, NEW s \in Slots, NEW o \in BodyOps \cup TaskOps, CallsNested(s, o)
  PROVE  SyncInv'
<1>1. MainTypes /\ Served /\ Channel /\ SyncTypeOK /\ o \in Operations
  BY SyncAssumption DEF SyncInv, SyncTypeOK, MainTypes
<1>2. MainTypes' /\ Served'
  BY <1>1, CallServed DEF CallsNested, Alongside
<1>3. lagging' \subseteq lagging
  BY DEF CallsNested, Arrives
<1> QED BY <1>1, <1>2, <1>3, SlotChannel DEF SyncInv, CallsNested

\* ... and a step of the event loop, which takes no step inside a callback.
LEMMA LoopServed ==
  ASSUME SyncInv, NEW s \in Slots, LoopTakes(s) \/ LoopServes(s)
  PROVE  SyncInv'
<1>1. MainTypes /\ Served /\ Channel /\ SyncTypeOK
  BY DEF SyncInv, SyncTypeOK, MainTypes
<1>2. /\ mpc = "out" /\ UNCHANGED <<mpc, cur, back>> /\ lagging' = lagging /\ Alongside
      /\ TakeLoop(s) \/ RunServer(s)
  BY DEF LoopTakes, LoopServes, Alongside
<1>3. MainTypes' /\ Served'
  <2>1. CASE TakeLoop(s)
    BY <1>1, <1>2, <2>1, RegisterSlotServed, ResumeServed, AfterLoadServed, SettleServed
       DEF TakeLoop
  <2>2. CASE RunServer(s)
    BY <1>1, <1>2, <2>2, LoadSequenceServed, ArmServed, ServeCopyServed, ServeRequestServed,
       RunAsyncServed, RunNowServed, WriteReplyServed, SetReadyServed, WakeCallerServed
          DEF RunServer
  <2> QED BY <1>2, <2>1, <2>2
<1> QED BY <1>1, <1>2, <1>3, SlotChannel DEF SyncInv

\* Steps inside a callback.
LEMMA InCallbackServed ==
  ASSUME SyncInv, InCallback
  PROVE  SyncInv'
<1>1. MainTypes /\ Served /\ Channel /\ SyncTypeOK
  BY DEF SyncInv, SyncTypeOK, MainTypes
<1>2. MainTypes' /\ Served'
  <2>1. CASE \/ WalkLoad \/ WalkCopy \/ (\E r \in Outcomes : WalkRun(r))
             \/ WalkWrite \/ WalkSet \/ WalkWake
    BY <1>1, <2>1, WalkLoadServed, WalkCopyServed, WalkRunServed, WalkWriteServed, WalkSetServed,
       WalkWakeServed
  <2>2. CASE ReadBell \/ RereadBell \/ LookAtWait
    <3>1. /\ bell' \in BOOLEAN /\ listed' = listed /\ moved' \in BOOLEAN
          /\ UNCHANGED <<clientVars, seq, ready, wordVars, hostVars, ghostVars, cur, back>>
      BY <1>1, <2>2 DEF MainTypes, TypeOK, ReadBell, RereadBell, LookAtWait
    <3>2. mpc \in MainPCs \ {"out", "walk", "run", "write", "set",
          "wake"} /\ mpc' \in MainPCs \ {"out", "walk", "run", "write", "set", "wake"}
      BY <2>2 DEF ReadBell, RereadBell, LookAtWait
    <3> QED BY <1>1, <3>1, <3>2, QuietServed DEF MainTypes, TypeOK, Served, Blocked
  <2>3. CASE \/ ReadSequence \/ PostCall \/ NotifyCall \/ TakeResult \/ NoResult \/ BellRings
             \/ LookAtList \/ StillYoung \/ AskToStop \/ SwapWait
    <3>1. UNCHANGED <<slotVars, cur>> /\ back' \in {"loop", "look"}
      BY <1>1, <2>3
         DEF MainTypes, ReadSequence, PostCall, NotifyCall, TakeResult, NoResult, BellRings,
           LookAtList, StillYoung, AskToStop, SwapWait
    <3>2. mpc \in MainPCs \ {"out", "walk", "run", "write", "set",
          "wake"} /\ mpc' \in MainPCs \ {"walk", "run", "write", "set", "wake"}
      BY <2>3 DEF ReadSequence, PostCall, NotifyCall, TakeResult, NoResult, BellRings,
           LookAtList, StillYoung, AskToStop, SwapWait
    <3> QED BY <1>1, <3>1, <3>2, QuietServed DEF MainTypes, TypeOK, Served, Blocked
  <2>4. CASE SequenceChanged \/ BellTimesOut
    <3>1. UNCHANGED slotVars /\ back' \in {"loop", "look"} /\ mpc \in {"changed", "wait"}
          /\ \/ cur' = cur /\ mpc' = "wait"
             \/ cur' = S0 /\ mpc' = "walk"
      BY <1>1, <2>4 DEF MainTypes, SequenceChanged, BellTimesOut, ServeInline
    <3> QED BY <1>1, <3>1, SyncAssumption, ThreadAssumption, QuietServed
        DEF MainTypes, TypeOK, Served, Blocked
  <2> QED BY <2>1, <2>2, <2>3, <2>4 DEF InCallback
<1> QED BY <1>1, <1>2, MainChannel DEF SyncInv

\* Steps of the callback's thread.
LEMMA SyncStepServed ==
  ASSUME SyncInv, SyncStep
  PROVE  SyncInv'
<1>1. MainTypes /\ Served /\ Channel /\ SyncTypeOK
  BY DEF SyncInv, SyncTypeOK, MainTypes
<1>2. UNCHANGED <<mpc, cur, back>>
  BY DEF SyncStep, LookAtChannel, EnterIdle, IdleFutex, LeaveIdle, BodyCalls, SpawnTask, OpenGate,
         StartWait, EndWait, SeeUnfinished, StopWait, FinishBody, PostResult, RingResult,
         DropResult
<1>3. MainTypes' /\ Served'
  <2>1. CASE \/ LookAtChannel \/ IdleFutex \/ (\E k \in Tasks : SpawnTask(k) \/ OpenGate(k))
             \/ (\E ks \in SUBSET Tasks : StartWait(ks)) \/ EndWait
             \/ SeeUnfinished \/ StopWait \/ (\E v \in Verdicts : FinishBody(v)) \/ PostResult
    <3>1. UNCHANGED slotVars
      BY <2>1
         DEF LookAtChannel, IdleFutex, SpawnTask, OpenGate, StartWait, EndWait, SeeUnfinished,
                  StopWait, FinishBody, PostResult
    <3> QED BY <1>1, <1>2, <3>1, QuietServed DEF MainTypes, TypeOK, Served, Blocked
  <2>2. CASE EnterIdle \/ LeaveIdle \/ RingResult
    <3>1. /\ bell' \in BOOLEAN /\ listed' \in SUBSET Slots /\ moved' \in BOOLEAN
          /\ UNCHANGED <<clientVars, seq, ready, wordVars, hostVars, ghostVars>>
      BY <1>1, <2>2, SyncAssumption
         DEF MainTypes, TypeOK, EnterIdle, LeaveIdle, RingResult, Enlist
    <3> QED BY <1>1, <1>2, <3>1, QuietServed DEF MainTypes, TypeOK, Served, Blocked
  <2>3. ASSUME NEW o \in BodyOps, BodyCalls(o) PROVE MainTypes' /\ Served'
    BY <1>1, <1>2, <2>3, CallServed, SyncAssumption DEF BodyCalls
  <2>4. CASE DropResult
    <3>1. CASE Release # None /\ verdict = "ok"
      BY <1>1, <1>2, <2>4, <3>1, CallServed, SyncAssumption DEF DropResult
    <3>2. CASE ~(Release # None /\ verdict = "ok")
      <4>1. UNCHANGED slotVars
        BY <2>4, <3>2 DEF DropResult
      <4> QED BY <1>1, <1>2, <4>1, QuietServed DEF MainTypes, TypeOK, Served, Blocked
    <3> QED BY <3>1, <3>2
  <2> QED BY <2>1, <2>2, <2>3, <2>4 DEF SyncStep
<1> QED BY <1>1, <1>3, ThreadChannel DEF SyncInv

\* Steps of a worker.
LEMMA WorkStepServed ==
  ASSUME SyncInv, NEW w \in Others, WorkStep(w)
  PROVE  SyncInv'
<1>1. MainTypes /\ Served /\ Channel /\ SyncTypeOK /\ w \in Slots
  BY DEF SyncInv, SyncTypeOK, MainTypes, Others
<1>2. UNCHANGED <<mpc, cur, back>>
  BY DEF WorkStep, EnterWork, WorkFutex, LeaveWork, WorkCalls, TaskSpawns, TaskOpens, WaitForGate,
     FinishTask
<1>3. MainTypes' /\ Served'
  <2>1. CASE \/ WorkFutex(w) \/ WaitForGate(w) \/ FinishTask(w)
             \/ \E k \in Tasks : TaskSpawns(w, k) \/ TaskOpens(w, k)
    <3>1. UNCHANGED slotVars
      BY <2>1 DEF WorkFutex, WaitForGate, FinishTask, TaskSpawns, TaskOpens
    <3> QED BY <1>1, <1>2, <3>1, QuietServed DEF MainTypes, TypeOK, Served, Blocked
  <2>2. CASE EnterWork(w) \/ LeaveWork(w)
    <3>1. /\ bell' \in BOOLEAN /\ listed' \in SUBSET Slots /\ moved' \in BOOLEAN
          /\ UNCHANGED <<clientVars, seq, ready, wordVars, hostVars, ghostVars>>
      BY <1>1, <2>2 DEF MainTypes, TypeOK, EnterWork, LeaveWork, Enlist
    <3> QED BY <1>1, <1>2, <3>1, QuietServed DEF MainTypes, TypeOK, Served, Blocked
  <2>3. ASSUME NEW o \in TaskOps, WorkCalls(w, o) PROVE MainTypes' /\ Served'
    BY <1>1, <1>2, <2>3, CallServed, SyncAssumption DEF WorkCalls
  <2> QED BY <2>1, <2>2, <2>3 DEF WorkStep
<1> QED BY <1>1, <1>3, WorkerChannel DEF SyncInv

\* Every step keeps the invariant.
LEMMA SyncStepInv == SyncInv /\ [SyncNext]_syncVars => SyncInv'
<1> SUFFICES ASSUME SyncInv, [SyncNext]_syncVars PROVE SyncInv'
  OBVIOUS
<1>1. ASSUME NEW k \in Callbacks, EnterCallback(k) PROVE SyncInv'
  BY <1>1, EnterChannel DEF SyncInv
<1>2. CASE UNCHANGED syncVars
  <2>1. UNCHANGED <<slotVars, mpc, cur, back>> /\ Alongside /\ lagging' = lagging
    BY <1>2 DEF syncVars, Alongside
  <2>2. MainTypes /\ Served /\ Channel /\ SyncTypeOK
    BY DEF SyncInv, SyncTypeOK, MainTypes
  <2>3. MainTypes' /\ Served'
    BY <2>1, <2>2, QuietServed DEF MainTypes, TypeOK, Served, Blocked
  <2> QED BY <2>1, <2>2, <2>3, SlotChannel DEF SyncInv
<1> QED BY <1>1, <1>2, InCallbackServed, SyncStepServed, WorkStepServed, InHostCallServed,
           CallsNestedServed, LoopServed DEF SyncNext

\* In every reachable state both servers and the thread agree on who owns a
\* slot, and the channel belongs to one side.
THEOREM SyncInvariance == SyncSpec => []SyncInv
<1> QED BY SyncInitInv, SyncStepInv, PTL DEF SyncSpec

\* Every variable of the synchronous calls keeps its type.
THEOREM SyncTyped == SyncSpec => []SyncTypeOK
<1>1. SyncInv => SyncTypeOK
  BY DEF SyncInv
<1> QED BY <1>1, SyncInvariance, PTL

\* No request runs twice, whichever of the two servers gets to it, and a copy
\* request finds the reply that was kept for it.
THEOREM OnceByEither == SyncSpec => []ServedOnce
<1>1. SyncInv => ServedOnce
  <2> SUFFICES ASSUME SyncInv, NEW s \in Slots
               PROVE  /\ runs[s] <= 1
                      /\ kind[s] = "copy" /\ (srv[s] = "dispatch" \/ (mpc = "run" /\ cur = s))
                           => large[s] # None
    BY DEF ServedOnce
  <2>1. Turn(s) /\ Load(s) /\ TypeOK
    BY DEF SyncInv, SyncTypeOK, Served
  <2>2. ASSUME kind[s] = "copy", srv[s] = "dispatch" \/ (mpc = "run" /\ cur = s)
        PROVE  large[s] # None
    <3>1. Server(s) = "dispatch" /\ cpc[s] # "idle"
      BY <2>1, <2>2 DEF Turn
    <3>2. out[s] # None /\ want[s] # None /\ large[s] = <<want[s], out[s]>>
      BY <2>1, <2>2, <3>1 DEF Load
    <3> QED BY <2>1, <3>2, OperationsAssumption DEF TypeOK, Replies
  <2> QED BY <2>1, <2>2 DEF Load
<1> QED BY <1>1, SyncInvariance, PTL

\* A callback returns its own result and throws "stopped" exactly when its own
\* wait was stopped.
THEOREM ResultIsOwn == SyncSpec => []OwnResult
<1>1. SyncInv => OwnResult
  BY DEF SyncInv, Channel
<1> QED BY <1>1, SyncInvariance, PTL

\* Host calls served by the event loop and by the blocked main thread implement
\* HostCall: each returns with the outcome of its own operation.
THEOREM SyncRefinesCall == SyncSpec => Implements
<1> DEFINE abstractVars == <<want, runs, out, returned>>
<1>1. SyncInit => Abstract!Init
  BY DEF SyncInit, All, Abstract!Init
<1>2. SyncInv /\ [SyncNext]_syncVars => [Abstract!Next]_(Abstract!callVars)
  <2> SUFFICES ASSUME SyncInv, [SyncNext]_syncVars
               PROVE  Abstract!Next \/ UNCHANGED abstractVars
    BY DEF Abstract!callVars
  <2> USE DEF SyncInv, SyncTypeOK, Served
  <2>1. ASSUME NEW s \in Slots, NEW o \in Operations, Call(s, o) PROVE Abstract!Ask(s, o)
    BY <2>1 DEF Call, Load, Abstract!Ask
  <2>2. ASSUME NEW s \in Slots, Return(s) PROVE Abstract!Return(s)
    <3>0. Turn(s) /\ Load(s) /\ TypeOK
      OBVIOUS
    <3>1. cpc[s] \in Posted /\ seq[s] = served[s] /\ Server(s) \notin Taken
      BY <2>2, <3>0 DEF Return, Turn
    <3>2. /\ want[s] # None /\ out[s] # None
          /\ returned' = [returned EXCEPT ![s] = <<want[s], out[s]>>]
      BY <2>2, <3>0, <3>1 DEF Return, Load, Answered
    <3> QED BY <2>2, <3>2 DEF Return, Abstract!Return
  <2>3. ASSUME NEW s \in Slots,
        Server(s) = "run" \/ (Server(s) = "dispatch" /\ kind[s] = "request")
        PROVE  want[s] # None /\ runs[s] = 0 /\ out[s] = None /\ op[s] = want[s]
    <3>1. Turn(s) /\ Load(s) /\ TypeOK
      OBVIOUS
    <3>2. cpc[s] # "idle"
      BY <2>3, <3>1 DEF Turn
    <3>3. kind[s] = "request"
      BY <2>3, <3>1, <3>2 DEF Load, TypeOK
    <3> QED BY <2>3, <3>1, <3>2, <3>3 DEF Load
  <2>4. ASSUME NEW s \in Slots, mpc = "out"
        PROVE  Turn(s) /\ Load(s) /\ TypeOK /\ Server(s) = srv[s]
    BY <2>4
  <2>5. ASSUME NEW s \in Slots, NEW r \in Outcomes, mpc = "out", RunNow(s, r)
        PROVE  Abstract!ExecuteNow(s, r)
    <3>1. want[s] # None /\ runs[s] = 0 /\ out[s] = None
      BY <2>3, <2>4, <2>5 DEF RunNow
    <3> QED BY <2>5, <3>1 DEF RunNow, TypeOK, Abstract!ExecuteNow
  <2>6. ASSUME NEW s \in Slots, mpc = "out", RunAsync(s) PROVE Abstract!Execute(s)
    <3>1. want[s] # None /\ runs[s] = 0 /\ out[s] = None
      BY <2>3, <2>4, <2>6 DEF RunAsync
    <3> QED BY <2>6, <3>1 DEF RunAsync, TypeOK, Abstract!Execute
  <2>7. ASSUME NEW s \in Slots, NEW r \in Outcomes, mpc = "out", Settle(s, r)
        PROVE  Abstract!Answer(s, r)
    <3>1. want[s] # None /\ runs[s] = 1 /\ out[s] = None
      BY <2>4, <2>7 DEF TypeOK, Settle, Turn, Load
    <3> QED BY <2>7, <3>1 DEF Settle, Abstract!Answer
  <2>8. ASSUME NEW s \in Slots, mpc = "out", AfterLoad(s) PROVE UNCHANGED abstractVars
    BY <2>8 DEF AfterLoad, Blocked
  <2>9. ASSUME NEW r \in Outcomes, WalkRun(r)
        PROVE  cur \in Slots /\ Abstract!ExecuteNow(cur, r)
    <3>1. cur \in Slots /\ Server(cur) = "dispatch" /\ kind[cur] = "request"
      BY <2>9 DEF Blocked, WalkRun
    <3>2. want[cur] # None /\ runs[cur] = 0 /\ out[cur] = None
      BY <2>3, <3>1
    <3> QED BY <2>9, <3>1, <3>2 DEF WalkRun, TypeOK, Abstract!ExecuteNow
  <2>10. CASE InCallback
    BY <2>9, <2>10
       DEF InCallback, ReadBell, ReadSequence, PostCall, NotifyCall, TakeResult, NoResult,
       SequenceChanged, BellRings, BellTimesOut, RereadBell, LookAtWait, LookAtList, StillYoung,
       AskToStop, SwapWait, WalkLoad, WalkCopy, WalkWrite, WalkSet, WalkWake, Abstract!Next
  <2>11. CASE SyncStep
    <3>1. ASSUME NEW o \in BodyOps, BodyCalls(o) PROVE Abstract!Next
      BY <2>1, <3>1, SyncAssumption DEF BodyCalls, Abstract!Next
    <3>2. CASE DropResult
      BY <2>1, <3>2, SyncAssumption DEF DropResult, Abstract!Next
    <3> QED BY <2>11, <3>1, <3>2 DEF SyncStep, LookAtChannel, EnterIdle, IdleFutex, LeaveIdle,
         SpawnTask, OpenGate, StartWait, EndWait, SeeUnfinished, StopWait, FinishBody, PostResult,
         RingResult, HostKeeps
  <2>12. ASSUME NEW w \in Others, WorkStep(w) PROVE Abstract!Next \/ UNCHANGED abstractVars
    <3>1. ASSUME NEW o \in TaskOps, WorkCalls(w, o) PROVE Abstract!Next
      BY <2>1, <3>1, SyncAssumption DEF WorkCalls, Others, Abstract!Next
    <3> QED BY <2>12, <3>1 DEF WorkStep, EnterWork, WorkFutex, LeaveWork, TaskSpawns, TaskOpens,
         WaitForGate, FinishTask, HostKeeps
  <2>13. ASSUME NEW s \in Slots, InHostCall(s) PROVE Abstract!Next \/ UNCHANGED abstractVars
    BY <2>2, <2>13
       DEF InHostCall, ThreadStep, ClearReady, BumpSequence, NotifySequence, RingDoorbell,
       SeePending, EnterWaits, FutexWait, LeaveWaits, AskForCopy, Abstract!Next
  <2>14. ASSUME NEW s \in Slots, NEW o \in BodyOps \cup TaskOps, CallsNested(s, o)
         PROVE  Abstract!Next
    BY <2>1, <2>14, SyncAssumption DEF CallsNested, Abstract!Next
  <2>15. ASSUME NEW s \in Slots, LoopTakes(s) PROVE Abstract!Next \/ UNCHANGED abstractVars
    BY <2>7, <2>8, <2>15 DEF LoopTakes, TakeLoop, RegisterSlot, Resume, Abstract!Next
  <2>16. ASSUME NEW s \in Slots, LoopServes(s) PROVE Abstract!Next \/ UNCHANGED abstractVars
    BY <2>5, <2>6, <2>16 DEF LoopServes, RunServer, LoadSequence, Arm, ServeCopy, ServeRequest,
       WriteReply, SetReady, WakeCaller, Abstract!Next
  <2>17. CASE (\E k \in Callbacks : EnterCallback(k)) \/ UNCHANGED syncVars
    BY <2>17 DEF EnterCallback, syncVars
  <2> QED BY <2>10, <2>11, <2>12, <2>13, <2>14, <2>15, <2>16, <2>17 DEF SyncNext
<1> QED BY <1>1, <1>2, SyncInvariance, PTL DEF SyncSpec, Implements, Abstract!Spec
-----------------------------------------------------------------------------
(* Which waits are stopped.                                                *)

\* A thread is at its innermost host call: the ones around it run that one inside
\* their waits.
Stack ==
  /\ \A u, v \in Slots :
       Thread[u] = Thread[v] /\ Depth[v] < Depth[u] /\ cpc[u] # "idle" => cpc[v] = "nested"
  /\ \A t \in Others : cpc[t] # "idle" =>
       \E s \in Slots : Thread[s] = t /\ cpc[s] \notin {"idle", "nested"}

\* Where a worker stands: inside a host call, or at a step of its own.
Working ==
  /\ \A t \in Others : /\ cpc[t] # "idle" => wpc[t] = "work"
                       /\ wpc[t] = "asleep" => ~MayGoOn(t)
  /\ \A s \in listed : Thread[s] \in Others =>
       \/ cpc[s] \in {"futex", "sleep", "nested", "leave"}
       \/ s \in Others /\ cpc[s] = "idle" /\ wpc[s] \in {"futex", "asleep", "leave"}

\* Nothing another thread does can end the wait of the callback ...
Quiet == \A t \in Others : Resting(t)

\* ... nor is a task finished that it is about to wait for once more.
Stuck == (spc = "poll" => ~Done) /\ Quiet

\* w is the number of this wait of the callback, or of an earlier one, and is not
\* given again before the callback ends.
Recent(w) ==
  \E d \in 0..(Generations - 1) :
    /\ d + fuel < Generations
    /\ word[1] = w[1] + d \/ word[1] = w[1] + d - Generations

Marks ==
  /\ word[2] # 0 <=> InWait
  /\ InWait => fuel < MaxBody
  /\ seen # None \/ look # None => /\ mpc # "out"
                                   /\ chan \in {2, 3} \/ spc \in {"body", "wait", "poll", "post"}
  /\ seen # None => seen[2] = 1 /\ (chan = 1 => Recent(seen))
  /\ look # None => look[1][2] = 1 /\ (chan = 1 => Recent(look[1]))
  /\ mpc = "swap" => SameMark /\ look[3]

\* Since a mark at which all were listed, and unless the list or the wait changed,
\* whoever is no longer on its way rests, and the callback's thread has looked at
\* its tasks again.
Mark ==
  seen # None /\ word = seen /\ ~moved /\ (mpc = "list" => ~look[2]) =>
    /\ \A t \in Others : Listed(t) /\ (t \notin lagging => Resting(t))
    /\ S0 \notin lagging /\ spc = "poll" => ~Done

Verdict ==
  /\ mpc \in {"list", "swap"} /\ SameMark /\ look[3] /\ word = look[1] => Stuck
  /\ word[2] = 2 => Stuck
  /\ NoWrongStop

\* Inductive with SyncInv.
StopInv == Stack /\ Working /\ Marks /\ Mark /\ Verdict

\* The next wait's number is not one given d waits earlier or since.
LEMMA NextWait ==
  ASSUME NEW w \in 0..(Generations - 1), NEW n \in 0..(Generations - 1),
         NEW d \in 0..(Generations - 1), NEW f \in Nat, f > 0, d + f < Generations,
         n = w + d \/ n = w + d - Generations
  PROVE  /\ (n + 1) % Generations # w
         /\ d + 1 \in 0..(Generations - 1) /\ (d + 1) + (f - 1) < Generations
         /\ \/ (n + 1) % Generations = w + (d + 1)
            \/ (n + 1) % Generations = w + (d + 1) - Generations
<1>1. Generations \in Nat /\ Generations > 1
  BY SyncAssumption
<1>2. d + 1 < Generations
  BY <1>1
<1>3. CASE n + 1 < Generations
  <2>1. (n + 1) % Generations = n + 1
    BY <1>1, <1>3
  <2> QED BY <1>1, <1>2, <2>1
<1>4. CASE n + 1 = Generations
  <2>1. (n + 1) % Generations = 0
    BY <1>1, <1>4
  <2>2. n = w + d
    BY <1>1, <1>2, <1>4
  <2> QED BY <1>1, <1>2, <1>4, <2>1, <2>2
<1>5. n + 1 < Generations \/ n + 1 = Generations
  BY <1>1
<1> QED BY <1>3, <1>4, <1>5

\* Slots, threads and depths.
LEMMA ThreadFacts ==
  /\ S0 \in Slots /\ Parent[S0] = None /\ Thread[S0] = S0 /\ S0 \notin Others
  /\ None \notin Slots /\ None \notin Others
  /\ \A t \in Others : t \in Slots /\ Parent[t] = None /\ Thread[t] = t /\ Depth[t] = 0
  /\ \A s \in Slots : Parent[s] = None => Depth[s] = 0
  /\ \A s \in Slots : Parent[s] # None =>
       /\ Parent[s] \in Slots /\ Parent[s] # s /\ Thread[Parent[s]] = Thread[s]
       /\ Depth[s] = Depth[Parent[s]] + 1
  /\ \A s \in Slots : Depth[s] \in Nat
  /\ \A s, t \in Slots : Thread[s] = Thread[t] /\ Depth[s] = Depth[t] => s = t
BY SlotsAssumption, SyncAssumption, ThreadAssumption DEF Others

\* A deeper slot of a thread than its first.
LEMMA Deeper ==
  ASSUME NEW t \in Others, NEW s \in Slots, Thread[s] = t, s # t
  PROVE  Depth[t] < Depth[s]
<1>1. t \in Slots /\ Thread[t] = t /\ Depth[t] = 0 /\ Depth[s] \in Nat
  BY ThreadFacts
<1>2. Depth[s] # 0
  BY <1>1, ThreadFacts
<1> QED BY <1>1, <1>2

\* A slot that is neither idle nor in a nested call moves on.
LEMMA StackGoes ==
  ASSUME TypeOK, Stack, NEW s \in Slots, NEW x, cpc' = [cpc EXCEPT ![s] = x],
         cpc[s] \notin {"idle", "nested"}, x \notin {"idle", "nested"}
  PROVE  Stack'
<1>1. ASSUME NEW u \in Slots, NEW v \in Slots, Thread[u] = Thread[v], Depth[v] < Depth[u],
             cpc'[u] # "idle"
      PROVE  cpc'[v] = "nested"
  <2>1. cpc[u] # "idle"
    BY <1>1 DEF TypeOK
  <2>2. cpc[v] = "nested"
    BY <1>1, <2>1 DEF Stack
  <2> QED BY <1>1, <2>2 DEF TypeOK
<1>2. ASSUME NEW t \in Others, cpc'[t] # "idle"
      PROVE  \E r \in Slots : Thread[r] = t /\ cpc'[r] \notin {"idle", "nested"}
  <2>1. cpc[t] # "idle"
    BY <1>2, ThreadFacts DEF TypeOK
  <2>2. PICK r \in Slots : Thread[r] = t /\ cpc[r] \notin {"idle", "nested"}
    BY <2>1 DEF Stack
  <2>3. cpc'[r] \notin {"idle", "nested"}
    BY <2>2 DEF TypeOK
  <2> QED BY <2>2, <2>3
<1> QED BY <1>1, <1>2 DEF Stack

\* A call goes one deeper, at the innermost sleeping slot of its thread.
LEMMA StackCalls ==
  ASSUME TypeOK, Stack, NEW s \in Slots, NEW o, Call(s, o)
  PROVE  Stack'
<1>1. /\ cpc[s] = "idle" /\ cpc'[s] = "clear"
      /\ \A r \in Slots : r # s /\ r # Parent[s] => cpc'[r] = cpc[r]
      /\ Parent[s] # None => cpc[Parent[s]] = "sleep" /\ cpc'[Parent[s]] = "nested"
  BY ThreadFacts DEF Call
<1>2. ASSUME NEW u \in Slots, NEW v \in Slots, Thread[u] = Thread[v], Depth[v] < Depth[u],
             cpc'[u] # "idle"
      PROVE  cpc'[v] = "nested"
  <2>1. CASE u = s
    <3>1. Parent[s] # None
      BY <1>2, <2>1, ThreadFacts
    <3>2. CASE v = Parent[s]
      BY <1>1, <3>1, <3>2
    <3>3. CASE v # Parent[s]
      <4>1. Depth[v] < Depth[Parent[s]]
        BY <1>2, <2>1, <3>1, <3>3, ThreadFacts
      <4>2. cpc[v] = "nested"
        BY <1>1, <1>2, <2>1, <3>1, <4>1, ThreadFacts DEF Stack
      <4> QED BY <1>1, <3>3, <4>2
    <3> QED BY <3>2, <3>3
  <2>2. CASE u # s
    <3>1. cpc[u] # "idle"
      BY <1>1, <1>2, <2>2, ThreadFacts
    <3>2. cpc[v] = "nested"
      BY <1>2, <3>1 DEF Stack
    <3> QED BY <1>1, <3>2, ThreadFacts
  <2> QED BY <2>1, <2>2
<1>3. ASSUME NEW t \in Others, cpc'[t] # "idle"
      PROVE  \E r \in Slots : Thread[r] = t /\ cpc'[r] \notin {"idle", "nested"}
  <2>1. CASE Thread[s] = t
    BY <1>1, <2>1
  <2>2. CASE Thread[s] # t
    <3>1. t # s /\ t # Parent[s] /\ t \in Slots
      BY <2>2, ThreadFacts
    <3>2. PICK r \in Slots : Thread[r] = t /\ cpc[r] \notin {"idle", "nested"}
      BY <1>1, <1>3, <3>1 DEF Stack
    <3>3. r # s /\ r # Parent[s]
      BY <2>2, <3>2, ThreadFacts
    <3> QED BY <1>1, <3>2, <3>3, ThreadFacts
  <2> QED BY <2>1, <2>2
<1> QED BY <1>2, <1>3 DEF Stack

\* A call that returns is the innermost, and the wait around it goes on.
LEMMA StackReturns ==
  ASSUME TypeOK, Stack, NEW s \in Slots, Return(s)
  PROVE  /\ Stack'
         /\ Parent[s] # None => cpc[Parent[s]] = "nested"
<1>1. /\ cpc[s] = "check" /\ cpc'[s] = "idle"
      /\ \A r \in Slots : r # s /\ r # Parent[s] => cpc'[r] = cpc[r]
      /\ Parent[s] # None => cpc'[Parent[s]] = "futex"
  BY ThreadFacts DEF Return
<1>2. Parent[s] # None => cpc[Parent[s]] = "nested"
  BY <1>1, ThreadFacts DEF Stack
<1>3. ASSUME NEW u \in Slots, NEW v \in Slots, Thread[u] = Thread[v], Depth[v] < Depth[u],
             cpc'[u] # "idle"
      PROVE  cpc'[v] = "nested"
  <2>1. cpc[u] # "idle" /\ u # s
    BY <1>1, <1>2, <1>3, ThreadFacts
  <2>2. cpc[v] = "nested"
    BY <1>3, <2>1 DEF Stack
  <2>3. v # s
    BY <1>1, <2>2
  <2>4. v # Parent[s]
    <3> SUFFICES ASSUME v = Parent[s] PROVE FALSE
      OBVIOUS
    <3>1. Parent[s] # None
      BY ThreadFacts, SlotsAssumption
    <3>2. Thread[u] = Thread[s] /\ Depth[s] < Depth[u]
      BY <1>3, <2>1, <3>1, ThreadFacts
    <3>3. cpc[s] = "nested"
      BY <2>1, <3>2 DEF Stack
    <3> QED BY <1>1, <3>3
  <2> QED BY <1>1, <2>2, <2>3, <2>4
<1>4. ASSUME NEW t \in Others, cpc'[t] # "idle"
      PROVE  \E r \in Slots : Thread[r] = t /\ cpc'[r] \notin {"idle", "nested"}
  <2>1. CASE Thread[s] = t
    <3>1. Parent[s] # None
      <4> SUFFICES ASSUME Parent[s] = None PROVE FALSE
        OBVIOUS
      <4>1. s = t
        BY <2>1, ThreadFacts
      <4> QED BY <1>1, <1>4, <4>1
    <3> QED BY <1>1, <2>1, <3>1, ThreadFacts
  <2>2. CASE Thread[s] # t
    <3>1. t # s /\ t # Parent[s] /\ t \in Slots
      BY <2>2, ThreadFacts
    <3>2. PICK r \in Slots : Thread[r] = t /\ cpc[r] \notin {"idle", "nested"}
      BY <1>1, <1>4, <3>1 DEF Stack
    <3>3. r # s /\ r # Parent[s]
      BY <2>2, <3>2, ThreadFacts
    <3> QED BY <1>1, <3>2, <3>3, ThreadFacts
  <2> QED BY <2>1, <2>2
<1> QED BY <1>2, <1>3, <1>4 DEF Stack

\* A thread that rests takes no step of its own task.
LEMMA RestsStill ==
  ASSUME Stack, NEW t \in Others, Resting(t)
  PROVE  ~WorkStep(t)
<1>1. CASE Unanswered(t)
  <2>1. PICK s \in Slots : Thread[s] = t /\ cpc[s] \in {"futex", "sleep", "nested"}
    BY <1>1 DEF Unanswered
  <2>2. cpc[t] # "idle"
    <3>1. CASE s # t
      <4>1. Depth[t] < Depth[s] /\ Thread[t] = t /\ t \in Slots
        BY <2>1, <3>1, Deeper, ThreadFacts
      <4>2. cpc[t] = "nested"
        BY <2>1, <4>1 DEF Stack
      <4> QED BY <4>2
    <3> QED BY <2>1, <3>1
  <2> QED BY <2>2 DEF WorkStep, EnterWork, WorkFutex, LeaveWork, WorkCalls, TaskSpawns, TaskOpens,
       WaitForGate, FinishTask, WorkerFree
<1>2. CASE cpc[t] = "idle" /\ wpc[t] = "asleep"
  BY <1>2 DEF WorkStep, EnterWork, WorkFutex, LeaveWork, WorkCalls, TaskSpawns, TaskOpens,
     WaitForGate, FinishTask, WorkerFree
<1> QED BY <1>1, <1>2 DEF Resting

\* It rests on while its waits without reply stay so and no task changes.
LEMMA RestsOn ==
  ASSUME NEW t \in Others, Resting(t), UNCHANGED <<wpc, doing, task, gate>>,
         \A s \in Slots : Thread[s] = t /\ cpc[s] \in {"futex", "sleep", "nested"} /\ ready[s] = 0
                            => cpc'[s] \in {"futex", "sleep", "nested"} /\ ready'[s] = 0,
         cpc[t] = "idle" /\ wpc[t] = "asleep" => cpc'[t] = "idle"
  PROVE  Resting(t)'
<1>1. CASE Unanswered(t)
  BY <1>1 DEF Unanswered, Resting
<1>2. CASE cpc[t] = "idle" /\ wpc[t] = "asleep" /\ ~MayGoOn(t)
  BY <1>2 DEF MayGoOn, Resting
<1> QED BY <1>1, <1>2 DEF Resting

\* A slot moves on inside its call.
LEMMA SlotGoes ==
  ASSUME TypeOK, Stack, Working, NEW s \in Slots, NEW x, cpc' = [cpc EXCEPT ![s] = x],
         cpc[s] \notin {"idle", "nested"}, x \notin {"idle", "nested"},
         UNCHANGED <<wpc, doing, task, gate>>,
         \A r \in listed' : r # s => r \in listed,
         Thread[s] \in Others /\ s \in listed' => x \in {"futex", "sleep", "leave"}
  PROVE  /\ Stack' /\ Working'
         /\ /\ \A r \in Slots : Thread[r] \in Others /\ ready[r] = 0 => ready'[r] = 0
            /\ Thread[s] \in Others /\ cpc[s] \in {"futex", "sleep"} /\ ready[s] = 0
                 => x \in {"futex", "sleep"}
            => \A t \in Others : Resting(t) => Resting(t)'
<1>1. Stack'
  BY StackGoes
<1>2. \A r \in Slots : r # s => cpc'[r] = cpc[r]
  OBVIOUS
<1>3. cpc'[s] = x
  BY DEF TypeOK
<1>4. Working'
  <2>1. ASSUME NEW t \in Others
        PROVE  /\ cpc'[t] # "idle" => wpc'[t] = "work"
               /\ wpc'[t] = "asleep" => ~MayGoOn(t)'
    BY <1>2, <2>1, ThreadFacts DEF Working, MayGoOn
  <2>2. ASSUME NEW r \in listed', Thread[r] \in Others
        PROVE  \/ cpc'[r] \in {"futex", "sleep", "nested", "leave"}
               \/ r \in Others /\ cpc'[r] = "idle" /\ wpc'[r] \in {"futex", "asleep", "leave"}
    <3>1. CASE r = s
      BY <1>3, <2>2, <3>1
    <3>2. CASE r # s
      <4>1. r \in listed /\ r \in Slots
        BY <2>2, <3>2 DEF TypeOK
      <4> QED BY <1>2, <2>2, <3>2, <4>1 DEF Working
    <3> QED BY <3>1, <3>2
  <2> QED BY <2>1, <2>2 DEF Working
<1>5. ASSUME \A r \in Slots : Thread[r] \in Others /\ ready[r] = 0 => ready'[r] = 0,
             Thread[s] \in Others /\ cpc[s] \in {"futex", "sleep"} /\ ready[s] = 0
               => x \in {"futex", "sleep"},
             NEW t \in Others, Resting(t)
      PROVE  Resting(t)'
  <2>1. \A r \in Slots : Thread[r] = t /\ cpc[r] \in {"futex", "sleep", "nested"} /\ ready[r] = 0
                            => cpc'[r] \in {"futex", "sleep", "nested"} /\ ready'[r] = 0
    BY <1>2, <1>3, <1>5
  <2>2. cpc[t] = "idle" => cpc'[t] = "idle"
    BY <1>2, ThreadFacts
  <2> QED BY <1>5, <2>1, <2>2, RestsOn
<1> QED BY <1>1, <1>4, <1>5

\* A call starts, at a step of the worker's own task or inside the wait of another.
LEMMA CallOthers ==
  ASSUME TypeOK, Stack, Working, NEW s \in Slots, NEW o, Call(s, o),
         UNCHANGED <<wpc, doing, task, gate>>, s \in Others => wpc[s] = "work"
  PROVE  /\ Stack' /\ Working' /\ UNCHANGED <<listed, moved, ready>>
         /\ \A t \in Others : Resting(t) => Resting(t)'
<1>1. /\ cpc[s] = "idle" /\ cpc'[s] = "clear"
      /\ \A r \in Slots : r # s /\ r # Parent[s] => cpc'[r] = cpc[r]
      /\ Parent[s] # None => cpc[Parent[s]] = "sleep" /\ cpc'[Parent[s]] = "nested"
      /\ UNCHANGED <<listed, moved, ready>>
  BY ThreadFacts DEF Call
<1>2. Stack'
  BY StackCalls
<1>3. Working'
  <2>1. ASSUME NEW t \in Others
        PROVE  /\ cpc'[t] # "idle" => wpc'[t] = "work"
               /\ wpc'[t] = "asleep" => ~MayGoOn(t)'
    <3>1. t \in Slots /\ t # None
      BY ThreadFacts
    <3>2. cpc'[t] # "idle" => wpc'[t] = "work"
      BY <1>1, <3>1 DEF Working
    <3> QED BY <3>2 DEF Working, MayGoOn
  <2>2. ASSUME NEW r \in listed', Thread[r] \in Others
        PROVE  \/ cpc'[r] \in {"futex", "sleep", "nested", "leave"}
               \/ r \in Others /\ cpc'[r] = "idle" /\ wpc'[r] \in {"futex", "asleep", "leave"}
    <3>1. r \in listed /\ r \in Slots /\ r # None
      BY <1>1, <2>2, ThreadFacts DEF TypeOK
    <3>2. r # s
      BY <1>1, <2>2, <3>1 DEF Working
    <3> QED BY <1>1, <2>2, <3>1, <3>2 DEF Working
  <2> QED BY <2>1, <2>2 DEF Working
<1>4. ASSUME NEW t \in Others, Resting(t) PROVE Resting(t)'
  <2>1. \A r \in Slots : Thread[r] = t /\ cpc[r] \in {"futex", "sleep", "nested"} /\ ready[r] = 0
                            => cpc'[r] \in {"futex", "sleep", "nested"} /\ ready'[r] = 0
    BY <1>1, ThreadFacts
  <2>2. cpc[t] = "idle" /\ wpc[t] = "asleep" => cpc'[t] = "idle"
    BY <1>1, ThreadFacts
  <2> QED BY <1>4, <2>1, <2>2, RestsOn
<1> QED BY <1>1, <1>2, <1>3, <1>4

\* A call returns.
LEMMA ReturnOthers ==
  ASSUME TypeOK, Stack, Working, NEW s \in Slots, Return(s), UNCHANGED <<wpc, doing, task, gate>>
  PROVE  /\ Stack' /\ Working' /\ UNCHANGED <<listed, moved, ready>>
         /\ \A t \in Others : Resting(t) => Resting(t)'
<1>1. /\ cpc[s] = "check" /\ cpc'[s] = "idle"
      /\ \A r \in Slots : r # s /\ r # Parent[s] => cpc'[r] = cpc[r]
      /\ Parent[s] # None => cpc[Parent[s]] = "nested" /\ cpc'[Parent[s]] = "futex"
      /\ UNCHANGED <<listed, moved, ready>>
  BY StackReturns, ThreadFacts DEF Return
<1>2. Stack'
  BY StackReturns
<1>3. Working'
  <2>1. ASSUME NEW t \in Others
        PROVE  /\ cpc'[t] # "idle" => wpc'[t] = "work"
               /\ wpc'[t] = "asleep" => ~MayGoOn(t)'
    <3>1. t \in Slots /\ t # None
      BY ThreadFacts
    <3>2. cpc'[t] # "idle" => wpc'[t] = "work"
      BY <1>1, <3>1 DEF Working
    <3> QED BY <3>2 DEF Working, MayGoOn
  <2>2. ASSUME NEW r \in listed', Thread[r] \in Others
        PROVE  \/ cpc'[r] \in {"futex", "sleep", "nested", "leave"}
               \/ r \in Others /\ cpc'[r] = "idle" /\ wpc'[r] \in {"futex", "asleep", "leave"}
    <3>1. r \in listed /\ r \in Slots /\ r # None
      BY <1>1, <2>2, ThreadFacts DEF TypeOK
    <3>2. r # s
      BY <1>1, <2>2, <3>1 DEF Working
    <3> QED BY <1>1, <2>2, <3>1, <3>2 DEF Working
  <2> QED BY <2>1, <2>2 DEF Working
<1>4. ASSUME NEW t \in Others, Resting(t) PROVE Resting(t)'
  <2>1. \A r \in Slots : Thread[r] = t /\ cpc[r] \in {"futex", "sleep", "nested"} /\ ready[r] = 0
                            => cpc'[r] \in {"futex", "sleep", "nested"} /\ ready'[r] = 0
    BY <1>1, ThreadFacts
  <2>2. cpc[t] = "idle" /\ wpc[t] = "asleep" => cpc'[t] = "idle"
    BY <1>1, ThreadFacts
  <2> QED BY <1>4, <2>1, <2>2, RestsOn
<1> QED BY <1>1, <1>2, <1>3, <1>4

\* No step of a host call gives another thread a reason to go on.
LEMMA HostOthers ==
  ASSUME TypeOK, Stack, Working, NEW s \in Slots, ThreadStep(s),
         UNCHANGED <<wpc, doing, task, gate>>
  PROVE  /\ Stack' /\ Working'
         /\ moved => moved'
         /\ moved' \/ listed' = listed
         /\ \A t \in Others : Resting(t) => Resting(t)'
<1>1. CASE Return(s)
  BY <1>1, ReturnOthers
<1>2. CASE ~Return(s)
  <2> DEFINE Goes(x) ==
        /\ cpc' = [cpc EXCEPT ![s] = x]
        /\ cpc[s] \notin {"idle", "nested"} /\ x \notin {"idle", "nested"}
        /\ cpc[s] \in {"futex", "sleep"} /\ ready[s] = 0 => x \in {"futex", "sleep"}
        /\ cpc[s] \in {"futex", "sleep"} => x \in {"futex", "sleep", "leave"}
        /\ cpc[s] = "leave" => s \notin listed'
        /\ s \in listed' /\ s \notin listed => x = "futex"
  <2>1. PICK x : Goes(x)
    <3>1. CASE EnterWaits(s)
      <4>1. Goes("futex")
        BY <3>1 DEF EnterWaits, GoTo
      <4> QED BY <4>1
    <3>2. CASE FutexWait(s)
      <4>1. Goes("sleep") \/ Goes("leave")
        BY <3>2 DEF FutexWait, GoTo
      <4> QED BY <4>1
    <3>3. CASE LeaveWaits(s)
      <4>1. Goes("check")
        BY <3>3 DEF LeaveWaits, GoTo
      <4> QED BY <4>1
    <3>4. CASE ClearReady(s) \/ BumpSequence(s) \/ NotifySequence(s) \/ RingDoorbell(s)
      <4>1. Goes("bump") \/ Goes("notify") \/ Goes("ring") \/ Goes("check")
        BY <3>4 DEF ClearReady, BumpSequence, NotifySequence, RingDoorbell, GoTo
      <4> QED BY <4>1
    <3>5. CASE SeePending(s) \/ AskForCopy(s)
      <4>1. Goes("list") \/ Goes("clear")
        BY <3>5 DEF SeePending, AskForCopy, GoTo
      <4> QED BY <4>1
    <3> QED BY <1>2, <3>1, <3>2, <3>3, <3>4, <3>5 DEF ThreadStep
  <2>2. /\ \A r \in listed' : r # s => r \in listed
        /\ moved => moved'
        /\ moved' \/ listed' = listed
        /\ \A r \in Slots : ready[r] = 0 => ready'[r] = 0
    BY <1>2 DEF TypeOK, ThreadStep, ClearReady, BumpSequence, NotifySequence, RingDoorbell,
       SeePending, EnterWaits, FutexWait, LeaveWaits, AskForCopy
  <2>3. Thread[s] \in Others /\ s \in listed' => x \in {"futex", "sleep", "leave"}
    <3> SUFFICES ASSUME Thread[s] \in Others, s \in listed', s \in listed
                 PROVE  x \in {"futex", "sleep", "leave"}
      BY <2>1
    <3>1. cpc[s] \in {"futex", "sleep", "leave"}
      BY <2>1 DEF Working
    <3> QED BY <2>1, <3>1
  <2> QED BY <2>1, <2>2, <2>3, SlotGoes
<1> QED BY <1>1, <1>2

\* A task that is started, or may go on, rouses every worker that sleeps for it.
LEMMA Roused ==
  ASSUME SyncTypeOK, Working, NEW k \in Tasks, Spawn(k) \/ Open(k),
         UNCHANGED <<cpc, listed, doing>>
  PROVE  Working'
<1>1. /\ \A t \in Others : wpc[t] = "work" => wpc'[t] = "work"
      /\ \A t \in Others : wpc[t] \in {"futex", "asleep", "leave"}
                            => wpc'[t] \in {"futex", "asleep", "leave"}
      /\ \A t \in Others : wpc'[t] = "asleep" => wpc[t] = "asleep"
  BY DEF SyncTypeOK, Spawn, Open, Rouse
<1>2. ASSUME NEW t \in Others, wpc'[t] = "asleep" PROVE ~MayGoOn(t)'
  <2>1. wpc[t] = "asleep" /\ ~MayGoOn(t) /\ doing[t] \in Tasks \cup {None}
    BY <1>1, <1>2 DEF Working, SyncTypeOK
  <2>2. CASE Spawn(k)
    <3>1. doing[t] \in Tasks
      BY <1>2, <2>1, <2>2 DEF Spawn, Rouse
    <3>2. doing[t] # None /\ ~gate[doing[t]]
      BY <2>1, <3>1, SyncAssumption DEF MayGoOn
    <3>3. ~gate'[doing[t]]
      BY <2>2, <3>1, <3>2 DEF Spawn, SyncTypeOK
    <3> QED BY <3>2, <3>3 DEF MayGoOn
  <2>3. CASE Open(k)
    <3>1. doing[t] # k /\ UNCHANGED task
      BY <1>2, <2>1, <2>3 DEF Open, Rouse
    <3>2. doing[t] # None => gate'[doing[t]] = gate[doing[t]]
      BY <2>1, <2>3, <3>1 DEF Open, SyncTypeOK
    <3> QED BY <2>1, <3>1, <3>2 DEF MayGoOn
  <2> QED BY <2>2, <2>3
<1> QED BY <1>1, <1>2 DEF Working, SyncTypeOK

\* While the event loop is blocked, no server is about to wake another thread: one
\* that sleeps has no reply.
LEMMA SleepsUnanswered ==
  ASSUME SyncInv, mpc # "out", NEW s \in Slots, Thread[s] \in Others, cpc[s] = "sleep"
  PROVE  ready[s] = 0
<1>1. Turn(s) /\ Blocked /\ TypeOK
  BY DEF SyncInv, Served, SyncTypeOK
<1>2. ~Inline(s)
  BY <1>1, ThreadFacts DEF Blocked
<1>3. srv[s] # "wake"
  BY <1>1, SlotsAssumption DEF Turn, Blocked
<1>4. ready[s] # 1
  BY <1>1, <1>2, <1>3 DEF Turn
<1>5. ready[s] \in {0, 1}
  BY <1>1 DEF TypeOK
<1> QED BY <1>4, <1>5

\* While it is blocked, a thread that is not on its way, into a wait or out of one,
\* rests.
Arrived == mpc # "out" => \A t \in Others : ~OnItsWay(t) => Resting(t)

LEMMA ArrivedRests == SyncInv /\ Stack /\ Working => Arrived
<1> SUFFICES ASSUME SyncInv, Stack, Working, mpc # "out", NEW t \in Others, ~OnItsWay(t)
             PROVE  Resting(t)
  BY DEF Arrived
<1>1. /\ \A s \in Slots : Thread[s] = t => cpc[s] \in {"idle", "sleep", "nested"}
      /\ cpc[t] = "idle" => wpc[t] = "asleep"
  BY ThreadFacts DEF OnItsWay
<1>2. CASE cpc[t] = "idle"
  BY <1>1, <1>2 DEF Working, Resting
<1>3. CASE cpc[t] # "idle"
  <2>1. PICK s \in Slots : Thread[s] = t /\ cpc[s] \notin {"idle", "nested"}
    BY <1>3 DEF Stack
  <2>2. cpc[s] = "sleep"
    BY <1>1, <2>1
  <2>3. ready[s] = 0
    BY <2>1, <2>2, SleepsUnanswered
  <2> QED BY <2>1, <2>2, <2>3 DEF Unanswered, Resting
<1> QED BY <1>2, <1>3

\* So does one that was on its way at the mark and has arrived.
LEMMA ArrivesToRest ==
  ASSUME SyncInv', Stack', Working', mpc' # "out", Arrives,
         NEW t \in Others, t \in lagging, t \notin lagging'
  PROVE  Resting(t)'
<1>1. Arrived'
  BY ArrivedRests, PTL
<1>2. ~OnItsWay(t)'
  BY DEF Arrives
<1> QED BY <1>1, <1>2 DEF Arrived

\* A step that disturbs no resting thread and leaves the list as it is, or moves its
\* epoch, keeps the mark.
LEMMA MarkKept ==
  ASSUME Mark, Marks, SyncInv', Stack', Working', UNCHANGED <<word, mpc, look, seen>>,
         moved => moved', moved' \/ listed' = listed, lagging' = lagging \/ Arrives,
         \A t \in Others : Resting(t) => Resting(t)',
         /\ S0 \notin lagging /\ spc = "poll" => ~Done
         /\ seen # None /\ word = seen
         => (S0 \notin lagging' /\ spc' = "poll" => ~Done')
  PROVE  Mark'
<1> SUFFICES ASSUME seen' # None, word' = seen', ~moved', mpc' = "list" => ~look'[2]
             PROVE  /\ \A t \in Others : Listed(t)' /\ (t \notin lagging' => Resting(t)')
                    /\ S0 \notin lagging' /\ spc' = "poll" => ~Done'
  BY DEF Mark
<1>1. /\ \A t \in Others : Listed(t) /\ (t \notin lagging => Resting(t))
      /\ S0 \notin lagging /\ spc = "poll" => ~Done
      /\ seen # None /\ word = seen /\ mpc # "out"
  BY DEF Mark, Marks
<1>2. ASSUME NEW t \in Others PROVE Listed(t)'
  BY <1>1, <1>2 DEF Listed
<1>3. ASSUME NEW t \in Others, t \notin lagging' PROVE Resting(t)'
  BY <1>1, <1>3, ArrivesToRest
<1> QED BY <1>1, <1>2, <1>3

\* The callback's thread is inside a wait only while its call stands posted.
LEMMA WaitIsPosted ==
  ASSUME SyncInv, Marks, word[2] # 0 \/ InWait \/ spc = "post"
  PROVE  chan = 1 /\ mpc \notin {"out", "bell", "sequence", "post"}
BY DEF SyncInv, Channel, Marks, InWait

\* What the main thread does inside a callback leaves the other threads where they are.
LEMMA CallbackLeaves ==
  ASSUME SyncInv, Stack, Working, InCallback
  PROVE  /\ UNCHANGED <<listed, workVars, fuel, verdict, awaited>>
         /\ spc' = spc \/ (mpc = "notify" /\ spc = "asleep" /\ spc' = "leave")
         /\ Stack' /\ Working'
         /\ \A t \in Others : Resting(t) => Resting(t)'
<1>1. TypeOK /\ Blocked /\ Thread[S0] = S0
  BY ThreadFacts DEF SyncInv, SyncTypeOK, Served
<1>2. CASE WalkWake /\ cpc[cur] = "sleep"
  <2>1. cur \in Slots /\ Thread[cur] = S0
    BY <1>1, <1>2, SlotsAssumption DEF SyncInv, SyncTypeOK, Blocked, WalkWake
  <2>2. cpc' = [cpc EXCEPT ![cur] = "leave"] /\ UNCHANGED <<listed, ready, workVars, syncThread>>
    BY <1>1, <1>2, <2>1 DEF WalkWake
  <2>3. PICK s \in Slots : s = cur
    BY <2>1
  <2>4. /\ cpc' = [cpc EXCEPT ![s] = "leave"] /\ cpc[s] = "sleep" /\ Thread[s] \notin Others
        /\ UNCHANGED <<wpc, doing, task, gate, listed, ready>>
    BY <1>2, <2>1, <2>2, <2>3, ThreadFacts
  <2>5. Stack' /\ Working' /\ \A t \in Others : Resting(t) => Resting(t)'
    BY <1>1, <2>4, SlotGoes
  <2> QED BY <2>2, <2>5
<1>3. CASE WalkSet
  <2>1. cur \in Slots /\ Thread[cur] = S0
    BY <1>1, <1>3, SlotsAssumption DEF SyncInv, SyncTypeOK, Blocked, WalkSet
  <2>2. ready' = [ready EXCEPT ![cur] = 1] /\ UNCHANGED <<cpc, listed, workVars, syncThread>>
    BY <1>3 DEF WalkSet
  <2>3. Stack' /\ Working'
    BY <2>2 DEF Stack, Working, MayGoOn
  <2>4. ASSUME NEW t \in Others, Resting(t) PROVE Resting(t)'
    <3>1. \A s \in Slots : Thread[s] = t => cpc'[s] = cpc[s] /\ ready'[s] = ready[s]
      BY <1>1, <2>1, <2>2, ThreadFacts DEF TypeOK
    <3> QED BY <2>2, <2>4, <3>1, ThreadFacts, RestsOn
  <2> QED BY <2>2, <2>3, <2>4
<1>4. CASE ~(WalkSet \/ (WalkWake /\ cpc[cur] = "sleep"))
  <2>1. UNCHANGED <<cpc, ready, listed, workVars, fuel, verdict, awaited>>
    <3>1. CASE WalkWake
      BY <1>1, <1>4, <3>1 DEF TypeOK, WalkWake
    <3>2. CASE ~WalkWake
      BY <1>4, <3>2
         DEF InCallback, ReadBell, ReadSequence, PostCall, NotifyCall, TakeResult, NoResult,
         SequenceChanged, BellRings, BellTimesOut, RereadBell, LookAtWait, LookAtList, StillYoung,
         AskToStop, SwapWait, WalkLoad, WalkCopy, WalkRun, WalkWrite
    <3> QED BY <3>1, <3>2
  <2>2. spc' = spc \/ (mpc = "notify" /\ spc = "asleep" /\ spc' = "leave")
    BY <1>4 DEF InCallback, ReadBell, ReadSequence, PostCall, NotifyCall, TakeResult, NoResult,
       SequenceChanged, BellRings, BellTimesOut, RereadBell, LookAtWait, LookAtList, StillYoung,
       AskToStop, SwapWait, WalkLoad, WalkCopy, WalkRun, WalkWrite, WalkWake
  <2>3. Stack' /\ Working'
    BY <2>1 DEF Stack, Working, MayGoOn
  <2>4. \A t \in Others : Resting(t) => Resting(t)'
    BY <2>1 DEF Resting, Unanswered, MayGoOn
  <2> QED BY <2>1, <2>2, <2>3, <2>4
<1> QED BY <1>2, <1>3, <1>4

\* The main thread's steps inside a callback.  A mark is made of those still on
\* their way; a look that finds it unchanged, with nobody on the way, has found the
\* wait stuck, and the compare-and-swap stops that very wait.
LEMMA MainStop ==
  ASSUME SyncInv, StopInv, SyncInv', InCallback
  PROVE  StopInv'
<1>1. /\ UNCHANGED <<listed, workVars, fuel, verdict, awaited>>
      /\ spc' = spc \/ (mpc = "notify" /\ spc = "asleep" /\ spc' = "leave")
      /\ Stack' /\ Working'
      /\ \A t \in Others : Resting(t) => Resting(t)'
  BY CallbackLeaves DEF StopInv
<1>2. SyncTypeOK /\ Working /\ Marks /\ Mark /\ Verdict /\ NoWrongStop /\ SyncAssumption
  BY SyncAssumption DEF SyncInv, StopInv, Verdict
<1>3. /\ Stack' /\ Working' /\ (Quiet => Quiet') /\ (Done' <=> Done)
      /\ \A t \in Others : Listed(t)' <=> Listed(t)
  BY <1>1, <1>2 DEF Quiet, Done, Listed
<1>4. Stuck => Stuck'
  BY <1>1, <1>3 DEF Stuck
<1>5. NoWrongStop'
  BY <1>1, <1>2, <1>3 DEF NoWrongStop
<1>6. \A t \in Others : /\ Resting(t) => Resting(t)'
                        /\ Listed(t)' <=> Listed(t)
  BY <1>1, <1>3
<1>7. InWait' <=> InWait
  BY <1>1 DEF InWait
<1>8. CASE LookAtWait
  <2>1. /\ mpc = "look" /\ mpc' \in {"list", "reread"}
        /\ UNCHANGED <<word, chan, lagging, spc>>
        /\ mpc' = "reread" => seen' = None /\ look' = None /\ moved' = moved
        /\ mpc' = "list" => /\ word[2] = 1 /\ look' = <<word, moved, lagging = {}>>
                            /\ moved' = FALSE /\ seen' = seen
    BY <1>8 DEF LookAtWait
  <2>2. mpc' = "list" => look'[1] = word /\ look'[2] = moved /\ (look'[3] => lagging = {})
    <3>1. ASSUME mpc' = "list" PROVE look'[1] = word
      BY <2>1, <3>1
    <3>2. ASSUME mpc' = "list" PROVE look'[2] = moved
      BY <2>1, <3>2
    <3>3. ASSUME mpc' = "list", lagging # {} PROVE ~look'[3]
      <4>1. look' = <<word, moved, lagging = {}>> /\ (lagging = {}) = FALSE
        BY <2>1, <3>3
      <4>2. look' = <<word, moved, FALSE>>
        BY <4>1, Zenon
      <4> QED BY <4>2
    <3> QED BY <3>1, <3>2, <3>3
  <2>3. mpc' = "list" => chan = 1 /\ InWait /\ fuel < MaxBody /\ mpc # "out"
    BY <1>2, <2>1, WaitIsPosted DEF Marks
  <2>4. Marks'
    <3>1. CASE mpc' = "reread"
      BY <1>1, <1>2, <1>7, <2>1, <3>1 DEF Marks
    <3>2. CASE mpc' = "list"
      <4>1. fuel \in Nat /\ fuel < Generations /\ word[1] \in 0..(Generations - 1)
        BY <1>2, <2>3, <3>2, NumbersAssumption DEF SyncTypeOK, Waits
      <4>2. Recent(word) /\ UNCHANGED <<fuel, word, chan, spc>>
        <5>1. 0 \in 0..(Generations - 1) /\ 0 + fuel < Generations /\ word[1] = word[1] + 0
          BY <1>2, <4>1
        <5> QED BY <1>1, <2>1, <5>1 DEF Recent
      <4>3. Recent(look[1])'
        BY <2>2, <3>2, <4>2 DEF Recent
      <4>4. seen' # None => seen'[2] = 1 /\ (chan' = 1 => Recent(seen)')
        BY <1>2, <2>1, <3>2, <4>2 DEF Marks, Recent
      <4> QED BY <1>1, <1>2, <1>7, <2>1, <2>2, <2>3, <3>2, <4>2, <4>3, <4>4 DEF Marks, InWait
    <3> QED BY <2>1, <3>1, <3>2
  <2>5. Mark'
    BY <1>1, <1>2, <1>3, <1>6, <2>1, <2>2 DEF Mark
  <2>6. Verdict'
    <3>1. ASSUME mpc' = "list", SameMark', look'[3], word' = look'[1] PROVE Stuck'
      <4>1. seen = word /\ ~moved /\ lagging = {} /\ mpc # "out" /\ seen # None
        <5>1. seen' = look'[1] /\ ~look'[2] /\ seen' = seen
          BY <2>1, <3>1 DEF SameMark
        <5>2. word # None /\ mpc = "look"
          BY <1>2, <2>1 DEF SyncTypeOK
        <5> QED BY <2>2, <3>1, <5>1, <5>2
      <4>2. /\ \A t \in Others : Resting(t)
            /\ spc = "poll" => ~Done
        BY <1>2, <2>1, <4>1 DEF Mark
      <4>3. Quiet
        BY <4>2 DEF Quiet
      <4> QED BY <1>4, <4>2, <4>3 DEF Stuck
    <3>2. word' = word /\ mpc' # "swap"
      BY <2>1
    <3> QED BY <1>2, <1>4, <1>5, <3>1, <3>2, <2>1 DEF Verdict
  <2> QED BY <1>3, <2>4, <2>5, <2>6 DEF StopInv
<1>9. CASE LookAtList
  <2>1. /\ mpc = "list" /\ mpc' = "reread" /\ UNCHANGED <<word, chan, look, moved, spc>>
        /\ seen' = IF AllListed THEN look[1] ELSE None
        /\ lagging' = IF AllListed THEN {t \in Others \cup {S0} : OnItsWay(t)} ELSE {}
    BY <1>9 DEF LookAtList
  <2>2. look # None
    BY <2>1 DEF SyncInv, Channel
  <2>3. Marks'
    BY <1>1, <1>2, <1>7, <2>1, <2>2 DEF Marks, Recent
  <2>4. Mark'
    <3>1. CASE ~AllListed
      BY <2>1, <3>1 DEF Mark
    <3>2. CASE AllListed
      <4>1. \A t \in Others : Listed(t) /\ (t \notin lagging' => Resting(t))
        BY <1>2, <2>1, <3>2, ArrivedRests DEF AllListed, Arrived, StopInv
      <4>2. S0 \notin lagging' => spc # "poll"
        BY <2>1, <3>2 DEF OnItsWay
      <4> QED BY <1>1, <1>3, <1>6, <2>1, <4>1, <4>2 DEF Mark
    <3> QED BY <3>1, <3>2
  <2>5. Verdict'
    BY <1>2, <1>4, <1>5, <2>1 DEF Verdict
  <2> QED BY <1>3, <2>3, <2>4, <2>5 DEF StopInv
<1>10. CASE StillYoung \/ AskToStop
  <2>1. /\ mpc = "list" /\ SameMark /\ UNCHANGED <<word, chan, look, seen, lagging, moved, spc>>
        /\ mpc' = "reread" \/ (mpc' = "swap" /\ look[3])
    BY <1>10 DEF StillYoung, AskToStop
  <2>2. Marks'
    BY <1>1, <1>2, <1>7, <2>1 DEF Marks, Recent, SameMark
  <2>3. Mark'
    BY <1>1, <1>2, <1>3, <1>6, <2>1 DEF Mark, SameMark
  <2>4. Verdict'
    BY <1>2, <1>4, <1>5, <2>1 DEF Verdict, SameMark
  <2> QED BY <1>3, <2>2, <2>3, <2>4 DEF StopInv
<1>11. CASE SwapWait
  <2>1. /\ mpc = "swap" /\ mpc' = "reread" /\ seen' = None
        /\ UNCHANGED <<chan, look, lagging, moved, spc>>
        /\ word' = IF word = look[1] THEN <<word[1], 2>> ELSE word
    BY <1>11 DEF SwapWait
  <2>2. look # None /\ SameMark /\ look[3] /\ look[1][2] = 1
    BY <1>2, <2>1 DEF Marks, SyncInv, Channel
  <2>3. word'[1] = word[1] /\ (word'[2] # 0 <=> word[2] # 0)
    BY <2>1, <2>2
  <2>4. Marks'
    BY <1>1, <1>2, <1>7, <2>1, <2>3 DEF Marks, Recent
  <2>5. Mark'
    BY <2>1 DEF Mark
  <2>6. Verdict'
    <3>1. word'[2] = 2 => Stuck
      BY <1>2, <2>1, <2>2 DEF Verdict
    <3> QED BY <1>4, <1>5, <2>1, <3>1 DEF Verdict
  <2> QED BY <1>3, <2>4, <2>5, <2>6 DEF StopInv
<1>12. CASE TakeResult
  <2>1. /\ mpc = "loop" /\ mpc' = "out" /\ seen' = None /\ look' = None /\ chan' = 0
        /\ UNCHANGED <<word, moved, spc>>
    BY <1>12 DEF TakeResult
  <2>2. Marks'
    BY <1>1, <1>2, <1>7, <2>1 DEF Marks
  <2> QED BY <1>2, <1>3, <1>4, <1>5, <2>1, <2>2 DEF StopInv, Mark, Verdict
<1>13. CASE PostCall
  <2>1. mpc = "post" /\ mpc' = "notify" /\ UNCHANGED <<word, seen, look, lagging, moved, spc>>
    BY <1>13 DEF PostCall
  <2>2. chan = 0 /\ seen = None /\ look = None
    BY <1>2, <2>1 DEF SyncInv, Channel, Marks
  <2>3. Marks'
    BY <1>1, <1>2, <1>7, <2>1, <2>2 DEF Marks
  <2> QED BY <1>2, <1>3, <1>4, <1>5, <2>1, <2>2, <2>3 DEF StopInv, Mark, Verdict
<1>14. CASE \/ ReadBell \/ ReadSequence \/ NotifyCall \/ NoResult \/ SequenceChanged \/ BellRings
            \/ BellTimesOut \/ RereadBell \/ WalkLoad \/ WalkCopy
            \/ (\E r \in Outcomes : WalkRun(r)) \/ WalkWrite \/ WalkSet \/ WalkWake
  <2>1. /\ UNCHANGED <<word, chan, seen, look, lagging, moved>>
        /\ mpc \notin {"out", "list", "swap"}
    BY <1>14 DEF ReadBell, ReadSequence, NotifyCall, NoResult, SequenceChanged, BellRings,
       BellTimesOut, RereadBell, WalkLoad, WalkCopy, WalkRun, WalkWrite, WalkSet, WalkWake
  <2>2. mpc' \notin {"out", "list", "swap"}
    BY <1>2, <1>14 DEF SyncTypeOK, ReadBell, ReadSequence, NotifyCall, NoResult, SequenceChanged,
       BellRings, BellTimesOut, RereadBell, WalkLoad, WalkCopy, WalkRun, WalkWrite, WalkSet,
       WalkWake, WalkOn, ServeInline
  <2>3. Marks'
    BY <1>1, <1>2, <1>7, <2>1, <2>2 DEF Marks, Recent
  <2>4. Mark'
    BY <1>1, <1>2, <1>3, <1>6, <2>1, <2>2 DEF Mark
  <2>5. Verdict'
    BY <1>2, <1>4, <1>5, <2>1, <2>2 DEF Verdict
  <2> QED BY <1>3, <2>3, <2>4, <2>5 DEF StopInv
<1> QED BY <1>8, <1>9, <1>10, <1>11, <1>12, <1>13, <1>14 DEF InCallback

\* The callback's thread takes no part in another thread's calls; it changes a task
\* only between its waits.
LEMMA ThreadLeaves ==
  ASSUME SyncInv, Stack, Working, SyncStep
  PROVE  /\ UNCHANGED mainVars
         /\ Stack' /\ Working'
         /\ moved => moved'
         /\ moved' \/ listed' = listed
         /\ spc \in {"wait", "poll", "post", "ring"} =>
              UNCHANGED <<cpc, ready, listed, moved, workVars, fuel>>
<1>1. TypeOK /\ SyncTypeOK
  BY DEF SyncInv, SyncTypeOK
<1>2. ASSUME NEW o, Call(S0, o), UNCHANGED workVars
      PROVE  Stack' /\ Working' /\ UNCHANGED <<listed, moved>>
  BY <1>1, <1>2, ThreadFacts, CallOthers
<1>3. ASSUME NEW o \in BodyOps, BodyCalls(o)
      PROVE  /\ UNCHANGED <<mainVars, listed, moved>> /\ Stack' /\ Working'
             /\ spc = "body"
  BY <1>2, <1>3 DEF BodyCalls, InBody
<1>4. CASE DropResult
  <2>1. UNCHANGED <<mainVars, workVars>> /\ spc = "tail"
    BY <1>4 DEF DropResult
  <2>2. CASE Release # None /\ verdict = "ok"
    <3>1. Call(S0, Release)
      BY <1>4, <2>2 DEF DropResult
    <3> QED BY <1>2, <2>1, <3>1
  <2>3. CASE ~(Release # None /\ verdict = "ok")
    <3>1. UNCHANGED slotVars
      BY <1>4, <2>3 DEF DropResult
    <3> QED BY <2>1, <3>1 DEF Stack, Working, MayGoOn
  <2> QED BY <2>2, <2>3
<1>5. CASE EnterIdle \/ LeaveIdle
  <2>1. /\ UNCHANGED <<mainVars, cpc, ready, workVars>> /\ moved' = TRUE
        /\ listed' \subseteq listed \cup {S0} /\ spc \notin {"wait", "poll", "post", "ring"}
    BY <1>5 DEF EnterIdle, LeaveIdle, Enlist
  <2>2. Stack'
    BY <2>1 DEF Stack
  <2>3. Working'
    BY <2>1, ThreadFacts DEF Working, MayGoOn
  <2> QED BY <2>1, <2>2, <2>3
<1>6. ASSUME NEW k \in Tasks, SpawnTask(k) \/ OpenGate(k)
      PROVE  /\ UNCHANGED <<mainVars, slotVars>> /\ spc = "body"
             /\ Stack' /\ Working'
  <2>1. UNCHANGED <<mainVars, slotVars, doing>> /\ spc = "body" /\ (Spawn(k) \/ Open(k))
    BY <1>6 DEF SpawnTask, OpenGate, InBody
  <2> QED BY <1>1, <2>1, Roused DEF Stack
<1>7. CASE \/ LookAtChannel \/ IdleFutex \/ (\E ks \in SUBSET Tasks : StartWait(ks))
           \/ EndWait \/ SeeUnfinished \/ StopWait \/ (\E v \in Verdicts : FinishBody(v))
           \/ PostResult \/ RingResult
  <2>1. /\ UNCHANGED <<mainVars, cpc, ready, listed, moved, workVars>>
        /\ spc \in {"wait", "poll", "post", "ring"} => UNCHANGED fuel
    BY <1>7 DEF LookAtChannel, IdleFutex, StartWait, NextNumber, EndWait, SeeUnfinished, StopWait, FinishBody,
       PostResult, RingResult, InBody
  <2> QED BY <2>1 DEF Stack, Working, MayGoOn
<1> QED BY <1>3, <1>4, <1>5, <1>6, <1>7 DEF SyncStep

\* The callback's thread.  A new wait has a number of its own, so no earlier mark is
\* of it; a wait ends only by its own thread, and looks at its task before each look
\* at its word.
LEMMA ThreadStop ==
  ASSUME SyncInv, StopInv, SyncInv', SyncStep
  PROVE  StopInv'
<1>1. /\ UNCHANGED mainVars
      /\ Stack' /\ Working'
      /\ moved => moved'
      /\ moved' \/ listed' = listed
      /\ spc \in {"wait", "poll", "post", "ring"} =>
           UNCHANGED <<cpc, ready, listed, moved, workVars, fuel>>
  BY ThreadLeaves DEF StopInv
<1>2. SyncTypeOK /\ Channel /\ Working /\ Marks /\ Mark /\ Verdict /\ NoWrongStop /\ SyncTypeOK'
  BY DEF SyncInv, StopInv, Verdict
<1>3. Stack' /\ Working'
  BY <1>1
<1>4. UNCHANGED <<cpc, ready, workVars>> => \A t \in Others : Resting(t) => Resting(t)'
  BY DEF Resting, Unanswered, MayGoOn
<1>5. UNCHANGED <<cpc, ready, workVars>> => (Quiet => Quiet')
  BY <1>4 DEF Quiet
<1>6. fuel \in Nat /\ fuel' \in Nat
  BY <1>2 DEF SyncTypeOK
<1>7. ASSUME word'[1] = word[1], chan' = 1 => chan = 1 /\ fuel' <= fuel
      PROVE  /\ seen' # None => seen'[2] = 1 /\ (chan' = 1 => Recent(seen)')
             /\ look' # None => look'[1][2] = 1 /\ (chan' = 1 => Recent(look[1])')
  <2>1. ASSUME seen # None, chan' = 1 PROVE Recent(seen)'
    <3>1. PICK d \in 0..(Generations - 1) :
            /\ d + fuel < Generations
            /\ word[1] = seen[1] + d \/ word[1] = seen[1] + d - Generations
      BY <1>2, <1>7, <2>1 DEF Marks, Recent
    <3>2. d + fuel' < Generations
      BY <1>6, <1>7, <2>1, <3>1, SyncAssumption
    <3> QED BY <1>1, <1>7, <3>1, <3>2 DEF Recent
  <2>2. ASSUME look # None, chan' = 1 PROVE Recent(look[1])'
    <3>1. PICK d \in 0..(Generations - 1) :
            /\ d + fuel < Generations
            /\ word[1] = look[1][1] + d \/ word[1] = look[1][1] + d - Generations
      BY <1>2, <1>7, <2>2 DEF Marks, Recent
    <3>2. d + fuel' < Generations
      BY <1>6, <1>7, <2>2, <3>1, SyncAssumption
    <3> QED BY <1>1, <1>7, <3>1, <3>2 DEF Recent
  <2> QED BY <1>1, <1>2, <2>1, <2>2 DEF Marks
<1>8. UNCHANGED <<mpc, seen, look>> /\ (SameMark' <=> SameMark)
  BY <1>1 DEF SameMark
<1>9. mpc \in {"list", "swap"} => look # None
  BY <1>2 DEF Channel
<1>10. ASSUME NEW ks \in SUBSET Tasks, StartWait(ks) PROVE StopInv'
  <2>1. /\ spc = "body" /\ spc' = "wait" /\ fuel > 0 /\ fuel' = fuel - 1
        /\ word' = <<(word[1] + 1) % Generations, 1>> /\ chan' = chan
    BY <1>10 DEF StartWait, NextNumber, InBody
  <2>2. chan = 1 /\ word[1] \in 0..(Generations - 1)
    BY <1>2, <2>1 DEF Channel, SyncTypeOK, Waits
  <2>3. ASSUME seen # None PROVE word' # seen /\ Recent(seen)'
    <3>1. seen[1] \in 0..(Generations - 1)
      BY <1>2, <2>3 DEF SyncTypeOK, Waits
    <3>2. PICK d \in 0..(Generations - 1) :
            /\ d + fuel < Generations
            /\ word[1] = seen[1] + d \/ word[1] = seen[1] + d - Generations
      BY <1>2, <2>2, <2>3 DEF Marks, Recent
    <3>3. /\ (word[1] + 1) % Generations # seen[1]
          /\ d + 1 \in 0..(Generations - 1) /\ (d + 1) + (fuel - 1) < Generations
          /\ \/ (word[1] + 1) % Generations = seen[1] + (d + 1)
             \/ (word[1] + 1) % Generations = seen[1] + (d + 1) - Generations
      <4>1. PICK w, n \in 0..(Generations - 1), f \in Nat : w = seen[1] /\ n = word[1] /\ f = fuel
        BY <1>6, <2>2, <3>1
      <4>2. f > 0 /\ d + f < Generations /\ (n = w + d \/ n = w + d - Generations)
        BY <2>1, <3>2, <4>1
      <4>3. /\ (n + 1) % Generations # w
            /\ d + 1 \in 0..(Generations - 1) /\ (d + 1) + (f - 1) < Generations
            /\ \/ (n + 1) % Generations = w + (d + 1)
               \/ (n + 1) % Generations = w + (d + 1) - Generations
        BY <4>2, NextWait
      <4> QED BY <4>1, <4>3
    <3>4. word'[1] = (word[1] + 1) % Generations
      BY <2>1
    <3>5. /\ d + 1 \in 0..(Generations - 1) /\ (d + 1) + fuel' < Generations
          /\ word'[1] = seen[1] + (d + 1) \/ word'[1] = seen[1] + (d + 1) - Generations
      BY <2>1, <3>3, <3>4
    <3> QED BY <1>8, <3>3, <3>4, <3>5 DEF Recent
  <2>4. ASSUME look # None PROVE word' # look[1] /\ Recent(look[1])'
    <3>1. look[1][1] \in 0..(Generations - 1)
      BY <1>2, <2>4 DEF SyncTypeOK, Waits
    <3>2. PICK d \in 0..(Generations - 1) :
            /\ d + fuel < Generations
            /\ word[1] = look[1][1] + d \/ word[1] = look[1][1] + d - Generations
      BY <1>2, <2>2, <2>4 DEF Marks, Recent
    <3>3. /\ (word[1] + 1) % Generations # look[1][1]
          /\ d + 1 \in 0..(Generations - 1) /\ (d + 1) + (fuel - 1) < Generations
          /\ \/ (word[1] + 1) % Generations = look[1][1] + (d + 1)
             \/ (word[1] + 1) % Generations = look[1][1] + (d + 1) - Generations
      <4>1. PICK w, n \in 0..(Generations - 1),
            f \in Nat : w = look[1][1] /\ n = word[1] /\ f = fuel
        BY <1>6, <2>2, <3>1
      <4>2. f > 0 /\ d + f < Generations /\ (n = w + d \/ n = w + d - Generations)
        BY <2>1, <3>2, <4>1
      <4>3. /\ (n + 1) % Generations # w
            /\ d + 1 \in 0..(Generations - 1) /\ (d + 1) + (f - 1) < Generations
            /\ \/ (n + 1) % Generations = w + (d + 1)
               \/ (n + 1) % Generations = w + (d + 1) - Generations
        BY <4>2, NextWait
      <4> QED BY <4>1, <4>3
    <3>4. word'[1] = (word[1] + 1) % Generations
      BY <2>1
    <3>5. /\ d + 1 \in 0..(Generations - 1) /\ (d + 1) + fuel' < Generations
          /\ word'[1] = look[1][1] + (d + 1) \/ word'[1] = look[1][1] + (d + 1) - Generations
      BY <2>1, <3>3, <3>4
    <3> QED BY <1>8, <3>3, <3>4, <3>5 DEF Recent
  <2>5. fuel' < MaxBody
    BY <1>2, <1>6, <2>1, SyncAssumption DEF SyncTypeOK
  <2>6. Marks'
    BY <1>2, <1>8, <2>1, <2>3, <2>4, <2>5 DEF Marks, InWait
  <2>7. Mark'
    BY <1>8, <2>3 DEF Mark
  <2>8. Verdict'
    BY <1>8, <1>9, <2>1, <2>4 DEF Verdict, NoWrongStop
  <2> QED BY <1>3, <2>6, <2>7, <2>8 DEF StopInv
<1>11. CASE EndWait
  <2>1. /\ spc = "wait" /\ spc' = "body" /\ word' = <<word[1], 0>> /\ chan' = chan
    BY <1>11 DEF EndWait
  <2>2. Marks'
    BY <1>1, <1>2, <1>6, <1>7, <1>8, <2>1 DEF Marks, InWait
  <2>3. Mark'
    BY <1>2, <1>8, <2>1 DEF Mark, Marks
  <2>4. Verdict'
    BY <1>2, <1>8, <1>9, <2>1 DEF Verdict, Marks, NoWrongStop
  <2> QED BY <1>3, <2>2, <2>3, <2>4 DEF StopInv
<1>12. CASE SeeUnfinished
  <2>1. /\ spc = "wait" /\ spc' = "poll" /\ word' = word /\ chan' = chan /\ Arrives
        /\ ~Done /\ awaited' = awaited /\ UNCHANGED <<cpc, ready, listed, moved, workVars>>
    BY <1>1, <1>12 DEF SeeUnfinished
  <2>2. Marks'
    BY <1>1, <1>2, <1>6, <1>7, <1>8, <2>1 DEF Marks, InWait
  <2>3. ~Done'
    BY <2>1 DEF Done
  <2>4. Mark'
    BY <1>1, <1>2, <1>4, <2>1, <2>3, MarkKept
  <2>5. Verdict'
    BY <1>2, <1>5, <1>8, <2>1, <2>3 DEF Verdict, Stuck, NoWrongStop
  <2> QED BY <1>3, <2>2, <2>4, <2>5 DEF StopInv
<1>13. CASE StopWait
  <2>1. /\ spc = "poll" /\ chan' = chan /\ Arrives /\ awaited' = awaited
        /\ UNCHANGED <<cpc, ready, listed, moved, workVars>>
        /\ IF word[2] = 2 THEN word' = <<word[1], 0>> /\ spc' = "post" /\ verdict' = "stopped"
                          ELSE word' = word /\ spc' = "wait" /\ verdict' = verdict
    BY <1>1, <1>13 DEF StopWait
  <2>2. Marks'
    BY <1>1, <1>2, <1>6, <1>7, <1>8, <2>1 DEF Marks, InWait
  <2>3. Done' <=> Done
    BY <2>1 DEF Done
  <2>4. Mark'
    <3>1. CASE word[2] = 2
      BY <1>2, <1>8, <2>1, <3>1 DEF Mark, Marks
    <3>2. CASE word[2] # 2
      BY <1>1, <1>2, <1>4, <2>1, <2>3, <3>2, MarkKept
    <3> QED BY <3>1, <3>2
  <2>5. Verdict'
    <3>1. CASE word[2] = 2
      <4>1. Quiet /\ ~Done
        BY <1>2, <2>1, <3>1 DEF Verdict, Stuck
      <4>2. NoWrongStop'
        BY <1>5, <2>1, <2>3, <3>1, <4>1 DEF NoWrongStop, Quiet
      <4> QED BY <1>2, <1>8, <1>9, <2>1, <3>1, <4>2 DEF Verdict, Marks
    <3>2. CASE word[2] # 2
      BY <1>2, <1>5, <1>8, <2>1, <2>3, <3>2 DEF Verdict, Stuck, NoWrongStop
    <3> QED BY <3>1, <3>2
  <2> QED BY <1>3, <2>2, <2>4, <2>5 DEF StopInv
<1>14. CASE \/ LookAtChannel \/ EnterIdle \/ IdleFutex \/ LeaveIdle
            \/ (\E o \in BodyOps : BodyCalls(o)) \/ (\E k \in Tasks : SpawnTask(k) \/ OpenGate(k))
            \/ (\E v \in Verdicts : FinishBody(v)) \/ PostResult \/ RingResult \/ DropResult
  <2>1. /\ spc \notin {"wait", "poll"} /\ spc' \notin {"wait", "poll"} /\ word' = word
        /\ spc' = "post" => verdict' \in Verdicts
    BY <1>14 DEF LookAtChannel, EnterIdle, IdleFutex, LeaveIdle, BodyCalls, SpawnTask, OpenGate,
       FinishBody, PostResult, RingResult, DropResult, InBody
  <2>2. ASSUME chan' = 1, spc \in {"body", "post"} PROVE chan = 1 /\ fuel' <= fuel
    <3>1. fuel' = fuel \/ fuel' = fuel - 1
      BY <1>14, <2>2 DEF LookAtChannel, EnterIdle, IdleFutex, LeaveIdle, BodyCalls, SpawnTask,
         OpenGate, FinishBody, PostResult, RingResult, DropResult, InBody
    <3>2. chan = 1
      BY <1>2, <2>2 DEF Channel
    <3> QED BY <1>6, <3>1, <3>2
  <2>3. ASSUME seen # None \/ look # None
        PROVE  /\ mpc # "out"
               /\ chan' \in {2, 3} \/ (chan' = chan /\ spc = "body" /\ spc' \in {"body", "post"})
    <3>1. mpc # "out" /\ (chan \in {2, 3} \/ spc \in {"body", "post"})
      BY <1>2, <2>1, <2>3 DEF Marks
    <3> QED BY <1>14, <3>1
             DEF LookAtChannel, EnterIdle, IdleFutex, LeaveIdle, BodyCalls, SpawnTask,
         OpenGate, FinishBody, PostResult, RingResult, DropResult, InBody
  <2>4. word[2] = 0
    BY <1>2, <2>1 DEF Marks, InWait
  <2>5. Marks'
    <3>1. CASE seen = None /\ look = None
      BY <1>2, <1>8, <2>1, <2>4, <3>1 DEF Marks, InWait
    <3>2. CASE seen # None \/ look # None
      <4>1. chan' = 1 => chan = 1 /\ fuel' <= fuel
        BY <2>2, <2>3, <3>2
      <4>2. /\ seen' # None => seen'[2] = 1 /\ (chan' = 1 => Recent(seen)')
            /\ look' # None => look'[1][2] = 1 /\ (chan' = 1 => Recent(look[1])')
        BY <1>7, <2>1, <4>1
      <4> QED BY <1>2, <1>8, <2>1, <2>3, <2>4, <3>2, <4>2 DEF Marks, InWait
    <3> QED BY <3>1, <3>2
  <2>6. Mark'
    BY <1>2, <1>8, <2>1, <2>4 DEF Mark, Marks
  <2>7. Verdict'
    BY <1>2, <1>8, <1>9, <2>1, <2>4 DEF Verdict, Marks, NoWrongStop, Verdicts
  <2> QED BY <1>3, <2>5, <2>6, <2>7 DEF StopInv
<1> QED BY <1>10, <1>11, <1>12, <1>13, <1>14 DEF SyncStep

\* A worker.  One that rests does not move, and one that is listed is not at work: it
\* can only go to sleep, or leave the list.
LEMMA WorkStop ==
  ASSUME SyncInv, StopInv, SyncInv', NEW w \in Others, WorkStep(w)
  PROVE  StopInv'
<1>1. UNCHANGED <<chanVars, mainVars, syncThread>> /\ Arrives /\ ~Resting(w)
  BY RestsStill
     DEF StopInv, WorkStep, EnterWork, WorkFutex, LeaveWork, WorkCalls, TaskSpawns, TaskOpens,
     WaitForGate, FinishTask, WorkerKeeps
<1>2. /\ SyncTypeOK /\ TypeOK /\ Stack /\ Working /\ Marks /\ Mark /\ Verdict /\ NoWrongStop
      /\ w \in Slots /\ Thread[w] = w /\ cpc[w] = "idle"
  BY ThreadFacts DEF SyncInv, StopInv, Verdict, SyncTypeOK, WorkStep, EnterWork, WorkFutex,
     LeaveWork, WorkCalls, TaskSpawns, TaskOpens, WaitForGate, FinishTask, WorkerFree
<1>3. SameMark' <=> SameMark
  BY <1>1 DEF SameMark
<1>4. Marks'
  BY <1>1, <1>2, <1>3 DEF Marks, Recent, InWait
<1>5. Verdict'
  <2>1. /\ ~(mpc \in {"list", "swap"} /\ SameMark /\ look[3] /\ word = look[1])
        /\ word[2] # 2 /\ ~(spc = "post" /\ verdict = "stopped")
    BY <1>1, <1>2 DEF Verdict, Stuck, NoWrongStop, Quiet
  <2> QED BY <1>1, <1>3, <2>1 DEF Verdict, NoWrongStop
<1>6. CASE EnterWork(w) \/ LeaveWork(w)
  <2>1. /\ moved' = TRUE /\ UNCHANGED <<cpc, gate>>
        /\ w \in listed' => EnterWork(w)
        /\ \A s \in listed' : s # w => s \in listed
    BY <1>6 DEF EnterWork, LeaveWork, HostKeeps, Enlist
  <2>2. /\ EnterWork(w) => wpc'[w] = "futex" /\ UNCHANGED <<doing, task>>
        /\ wpc'[w] # "asleep"
        /\ \A t \in Others : t # w => wpc'[t] = wpc[t] /\ doing'[t] = doing[t]
        /\ \A k \in Tasks : task'[k] = "queued" => task[k] = "queued"
    BY <1>2, <1>6 DEF SyncTypeOK, EnterWork, LeaveWork, WorkerAt
  <2>3. Stack'
    BY <1>2, <2>1 DEF Stack
  <2>4. Working'
    <3>1. ASSUME NEW t \in Others
          PROVE  /\ cpc'[t] # "idle" => wpc'[t] = "work"
                 /\ wpc'[t] = "asleep" => ~MayGoOn(t)'
      BY <1>2, <2>1, <2>2 DEF Working, MayGoOn
    <3>2. ASSUME NEW s \in listed', Thread[s] \in Others
          PROVE  \/ cpc'[s] \in {"futex", "sleep", "nested", "leave"}
                 \/ s \in Others /\ cpc'[s] = "idle" /\ wpc'[s] \in {"futex", "asleep", "leave"}
      <4>1. CASE s = w
        BY <1>2, <2>1, <2>2, <3>2, <4>1
      <4>2. CASE s # w
        BY <1>2, <2>1, <2>2, <3>2, <4>2 DEF Working
      <4> QED BY <4>1, <4>2
    <3> QED BY <3>1, <3>2 DEF Working
  <2>5. Mark'
    BY <2>1 DEF Mark
  <2> QED BY <1>4, <1>5, <2>3, <2>4, <2>5 DEF StopInv
<1>7. CASE WorkFutex(w)
  <2>1. /\ UNCHANGED <<slotVars, doing, task, gate>> /\ wpc[w] = "futex"
        /\ wpc'[w] = IF MayGoOn(w) THEN "leave" ELSE "asleep"
        /\ \A t \in Others : t # w => wpc'[t] = wpc[t]
    BY <1>2, <1>7 DEF SyncTypeOK, WorkFutex, WorkerAt, WorkerFree
  <2>2. Stack'
    BY <1>2, <2>1 DEF Stack
  <2>3. Working'
    BY <1>2, <2>1 DEF Working, MayGoOn
  <2>4. ASSUME NEW t \in Others, Resting(t) PROVE Resting(t)'
    BY <1>1, <2>1, <2>4 DEF Resting, Unanswered, MayGoOn
  <2>5. (S0 \notin lagging' /\ spc' = "poll" => S0 \notin lagging) /\ (Done' <=> Done)
    BY <1>1, <2>1 DEF Arrives, OnItsWay, Done
  <2>6. Mark'
    BY <1>1, <1>2, <2>1, <2>2, <2>3, <2>4, <2>5, MarkKept
  <2> QED BY <1>4, <1>5, <2>2, <2>3, <2>6 DEF StopInv
<1>8. CASE \/ \E o \in TaskOps : WorkCalls(w, o)
           \/ \E k \in Tasks : TaskSpawns(w, k) \/ TaskOpens(w, k)
           \/ WaitForGate(w) \/ FinishTask(w)
  <2>1. wpc[w] = "work"
    BY <1>8 DEF WorkCalls, TaskSpawns, TaskOpens, WaitForGate, FinishTask, WorkerFree
  <2>2. ~Listed(w)
    <3> SUFFICES ASSUME NEW s \in listed, Thread[s] = w PROVE FALSE
      BY DEF Listed
    <3>1. s \in Slots
      BY <1>2 DEF TypeOK
    <3>2. s # w
      BY <1>2, <2>1 DEF Working
    <3>3. cpc[s] # "idle"
      BY <1>2, <3>2, ThreadFacts DEF Working
    <3>4. cpc[w] = "nested"
      BY <1>2, <3>1, <3>2, <3>3, Deeper DEF Stack
    <3> QED BY <1>2, <3>4
  <2>3. Stack' /\ Working' /\ UNCHANGED <<listed, moved>>
    <3>1. ASSUME NEW o \in TaskOps, WorkCalls(w, o)
          PROVE  Stack' /\ Working' /\ UNCHANGED <<listed, moved>>
      BY <1>2, <2>1, <3>1, CallOthers DEF WorkCalls
    <3>2. ASSUME NEW k \in Tasks, TaskSpawns(w, k) \/ TaskOpens(w, k)
          PROVE  Stack' /\ Working' /\ UNCHANGED <<listed, moved>>
      <4>1. UNCHANGED <<slotVars, doing>> /\ (Spawn(k) \/ Open(k))
        BY <3>2 DEF TaskSpawns, TaskOpens
      <4> QED BY <1>2, <4>1, Roused DEF Stack
    <3>3. CASE WaitForGate(w) \/ FinishTask(w)
      <4>1. /\ UNCHANGED <<slotVars, gate>> /\ wpc'[w] = "enter"
            /\ \A t \in Others : t # w => wpc'[t] = wpc[t] /\ doing'[t] = doing[t]
            /\ \A k \in Tasks : task'[k] = "queued" => task[k] = "queued"
        BY <1>2, <3>3 DEF SyncTypeOK, WaitForGate, FinishTask, WorkerAt
      <4>2. Stack'
        BY <1>2, <4>1 DEF Stack
      <4>3. w \notin listed
        BY <1>2, <2>2 DEF Listed
      <4>4. Working'
        BY <1>2, <4>1, <4>3 DEF Working, MayGoOn
      <4> QED BY <4>1, <4>2, <4>4
    <3> QED BY <1>8, <3>1, <3>2, <3>3
  <2>4. Mark'
    BY <1>1, <1>2, <2>2, <2>3 DEF Mark, Listed
  <2> QED BY <1>4, <1>5, <2>3, <2>4 DEF StopInv
<1> QED BY <1>6, <1>7, <1>8 DEF WorkStep

\* A step of a host call, of a worker or of another thread.
LEMMA HostStop ==
  ASSUME SyncInv, StopInv, SyncInv', NEW s \in Slots,
         InHostCall(s) \/ \E o \in BodyOps \cup TaskOps : CallsNested(s, o)
  PROVE  StopInv'
<1>1. UNCHANGED <<chanVars, mainVars, syncThread, workVars>> /\ Arrives
  BY DEF InHostCall, CallsNested, Alongside
<1>2. /\ SyncTypeOK /\ TypeOK /\ Stack /\ Working /\ Marks /\ Mark /\ Verdict /\ NoWrongStop
  BY DEF SyncInv, StopInv, Verdict, SyncTypeOK
<1>3. SameMark' <=> SameMark
  BY <1>1 DEF SameMark
<1>4. Marks'
  BY <1>1, <1>2, <1>3 DEF Marks, Recent, InWait
<1>5. /\ Stack' /\ Working'
      /\ moved => moved'
      /\ moved' \/ listed' = listed
      /\ \A t \in Others : Resting(t) => Resting(t)'
  <2>1. CASE ThreadStep(s)
    BY <1>1, <1>2, <2>1, HostOthers
  <2>2. ASSUME NEW o \in BodyOps \cup TaskOps, CallsNested(s, o)
        PROVE  /\ Stack' /\ Working' /\ UNCHANGED <<listed, moved>>
               /\ \A t \in Others : Resting(t) => Resting(t)'
    <3>1. Call(s, o) /\ s \notin Others
      BY <2>2, ThreadFacts DEF CallsNested
    <3> QED BY <1>1, <1>2, <3>1, CallOthers
  <2> QED BY <2>1, <2>2 DEF InHostCall
<1>6. (S0 \notin lagging' /\ spc' = "poll" => S0 \notin lagging) /\ (Done' <=> Done)
  BY <1>1 DEF Arrives, OnItsWay, Done
<1>7. Mark'
  BY <1>1, <1>2, <1>5, <1>6, MarkKept
<1>8. Verdict'
  BY <1>1, <1>2, <1>3, <1>5, <1>6 DEF Verdict, Stuck, NoWrongStop, Quiet
<1> QED BY <1>4, <1>5, <1>7, <1>8 DEF StopInv

\* The event loop is free only when no callback is under way, and then there is no
\* mark and no wait.
LEMMA LoopStop ==
  ASSUME SyncInv, StopInv, SyncInv',
         \/ \E k \in Callbacks : EnterCallback(k)
         \/ \E s \in Slots : LoopTakes(s) \/ LoopServes(s)
  PROVE  StopInv'
<1>1. /\ mpc = "out" /\ mpc' \in {"out", "bell"}
      /\ UNCHANGED <<chan, word, look, seen, lagging, syncThread, workVars, listed, moved>>
  BY DEF EnterCallback, LoopTakes, LoopServes, Alongside, TakeLoop, RunServer, RegisterSlot,
     Resume, AfterLoad, Settle, LoadSequence, Arm, ServeCopy, ServeRequest, RunAsync, RunNow,
     WriteReply, SetReady, WakeCaller
<1>2. SyncTypeOK /\ TypeOK /\ Stack /\ Working /\ Marks
  BY DEF SyncInv, StopInv, SyncTypeOK
<1>3. seen = None /\ look = None /\ word[2] = 0 /\ ~InWait /\ spc # "post"
  BY <1>1, <1>2, WaitIsPosted DEF Marks
<1>4. Stack' /\ Working'
  <2>1. ASSUME NEW s \in Slots, WakeCaller(s), cpc[s] = "sleep" PROVE Stack' /\ Working'
    <3>1. cpc' = [cpc EXCEPT ![s] = "leave"]
      BY <1>2, <2>1 DEF WakeCaller, TypeOK
    <3> QED BY <1>1, <1>2, <2>1, <3>1, SlotGoes
  <2>2. CASE ~ \E s \in Slots : WakeCaller(s) /\ cpc[s] = "sleep"
    <3>1. cpc' = cpc
      <4>1. ASSUME NEW s \in Slots, WakeCaller(s) PROVE cpc' = cpc
        BY <1>2, <2>2, <4>1 DEF WakeCaller, TypeOK
      <4>2. CASE ~ \E s \in Slots : WakeCaller(s)
        BY <4>2 DEF EnterCallback, LoopTakes, LoopServes, TakeLoop, RunServer, RegisterSlot,
           Resume, AfterLoad, Settle, LoadSequence, Arm, ServeCopy, ServeRequest, RunAsync,
           RunNow, WriteReply, SetReady
      <4> QED BY <4>1, <4>2
    <3> QED BY <1>1, <1>2, <3>1 DEF Stack, Working, MayGoOn
  <2> QED BY <2>1, <2>2
<1>5. Marks'
  BY <1>1, <1>2, <1>3 DEF Marks, InWait
<1>6. Mark' /\ Verdict'
  BY <1>1, <1>3 DEF Mark, Verdict, NoWrongStop
<1> QED BY <1>4, <1>5, <1>6 DEF StopInv

\* At the start the workers sleep, listed, and nothing is marked.
LEMMA StopInitInv == SyncInit => StopInv
<1> SUFFICES ASSUME SyncInit PROVE StopInv
  OBVIOUS
<1>1. \A s \in Slots : cpc[s] = "idle"
  BY DEF SyncInit, All
<1>2. \A t \in Others : t \in Slots /\ wpc[t] = "asleep" /\ ~MayGoOn(t)
  BY ThreadFacts DEF SyncInit, MayGoOn
<1>3. Stack
  BY <1>1, <1>2 DEF Stack
<1>4. Working
  BY <1>1, <1>2 DEF SyncInit, Working
<1>5. Marks /\ Mark /\ Verdict
  BY DEF SyncInit, Marks, Mark, Verdict, InWait, NoWrongStop
<1> QED BY <1>3, <1>4, <1>5 DEF StopInv

\* Every step keeps the invariant of the stopped waits.
LEMMA StopStep == SyncInv /\ StopInv /\ SyncInv' /\ [SyncNext]_syncVars => StopInv'
<1> SUFFICES ASSUME SyncInv, StopInv, SyncInv', [SyncNext]_syncVars PROVE StopInv'
  OBVIOUS
<1>1. CASE UNCHANGED syncVars
  <2>1. UNCHANGED <<cpc, ready, listed, moved, chanVars, mainVars, lagging, syncThread, workVars>>
    BY <1>1 DEF syncVars
  <2>2. Stack' /\ Working' /\ Marks' /\ (Done' <=> Done)
        /\ (\A t \in Others : (Resting(t)' <=> Resting(t)) /\ (Listed(t)' <=> Listed(t)))
    BY <2>1 DEF StopInv, Stack, Working, Marks, Resting, Unanswered, Listed, Done, InWait, Recent,
       MayGoOn, SameMark
  <2>3. Mark' /\ Verdict'
    BY <2>1, <2>2 DEF StopInv, Mark, Verdict, Stuck, Quiet, NoWrongStop, SameMark
  <2> QED BY <2>2, <2>3 DEF StopInv
<1> QED BY <1>1, MainStop, ThreadStop, WorkStop, HostStop, LoopStop DEF SyncNext

\* A wait of a callback is stopped only if nothing can end it: no task it waits for
\* is finished and every other thread, of however many, rests on what only the event
\* loop, the callback or another such thread could give it.
THEOREM StoppedOnlyIfStuck == SyncSpec => []NoWrongStop
<1>1. SyncInit => SyncInv /\ StopInv
  BY SyncInitInv, StopInitInv
<1>2. SyncInv /\ StopInv /\ [SyncNext]_syncVars => (SyncInv /\ StopInv)'
  BY SyncStepInv, StopStep
<1>3. SyncInv /\ StopInv => NoWrongStop
  BY DEF StopInv, Verdict
<1> QED BY <1>1, <1>2, <1>3, PTL DEF SyncSpec
=============================================================================
