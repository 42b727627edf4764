--------------------------- MODULE HostSlotProofs ---------------------------
(***************************************************************************)
(* Theorems about HostSlot, for every set of slots, operations and sizes:  *)
(* its inductive invariant, and that it implements HostCall.               *)
(*                                                                         *)
(* The invariant is TypeOK /\ SlotInv.  Control relates where a thread     *)
(* stands to where its server stands; it is what makes the two futex waits *)
(* safe.  Carried says what the slot holds at each point of the handshake; *)
(* it needs Control, to know that no request is in the server's hands      *)
(* while the thread writes the slot, and TypeOK needs Carried, to know     *)
(* that a copy request finds a reply.  There is one lemma per action.      *)
(***************************************************************************)
EXTENDS HostSlot, TLAPS

\* A sequence number and its successor differ, at the wrap-around too.
LEMMA NextSequence ==
  ASSUME NEW n \in 0..(SeqModulus - 1)
  PROVE  (n + 1) % SeqModulus \in 0..(SeqModulus - 1) /\ (n + 1) % SeqModulus # n
<1>1. CASE n + 1 < SeqModulus
  BY <1>1, BoundsAssumption
<1>2. CASE n + 1 = SeqModulus
  BY <1>2, BoundsAssumption
<1> QED BY <1>1, <1>2, BoundsAssumption

USE DEF clientVars, wordVars, waitVars, hostVars, ghostVars, GoTo, ServerAt

\* The invariant holds initially.
LEMMA InitInv ==
  Init => TypeOK /\ SlotInv
<1> SUFFICES ASSUME Init PROVE TypeOK /\ SlotInv
  OBVIOUS
<1>1. TypeOK
  <2>1. /\ "failure" \in Statuses
        /\ 0 \in 0..(SeqModulus - 1)
        /\ ReplyBytes \in Nat
    BY OperationsAssumption, SizesAssumption, BoundsAssumption DEF Statuses
  <2> QED BY <2>1 DEF Init, All, TypeOK, ClientPCs, ServerPCs
<1>2. SlotInv
  BY SlotsAssumption, BoundsAssumption
     DEF Init, All, SlotInv, Control, Carried, Answered, Fresh, Replied, Posted, Taken, OnMain
<1> QED BY <1>1, <1>2

\* Call preserves the invariant: a nested call needs the parent asleep, so no
\* other slot loses its parent.
LEMMA CallInv ==
  ASSUME TypeOK, SlotInv, NEW s \in Slots, NEW o \in Operations, Call(s, o)
  PROVE  TypeOK' /\ SlotInv'
<1>1. TypeOK'
  BY DEF TypeOK, Call, waitVars, ghostVars, ClientPCs, ServerPCs
<1>2. ASSUME NEW t \in Slots PROVE Control(t)'
  <2>1. cpc'[t] # "idle" /\ Parent[t] # None => cpc'[Parent[t]] = "nested"
    <3> SUFFICES ASSUME cpc'[t] # "idle", Parent[t] # None PROVE cpc'[Parent[t]] = "nested"
      OBVIOUS
    <3>1. Parent[t] \in Slots /\ Parent[t] # t
      BY SlotsAssumption
    <3>2. CASE t = s
      BY <3>1, <3>2 DEF Call
    <3>3. CASE t # s
      <4>1. cpc[t] # "idle"
        BY <3>3, SlotsAssumption DEF Call
      <4>2. cpc[Parent[t]] = "nested"
        BY <4>1 DEF SlotInv, Control
      <4> QED BY <3>1, <4>2 DEF Call
    <3> QED BY <3>2, <3>3
  <2>2. CASE t = s
    BY SMTT(20), <2>1, <2>2, SlotsAssumption
       DEF TypeOK, SlotInv, Control, Fresh, Replied, Posted, Taken, OnMain, Call, ClientPCs, ServerPCs
  <2>3. CASE t # s
    BY <2>1, <2>3, SlotsAssumption DEF TypeOK, SlotInv, Control, Fresh, Replied, Posted, Taken, OnMain, Call, ClientPCs, ServerPCs
  <2> QED BY <2>2, <2>3
<1>3. ASSUME NEW t \in Slots PROVE Carried(t)'
  BY SlotsAssumption, OperationsAssumption DEF TypeOK, SlotInv, Control, Carried, Answered, Fresh, Replied, Posted, Taken, Call, ghostVars, ClientPCs, ServerPCs
<1> QED BY <1>1, <1>2, <1>3 DEF SlotInv, Call
\* ClearReady preserves the invariant.
LEMMA ClearReadyInv ==
  ASSUME TypeOK, SlotInv, NEW s \in Slots, ClearReady(s)
  PROVE  TypeOK' /\ SlotInv'
<1>1. TypeOK'
  BY SlotsAssumption, OperationsAssumption, SizesAssumption, BoundsAssumption
     DEF TypeOK, SlotInv, Control, Carried, ClearReady, ClientPCs, ServerPCs, Statuses, Replies
<1>2. ASSUME NEW t \in Slots PROVE Control(t)'
  BY SlotsAssumption
     DEF TypeOK, SlotInv, Control, Fresh, Replied, Posted, Taken, OnMain, ClearReady, ClientPCs, ServerPCs
<1>3. ASSUME NEW t \in Slots PROVE Carried(t)'
  BY SlotsAssumption, OperationsAssumption, SizesAssumption
     DEF TypeOK, SlotInv, Control, Carried, Answered, Fresh, Replied, Posted, Taken, ClearReady,
         ClientPCs, ServerPCs
<1> QED BY <1>1, <1>2, <1>3 DEF SlotInv, ClearReady

\* BumpSequence preserves the invariant.
LEMMA BumpSequenceInv ==
  ASSUME TypeOK, SlotInv, NEW s \in Slots, BumpSequence(s)
  PROVE  TypeOK' /\ SlotInv'
<1>1. TypeOK'
  BY SlotsAssumption, OperationsAssumption, SizesAssumption, BoundsAssumption, NextSequence
     DEF TypeOK, SlotInv, Control, Carried, BumpSequence, ClientPCs, ServerPCs, Statuses, Replies
<1>2. ASSUME NEW t \in Slots PROVE Control(t)'
  BY SlotsAssumption, NextSequence
     DEF TypeOK, SlotInv, Control, Fresh, Replied, Posted, Taken, OnMain, BumpSequence, ClientPCs, ServerPCs
<1>3. ASSUME NEW t \in Slots PROVE Carried(t)'
  BY SlotsAssumption, OperationsAssumption, SizesAssumption, NextSequence
     DEF TypeOK, SlotInv, Control, Carried, Answered, Fresh, Replied, Posted, Taken, BumpSequence,
         ClientPCs, ServerPCs
<1> QED BY <1>1, <1>2, <1>3 DEF SlotInv, BumpSequence

\* NotifySequence preserves the invariant.
LEMMA NotifySequenceInv ==
  ASSUME TypeOK, SlotInv, NEW s \in Slots, NotifySequence(s)
  PROVE  TypeOK' /\ SlotInv'
<1>1. TypeOK'
  BY SlotsAssumption, OperationsAssumption, SizesAssumption, BoundsAssumption
     DEF TypeOK, SlotInv, Control, Carried, NotifySequence, ClientPCs, ServerPCs, Statuses, Replies
<1>2. ASSUME NEW t \in Slots PROVE Control(t)'
  BY SlotsAssumption
     DEF TypeOK, SlotInv, Control, Fresh, Replied, Posted, Taken, OnMain, NotifySequence, ClientPCs, ServerPCs
<1>3. ASSUME NEW t \in Slots PROVE Carried(t)'
  BY SlotsAssumption, OperationsAssumption, SizesAssumption
     DEF TypeOK, SlotInv, Control, Carried, Answered, Fresh, Replied, Posted, Taken, NotifySequence,
         ClientPCs, ServerPCs
<1> QED BY <1>1, <1>2, <1>3 DEF SlotInv, NotifySequence

\* RingDoorbell preserves the invariant.
LEMMA RingDoorbellInv ==
  ASSUME TypeOK, SlotInv, NEW s \in Slots, RingDoorbell(s)
  PROVE  TypeOK' /\ SlotInv'
<1>1. TypeOK'
  BY SlotsAssumption, OperationsAssumption, SizesAssumption, BoundsAssumption
     DEF TypeOK, SlotInv, Control, Carried, RingDoorbell, ClientPCs, ServerPCs, Statuses, Replies
<1>2. ASSUME NEW t \in Slots PROVE Control(t)'
  BY SlotsAssumption
     DEF TypeOK, SlotInv, Control, Fresh, Replied, Posted, Taken, OnMain, RingDoorbell, ClientPCs, ServerPCs
<1>3. ASSUME NEW t \in Slots PROVE Carried(t)'
  BY SlotsAssumption, OperationsAssumption, SizesAssumption
     DEF TypeOK, SlotInv, Control, Carried, Answered, Fresh, Replied, Posted, Taken, RingDoorbell,
         ClientPCs, ServerPCs
<1> QED BY <1>1, <1>2, <1>3 DEF SlotInv, RingDoorbell

\* SeePending preserves the invariant.
LEMMA SeePendingInv ==
  ASSUME TypeOK, SlotInv, NEW s \in Slots, SeePending(s)
  PROVE  TypeOK' /\ SlotInv'
<1>1. TypeOK'
  BY SlotsAssumption, OperationsAssumption, SizesAssumption, BoundsAssumption
     DEF TypeOK, SlotInv, Control, Carried, SeePending, ClientPCs, ServerPCs, Statuses, Replies
<1>2. ASSUME NEW t \in Slots PROVE Control(t)'
  BY SlotsAssumption
     DEF TypeOK, SlotInv, Control, Fresh, Replied, Posted, Taken, OnMain, SeePending, ClientPCs, ServerPCs
<1>3. ASSUME NEW t \in Slots PROVE Carried(t)'
  BY SlotsAssumption, OperationsAssumption, SizesAssumption
     DEF TypeOK, SlotInv, Control, Carried, Answered, Fresh, Replied, Posted, Taken, SeePending,
         ClientPCs, ServerPCs
<1> QED BY <1>1, <1>2, <1>3 DEF SlotInv, SeePending

\* EnterWaits preserves the invariant.
LEMMA EnterWaitsInv ==
  ASSUME TypeOK, SlotInv, NEW s \in Slots, EnterWaits(s)
  PROVE  TypeOK' /\ SlotInv'
<1>1. TypeOK'
  BY SlotsAssumption, OperationsAssumption, SizesAssumption, BoundsAssumption
     DEF TypeOK, SlotInv, Control, Carried, EnterWaits, ClientPCs, ServerPCs, Statuses, Replies
<1>2. ASSUME NEW t \in Slots PROVE Control(t)'
  BY SlotsAssumption
     DEF TypeOK, SlotInv, Control, Fresh, Replied, Posted, Taken, OnMain, EnterWaits, ClientPCs, ServerPCs
<1>3. ASSUME NEW t \in Slots PROVE Carried(t)'
  BY SlotsAssumption, OperationsAssumption, SizesAssumption
     DEF TypeOK, SlotInv, Control, Carried, Answered, Fresh, Replied, Posted, Taken, EnterWaits,
         ClientPCs, ServerPCs
<1> QED BY <1>1, <1>2, <1>3 DEF SlotInv, EnterWaits

\* FutexWait preserves the invariant.
LEMMA FutexWaitInv ==
  ASSUME TypeOK, SlotInv, NEW s \in Slots, FutexWait(s)
  PROVE  TypeOK' /\ SlotInv'
<1>1. TypeOK'
  BY SlotsAssumption, OperationsAssumption, SizesAssumption, BoundsAssumption
     DEF TypeOK, SlotInv, Control, Carried, FutexWait, ClientPCs, ServerPCs, Statuses, Replies
<1>2. ASSUME NEW t \in Slots PROVE Control(t)'
  BY SlotsAssumption
     DEF TypeOK, SlotInv, Control, Fresh, Replied, Posted, Taken, OnMain, FutexWait, ClientPCs, ServerPCs
<1>3. ASSUME NEW t \in Slots PROVE Carried(t)'
  BY SlotsAssumption, OperationsAssumption, SizesAssumption
     DEF TypeOK, SlotInv, Control, Carried, Answered, Fresh, Replied, Posted, Taken, FutexWait,
         ClientPCs, ServerPCs
<1> QED BY <1>1, <1>2, <1>3 DEF SlotInv, FutexWait

\* LeaveWaits preserves the invariant.
LEMMA LeaveWaitsInv ==
  ASSUME TypeOK, SlotInv, NEW s \in Slots, LeaveWaits(s)
  PROVE  TypeOK' /\ SlotInv'
<1>1. TypeOK'
  BY SlotsAssumption, OperationsAssumption, SizesAssumption, BoundsAssumption
     DEF TypeOK, SlotInv, Control, Carried, LeaveWaits, ClientPCs, ServerPCs, Statuses, Replies
<1>2. ASSUME NEW t \in Slots PROVE Control(t)'
  BY SlotsAssumption
     DEF TypeOK, SlotInv, Control, Fresh, Replied, Posted, Taken, OnMain, LeaveWaits, ClientPCs, ServerPCs
<1>3. ASSUME NEW t \in Slots PROVE Carried(t)'
  BY SlotsAssumption, OperationsAssumption, SizesAssumption
     DEF TypeOK, SlotInv, Control, Carried, Answered, Fresh, Replied, Posted, Taken, LeaveWaits,
         ClientPCs, ServerPCs
<1> QED BY <1>1, <1>2, <1>3 DEF SlotInv, LeaveWaits

\* AskForCopy preserves the invariant.
LEMMA AskForCopyInv ==
  ASSUME TypeOK, SlotInv, NEW s \in Slots, AskForCopy(s)
  PROVE  TypeOK' /\ SlotInv'
<1>1. TypeOK'
  BY SlotsAssumption, OperationsAssumption, SizesAssumption, BoundsAssumption
     DEF TypeOK, SlotInv, Control, Carried, AskForCopy, ClientPCs, ServerPCs, Statuses, Replies
<1>2. ASSUME NEW t \in Slots PROVE Control(t)'
  BY SlotsAssumption
     DEF TypeOK, SlotInv, Control, Fresh, Replied, Posted, Taken, OnMain, AskForCopy, ClientPCs, ServerPCs
<1>3. ASSUME NEW t \in Slots PROVE Carried(t)'
  BY SlotsAssumption, OperationsAssumption, SizesAssumption
     DEF TypeOK, SlotInv, Control, Carried, Answered, Fresh, Replied, Posted, Taken, AskForCopy,
         ClientPCs, ServerPCs
<1> QED BY <1>1, <1>2, <1>3 DEF SlotInv, AskForCopy

\* Return preserves the invariant.
LEMMA ReturnInv ==
  ASSUME TypeOK, SlotInv, NEW s \in Slots, Return(s)
  PROVE  TypeOK' /\ SlotInv'
<1>1. TypeOK'
  BY SlotsAssumption, OperationsAssumption, SizesAssumption, BoundsAssumption
     DEF TypeOK, SlotInv, Control, Carried, Return, ClientPCs, ServerPCs, Statuses, Replies
<1>2. ASSUME NEW t \in Slots PROVE Control(t)'
  <2>1. cpc'[t] # "idle" /\ Parent[t] # None => cpc'[Parent[t]] = "nested"
    <3> SUFFICES ASSUME cpc'[t] # "idle", Parent[t] # None PROVE cpc'[Parent[t]] = "nested"
      OBVIOUS
    <3>1. t # s /\ Parent[t] \in Slots /\ Parent[t] # t
      BY SlotsAssumption DEF Return
    <3>2. cpc[t] # "idle"
      BY <3>1, SlotsAssumption DEF SlotInv, Control, Return
    <3>3. cpc[Parent[t]] = "nested" /\ cpc[s] = "check"
      BY <3>2 DEF SlotInv, Control, Return
    <3>4. Parent[t] # s /\ Parent[t] # Parent[s]
      BY <3>1, <3>3, SlotsAssumption
    <3> QED BY <3>1, <3>3, <3>4 DEF Return
  <2>2. CASE t = s
    BY <2>1, <2>2 DEF TypeOK, SlotInv, Control, Fresh, Replied, Posted, Taken, OnMain, Return
  <2>3. CASE t # s
    BY <2>1, <2>3, SlotsAssumption
       DEF TypeOK, SlotInv, Control, Fresh, Replied, Posted, Taken, OnMain, Return
  <2> QED BY <2>2, <2>3
<1>3. ASSUME NEW t \in Slots PROVE Carried(t)'
  BY SlotsAssumption, OperationsAssumption, SizesAssumption
     DEF TypeOK, SlotInv, Control, Carried, Answered, Fresh, Replied, Posted, Taken, Return,
         ClientPCs, ServerPCs
<1> QED BY <1>1, <1>2, <1>3 DEF SlotInv, Return

\* RegisterSlot preserves the invariant.
LEMMA RegisterSlotInv ==
  ASSUME TypeOK, SlotInv, NEW s \in Slots, RegisterSlot(s)
  PROVE  TypeOK' /\ SlotInv'
<1>1. TypeOK'
  BY SlotsAssumption, OperationsAssumption, SizesAssumption, BoundsAssumption
     DEF TypeOK, SlotInv, Control, Carried, RegisterSlot, ClientPCs, ServerPCs, Statuses, Replies
<1>2. ASSUME NEW t \in Slots PROVE Control(t)'
  BY SlotsAssumption
     DEF TypeOK, SlotInv, Control, Fresh, Replied, Posted, Taken, OnMain, RegisterSlot, ClientPCs, ServerPCs
<1>3. ASSUME NEW t \in Slots PROVE Carried(t)'
  <2>1. served' = served
    BY DEF TypeOK, SlotInv, Control, RegisterSlot
  <2>2. large' = large
    BY DEF TypeOK, SlotInv, Control, Carried, Fresh, Replied, Posted, Taken, RegisterSlot, ClientPCs
  <2> QED BY <2>1, <2>2
     DEF TypeOK, SlotInv, Control, Carried, Answered, Fresh, Replied, Posted, Taken, RegisterSlot,
         ServerPCs
<1> QED BY <1>1, <1>2, <1>3 DEF SlotInv, RegisterSlot

\* Resume preserves the invariant.
LEMMA ResumeInv ==
  ASSUME TypeOK, SlotInv, NEW s \in Slots, Resume(s)
  PROVE  TypeOK' /\ SlotInv'
<1>1. TypeOK'
  BY SlotsAssumption, OperationsAssumption, SizesAssumption, BoundsAssumption
     DEF TypeOK, SlotInv, Control, Carried, Resume, ClientPCs, ServerPCs, Statuses, Replies
<1>2. ASSUME NEW t \in Slots PROVE Control(t)'
  BY SlotsAssumption
     DEF TypeOK, SlotInv, Control, Fresh, Replied, Posted, Taken, OnMain, Resume, ClientPCs, ServerPCs
<1>3. ASSUME NEW t \in Slots PROVE Carried(t)'
  BY SlotsAssumption, OperationsAssumption, SizesAssumption
     DEF TypeOK, SlotInv, Control, Carried, Answered, Fresh, Replied, Posted, Taken, Resume,
         ClientPCs, ServerPCs
<1> QED BY <1>1, <1>2, <1>3 DEF SlotInv, Resume

\* LoadSequence preserves the invariant.
LEMMA LoadSequenceInv ==
  ASSUME TypeOK, SlotInv, NEW s \in Slots, LoadSequence(s)
  PROVE  TypeOK' /\ SlotInv'
<1>1. TypeOK'
  BY SlotsAssumption, OperationsAssumption, SizesAssumption, BoundsAssumption
     DEF TypeOK, SlotInv, Control, Carried, LoadSequence, ClientPCs, ServerPCs, Statuses, Replies
<1>2. ASSUME NEW t \in Slots PROVE Control(t)'
  BY SlotsAssumption
     DEF TypeOK, SlotInv, Control, Fresh, Replied, Posted, Taken, OnMain, LoadSequence, ClientPCs, ServerPCs
<1>3. ASSUME NEW t \in Slots PROVE Carried(t)'
  BY SlotsAssumption, OperationsAssumption, SizesAssumption
     DEF TypeOK, SlotInv, Control, Carried, Answered, Fresh, Replied, Posted, Taken, LoadSequence,
         ClientPCs, ServerPCs
<1> QED BY <1>1, <1>2, <1>3 DEF SlotInv, LoadSequence

\* Arm preserves the invariant.
LEMMA ArmInv ==
  ASSUME TypeOK, SlotInv, NEW s \in Slots, Arm(s)
  PROVE  TypeOK' /\ SlotInv'
<1>1. TypeOK'
  BY SMTT(20), SlotsAssumption, OperationsAssumption, SizesAssumption, BoundsAssumption
     DEF TypeOK, SlotInv, Control, Carried, Arm, ClientPCs, ServerPCs, Statuses, Replies
<1>2. ASSUME NEW t \in Slots PROVE Control(t)'
  BY SlotsAssumption
     DEF TypeOK, SlotInv, Control, Fresh, Replied, Posted, Taken, OnMain, Arm, ClientPCs, ServerPCs
<1>3. ASSUME NEW t \in Slots PROVE Carried(t)'
  BY SlotsAssumption, OperationsAssumption, SizesAssumption
     DEF TypeOK, SlotInv, Control, Carried, Answered, Fresh, Replied, Posted, Taken, Arm,
         ClientPCs, ServerPCs
<1> QED BY <1>1, <1>2, <1>3 DEF SlotInv, Arm

\* ServeCopy preserves the invariant.
LEMMA ServeCopyInv ==
  ASSUME TypeOK, SlotInv, NEW s \in Slots, ServeCopy(s)
  PROVE  TypeOK' /\ SlotInv'
<1>1. TypeOK'
  BY SlotsAssumption, OperationsAssumption, SizesAssumption, BoundsAssumption
     DEF TypeOK, SlotInv, Control, Carried, ServeCopy, ClientPCs, ServerPCs, Statuses, Replies
<1>2. ASSUME NEW t \in Slots PROVE Control(t)'
  BY SlotsAssumption
     DEF TypeOK, SlotInv, Control, Fresh, Replied, Posted, Taken, OnMain, ServeCopy, ClientPCs, ServerPCs
<1>3. ASSUME NEW t \in Slots PROVE Carried(t)'
  BY SlotsAssumption, OperationsAssumption, SizesAssumption
     DEF TypeOK, SlotInv, Control, Carried, Answered, Fresh, Replied, Posted, Taken, ServeCopy,
         ClientPCs, ServerPCs
<1> QED BY <1>1, <1>2, <1>3 DEF SlotInv, ServeCopy

\* ServeRequest preserves the invariant.
LEMMA ServeRequestInv ==
  ASSUME TypeOK, SlotInv, NEW s \in Slots, ServeRequest(s)
  PROVE  TypeOK' /\ SlotInv'
<1>1. TypeOK'
  <2>1. CASE host = "loaded"
    BY <2>1 DEF TypeOK, ServeRequest, ServerPCs
  <2>2. CASE host # "loaded"
    BY <2>2 DEF TypeOK, ServeRequest, ServerPCs
  <2> QED BY <2>1, <2>2
<1>2. ASSUME NEW t \in Slots PROVE Control(t)'
  BY SlotsAssumption
     DEF TypeOK, SlotInv, Control, Fresh, Replied, Posted, Taken, OnMain, ServeRequest, ClientPCs, ServerPCs
<1>3. ASSUME NEW t \in Slots PROVE Carried(t)'
  BY SlotsAssumption, OperationsAssumption, SizesAssumption
     DEF TypeOK, SlotInv, Control, Carried, Answered, Fresh, Replied, Posted, Taken, ServeRequest,
         ClientPCs, ServerPCs
<1> QED BY <1>1, <1>2, <1>3 DEF SlotInv, ServeRequest

\* HostSettles preserves the invariant.
LEMMA HostSettlesInv ==
  ASSUME TypeOK, SlotInv, HostSettles
  PROVE  TypeOK' /\ SlotInv'
<1>1. TypeOK'
  BY SlotsAssumption, OperationsAssumption, SizesAssumption, BoundsAssumption
     DEF TypeOK, SlotInv, Control, Carried, HostSettles, ClientPCs, ServerPCs, Statuses, Replies
<1>2. ASSUME NEW t \in Slots PROVE Control(t)'
  BY SlotsAssumption
     DEF TypeOK, SlotInv, Control, Fresh, Replied, Posted, Taken, OnMain, HostSettles, ClientPCs, ServerPCs
<1>3. ASSUME NEW t \in Slots PROVE Carried(t)'
  BY SlotsAssumption, OperationsAssumption, SizesAssumption
     DEF TypeOK, SlotInv, Control, Carried, Answered, Fresh, Replied, Posted, Taken, HostSettles,
         ClientPCs, ServerPCs
<1> QED BY <1>1, <1>2, <1>3 DEF SlotInv, HostSettles

\* AfterLoad preserves the invariant.
LEMMA AfterLoadInv ==
  ASSUME TypeOK, SlotInv, NEW s \in Slots, AfterLoad(s)
  PROVE  TypeOK' /\ SlotInv'
<1>1. TypeOK'
  <2>1. <<op[s], "failure">> \in Replies
    <3>1. srv[s] \in Taken
      BY DEF AfterLoad, Taken
    <3>2. cpc[s] # "idle" /\ kind[s] = "request"
      BY <3>1 DEF TypeOK, SlotInv, Control, Carried, Posted, AfterLoad
    <3>3. op[s] = want[s] /\ want[s] # None
      BY <3>2 DEF SlotInv, Carried
    <3> QED BY <3>3, OperationsAssumption DEF TypeOK, Replies
  <2>2. /\ job' \in [Slots -> Replies \cup {None}] /\ out' \in [Slots -> Outcomes \cup {None}]
        /\ srv' \in [Slots -> ServerPCs] /\ main' \in Slots \cup {None}
    BY <2>1, OperationsAssumption DEF TypeOK, AfterLoad, ServerPCs
  <2> QED BY <2>2 DEF TypeOK, AfterLoad
<1>2. ASSUME NEW t \in Slots PROVE Control(t)'
  BY SlotsAssumption
     DEF TypeOK, SlotInv, Control, Fresh, Replied, Posted, Taken, OnMain, AfterLoad, ClientPCs, ServerPCs
<1>3. ASSUME NEW t \in Slots PROVE Carried(t)'
  BY SlotsAssumption, OperationsAssumption, SizesAssumption
     DEF TypeOK, SlotInv, Control, Carried, Answered, Fresh, Replied, Posted, Taken, AfterLoad,
         ClientPCs, ServerPCs
<1> QED BY <1>1, <1>2, <1>3 DEF SlotInv, AfterLoad

\* RunNow preserves the invariant.
LEMMA RunNowInv ==
  ASSUME TypeOK, SlotInv, NEW s \in Slots, NEW r \in Outcomes, RunNow(s, r)
  PROVE  TypeOK' /\ SlotInv'
<1>1. TypeOK'
  <2>1. <<op[s], r>> \in Replies
    <3>1. srv[s] \in Taken
      BY DEF RunNow, Taken
    <3>2. cpc[s] # "idle" /\ kind[s] = "request"
      BY <3>1 DEF TypeOK, SlotInv, Control, Carried, Posted, RunNow
    <3>3. op[s] = want[s] /\ want[s] # None
      BY <3>2 DEF SlotInv, Carried
    <3> QED BY <3>3, OperationsAssumption DEF TypeOK, Replies
  <2> QED BY <2>1, OperationsAssumption DEF TypeOK, RunNow, ServerPCs
<1>2. ASSUME NEW t \in Slots PROVE Control(t)'
  BY SlotsAssumption
     DEF TypeOK, SlotInv, Control, Fresh, Replied, Posted, Taken, OnMain, RunNow, ClientPCs, ServerPCs
<1>3. ASSUME NEW t \in Slots PROVE Carried(t)'
  BY SlotsAssumption, OperationsAssumption, SizesAssumption
     DEF TypeOK, SlotInv, Control, Carried, Answered, Fresh, Replied, Posted, Taken, RunNow,
         ClientPCs, ServerPCs
<1> QED BY <1>1, <1>2, <1>3 DEF SlotInv, RunNow

\* RunAsync preserves the invariant.
LEMMA RunAsyncInv ==
  ASSUME TypeOK, SlotInv, NEW s \in Slots, RunAsync(s)
  PROVE  TypeOK' /\ SlotInv'
<1>1. TypeOK'
  BY SlotsAssumption, OperationsAssumption, SizesAssumption, BoundsAssumption
     DEF TypeOK, SlotInv, Control, Carried, RunAsync, ClientPCs, ServerPCs, Statuses, Replies
<1>2. ASSUME NEW t \in Slots PROVE Control(t)'
  BY SlotsAssumption
     DEF TypeOK, SlotInv, Control, Fresh, Replied, Posted, Taken, OnMain, RunAsync, ClientPCs, ServerPCs
<1>3. ASSUME NEW t \in Slots PROVE Carried(t)'
  BY SlotsAssumption, OperationsAssumption, SizesAssumption
     DEF TypeOK, SlotInv, Control, Carried, Answered, Fresh, Replied, Posted, Taken, RunAsync,
         ClientPCs, ServerPCs
<1> QED BY <1>1, <1>2, <1>3 DEF SlotInv, RunAsync

\* Settle preserves the invariant.
LEMMA SettleInv ==
  ASSUME TypeOK, SlotInv, NEW s \in Slots, NEW r \in Outcomes, Settle(s, r)
  PROVE  TypeOK' /\ SlotInv'
<1>1. TypeOK'
  <2>1. <<op[s], r>> \in Replies
    <3>1. srv[s] \in Taken
      BY DEF Settle, Taken
    <3>2. cpc[s] # "idle" /\ kind[s] = "request"
      BY <3>1 DEF TypeOK, SlotInv, Control, Carried, Posted, Settle
    <3>3. op[s] = want[s] /\ want[s] # None
      BY <3>2 DEF SlotInv, Carried
    <3> QED BY <3>3, OperationsAssumption DEF TypeOK, Replies
  <2> QED BY <2>1, OperationsAssumption DEF TypeOK, Settle, ServerPCs
<1>2. ASSUME NEW t \in Slots PROVE Control(t)'
  BY SlotsAssumption
     DEF TypeOK, SlotInv, Control, Fresh, Replied, Posted, Taken, OnMain, Settle, ClientPCs, ServerPCs
<1>3. ASSUME NEW t \in Slots PROVE Carried(t)'
  BY SlotsAssumption, OperationsAssumption, SizesAssumption
     DEF TypeOK, SlotInv, Control, Carried, Answered, Fresh, Replied, Posted, Taken, Settle,
         ClientPCs, ServerPCs
<1> QED BY <1>1, <1>2, <1>3 DEF SlotInv, Settle

\* WriteReply preserves the invariant.
LEMMA WriteReplyInv ==
  ASSUME TypeOK, SlotInv, NEW s \in Slots, WriteReply(s)
  PROVE  TypeOK' /\ SlotInv'
<1>1. TypeOK'
  <2>1. job[s] \in Replies
    <3>1. cpc[s] # "idle"
      BY DEF SlotInv, Control, Posted, Taken, WriteReply
    <3>2. job[s] = <<want[s], out[s]>> /\ want[s] # None /\ out[s] # None
      BY <3>1 DEF SlotInv, Carried, WriteReply
    <3> QED BY <3>2 DEF TypeOK, Replies
  <2>2. Size[job[s]] \in Nat /\ job[s][1] \in Operations /\ job[s][2] \in Statuses
    BY <2>1, SizesAssumption DEF Replies, Statuses
  <2>3. /\ length' \in [Slots -> Nat]
        /\ status' \in [Slots -> Statuses]
        /\ buffer' \in [Slots -> Operations \cup {None}]
        /\ large' \in [Slots -> Replies \cup {None}]
    BY <2>1, <2>2, Zenon DEF TypeOK, WriteReply, PutReply, Statuses
  <2> QED BY <2>3 DEF TypeOK, WriteReply, ServerPCs
<1>2. ASSUME NEW t \in Slots PROVE Control(t)'
  BY SlotsAssumption
     DEF TypeOK, SlotInv, Control, Fresh, Replied, Posted, Taken, OnMain, WriteReply, ClientPCs, ServerPCs
<1>3. ASSUME NEW t \in Slots PROVE Carried(t)'
  BY SlotsAssumption, OperationsAssumption, SizesAssumption
     DEF TypeOK, SlotInv, Control, Carried, Answered, Fresh, Replied, Posted, Taken, WriteReply, PutReply,
         ClientPCs, ServerPCs
<1> QED BY <1>1, <1>2, <1>3 DEF SlotInv, WriteReply

\* SetReady preserves the invariant.
LEMMA SetReadyInv ==
  ASSUME TypeOK, SlotInv, NEW s \in Slots, SetReady(s)
  PROVE  TypeOK' /\ SlotInv'
<1>1. TypeOK'
  BY SlotsAssumption, OperationsAssumption, SizesAssumption, BoundsAssumption
     DEF TypeOK, SlotInv, Control, Carried, SetReady, ClientPCs, ServerPCs, Statuses, Replies
<1>2. ASSUME NEW t \in Slots PROVE Control(t)'
  BY SlotsAssumption
     DEF TypeOK, SlotInv, Control, Fresh, Replied, Posted, Taken, OnMain, SetReady, ClientPCs, ServerPCs
<1>3. ASSUME NEW t \in Slots PROVE Carried(t)'
  BY SlotsAssumption, OperationsAssumption, SizesAssumption
     DEF TypeOK, SlotInv, Control, Carried, Answered, Fresh, Replied, Posted, Taken, SetReady,
         ClientPCs, ServerPCs
<1> QED BY <1>1, <1>2, <1>3 DEF SlotInv, SetReady

\* WakeCaller preserves the invariant.
LEMMA WakeCallerInv ==
  ASSUME TypeOK, SlotInv, NEW s \in Slots, WakeCaller(s)
  PROVE  TypeOK' /\ SlotInv'
<1>1. TypeOK'
  BY DEF TypeOK, WakeCaller, ClientPCs, ServerPCs
<1>2. ASSUME NEW t \in Slots PROVE Control(t)'
  BY SlotsAssumption
     DEF TypeOK, SlotInv, Control, Fresh, Replied, Posted, Taken, OnMain, WakeCaller, ClientPCs, ServerPCs
<1>3. ASSUME NEW t \in Slots PROVE Carried(t)'
  BY SlotsAssumption, OperationsAssumption, SizesAssumption
     DEF TypeOK, SlotInv, Control, Carried, Answered, Fresh, Replied, Posted, Taken, WakeCaller,
         ClientPCs, ServerPCs
<1> QED BY <1>1, <1>2, <1>3 DEF SlotInv, WakeCaller

\* Every step preserves the invariant.
LEMMA StepInv ==
  TypeOK /\ SlotInv /\ [Next]_slotVars => TypeOK' /\ SlotInv'
<1> SUFFICES ASSUME TypeOK, SlotInv, [Next]_slotVars PROVE TypeOK' /\ SlotInv'
  OBVIOUS
<1>1. ASSUME NEW s \in Slots, NEW o \in Operations, Call(s, o) PROVE TypeOK' /\ SlotInv'
  BY <1>1, CallInv
<1>2. ASSUME NEW s \in Slots, ThreadStep(s) PROVE TypeOK' /\ SlotInv'
  BY <1>2, ClearReadyInv, BumpSequenceInv, NotifySequenceInv, RingDoorbellInv, SeePendingInv,
     EnterWaitsInv, FutexWaitInv, LeaveWaitsInv, AskForCopyInv, ReturnInv DEF ThreadStep
<1>3. ASSUME NEW s \in Slots, TakeLoop(s) PROVE TypeOK' /\ SlotInv'
  BY <1>3, RegisterSlotInv, ResumeInv, AfterLoadInv, SettleInv DEF TakeLoop
<1>4. ASSUME NEW s \in Slots, RunServer(s) PROVE TypeOK' /\ SlotInv'
  BY <1>4, LoadSequenceInv, ArmInv, ServeCopyInv, ServeRequestInv, RunAsyncInv, RunNowInv,
     WriteReplyInv, SetReadyInv, WakeCallerInv DEF RunServer
<1>5. CASE HostSettles
  BY <1>5, HostSettlesInv
<1>6. CASE UNCHANGED slotVars
  BY <1>6 DEF slotVars, TypeOK, SlotInv, Control, Carried, Answered, Fresh, Replied
<1> QED BY <1>1, <1>2, <1>3, <1>4, <1>5, <1>6 DEF Next

\* In every reachable state the variables have their types and SlotInv holds:
\* a thread and its server never disagree on who owns the slot.
THEOREM Invariance == Spec => [](TypeOK /\ SlotInv)
<1>1. Init => TypeOK /\ SlotInv
  BY InitInv
<1>2. TypeOK /\ SlotInv /\ [Next]_slotVars => (TypeOK /\ SlotInv)'
  BY StepInv
<1> QED BY <1>1, <1>2, PTL DEF Spec

\* Every word, field and position keeps its type; the sequence and the wait list their bounds.
THEOREM Typed == Spec => []TypeOK
BY Invariance, PTL

\* Neither the thread nor the server ever sleeps through the other's notify.
THEOREM NoWakeupIsLost == Spec => []NoLostWakeup
<1>1. TypeOK /\ SlotInv => NoLostWakeup
  BY DEF SlotInv, Control, NoLostWakeup
<1> QED BY <1>1, Invariance, PTL

\* No host call runs its operation twice, and a copy request finds its reply.
THEOREM ExecutedAtMostOnce == Spec => []AtMostOnce
<1>1. TypeOK /\ SlotInv => AtMostOnce
  <2> SUFFICES ASSUME TypeOK, SlotInv, NEW s \in Slots
               PROVE /\ runs[s] <= 1
                     /\ srv[s] = "dispatch" /\ kind[s] = "copy" => large[s] # None
    BY DEF AtMostOnce
  <2>1. runs[s] <= 1
    BY DEF SlotInv, Carried
  <2>2. ASSUME srv[s] = "dispatch", kind[s] = "copy" PROVE large[s] # None
    <3>1. cpc[s] # "idle"
      BY <2>2 DEF SlotInv, Control, Posted, Taken
    <3>2. out[s] # None /\ want[s] # None /\ large[s] = <<want[s], out[s]>>
      BY <2>2, <3>1 DEF SlotInv, Carried
    <3> QED BY <3>2, OperationsAssumption DEF TypeOK, Replies
  <2> QED BY <2>1, <2>2
<1> QED BY <1>1, Invariance, PTL

\* The slot handshake implements HostCall: a caller returns with the outcome of
\* its own operation, executed at most once.
THEOREM SlotRefinesCall == Spec => Implements
<1>1. Init => Abstract!Init
  BY DEF Init, All, Abstract!Init
<1>2. TypeOK /\ SlotInv /\ [Next]_slotVars => [Abstract!Next]_(Abstract!callVars)
  <2> SUFFICES ASSUME TypeOK, SlotInv, [Next]_slotVars
               PROVE  Abstract!Next \/ UNCHANGED <<want, runs, out, returned>>
    BY DEF Abstract!callVars
  <2>1. ASSUME NEW s \in Slots, NEW o \in Operations, Call(s, o) PROVE Abstract!Ask(s, o)
    BY <2>1 DEF Call, SlotInv, Carried, Abstract!Ask
  <2>2. ASSUME NEW s \in Slots, Return(s) PROVE Abstract!Return(s)
    <3>1. Replied(s)
      BY <2>2 DEF Return, SlotInv, Control, Replied, Posted
    <3>2. /\ want[s] # None /\ out[s] # None
          /\ returned' = [returned EXCEPT ![s] = <<want[s], out[s]>>]
      BY <2>2, <3>1 DEF Return, SlotInv, Carried, Answered
    <3> QED BY <2>2, <3>2 DEF Return, Abstract!Return
  <2>3. ASSUME NEW s \in Slots, NEW r \in Outcomes, RunNow(s, r) PROVE Abstract!ExecuteNow(s, r)
    <3>1. want[s] # None /\ runs[s] = 0 /\ out[s] = None
      BY <2>3 DEF TypeOK, RunNow, SlotInv, Control, Carried, Posted, Taken
    <3> QED BY <2>3, <3>1 DEF RunNow, TypeOK, Abstract!ExecuteNow
  <2>4. ASSUME NEW s \in Slots, RunAsync(s) PROVE Abstract!Execute(s)
    <3>1. want[s] # None /\ runs[s] = 0 /\ out[s] = None
      BY <2>4 DEF TypeOK, RunAsync, SlotInv, Control, Carried, Posted, Taken
    <3> QED BY <2>4, <3>1 DEF RunAsync, TypeOK, Abstract!Execute
  <2>5. ASSUME NEW s \in Slots, NEW r \in Outcomes, Settle(s, r) PROVE Abstract!Answer(s, r)
    <3>1. want[s] # None /\ runs[s] = 1 /\ out[s] = None
      BY <2>5 DEF TypeOK, Settle, SlotInv, Control, Carried, Posted, Taken
    <3> QED BY <2>5, <3>1 DEF Settle, Abstract!Answer
  <2>6. ASSUME NEW s \in Slots, AfterLoad(s)
        PROVE  Abstract!Refuse(s) \/ UNCHANGED <<want, runs, out, returned>>
    <3>1. want[s] # None /\ runs[s] = 0 /\ out[s] = None
      BY <2>6 DEF TypeOK, AfterLoad, SlotInv, Control, Carried, Posted, Taken
    <3> QED BY <2>6, <3>1 DEF AfterLoad, Abstract!Refuse
  <2>7. ASSUME NEW s \in Slots, ThreadStep(s)
        PROVE  Abstract!Return(s) \/ UNCHANGED <<want, runs, out, returned>>
    BY <2>2, <2>7 DEF ThreadStep, ClearReady, BumpSequence, NotifySequence, RingDoorbell,
       SeePending, EnterWaits, FutexWait, LeaveWaits, AskForCopy
  <2>8. ASSUME NEW s \in Slots, TakeLoop(s)
        PROVE  \/ Abstract!Refuse(s) \/ \E r \in Outcomes : Abstract!Answer(s, r)
               \/ UNCHANGED <<want, runs, out, returned>>
    BY <2>5, <2>6, <2>8 DEF TakeLoop, RegisterSlot, Resume
  <2>9. ASSUME NEW s \in Slots, RunServer(s)
        PROVE  \/ Abstract!Execute(s) \/ \E r \in Outcomes : Abstract!ExecuteNow(s, r)
               \/ UNCHANGED <<want, runs, out, returned>>
    BY <2>3, <2>4, <2>9 DEF RunServer, LoadSequence, Arm, ServeCopy, ServeRequest, WriteReply,
       SetReady, WakeCaller
  <2>10. CASE HostSettles \/ UNCHANGED slotVars
    BY <2>10 DEF HostSettles, slotVars
  <2> QED BY <2>1, <2>7, <2>8, <2>9, <2>10 DEF Next, Abstract!Next
<1> QED BY <1>1, <1>2, Invariance, PTL DEF Spec, Implements, Abstract!Spec
=============================================================================
