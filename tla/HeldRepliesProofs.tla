-------------------------- MODULE HeldRepliesProofs --------------------------
(***************************************************************************)
(* Theorems about HeldReplies, for every set of calls, every depth of      *)
(* nesting and any number of handles: type correctness, that a dispatch    *)
(* holds a handle of its own call only, that no caller is forgotten, and   *)
(* that the adaptor implements OneReply: one reply for each call that asks *)
(* for one.                                                                *)
(***************************************************************************)
EXTENDS HeldReplies, FiniteSetTheorems, SequenceTheorems, TLAPS

-----------------------------------------------------------------------------
(* The operators on calls and handles.                                     *)

\* Replies and the end of a delivery change how often a caller was answered
\* and whether it is still running, nothing else.
LEMMA CallOperators ==
    ASSUME NEW c \in Call, NEW n \in Nat
    PROVE  /\ Replied(c, n) \in Call
           /\ Replied(c, 0) = c
           /\ Replied(c, n).state = c.state
           /\ Replied(c, n).wantsReply = c.wantsReply
           /\ Replied(c, n).local = c.local
           /\ Replied(c, n).replies >= c.replies
           /\ Reaches(c) /\ c.replies = 0 => Replied(c, 1).replies = 1
           /\ ~Reaches(c) => Replied(c, n) = c
           /\ Finished(c) \in Call
           /\ Finished(c).state = "finished"
           /\ Finished(c).wantsReply = c.wantsReply
           /\ Finished(c).local = c.local
           /\ Finished(c).replies = IF c.local /\ c.replies = 0 THEN 1 ELSE c.replies
<1>1. (IF c.replies + n > 2 THEN 2 ELSE c.replies + n) \in 0 .. 2
  BY DEF Call
<1>2. Replied(c, n) \in Call
  BY <1>1 DEF Replied, Call
<1>3. Replied(c, 0) = c
  BY DEF Replied, Call
<1>4. /\ Replied(c, n).state = c.state
      /\ Replied(c, n).wantsReply = c.wantsReply
      /\ Replied(c, n).local = c.local
  BY DEF Replied, Call
<1>5. /\ Replied(c, n).replies >= c.replies
      /\ Reaches(c) /\ c.replies = 0 => Replied(c, 1).replies = 1
      /\ ~Reaches(c) => Replied(c, n) = c
  BY DEF Replied, Call
<1>6. /\ Finished(c) \in Call
      /\ Finished(c).state = "finished"
      /\ Finished(c).wantsReply = c.wantsReply
      /\ Finished(c).local = c.local
      /\ Finished(c).replies = IF c.local /\ c.replies = 0 THEN 1 ELSE c.replies
  <2> DEFINE Answered1(d) == [d EXCEPT !.replies = 1]
             f == [c EXCEPT !.state = "finished"]
  <2>1. /\ f \in Call /\ f.state = "finished" /\ f.wantsReply = c.wantsReply
        /\ f.local = c.local /\ f.replies = c.replies
    BY DEF Call
  <2>2. ASSUME NEW d \in Call
        PROVE  /\ Answered1(d) \in Call /\ Answered1(d).state = d.state
               /\ Answered1(d).wantsReply = d.wantsReply
               /\ Answered1(d).local = d.local /\ Answered1(d).replies = 1
    BY DEF Call
  <2>3. Finished(c) = IF c.local /\ c.replies = 0 THEN Answered1(f) ELSE f
    BY <2>1 DEF Finished
  <2> HIDE DEF f, Answered1
  <2> QED BY <2>1, <2>2, <2>3
<1> QED BY <1>2, <1>3, <1>4, <1>5, <1>6

LEMMA ArrivedType ==
    ASSUME NEW state \in {"unsent", "running", "finished"},
           NEW wantsReply \in BOOLEAN, NEW local \in BOOLEAN
    PROVE  Arrived(state, wantsReply, local) \in Call
BY DEF Arrived, Call

\* What is on the stack and among the handles.
LEMMA ElementTypes ==
    ASSUME TypeOK
    PROVE  /\ Len(stack) \in Nat /\ DOMAIN stack = 1 .. Len(stack)
           /\ \A i \in DOMAIN stack : stack[i] \in Dispatch
           /\ Len(handles) \in Nat /\ DOMAIN handles = 1 .. Len(handles)
           /\ \A h \in DOMAIN handles : handles[h] \in HeldReply
           /\ Len(stack) <= MaxNesting /\ Len(handles) <= MaxHandles
           /\ \A i \in DOMAIN stack : stack[i].held => stack[i].reply \in 1 .. Len(handles)
<1>1. stack \in Seq(Dispatch) /\ handles \in Seq(HeldReply)
  BY DEF TypeOK
<1> HIDE DEF Dispatch, HeldReply
<1>2. /\ Len(stack) \in Nat /\ DOMAIN stack = 1 .. Len(stack)
      /\ \A i \in DOMAIN stack : stack[i] \in Dispatch
  BY <1>1, LenProperties
<1>3. /\ Len(handles) \in Nat /\ DOMAIN handles = 1 .. Len(handles)
      /\ \A h \in DOMAIN handles : handles[h] \in HeldReply
  BY <1>1, LenProperties
<1>4. Len(stack) <= MaxNesting /\ Len(handles) <= MaxHandles
  BY DEF TypeOK
<1>5. \A i \in DOMAIN stack : stack[i].held => stack[i].reply \in DOMAIN handles
  BY DEF TypeOK
<1> QED BY <1>2, <1>3, <1>4, <1>5

LEMMA CurrentType ==
    ASSUME TypeOK, InDispatch
    PROVE  /\ 1 \in DOMAIN stack /\ Current = stack[1] /\ Current \in Dispatch
           /\ Tail(stack) \in Seq(Dispatch)
           /\ DOMAIN Tail(stack) = 1 .. Len(stack) - 1
           /\ Len(Tail(stack)) = Len(stack) - 1
           /\ \A i \in DOMAIN Tail(stack) : i + 1 \in DOMAIN stack /\ Tail(stack)[i] = stack[i + 1]
<1>1. stack \in Seq(Dispatch) /\ stack # <<>>
  BY DEF TypeOK, InDispatch
<1>2. /\ Tail(stack) \in Seq(Dispatch) /\ Len(Tail(stack)) = Len(stack) - 1
      /\ \A i \in 1 .. Len(Tail(stack)) : Tail(stack)[i] = stack[i + 1]
  BY <1>1, HeadTailProperties
<1>3. Len(stack) \in Nat /\ Len(stack) # 0 /\ DOMAIN stack = 1 .. Len(stack)
  BY <1>1, ElementTypes
<1>4. DOMAIN Tail(stack) = 1 .. Len(stack) - 1
  BY <1>2, LenProperties
<1>5. Current = stack[1]
  BY <1>1 DEF Current
<1>6. Current \in Dispatch
  BY <1>3, <1>5, ElementTypes
<1> QED BY <1>2, <1>3, <1>4, <1>5, <1>6

\* holdReply() changes what a dispatch holds, and not whose it is.
LEMMA HoldingType ==
    ASSUME NEW d \in Dispatch, NEW n \in Nat
    PROVE  LET e == [[d EXCEPT !.held = TRUE] EXCEPT !.reply = n]
           IN  e \in Dispatch /\ e.of = d.of /\ e.held /\ e.reply = n
<1>1. ASSUME NEW x \in Dispatch
      PROVE  LET y == [x EXCEPT !.held = TRUE]
             IN  y \in Dispatch /\ y.of = x.of /\ y.held /\ y.reply = x.reply
  BY DEF Dispatch
<1>2. ASSUME NEW x \in Dispatch
      PROVE  LET y == [x EXCEPT !.reply = n]
             IN  y \in Dispatch /\ y.of = x.of /\ y.held = x.held /\ y.reply = n
  BY DEF Dispatch
<1> DEFINE f == [d EXCEPT !.held = TRUE]
<1>3. f \in Dispatch /\ f.of = d.of /\ f.held /\ f.reply = d.reply
  BY <1>1
<1> HIDE DEF f
<1>4. LET e == [f EXCEPT !.reply = n]
      IN  e \in Dispatch /\ e.of = d.of /\ e.held /\ e.reply = n
  BY <1>2, <1>3
<1> QED BY <1>4 DEF f

\* A dispatch that starts comes before those in progress.
LEMMA PushType ==
    ASSUME NEW s \in Seq(Dispatch), NEW d \in Dispatch
    PROVE  /\ <<d>> \o s \in Seq(Dispatch)
           /\ Len(<<d>> \o s) = Len(s) + 1
           /\ DOMAIN (<<d>> \o s) = 1 .. Len(s) + 1
           /\ (<<d>> \o s)[1] = d
           /\ \A i \in DOMAIN s : i + 1 \in DOMAIN (<<d>> \o s) /\ (<<d>> \o s)[i + 1] = s[i]
           /\ \A j \in DOMAIN (<<d>> \o s) :
                  j = 1 \/ (j - 1 \in DOMAIN s /\ (<<d>> \o s)[j] = s[j - 1])
<1>1. <<d>> \in Seq(Dispatch) /\ Len(<<d>>) = 1 /\ <<d>>[1] = d
  OBVIOUS
<1>2. Len(s) \in Nat /\ DOMAIN s = 1 .. Len(s)
  BY LenProperties
<1>3. /\ <<d>> \o s \in Seq(Dispatch)
      /\ Len(<<d>> \o s) = 1 + Len(s)
      /\ \A i \in 1 .. 1 + Len(s) : (<<d>> \o s)[i] = IF i <= 1 THEN <<d>>[i] ELSE s[i - 1]
  BY <1>1, ConcatProperties
<1>4. DOMAIN (<<d>> \o s) = 1 .. Len(s) + 1
  BY <1>2, <1>3, LenProperties
<1> HIDE DEF Dispatch
<1>5. (<<d>> \o s)[1] = d
  BY <1>1, <1>2, <1>3
<1>6. ASSUME NEW i \in DOMAIN s
      PROVE  i + 1 \in DOMAIN (<<d>> \o s) /\ (<<d>> \o s)[i + 1] = s[i]
  BY <1>2, <1>3, <1>4
<1>7. ASSUME NEW j \in DOMAIN (<<d>> \o s)
      PROVE  j = 1 \/ (j - 1 \in DOMAIN s /\ (<<d>> \o s)[j] = s[j - 1])
  BY <1>2, <1>3, <1>4
<1> QED BY <1>2, <1>3, <1>4, <1>5, <1>6, <1>7

\* settle() keeps the handles in their order, and whose they are.
LEMMA SettledType ==
    ASSUME TypeOK, NEW hs
    PROVE  /\ Settled(hs) \in Seq(HeldReply)
           /\ Len(Settled(hs)) = Len(handles)
           /\ DOMAIN Settled(hs) = DOMAIN handles
           /\ \A h \in DOMAIN handles :
                  /\ Settled(hs)[h].of = handles[h].of
                  /\ Settled(hs)[h].settled <=> handles[h].settled \/ h \in hs
<1>1. /\ Len(handles) \in Nat /\ DOMAIN handles = 1 .. Len(handles)
      /\ \A h \in DOMAIN handles : handles[h] \in HeldReply
  BY ElementTypes
<1>2. DOMAIN Settled(hs) = DOMAIN handles
  BY DEF Settled
<1>3. ASSUME NEW h \in DOMAIN handles
      PROVE  /\ Settled(hs)[h] \in HeldReply
             /\ Settled(hs)[h].of = handles[h].of
             /\ Settled(hs)[h].settled <=> handles[h].settled \/ h \in hs
  <2>1. Settled(hs)[h] = IF h \in hs THEN [handles[h] EXCEPT !.settled = TRUE, !.timer = FALSE]
                                    ELSE handles[h]
    BY DEF Settled
  <2>2. handles[h] \in HeldReply
    BY <1>1
  <2> QED BY <2>1, <2>2 DEF HeldReply
<1>4. Settled(hs) \in [1 .. Len(handles) -> HeldReply]
  BY <1>1, <1>2, <1>3 DEF Settled
<1>5. Settled(hs) \in Seq(HeldReply) /\ Len(Settled(hs)) = Len(handles)
  BY <1>1, <1>4
<1> QED BY <1>2, <1>3, <1>5

\* A reply by each of some handles counts the pending ones of a call.
LEMMA RepliedByType ==
    ASSUME TypeOK, NEW hs
    PROVE  /\ \A c \in Calls : Cardinality({h \in hs \cap Pending : handles[h].of = c}) \in Nat
           /\ RepliedBy(hs) \in [Calls -> Call]
<1>1. ASSUME NEW c \in Calls
      PROVE  Cardinality({h \in hs \cap Pending : handles[h].of = c}) \in Nat
  <2>1. IsFiniteSet(DOMAIN handles)
    BY ElementTypes, FS_Interval
  <2>2. {h \in hs \cap Pending : handles[h].of = c} \in SUBSET DOMAIN handles
    BY DEF Pending
  <2> QED BY <2>1, <2>2, FS_Subset, FS_CardinalityType
<1>2. ASSUME NEW c \in Calls
      PROVE  Replied(call[c], Cardinality({h \in hs \cap Pending : handles[h].of = c})) \in Call
  <2>1. call[c] \in Call
    BY DEF TypeOK
  <2> QED BY <1>1, <2>1, CallOperators
<1> QED BY <1>1, <1>2 DEF RepliedBy

-----------------------------------------------------------------------------
(* Type correctness.                                                       *)

LEMMA TypeInit == Init => TypeOK
<1> SUFFICES ASSUME Init PROVE TypeOK
  OBVIOUS
<1>1. call \in [Calls -> Call]
  BY ArrivedType DEF Init
<1>2. stack \in Seq(Dispatch) /\ Len(stack) = 0 /\ DOMAIN stack = {}
  BY DEF Init
<1>3. handles \in Seq(HeldReply) /\ Len(handles) = 0
  BY DEF Init
<1>4. Len(stack) <= MaxNesting /\ Len(handles) <= MaxHandles
  BY <1>2, <1>3, BoundsAssumption
<1> QED BY <1>1, <1>2, <1>3, <1>4 DEF Init, TypeOK

\* Replies by handles, in or after a dispatch, keep the types.
LEMMA TypeReplies ==
    ASSUME TypeOK, NEW hs, handles' = Settled(hs), call' \in [Calls -> Call],
           UNCHANGED stack,
           adaptor' \in {"attached", "detached", "destroyed"},
           engine' \in {"alive", "tail posted", "gone"}
    PROVE  TypeOK'
BY SettledType DEF TypeOK

\* The end of a handler: the dispatches around it keep their handles.
LEMMA TypeEnd ==
    ASSUME TypeOK, InDispatch, NEW answered \in [Calls -> Call], EndHandler(answered),
           handles' \in Seq(HeldReply), DOMAIN handles' = DOMAIN handles,
           Len(handles') = Len(handles)
    PROVE  TypeOK'
<1>1. call' \in [Calls -> Call]
  <2>1. Current.of \in Calls
    BY CurrentType DEF Dispatch
  <2>2. Finished(answered[Current.of]) \in Call
    BY <2>1, CallOperators
  <2> QED BY <2>1, <2>2 DEF EndHandler
<1>2. stack' = Tail(stack) /\ stack' \in Seq(Dispatch) /\ Len(stack') = Len(stack) - 1
  BY CurrentType DEF EndHandler
<1>3. Len(stack') <= MaxNesting
  BY <1>2, BoundsAssumption, ElementTypes
<1>4. ASSUME NEW i \in DOMAIN stack', stack'[i].held PROVE stack'[i].reply \in DOMAIN handles'
  BY <1>2, <1>4, CurrentType, ElementTypes
<1> QED BY <1>1, <1>2, <1>3, <1>4 DEF TypeOK, EndHandler

LEMMA TypeNext == TypeOK /\ [Next]_vars => TypeOK'
<1> SUFFICES ASSUME TypeOK, [Next]_vars PROVE TypeOK'
  OBVIOUS
<1>1. ASSUME NEW c \in Calls, NEW local \in BOOLEAN, NEW wantsReply \in BOOLEAN,
             Answered(c, local, wantsReply)
      PROVE  TypeOK'
  <2>1. Arrived("running", wantsReply, local) \in Call
    BY ArrivedType
  <2>2. Finished(Replied(Arrived("running", wantsReply, local), 1)) \in Call
    BY <2>1, CallOperators
  <2> QED BY <1>1, <2>2 DEF Answered, TypeOK
<1>2. ASSUME NEW c \in Calls, NEW local \in BOOLEAN, NEW wantsReply \in BOOLEAN,
             StartHandler(c, local, wantsReply)
      PROVE  TypeOK'
  <2>1. Arrived("running", wantsReply, local) \in Call
    BY ArrivedType
  <2>2. NewScope(c) \in Dispatch
    BY DEF NewScope, Dispatch
  <2>3. /\ stack' \in Seq(Dispatch)
        /\ Len(stack') = Len(stack) + 1
        /\ stack'[1] = NewScope(c)
        /\ \A j \in DOMAIN stack' : j = 1 \/ (j - 1 \in DOMAIN stack /\ stack'[j] = stack[j - 1])
    BY <1>2, <2>2, PushType DEF TypeOK, StartHandler
  <2>4. Len(stack') <= MaxNesting
    BY <1>2, <2>3, ElementTypes, BoundsAssumption DEF StartHandler, Deliverable
  <2>5. ASSUME NEW j \in DOMAIN stack', stack'[j].held PROVE stack'[j].reply \in DOMAIN handles
    <3>1. ~NewScope(c).held
      BY DEF NewScope
    <3> QED BY <2>3, <2>5, <3>1, ElementTypes
  <2> QED BY <1>2, <2>1, <2>3, <2>4, <2>5 DEF StartHandler, TypeOK
<1>3. ASSUME NEW timeout \in BOOLEAN, HoldReply(timeout) PROVE TypeOK'
  <2>1. InDispatch /\ 1 \in DOMAIN stack /\ Current = stack[1] /\ Current \in Dispatch
    BY <1>3, CurrentType DEF HoldReply
  <2> DEFINE r == [of |-> Current.of, settled |-> FALSE, timer |-> timeout]
             d == [[stack[1] EXCEPT !.held = TRUE] EXCEPT !.reply = Len(handles) + 1]
  <2>2. r \in HeldReply
    BY <2>1 DEF Dispatch, HeldReply
  <2>3. d \in Dispatch /\ d.reply = Len(handles) + 1
    <3>1. stack[1] \in Dispatch /\ Len(handles) + 1 \in Nat
      BY <2>1, ElementTypes
    <3> QED BY ONLY <3>1, HoldingType DEF d
  <2>4. /\ handles' \in Seq(HeldReply) /\ Len(handles') = Len(handles) + 1
        /\ DOMAIN handles' = 1 .. Len(handles) + 1
    <3>1. handles \in Seq(HeldReply) /\ handles' = Append(handles, r)
      BY <1>3 DEF TypeOK, HoldReply
    <3> HIDE DEF r, HeldReply
    <3>2. handles' \in Seq(HeldReply) /\ Len(handles') = Len(handles) + 1
      BY <2>2, <3>1, AppendProperties
    <3> QED BY <3>2, LenProperties
  <2>5. stack' = [stack EXCEPT ![1] = d]
    BY <1>3 DEF HoldReply
  <2> HIDE DEF d, r, Dispatch
  <2>6. /\ stack' \in Seq(Dispatch) /\ Len(stack') = Len(stack)
        /\ \A j \in DOMAIN stack : stack'[j] = IF j = 1 THEN d ELSE stack[j]
    BY <2>1, <2>3, <2>5, ElementTypes, ExceptSeq DEF TypeOK
  <2>7. ASSUME NEW j \in DOMAIN stack', stack'[j].held PROVE stack'[j].reply \in DOMAIN handles'
    <3>1. DOMAIN stack' = DOMAIN stack
      BY <2>5
    <3>2. CASE j = 1
      BY <2>3, <2>4, <2>6, <3>1, <3>2, ElementTypes
    <3>3. CASE j # 1
      BY <2>4, <2>6, <2>7, <3>1, <3>3, ElementTypes
    <3> QED BY <3>2, <3>3
  <2>8. Len(handles') <= MaxHandles
    BY <1>3, <2>4, ElementTypes, BoundsAssumption DEF HoldReply
  <2> QED BY <1>3, <2>4, <2>6, <2>7, <2>8 DEF HoldReply, TypeOK
<1>4. CASE HandlerEnds
  <2>1. InDispatch
    BY <1>4 DEF HandlerEnds, ReturnHeld, ReturnUnheld, ThrowHeld, ThrowUnheld
  <2>2. [call EXCEPT ![Current.of] = Replied(@, 1)] \in [Calls -> Call]
    BY <2>1, CallOperators, CurrentType DEF TypeOK, Dispatch
  <2>3. CASE ReturnHeld
    BY <2>1, <2>3, TypeEnd DEF ReturnHeld, TypeOK
  <2>4. CASE ReturnUnheld
    BY <2>1, <2>2, <2>4, TypeEnd DEF ReturnUnheld, TypeOK
  <2>5. CASE ThrowHeld
    BY <2>1, <2>5, TypeEnd, RepliedByType, SettledType DEF ThrowHeld
  <2>6. CASE ThrowUnheld
    BY <2>1, <2>2, <2>6, TypeEnd DEF ThrowUnheld, TypeOK
  <2> QED BY <1>4, <2>3, <2>4, <2>5, <2>6 DEF HandlerEnds
<1>5. ASSUME NEW h \in DOMAIN handles, Send(h) \/ Expire(h) PROVE TypeOK'
  BY <1>5, TypeReplies, RepliedByType DEF Send, Expire, TypeOK
<1>6. CASE Unregister \/ Destroy \/ EngineTail
  <2>1. /\ adaptor' \in {"attached", "detached", "destroyed"}
        /\ engine' \in {"alive", "tail posted", "gone"}
    BY <1>6 DEF TypeOK, Unregister, Destroy, EngineTail
  <2> QED BY <1>6, <2>1, TypeReplies, RepliedByType DEF ErrorPending, Unregister, Destroy, EngineTail
<1>7. CASE EngineGoes
  BY <1>7 DEF EngineGoes, TypeOK
<1>8. CASE UNCHANGED vars
  BY <1>8 DEF vars, TypeOK
<1> QED BY <1>1, <1>2, <1>3, <1>4, <1>5, <1>6, <1>7, <1>8 DEF Next, Deliver

\* Every variable keeps its type, and a dispatch that holds names a handle
\* that was made: holdReply() never hands out a dangling one.
THEOREM TypeCorrect == Spec => []TypeOK
BY TypeInit, TypeNext, PTL DEF Spec

-----------------------------------------------------------------------------
(* The inductive invariant.                                                *)

\* What has been sent for a call: nothing to a caller that wants nothing, and
\* one reply at most; a finished call is answered or in the hands of a handle.
CallInv(c) ==
    /\ call[c].local => call[c].wantsReply
    /\ ~call[c].wantsReply => call[c].replies = 0
    /\ call[c].replies <= 1
    /\ call[c].state = "finished" /\ call[c].wantsReply /\ call[c].replies = 0 =>
          ~call[c].local /\ \E h \in Pending : handles[h].of = c

\* A handle belongs to a call that was delivered.  While it is pending, nobody
\* else has answered a caller it can still reach; a settled one has answered.
HandleInv(h) ==
    LET c == call[handles[h].of]
    IN  /\ c.state # "unsent"
        /\ ~handles[h].settled /\ Reaches(c) => c.replies = 0
        /\ handles[h].settled /\ c.wantsReply => c.replies = 1

\* A call in dispatch is running, and without a handle it is unanswered.
DispatchInv(i) ==
    /\ call[stack[i].of].state = "running"
    /\ ~stack[i].held => call[stack[i].of].replies = 0

OneHandleEach == \A g, h \in DOMAIN handles : handles[g].of = handles[h].of => g = h
OneDispatchEach == \A i, j \in DOMAIN stack : stack[i].of = stack[j].of => i = j
RunningIsDispatched ==
    \A c \in Calls : call[c].state = "running" => \E i \in DOMAIN stack : stack[i].of = c

\* Nothing runs without the adaptor and its engine; their end settles all.
LivingWhileRunning == InDispatch => engine = "alive" /\ adaptor # "destroyed"
GoneIsSettled == adaptor = "destroyed" \/ engine = "gone" => Pending = {}

IInv == /\ \A c \in Calls : CallInv(c)
        /\ \A h \in DOMAIN handles : HandleInv(h)
        /\ \A i \in DOMAIN stack : DispatchInv(i)
        /\ OneHandleEach /\ OneDispatchEach /\ RunningIsDispatched
        /\ LivingWhileRunning /\ GoneIsSettled
        /\ ContextIsOwn
-----------------------------------------------------------------------------
(* Every step keeps the invariant.                                         *)

LEMMA IInvInit == Init => IInv
<1> SUFFICES ASSUME Init PROVE IInv
  OBVIOUS
<1>1. DOMAIN handles = {} /\ DOMAIN stack = {} /\ ~InDispatch
  BY DEF Init, InDispatch
<1>2. ASSUME NEW c \in Calls PROVE CallInv(c) /\ call[c].state = "unsent"
  BY DEF Init, CallInv, Arrived
<1> QED BY <1>1, <1>2 DEF IInv, OneHandleEach, OneDispatchEach, RunningIsDispatched,
           LivingWhileRunning, GoneIsSettled, ContextIsOwn, Pending

\* Replies by some handles answer the callers of the pending ones among them,
\* as far as they can be reached, and nobody else.
LEMMA AnsweredBy ==
    ASSUME TypeOK, IInv, NEW hs, NEW c \in Calls
    PROVE  LET r == RepliedBy(hs)[c]
               asked == \E h \in hs \cap Pending : handles[h].of = c
           IN  /\ r \in Call
               /\ r.state = call[c].state
               /\ r.wantsReply = call[c].wantsReply
               /\ r.local = call[c].local
               /\ r.replies >= call[c].replies
               /\ r.replies <= 1
               /\ asked /\ Reaches(call[c]) => r.replies = 1
               /\ ~asked \/ ~Reaches(call[c]) => r = call[c]
<1> DEFINE S == {h \in hs \cap Pending : handles[h].of = c}
           r == RepliedBy(hs)[c]
           asked == \E h \in hs \cap Pending : handles[h].of = c
<1>1. call[c] \in Call /\ call[c].replies <= 1
  BY DEF TypeOK, IInv, CallInv
<1>2. Cardinality(S) \in Nat
  BY RepliedByType
<1>3. r = Replied(call[c], Cardinality(S))
  BY DEF RepliedBy
<1>4. asked => Cardinality(S) = 1 /\ (Reaches(call[c]) => call[c].replies = 0)
  <2> SUFFICES ASSUME NEW h \in hs \cap Pending, handles[h].of = c
               PROVE  Cardinality(S) = 1 /\ (Reaches(call[c]) => call[c].replies = 0)
    OBVIOUS
  <2>1. S = {h}
    BY DEF IInv, OneHandleEach, Pending
  <2>2. Cardinality(S) = 1
    BY <2>1, FS_Singleton
  <2> QED BY <2>2 DEF IInv, HandleInv, Pending
<1>5. ~asked => Cardinality(S) = 0
  <2> SUFFICES ASSUME ~asked PROVE S = {}
    BY FS_EmptySet
  <2> QED OBVIOUS
<1> HIDE DEF S, asked, r
<1>6. /\ r \in Call /\ r.state = call[c].state /\ r.wantsReply = call[c].wantsReply
      /\ r.local = call[c].local /\ r.replies >= call[c].replies
      /\ asked /\ Reaches(call[c]) => r.replies = 1
      /\ ~asked \/ ~Reaches(call[c]) => r = call[c]
  BY <1>1, <1>2, <1>3, <1>4, <1>5, CallOperators
<1>7. r.replies <= 1
  BY <1>1, <1>6
<1> QED BY <1>6, <1>7 DEF r, asked

\* send, sendError, a timer, unregister and the ends: handles answer, while no
\* dispatch begins or ends.
LEMMA RepliesKeep ==
    ASSUME TypeOK, IInv, NEW hs, call' = RepliedBy(hs), handles' = Settled(hs),
           UNCHANGED stack
    PROVE  /\ \A c \in Calls : CallInv(c)'
           /\ \A h \in DOMAIN handles' : HandleInv(h)'
           /\ \A i \in DOMAIN stack' : DispatchInv(i)'
           /\ OneHandleEach' /\ OneDispatchEach' /\ RunningIsDispatched' /\ ContextIsOwn'
           /\ Pending' = Pending \ hs
<1>1. /\ DOMAIN handles' = DOMAIN handles
      /\ \A h \in DOMAIN handles : /\ handles'[h].of = handles[h].of
                                   /\ handles'[h].settled <=> handles[h].settled \/ h \in hs
  BY SettledType
<1>2. Pending' = Pending \ hs
  BY <1>1 DEF Pending
<1>3. ASSUME NEW c \in Calls
      PROVE  /\ call[c] \in Call /\ call'[c] \in Call
             /\ call'[c].state = call[c].state
             /\ call'[c].wantsReply = call[c].wantsReply
             /\ call'[c].local = call[c].local
             /\ call'[c].replies >= call[c].replies
             /\ call'[c].replies <= 1
             /\ \A h \in hs \cap Pending :
                    handles[h].of = c /\ Reaches(call[c]) => call'[c].replies = 1
             /\ (\A h \in hs \cap Pending : handles[h].of # c) \/ ~Reaches(call[c])
                    => call'[c] = call[c]
  <2>1. call[c] \in Call
    BY DEF TypeOK
  <2> QED BY <2>1, AnsweredBy
<1>4. \A h \in DOMAIN handles : handles[h].of \in Calls
  BY ElementTypes DEF HeldReply
<1>5. \A i \in DOMAIN stack : stack[i].of \in Calls
  BY ElementTypes DEF Dispatch
<1>6. ASSUME NEW c \in Calls PROVE CallInv(c)'
  <2>1. CallInv(c)
    BY DEF IInv
  <2>2. ~call[c].wantsReply => call'[c] = call[c]
    BY <1>3 DEF Reaches
  <2>3. ASSUME call'[c].state = "finished", call'[c].wantsReply, call'[c].replies = 0
        PROVE  ~call'[c].local /\ \E h \in Pending' : handles'[h].of = c
    <3>1. call[c].replies = 0
      BY <1>3, <2>3 DEF Call
    <3>2. ~call[c].local /\ \E h \in Pending : handles[h].of = c
      BY <1>3, <2>1, <2>3, <3>1 DEF CallInv
    <3>3. PICK h \in Pending : handles[h].of = c
      BY <3>2
    <3>4. h \notin hs
      BY <1>3, <2>3, <3>2, <3>3 DEF Reaches
    <3>5. h \in Pending' /\ handles'[h].of = c
      BY <1>1, <1>2, <3>3, <3>4 DEF Pending
    <3> QED BY <1>3, <3>2, <3>5
  <2> QED BY <1>3, <2>1, <2>2, <2>3 DEF CallInv
<1>7. ASSUME NEW h \in DOMAIN handles' PROVE HandleInv(h)'
  <2> DEFINE c == handles[h].of
  <2>1. h \in DOMAIN handles /\ c \in Calls /\ handles'[h].of = c /\ HandleInv(h) /\ CallInv(c)
    BY <1>1, <1>4 DEF IInv
  <2>2. call'[c].state # "unsent"
    BY <1>3, <2>1 DEF HandleInv
  <2>3. ASSUME ~handles'[h].settled, Reaches(call'[c]) PROVE call'[c].replies = 0
    <3>1. h \in Pending /\ h \notin hs
      BY <1>1, <2>1, <2>3 DEF Pending
    <3>2. \A g \in hs \cap Pending : handles[g].of # c
      BY <2>1, <3>1 DEF IInv, OneHandleEach, Pending
    <3>3. call'[c] = call[c]
      BY <1>3, <2>1, <3>2
    <3> QED BY <2>1, <2>3, <3>1, <3>3 DEF HandleInv, Pending
  <2>4. ASSUME handles'[h].settled, call'[c].wantsReply PROVE call'[c].replies = 1
    <3>1. call[c].wantsReply
      BY <1>3, <2>1, <2>4
    <3>2. CASE handles[h].settled
      <4>1. call[c].replies = 1
        BY <2>1, <3>1, <3>2 DEF HandleInv
      <4> QED BY <1>3, <2>1, <4>1 DEF Call
    <3>3. CASE ~handles[h].settled /\ Reaches(call[c])
      BY <1>1, <1>3, <2>1, <2>4, <3>3 DEF Pending
    <3>4. CASE ~Reaches(call[c])
      <4>1. call[c].local /\ call[c].state = "finished"
        BY <3>1, <3>4 DEF Reaches
      <4>2. call[c].replies = 1
        BY <1>3, <2>1, <3>1, <4>1 DEF CallInv, Call
      <4> QED BY <1>3, <2>1, <4>2 DEF Call
    <3> QED BY <3>2, <3>3, <3>4
  <2> QED BY <2>1, <2>2, <2>3, <2>4 DEF HandleInv
<1>8. ASSUME NEW i \in DOMAIN stack' PROVE DispatchInv(i)'
  <2> DEFINE c == stack[i].of
  <2>1. i \in DOMAIN stack /\ c \in Calls /\ DispatchInv(i) /\ stack' = stack
    BY <1>5 DEF IInv
  <2>2. ~stack[i].held => call'[c] = call[c]
    <3> SUFFICES ASSUME ~stack[i].held PROVE call'[c] = call[c]
      OBVIOUS
    <3>1. \A h \in hs \cap Pending : handles[h].of # c
      BY <2>1 DEF IInv, ContextIsOwn, Pending
    <3> QED BY <1>3, <2>1, <3>1
  <2> QED BY <1>3, <2>1, <2>2 DEF DispatchInv
<1>9. OneHandleEach'
  BY <1>1 DEF IInv, OneHandleEach
<1>10. OneDispatchEach' /\ RunningIsDispatched'
  BY <1>3 DEF IInv, OneDispatchEach, RunningIsDispatched
<1>11. ContextIsOwn'
  <2>1. \A i \in DOMAIN stack : stack[i].held => stack[i].reply \in DOMAIN handles
    BY DEF TypeOK
  <2> QED BY <1>1, <2>1 DEF IInv, ContextIsOwn
<1> QED BY <1>2, <1>6, <1>7, <1>8, <1>9, <1>10, <1>11

\* The end of a handler.  r is its call with what the return or the throw
\* answers, and the handle it may hold is settled only if that answered.
LEMMA EndKeeps ==
    ASSUME TypeOK, IInv, InDispatch, NEW answered \in [Calls -> Call], EndHandler(answered),
           \A c \in Calls : c # Current.of => answered[c] = call[c],
           LET r == answered[Current.of]
           IN  /\ r.wantsReply = call[Current.of].wantsReply
               /\ r.local = call[Current.of].local
               /\ r.replies <= 1
               /\ ~r.wantsReply => r.replies = 0
               /\ ~Current.held /\ r.wantsReply => r.replies = 1
               /\ Current.held => (handles'[Current.reply].settled /\ r.wantsReply
                                      <=> r.replies = 1),
           DOMAIN handles' = DOMAIN handles,
           \A h \in DOMAIN handles :
              /\ handles'[h].of = handles[h].of
              /\ ~Current.held \/ h # Current.reply => handles'[h].settled = handles[h].settled
    PROVE  IInv'
<1> PICK c0 \in Calls : c0 = Current.of
  BY CurrentType DEF Dispatch
<1> DEFINE r == answered[c0]
<1>1. /\ c0 = stack[1].of /\ call[c0].state = "running" /\ 1 \in DOMAIN stack
      /\ call[c0] \in Call /\ r \in Call /\ CallInv(c0)
  <2>1. 1 \in DOMAIN stack /\ Current = stack[1]
    BY CurrentType
  <2>2. DispatchInv(1) /\ CallInv(c0)
    BY <2>1 DEF IInv
  <2>3. call[c0] \in Call /\ r \in Call
    BY DEF TypeOK
  <2> QED BY <2>1, <2>2, <2>3 DEF DispatchInv
<1>2. /\ call' \in [Calls -> Call]
      /\ call'[c0] \in Call /\ call'[c0].state = "finished"
      /\ call'[c0].wantsReply = call[c0].wantsReply /\ call'[c0].local = call[c0].local
      /\ call'[c0].replies = IF r.local /\ r.replies = 0 THEN 1 ELSE r.replies
      /\ \A c \in Calls : c # c0 => call'[c] = call[c]
  <2>1. call' = [answered EXCEPT ![c0] = Finished(r)]
    BY DEF EndHandler
  <2>2. Finished(r) \in Call
    BY <1>1, CallOperators
  <2> HIDE DEF r
  <2>3. call' \in [Calls -> Call] /\ call'[c0] = Finished(r)
    BY <1>1, <2>1, <2>2
  <2>4. \A c \in Calls : c # c0 => call'[c] = call[c]
    BY <2>1
  <2> QED BY <1>1, <2>3, <2>4, CallOperators DEF r
<1>3. /\ stack' = Tail(stack) /\ DOMAIN stack = 1 .. Len(stack) /\ Len(stack) \in Nat
      /\ DOMAIN stack' = 1 .. Len(stack) - 1
      /\ \A i \in DOMAIN stack' : i + 1 \in DOMAIN stack /\ stack'[i] = stack[i + 1]
  BY CurrentType, ElementTypes DEF EndHandler
<1>4. \A i \in DOMAIN stack' : stack'[i].of \in Calls /\ stack'[i].of # c0
  <2> SUFFICES ASSUME NEW i \in DOMAIN stack' PROVE stack'[i].of \in Calls /\ stack'[i].of # c0
    OBVIOUS
  <2>1. i + 1 \in DOMAIN stack /\ i + 1 # 1 /\ stack'[i] = stack[i + 1]
    BY <1>3
  <2>2. stack[i + 1] \in Dispatch
    BY <2>1, ElementTypes
  <2> QED BY <1>1, <2>1, <2>2 DEF IInv, OneDispatchEach, Dispatch
<1>5. Current.held => Current.reply \in DOMAIN handles /\ handles[Current.reply].of = c0
  <2>1. 1 \in DOMAIN stack /\ Current = stack[1]
    BY CurrentType
  <2>2. Current.held => Current.reply \in DOMAIN handles
    BY <2>1 DEF TypeOK
  <2> QED BY <2>1, <2>2 DEF IInv, ContextIsOwn
<1>6. \A h \in DOMAIN handles :
         handles[h].of \in Calls /\ (handles[h].of = c0 => Current.held /\ h = Current.reply)
  <2>1. \A h \in DOMAIN handles : handles[h].of \in Calls
    BY ElementTypes DEF HeldReply
  <2>2. ASSUME NEW h \in DOMAIN handles, handles[h].of = c0 PROVE Current.held
    BY <1>1, <2>2, CurrentType DEF IInv, ContextIsOwn
  <2>3. ASSUME NEW h \in DOMAIN handles, handles[h].of = c0 PROVE h = Current.reply
    BY <1>5, <2>2, <2>3 DEF IInv, OneHandleEach
  <2> QED BY <2>1, <2>2, <2>3
<1>7. ASSUME NEW c \in Calls PROVE CallInv(c)'
  <2>1. CASE c = c0
    <3>1. ASSUME call'[c0].wantsReply, call'[c0].replies = 0
          PROVE  ~call'[c0].local /\ \E h \in Pending' : handles'[h].of = c0
      <4>1. ~r.local /\ r.replies = 0
        BY <1>2, <3>1
      <4>2. Current.held /\ ~handles'[Current.reply].settled
        BY <1>2, <3>1, <4>1
      <4>3. Current.reply \in Pending' /\ handles'[Current.reply].of = c0
        BY <1>5, <4>2 DEF Pending
      <4> QED BY <1>2, <4>1, <4>3
    <3>2. call'[c0].replies <= 1
      BY <1>2
    <3>3. /\ call'[c0].local => call'[c0].wantsReply
          /\ ~call'[c0].wantsReply => call'[c0].replies = 0
      BY <1>1, <1>2 DEF CallInv
    <3> QED BY <2>1, <3>1, <3>2, <3>3 DEF CallInv
  <2>2. CASE c # c0
    <3>1. \A h \in Pending : handles[h].of = c => h \in Pending' /\ handles'[h].of = c
      BY <1>5, <2>2 DEF Pending
    <3>2. CallInv(c) /\ call'[c] = call[c]
      BY <1>2, <2>2 DEF IInv
    <3> QED BY <3>1, <3>2 DEF CallInv
  <2> QED BY <2>1, <2>2
<1>8. ASSUME NEW h \in DOMAIN handles' PROVE HandleInv(h)'
  <2>1. h \in DOMAIN handles /\ handles'[h].of = handles[h].of /\ HandleInv(h)
    BY DEF IInv
  <2>2. CASE handles[h].of = c0
    <3>1. Current.held /\ h = Current.reply
      BY <1>6, <2>1, <2>2
    <3>2. call'[c0].state # "unsent"
      BY <1>2
    <3>3. ASSUME ~handles'[h].settled, Reaches(call'[c0]) PROVE call'[c0].replies = 0
      <4>1. ~call'[c0].local /\ call'[c0].wantsReply
        BY <1>2, <3>3 DEF Reaches
      <4>2. r.replies # 1
        BY <1>2, <3>1, <3>3, <4>1
      <4> QED BY <1>1, <1>2, <4>1, <4>2 DEF Call
    <3>4. ASSUME handles'[h].settled, call'[c0].wantsReply PROVE call'[c0].replies = 1
      BY <1>2, <3>1, <3>4
    <3> QED BY <2>1, <2>2, <3>2, <3>3, <3>4 DEF HandleInv
  <2>3. CASE handles[h].of # c0
    <3>1. handles'[h].settled = handles[h].settled
      <4>1. ~Current.held \/ h # Current.reply
        BY <1>5, <2>3
      <4> QED BY <2>1, <4>1
    <3>2. call'[handles[h].of] = call[handles[h].of]
      BY <1>2, <1>6, <2>1, <2>3
    <3> QED BY <2>1, <3>1, <3>2 DEF HandleInv
  <2> QED BY <2>2, <2>3
<1>9. ASSUME NEW i \in DOMAIN stack' PROVE DispatchInv(i)'
  <2>1. i + 1 \in DOMAIN stack /\ stack'[i] = stack[i + 1] /\ DispatchInv(i + 1)
    BY <1>3 DEF IInv
  <2>2. call'[stack'[i].of] = call[stack'[i].of]
    BY <1>2, <1>4
  <2> QED BY <2>1, <2>2 DEF DispatchInv
<1>10. OneHandleEach'
  BY DEF IInv, OneHandleEach
<1>11. OneDispatchEach'
  <2> SUFFICES ASSUME NEW i \in DOMAIN stack', NEW j \in DOMAIN stack',
                      stack'[i].of = stack'[j].of
               PROVE  i = j
    BY DEF OneDispatchEach
  <2>1. i + 1 = j + 1
    BY <1>3 DEF IInv, OneDispatchEach
  <2> QED BY <1>3, <2>1
<1>12. RunningIsDispatched'
  <2> SUFFICES ASSUME NEW c \in Calls, call'[c].state = "running"
               PROVE  \E i \in DOMAIN stack' : stack'[i].of = c
    BY DEF RunningIsDispatched
  <2>1. c # c0 /\ call[c].state = "running"
    BY <1>2
  <2>2. PICK i \in DOMAIN stack : stack[i].of = c
    BY <2>1 DEF IInv, RunningIsDispatched
  <2>3. i # 1
    BY <1>1, <2>1, <2>2
  <2>4. i - 1 \in DOMAIN stack' /\ stack'[i - 1] = stack[i]
    BY <1>3, <2>3
  <2> QED BY <2>2, <2>4
<1>13. LivingWhileRunning'
  BY DEF IInv, LivingWhileRunning, EndHandler
<1>14. GoneIsSettled'
  BY DEF IInv, LivingWhileRunning, GoneIsSettled, EndHandler
<1>15. ContextIsOwn'
  <2> SUFFICES ASSUME NEW i \in DOMAIN stack'
               PROVE  /\ stack'[i].held => handles'[stack'[i].reply].of = stack'[i].of
                      /\ ~stack'[i].held => \A h \in DOMAIN handles' : handles'[h].of # stack'[i].of
    BY DEF ContextIsOwn
  <2>1. i + 1 \in DOMAIN stack /\ stack'[i] = stack[i + 1]
    BY <1>3
  <2>2. stack[i + 1].held => stack[i + 1].reply \in DOMAIN handles
    BY <2>1 DEF TypeOK
  <2>3. /\ stack[i + 1].held => handles[stack[i + 1].reply].of = stack[i + 1].of
        /\ ~stack[i + 1].held => \A h \in DOMAIN handles : handles[h].of # stack[i + 1].of
    BY <2>1 DEF IInv, ContextIsOwn
  <2> QED BY <2>1, <2>2, <2>3
<1> QED BY <1>7, <1>8, <1>9, <1>10, <1>11, <1>12, <1>13, <1>14, <1>15 DEF IInv

\* The handler ends in one of four ways; an error goes to the handle if the
\* call is held, and to the caller if not.
LEMMA IInvHandlerEnds == TypeOK /\ IInv /\ HandlerEnds => IInv'
<1> SUFFICES ASSUME TypeOK, IInv, HandlerEnds PROVE IInv'
  OBVIOUS
<1>1. InDispatch
  BY DEF HandlerEnds, ReturnHeld, ReturnUnheld, ThrowHeld, ThrowUnheld
<1> PICK c0 \in Calls : c0 = Current.of
  BY <1>1, CurrentType DEF Dispatch
<1>2. /\ call \in [Calls -> Call] /\ call[c0] \in Call /\ call[c0].state = "running"
      /\ call[c0].replies <= 1 /\ (~call[c0].wantsReply => call[c0].replies = 0)
      /\ (~Current.held => call[c0].replies = 0)
  <2>1. 1 \in DOMAIN stack /\ Current = stack[1]
    BY <1>1, CurrentType
  <2> QED BY <2>1 DEF IInv, DispatchInv, CallInv, TypeOK
<1>3. Current.held => /\ Current.reply \in DOMAIN handles /\ handles[Current.reply].of = c0
                      /\ HandleInv(Current.reply)
  <2>1. 1 \in DOMAIN stack /\ Current = stack[1]
    BY <1>1, CurrentType
  <2>2. Current.held => Current.reply \in DOMAIN handles
    BY <2>1 DEF TypeOK
  <2> QED BY <2>1, <2>2 DEF IInv, ContextIsOwn
<1>4. CASE ReturnHeld
  <2>1. handles[Current.reply].settled /\ call[c0].wantsReply <=> call[c0].replies = 1
    BY <1>2, <1>3, <1>4 DEF ReturnHeld, HandleInv, Reaches, Call
  <2> QED BY <1>1, <1>2, <1>4, <2>1, EndKeeps DEF ReturnHeld
<1>5. CASE ReturnUnheld \/ ThrowUnheld
  <2> DEFINE answered == [call EXCEPT ![c0] = Replied(@, 1)]
  <2>1. ~Current.held /\ EndHandler(answered) /\ UNCHANGED handles
    BY <1>5 DEF ReturnUnheld, ThrowUnheld
  <2>2. /\ answered \in [Calls -> Call] /\ answered[c0] = Replied(call[c0], 1)
        /\ \A c \in Calls : c # c0 => answered[c] = call[c]
    BY <1>2, CallOperators
  <2>3. /\ answered[c0].wantsReply = call[c0].wantsReply
        /\ answered[c0].local = call[c0].local
        /\ answered[c0].replies = IF call[c0].wantsReply THEN 1 ELSE 0
    <3>1. Reaches(call[c0]) <=> call[c0].wantsReply
      BY <1>2 DEF Reaches
    <3> QED BY <1>2, <2>1, <2>2, <3>1, CallOperators
  <2> HIDE DEF answered
  <2> QED BY <1>1, <2>1, <2>2, <2>3, EndKeeps
<1>6. CASE ThrowHeld
  <2> DEFINE answered == RepliedBy({Current.reply})
  <2>1. Current.held /\ EndHandler(answered) /\ handles' = Settled({Current.reply})
    BY <1>6 DEF ThrowHeld
  <2>2. answered \in [Calls -> Call]
    BY RepliedByType
  <2>3. \A c \in Calls : c # c0 => answered[c] = call[c]
    BY <1>3, <2>1, AnsweredBy
  <2>4. /\ answered[c0].wantsReply = call[c0].wantsReply
        /\ answered[c0].local = call[c0].local
        /\ answered[c0].replies = IF call[c0].wantsReply THEN 1 ELSE 0
    <3>1. Reaches(call[c0]) <=> call[c0].wantsReply
      BY <1>2 DEF Reaches
    <3>2. CASE Current.reply \in Pending
      <4>1. /\ answered[c0].wantsReply = call[c0].wantsReply
            /\ answered[c0].local = call[c0].local
            /\ Reaches(call[c0]) => answered[c0].replies = 1
            /\ ~Reaches(call[c0]) => answered[c0] = call[c0]
        BY <1>3, <2>1, <3>2, AnsweredBy
      <4> QED BY <1>2, <3>1, <4>1
    <3>3. CASE Current.reply \notin Pending
      <4>1. answered[c0] = call[c0]
        BY <3>3, AnsweredBy
      <4>2. handles[Current.reply].settled
        BY <1>3, <2>1, <3>3 DEF Pending
      <4> QED BY <1>2, <1>3, <2>1, <4>1, <4>2 DEF HandleInv
    <3> QED BY <3>2, <3>3
  <2>5. /\ DOMAIN handles' = DOMAIN handles
        /\ handles'[Current.reply].settled
        /\ \A h \in DOMAIN handles :
              /\ handles'[h].of = handles[h].of
              /\ h # Current.reply => handles'[h].settled = handles[h].settled
    <3>1. \A h \in DOMAIN handles :
             handles[h].settled \in BOOLEAN /\ handles'[h].settled \in BOOLEAN
      <4>1. handles' \in Seq(HeldReply) /\ DOMAIN handles' = DOMAIN handles
        BY <2>1, SettledType
      <4>2. \A h \in DOMAIN handles : handles'[h] \in HeldReply
        BY <4>1, LenProperties
      <4> QED BY <4>2, ElementTypes DEF HeldReply
    <3>2. PICK k : k = Current.reply
      OBVIOUS
    <3>3. /\ DOMAIN handles' = DOMAIN handles
          /\ \A h \in DOMAIN handles :
                /\ handles'[h].of = handles[h].of
                /\ handles'[h].settled <=> handles[h].settled \/ h \in {k}
      BY <2>1, <3>2, SettledType
    <3>4. k \in DOMAIN handles
      BY <1>3, <2>1, <3>2
    <3> QED BY <3>1, <3>2, <3>3, <3>4
  <2> HIDE DEF answered
  <2>6. /\ answered[c0].replies <= 1
        /\ ~answered[c0].wantsReply => answered[c0].replies = 0
        /\ handles'[Current.reply].settled /\ answered[c0].wantsReply <=> answered[c0].replies = 1
    BY <2>4, <2>5
  <2> QED BY <1>1, <2>1, <2>2, <2>3, <2>4, <2>5, <2>6, EndKeeps
<1> QED BY <1>4, <1>5, <1>6 DEF HandlerEnds

\* A call that arrives was unknown: it has no handle and no dispatch.
LEMMA Unknown ==
    ASSUME TypeOK, IInv, NEW c \in Calls, call[c].state = "unsent"
    PROVE  /\ \A h \in DOMAIN handles : handles[h].of \in Calls /\ handles[h].of # c
           /\ \A i \in DOMAIN stack : stack[i].of \in Calls /\ stack[i].of # c
<1>1. \A h \in DOMAIN handles : handles[h].of \in Calls /\ handles[h].of # c
  BY ElementTypes DEF IInv, HandleInv, HeldReply
<1>2. \A i \in DOMAIN stack : stack[i].of \in Calls /\ stack[i].of # c
  BY ElementTypes DEF IInv, DispatchInv, Dispatch
<1> QED BY <1>1, <1>2

\* So its arrival concerns no handle, no dispatch in progress and no other call.
LEMMA ArrivalKeeps ==
    ASSUME TypeOK, IInv, NEW c \in Calls, call[c].state = "unsent",
           NEW k \in Call, call' = [call EXCEPT ![c] = k], UNCHANGED <<handles, adaptor, engine>>,
           k.local => k.wantsReply, k.replies <= 1, ~k.wantsReply => k.replies = 0,
           k.state = "finished" /\ k.wantsReply => k.replies = 1
    PROVE  /\ \A d \in Calls : CallInv(d)' /\ (d # c => call'[d] = call[d])
           /\ call'[c] = k
           /\ \A h \in DOMAIN handles' : HandleInv(h)'
           /\ \A i \in DOMAIN stack : call'[stack[i].of] = call[stack[i].of]
           /\ OneHandleEach' /\ GoneIsSettled'
<1>1. call \in [Calls -> Call]
  BY DEF TypeOK
<1>2. call'[c] = k /\ \A d \in Calls : d # c => call'[d] = call[d]
  BY <1>1
<1>3. ASSUME NEW d \in Calls PROVE CallInv(d)'
  <2>1. CASE d = c
    BY <1>2, <2>1 DEF CallInv, Call
  <2>2. CASE d # c
    BY <1>2, <2>2 DEF IInv, CallInv, Pending
  <2> QED BY <2>1, <2>2
<1>4. ASSUME NEW h \in DOMAIN handles' PROVE HandleInv(h)'
  BY <1>2, Unknown DEF IInv, HandleInv
<1>5. \A i \in DOMAIN stack : call'[stack[i].of] = call[stack[i].of]
  BY <1>2, Unknown
<1>6. OneHandleEach' /\ GoneIsSettled'
  BY DEF IInv, OneHandleEach, GoneIsSettled, Pending
<1> QED BY <1>2, <1>3, <1>4, <1>5, <1>6

LEMMA IInvDeliver == TypeOK /\ IInv /\ Deliver => IInv'
<1> SUFFICES ASSUME TypeOK, IInv, NEW c \in Calls, NEW local \in BOOLEAN,
                    NEW wantsReply \in BOOLEAN,
                    Answered(c, local, wantsReply) \/ StartHandler(c, local, wantsReply)
             PROVE  IInv'
  BY DEF Deliver
<1>1. call[c].state = "unsent" /\ adaptor = "attached" /\ (local => wantsReply)
  BY DEF Answered, StartHandler, Deliverable
<1> DEFINE k == Arrived("running", wantsReply, local)
<1>2. /\ k \in Call /\ k.state = "running" /\ k.local = local /\ k.wantsReply = wantsReply
      /\ k.replies = 0
  BY ArrivedType DEF Arrived
<1> HIDE DEF k
<1>3. CASE Answered(c, local, wantsReply)
  <2> DEFINE f == Finished(Replied(k, 1))
  <2>1. Reaches(k) <=> wantsReply
    BY <1>2 DEF Reaches
  <2>2. /\ Replied(k, 1) \in Call /\ Replied(k, 1).wantsReply = wantsReply
        /\ Replied(k, 1).local = local
        /\ Replied(k, 1).replies = IF wantsReply THEN 1 ELSE 0
    BY <1>2, <2>1, CallOperators
  <2>3. /\ f \in Call /\ f.state = "finished" /\ f.wantsReply = wantsReply /\ f.local = local
        /\ f.replies = IF wantsReply THEN 1 ELSE 0
    BY <1>1, <2>2, CallOperators
  <2>4. call' = [call EXCEPT ![c] = f] /\ UNCHANGED <<stack, handles, adaptor, engine>>
    BY <1>3 DEF Answered, k
  <2> HIDE DEF f
  <2>5. /\ \A d \in Calls : CallInv(d)' /\ (d # c => call'[d] = call[d])
        /\ call'[c] = f
        /\ \A h \in DOMAIN handles' : HandleInv(h)'
        /\ \A i \in DOMAIN stack : call'[stack[i].of] = call[stack[i].of]
        /\ OneHandleEach' /\ GoneIsSettled'
    <3>1. /\ f.local => f.wantsReply
          /\ f.replies <= 1 /\ (~f.wantsReply => f.replies = 0)
          /\ (f.state = "finished" /\ f.wantsReply => f.replies = 1)
      BY <1>1, <2>3
    <3> QED BY <1>1, <2>3, <2>4, <3>1, ArrivalKeeps
  <2>6. \A i \in DOMAIN stack' : DispatchInv(i)'
    BY <2>4, <2>5 DEF IInv, DispatchInv
  <2>7. OneDispatchEach' /\ LivingWhileRunning' /\ ContextIsOwn'
    BY <2>4 DEF IInv, OneDispatchEach, LivingWhileRunning, InDispatch, ContextIsOwn
  <2>8. RunningIsDispatched'
    BY <2>3, <2>4, <2>5 DEF IInv, RunningIsDispatched
  <2> QED BY <2>5, <2>6, <2>7, <2>8 DEF IInv
<1>4. CASE StartHandler(c, local, wantsReply)
  <2>1. /\ call' = [call EXCEPT ![c] = k] /\ stack' = <<NewScope(c)>> \o stack
        /\ engine = "alive" /\ UNCHANGED <<handles, adaptor, engine>>
    BY <1>4 DEF StartHandler, k
  <2>2. /\ \A d \in Calls : CallInv(d)' /\ (d # c => call'[d] = call[d])
        /\ call'[c] = k
        /\ \A h \in DOMAIN handles' : HandleInv(h)'
        /\ \A i \in DOMAIN stack : call'[stack[i].of] = call[stack[i].of]
        /\ OneHandleEach' /\ GoneIsSettled'
    <3>1. /\ k.local => k.wantsReply
          /\ k.replies <= 1 /\ (~k.wantsReply => k.replies = 0)
          /\ (k.state = "finished" /\ k.wantsReply => k.replies = 1)
      BY <1>1, <1>2
    <3> QED BY <1>1, <1>2, <2>1, <3>1, ArrivalKeeps
  <2>3. NewScope(c) \in Dispatch /\ NewScope(c).of = c /\ ~NewScope(c).held
    BY DEF NewScope, Dispatch
  <2>4. /\ 1 \in DOMAIN stack' /\ stack'[1] = NewScope(c)
        /\ \A i \in DOMAIN stack : i + 1 \in DOMAIN stack' /\ stack'[i + 1] = stack[i]
        /\ \A j \in DOMAIN stack' :
              /\ j \in Nat
              /\ j = 1 \/ (j - 1 \in DOMAIN stack /\ stack'[j] = stack[j - 1])
    BY <2>1, <2>3, PushType, ElementTypes DEF TypeOK
  <2>5. ASSUME NEW j \in DOMAIN stack' PROVE DispatchInv(j)'
    <3>1. CASE j = 1
      BY <1>2, <2>2, <2>3, <2>4, <3>1 DEF DispatchInv
    <3>2. CASE j # 1
      BY <2>2, <2>4, <3>2 DEF IInv, DispatchInv
    <3> QED BY <3>1, <3>2
  <2>6. OneDispatchEach'
    <3> SUFFICES ASSUME NEW i \in DOMAIN stack', NEW j \in DOMAIN stack',
                        stack'[i].of = stack'[j].of
                 PROVE  i = j
      BY DEF OneDispatchEach
    <3>1. CASE i = 1
      BY <1>1, <2>3, <2>4, <3>1, Unknown
    <3>2. CASE j = 1
      BY <1>1, <2>3, <2>4, <3>2, Unknown
    <3>3. CASE i # 1 /\ j # 1
      <4>1. i - 1 = j - 1
        BY <2>4, <3>3 DEF IInv, OneDispatchEach
      <4> QED BY <2>4, <4>1
    <3> QED BY <3>1, <3>2, <3>3
  <2>7. RunningIsDispatched'
    <3> SUFFICES ASSUME NEW d \in Calls, call'[d].state = "running"
                 PROVE  \E i \in DOMAIN stack' : stack'[i].of = d
      BY DEF RunningIsDispatched
    <3>1. CASE d = c
      BY <2>3, <2>4, <3>1
    <3>2. CASE d # c
      BY <2>2, <2>4, <3>2 DEF IInv, RunningIsDispatched
    <3> QED BY <3>1, <3>2
  <2>8. LivingWhileRunning'
    BY <1>1, <2>1 DEF LivingWhileRunning
  <2>9. ContextIsOwn'
    <3> SUFFICES ASSUME NEW j \in DOMAIN stack'
                 PROVE  /\ stack'[j].held => handles[stack'[j].reply].of = stack'[j].of
                        /\ ~stack'[j].held => \A h \in DOMAIN handles : handles[h].of # stack'[j].of
      BY <2>1 DEF ContextIsOwn
    <3>1. CASE j = 1
      BY <1>1, <2>3, <2>4, <3>1, Unknown
    <3>2. CASE j # 1
      BY <2>4, <3>2 DEF IInv, ContextIsOwn
    <3> QED BY <3>1, <3>2
  <2> QED BY <2>2, <2>5, <2>6, <2>7, <2>8, <2>9 DEF IInv
<1> QED BY <1>3, <1>4

\* holdReply(): the running call gets its one handle while it is unanswered.
LEMMA IInvHoldReply == TypeOK /\ IInv /\ (\E timeout \in BOOLEAN : HoldReply(timeout)) => IInv'
<1> SUFFICES ASSUME TypeOK, IInv, NEW timeout \in BOOLEAN, HoldReply(timeout) PROVE IInv'
  OBVIOUS
<1> PICK c0 \in Calls : c0 = Current.of
  BY CurrentType DEF HoldReply, Dispatch
<1> DEFINE n == Len(handles) + 1
           r == [of |-> c0, settled |-> FALSE, timer |-> timeout]
<1>1. /\ InDispatch /\ 1 \in DOMAIN stack /\ Current = stack[1] /\ Current \in Dispatch
      /\ ~Current.held /\ stack[1].of = c0
  BY CurrentType DEF HoldReply
<1>2. /\ call[c0].state = "running" /\ call[c0].replies = 0
      /\ \A h \in DOMAIN handles : handles[h].of # c0
  BY <1>1 DEF IInv, DispatchInv, ContextIsOwn
<1>3. UNCHANGED <<call, adaptor, engine>>
  BY DEF HoldReply
<1>4. /\ DOMAIN handles' = DOMAIN handles \cup {n} /\ n \notin DOMAIN handles
      /\ handles'[n] = r
      /\ \A h \in DOMAIN handles : handles'[h] = handles[h]
  <2>1. handles \in Seq(HeldReply) /\ handles' = Append(handles, r) /\ r \in HeldReply
    BY DEF HoldReply, TypeOK, HeldReply
  <2> HIDE DEF r, HeldReply
  <2>2. /\ handles' \in Seq(HeldReply) /\ Len(handles') = n /\ handles'[n] = r
        /\ \A h \in 1 .. Len(handles) : handles'[h] = handles[h]
    BY <2>1, AppendProperties
  <2>3. DOMAIN handles' = 1 .. n
    BY <2>2, LenProperties
  <2> QED BY <2>2, <2>3, ElementTypes
<1>5. /\ DOMAIN stack' = DOMAIN stack
      /\ stack'[1].held /\ stack'[1].of = c0 /\ stack'[1].reply = n
      /\ \A i \in DOMAIN stack : i # 1 => stack'[i] = stack[i]
  <2> DEFINE d == [[stack[1] EXCEPT !.held = TRUE] EXCEPT !.reply = n]
  <2>1. stack[1] \in Dispatch /\ n \in Nat
    BY <1>1, ElementTypes
  <2>2. d.of = stack[1].of /\ d.held /\ d.reply = n
    BY ONLY <2>1, HoldingType DEF d
  <2>3. stack' = [stack EXCEPT ![1] = d]
    BY DEF HoldReply
  <2> HIDE DEF d
  <2> QED BY <1>1, <2>2, <2>3
<1> HIDE DEF n
<1>6. r.of = c0 /\ ~r.settled
  OBVIOUS
<1> HIDE DEF r
<1>7. Pending' = Pending \cup {n}
  BY <1>4, <1>6 DEF Pending
<1>8. ASSUME NEW c \in Calls PROVE CallInv(c)'
  <2>1. \A h \in Pending : h \in Pending' /\ handles'[h].of = handles[h].of
    BY <1>4, <1>7 DEF Pending
  <2> QED BY <1>3, <2>1 DEF IInv, CallInv
<1>9. ASSUME NEW h \in DOMAIN handles' PROVE HandleInv(h)'
  <2>1. CASE h = n
    BY <1>2, <1>3, <1>4, <1>6, <2>1 DEF HandleInv
  <2>2. CASE h # n
    BY <1>3, <1>4, <2>2 DEF IInv, HandleInv
  <2> QED BY <2>1, <2>2
<1>10. ASSUME NEW i \in DOMAIN stack' PROVE DispatchInv(i)'
  <2>1. CASE i = 1
    BY <1>2, <1>3, <1>5, <2>1 DEF DispatchInv
  <2>2. CASE i # 1
    BY <1>3, <1>5, <2>2 DEF IInv, DispatchInv
  <2> QED BY <2>1, <2>2
<1>11. OneHandleEach'
  BY <1>2, <1>4, <1>6 DEF IInv, OneHandleEach
<1>12. \A i \in DOMAIN stack : stack'[i].of = stack[i].of
  BY <1>1, <1>5
<1>13. OneDispatchEach' /\ RunningIsDispatched'
  BY <1>3, <1>5, <1>12 DEF IInv, OneDispatchEach, RunningIsDispatched
<1>14. LivingWhileRunning' /\ GoneIsSettled'
  BY <1>1, <1>3 DEF IInv, LivingWhileRunning, GoneIsSettled
<1>15. ContextIsOwn'
  <2> SUFFICES ASSUME NEW i \in DOMAIN stack'
               PROVE  /\ stack'[i].held => handles'[stack'[i].reply].of = stack'[i].of
                      /\ ~stack'[i].held => \A h \in DOMAIN handles' : handles'[h].of # stack'[i].of
    BY DEF ContextIsOwn
  <2>1. CASE i = 1
    BY <1>4, <1>5, <1>6, <2>1
  <2>2. CASE i # 1
    <3>1. i \in DOMAIN stack /\ stack'[i] = stack[i] /\ stack[i].of # c0
      BY <1>1, <1>5, <2>2 DEF IInv, OneDispatchEach
    <3>2. stack[i].held => stack[i].reply \in DOMAIN handles
      BY <3>1 DEF TypeOK
    <3>3. /\ stack[i].held => handles[stack[i].reply].of = stack[i].of
          /\ ~stack[i].held => \A h \in DOMAIN handles : handles[h].of # stack[i].of
      BY <3>1 DEF IInv, ContextIsOwn
    <3> QED BY <1>4, <1>6, <3>1, <3>2, <3>3
  <2> QED BY <2>1, <2>2
<1> QED BY <1>8, <1>9, <1>10, <1>11, <1>13, <1>14, <1>15 DEF IInv

LEMMA IInvNext == TypeOK /\ IInv /\ [Next]_vars => IInv'
<1> SUFFICES ASSUME TypeOK, IInv, [Next]_vars PROVE IInv'
  OBVIOUS
<1>1. ASSUME NEW h \in DOMAIN handles, Send(h) \/ Expire(h) PROVE IInv'
  <2>1. /\ call' = RepliedBy({h}) /\ handles' = Settled({h})
        /\ UNCHANGED <<stack, adaptor, engine>>
    BY <1>1 DEF Send, Expire
  <2>2. LivingWhileRunning' /\ (Pending' = Pending \ {h} => GoneIsSettled')
    BY <2>1 DEF IInv, LivingWhileRunning, GoneIsSettled, InDispatch
  <2> QED BY <2>1, <2>2, RepliesKeep DEF IInv
<1>2. CASE Unregister \/ Destroy \/ EngineTail
  <2>1. /\ call' = RepliedBy(Pending) /\ handles' = Settled(Pending) /\ UNCHANGED stack
    BY <1>2 DEF Unregister, Destroy, EngineTail, ErrorPending
  <2>2. LivingWhileRunning'
    BY <1>2 DEF IInv, LivingWhileRunning, InDispatch, Unregister, Destroy, EngineTail
  <2>3. Pending' = Pending \ Pending => GoneIsSettled'
    BY DEF GoneIsSettled
  <2> QED BY <2>1, <2>2, <2>3, RepliesKeep DEF IInv
<1>3. CASE EngineGoes
  <2>1. ~InDispatch /\ engine = "alive" /\ engine' = "tail posted"
        /\ UNCHANGED <<call, stack, handles, adaptor>>
    BY <1>3 DEF EngineGoes
  <2>2. LivingWhileRunning' /\ GoneIsSettled'
    BY <2>1 DEF IInv, LivingWhileRunning, GoneIsSettled, InDispatch, Pending
  <2>3. /\ \A c \in Calls : CallInv(c)'
        /\ \A h \in DOMAIN handles' : HandleInv(h)'
        /\ \A i \in DOMAIN stack' : DispatchInv(i)'
    BY <2>1 DEF IInv, CallInv, HandleInv, DispatchInv, Pending
  <2>4. OneHandleEach' /\ OneDispatchEach' /\ RunningIsDispatched' /\ ContextIsOwn'
    BY <2>1 DEF IInv, OneHandleEach, OneDispatchEach, RunningIsDispatched, ContextIsOwn
  <2> QED BY <2>2, <2>3, <2>4 DEF IInv
<1>4. CASE UNCHANGED vars
  BY <1>4 DEF vars, IInv, CallInv, HandleInv, DispatchInv, OneHandleEach, OneDispatchEach,
              RunningIsDispatched, LivingWhileRunning, GoneIsSettled, InDispatch, ContextIsOwn, Pending
<1> QED BY <1>1, <1>2, <1>3, <1>4, IInvDeliver, IInvHoldReply, IInvHandlerEnds DEF Next

LEMMA Invariant == Spec => [](TypeOK /\ IInv)
BY TypeInit, TypeNext, IInvInit, IInvNext, PTL DEF Spec

\* Whatever nests, a dispatch holds a handle of its own call and no other's.
THEOREM ContextNeverMixed == Spec => []ContextIsOwn
<1>1. IInv => ContextIsOwn
  BY DEF IInv
<1> QED BY <1>1, Invariant, PTL

\* No caller is left with nobody to answer it: not by a return after
\* holdReply(), not by the end of the adaptor or of the engine.
THEOREM NobodyIsForgotten == Spec => []NobodyForgotten
<1>1. TypeOK /\ IInv => NobodyForgotten
  BY DEF IInv, CallInv, GoneIsSettled, NobodyForgotten
<1> QED BY <1>1, Invariant, PTL

-----------------------------------------------------------------------------
(* The refinement.                                                         *)

LEMMA CallerValues ==
    TypeOK /\ IInv => \A c \in Calls :
        CallerOf(c) = IF call[c].state = "unsent" THEN "idle"
                      ELSE IF ~call[c].wantsReply THEN "oneway"
                      ELSE IF call[c].replies = 0 THEN "waiting" ELSE "answered"
<1> SUFFICES ASSUME TypeOK, IInv, NEW c \in Calls
             PROVE  CallerOf(c) = IF call[c].state = "unsent" THEN "idle"
                                  ELSE IF ~call[c].wantsReply THEN "oneway"
                                  ELSE IF call[c].replies = 0 THEN "waiting" ELSE "answered"
  OBVIOUS
<1>1. /\ call[c].wantsReply \in BOOLEAN /\ call[c].replies \in {0, 1}
      /\ ~call[c].wantsReply => call[c].replies = 0
  <2>1. call[c] \in Call /\ call[c].replies <= 1 /\ (~call[c].wantsReply => call[c].replies = 0)
    BY DEF TypeOK, IInv, CallInv
  <2> QED BY <2>1 DEF Call
<1>2. CASE call[c].state = "unsent"
  BY <1>2 DEF CallerOf
<1>3. CASE call[c].state # "unsent" /\ ~call[c].wantsReply
  BY <1>1, <1>3 DEF CallerOf
<1>4. CASE call[c].state # "unsent" /\ call[c].wantsReply
  <2>1. CallerOf(c) = <<"waiting", "answered", "answered twice">>[call[c].replies + 1]
    BY <1>4 DEF CallerOf
  <2>2. CASE call[c].replies = 0
    <3>1. CallerOf(c) = "waiting"
      BY <2>1, <2>2
    <3> QED BY <1>4, <2>2, <3>1
  <2>3. CASE call[c].replies = 1
    <3>1. CallerOf(c) = "answered"
      BY <2>1, <2>3
    <3> QED BY <1>4, <2>3, <3>1
  <2> QED BY <1>1, <2>2, <2>3
<1> QED BY <1>1, <1>2, <1>3, <1>4

\* What a step may not do to a call: send it again, forget whether it wants
\* a reply, or take a reply back.
Kept(d) ==
    /\ call'[d].state = "unsent" <=> call[d].state = "unsent"
    /\ call'[d].wantsReply = call[d].wantsReply
    /\ call'[d].replies >= call[d].replies

Arrives(c) ==
    /\ call[c].state = "unsent" /\ call'[c].state # "unsent"
    /\ \A d \in Calls \ {c} : call'[d] = call[d]

\* At most one call arrives in a step, and then the others do not change.
LEMMA StepOfCalls ==
    ASSUME TypeOK, IInv, [Next]_vars
    PROVE  (\A d \in Calls : Kept(d)) \/ (\E c \in Calls : Arrives(c))
<1>1. call \in [Calls -> Call]
  BY DEF TypeOK
<1>2. UNCHANGED call => \A d \in Calls : Kept(d)
  BY <1>1 DEF Call, Kept
<1>3. ASSUME NEW hs, call' = RepliedBy(hs) PROVE \A d \in Calls : Kept(d)
  <2> SUFFICES ASSUME NEW d \in Calls PROVE Kept(d)
    OBVIOUS
  <2> QED BY <1>3, AnsweredBy DEF Kept
<1>4. ASSUME HandlerEnds PROVE \A d \in Calls : Kept(d)
  <2>1. InDispatch
    BY <1>4 DEF HandlerEnds, ReturnHeld, ReturnUnheld, ThrowHeld, ThrowUnheld
  <2>2. PICK c0 \in Calls : c0 = Current.of
    BY <2>1, CurrentType DEF Dispatch
  <2>3. call[c0].state = "running" /\ call[c0] \in Call
    <3>1. 1 \in DOMAIN stack /\ Current = stack[1]
      BY <2>1, CurrentType
    <3> QED BY <1>1, <2>2, <3>1 DEF IInv, DispatchInv
  <2>4. PICK answered \in [Calls -> Call] :
           /\ call' = [answered EXCEPT ![c0] = Finished(@)]
           /\ \A d \in Calls : /\ answered[d].state = call[d].state
                               /\ answered[d].wantsReply = call[d].wantsReply
                               /\ answered[d].replies >= call[d].replies
    <3>1. CASE ReturnHeld
      <4>1. call' = [call EXCEPT ![c0] = Finished(@)]
        BY <2>2, <3>1 DEF ReturnHeld, EndHandler
      <4>2. \A d \in Calls : call[d].replies >= call[d].replies
        BY <1>1 DEF Call
      <4> QED BY <1>1, <4>1, <4>2
    <3>2. CASE ReturnUnheld \/ ThrowUnheld
      <4> DEFINE answered == [call EXCEPT ![c0] = Replied(@, 1)]
      <4>1. call' = [answered EXCEPT ![c0] = Finished(@)]
        BY <2>2, <3>2 DEF ReturnUnheld, ThrowUnheld, EndHandler
      <4>2. \A d \in Calls : answered[d] = IF d = c0 THEN Replied(call[c0], 1) ELSE call[d]
        BY <1>1
      <4>3. answered \in [Calls -> Call]
        BY <1>1, <2>3, CallOperators
      <4>4. ASSUME NEW d \in Calls
            PROVE  /\ answered[d].state = call[d].state
                   /\ answered[d].wantsReply = call[d].wantsReply
                   /\ answered[d].replies >= call[d].replies
        <5>1. call[d] \in Call
          BY <1>1
        <5> HIDE DEF answered
        <5>2. CASE d = c0
          BY <2>3, <4>2, <5>2, CallOperators
        <5>3. CASE d # c0
          BY <4>2, <5>1, <5>3 DEF Call
        <5> QED BY <5>2, <5>3
      <4> HIDE DEF answered
      <4> QED BY <4>1, <4>3, <4>4
    <3>3. CASE ThrowHeld
      <4>1. RepliedBy({Current.reply}) \in [Calls -> Call]
        BY RepliedByType
      <4>2. call' = [RepliedBy({Current.reply}) EXCEPT ![c0] = Finished(@)]
        BY <2>2, <3>3 DEF ThrowHeld, EndHandler
      <4> QED BY <4>1, <4>2, AnsweredBy
    <3> QED BY <1>4, <3>1, <3>2, <3>3 DEF HandlerEnds
  <2>5. \A d \in Calls : call'[d] = IF d = c0 THEN Finished(answered[c0]) ELSE answered[d]
    BY <2>4
  <2>6. Kept(c0)
    <3>1. answered[c0] \in Call
      BY <2>4
    <3>2. Finished(answered[c0]).replies >= answered[c0].replies
      BY <3>1, CallOperators DEF Call
    <3>3. Finished(answered[c0]) \in Call
      BY <3>1, CallOperators
    <3> QED BY <2>3, <2>4, <2>5, <3>1, <3>2, <3>3, CallOperators DEF Call, Kept
  <2> QED BY <2>4, <2>5, <2>6 DEF Kept
<1>5. ASSUME Deliver PROVE \E c \in Calls : Arrives(c)
  <2> PICK c \in Calls, local \in BOOLEAN, wantsReply \in BOOLEAN :
               Answered(c, local, wantsReply) \/ StartHandler(c, local, wantsReply)
    BY <1>5 DEF Deliver
  <2>1. call[c].state = "unsent"
    BY DEF Answered, StartHandler, Deliverable
  <2> DEFINE k == Arrived("running", wantsReply, local)
             f == Finished(Replied(k, 1))
  <2>2. k \in Call /\ k.state = "running"
    BY ArrivedType DEF Arrived
  <2> HIDE DEF k
  <2>3. f.state = "finished"
    BY <2>2, CallOperators
  <2>4. call' = [call EXCEPT ![c] = k] \/ call' = [call EXCEPT ![c] = f]
    BY DEF Answered, StartHandler, k
  <2>5. call'[c].state # "unsent"
    BY <1>1, <2>2, <2>3, <2>4
  <2>6. \A d \in Calls : d # c => call'[d] = call[d] /\ call[d] \in Call
    BY <1>1, <2>4
  <2> QED BY <2>1, <2>5, <2>6 DEF Arrives
<1>6. ASSUME NEW h \in DOMAIN handles, Send(h) \/ Expire(h) PROVE \A d \in Calls : Kept(d)
  BY <1>3, <1>6 DEF Send, Expire
<1>7. ASSUME Unregister \/ Destroy \/ EngineTail PROVE \A d \in Calls : Kept(d)
  BY <1>3, <1>7 DEF Unregister, Destroy, EngineTail, ErrorPending
<1>8. ASSUME EngineGoes \/ (\E timeout \in BOOLEAN : HoldReply(timeout)) \/ UNCHANGED vars
      PROVE  \A d \in Calls : Kept(d)
  BY <1>2, <1>8 DEF EngineGoes, HoldReply, vars
<1> QED BY <1>4, <1>5, <1>6, <1>7, <1>8 DEF Next

LEMMA PromiseInit == TypeOK /\ IInv /\ Init => Promise!Init
<1> SUFFICES ASSUME TypeOK, IInv, Init PROVE Promise!Init
  OBVIOUS
<1>1. \A c \in Calls : call[c].state = "unsent"
  BY DEF Init, Arrived
<1>2. \A c \in Calls : CallerOf(c) = "idle"
  BY <1>1, CallerValues
<1> QED BY <1>2 DEF Promise!Init

\* A call that arrives is an Ask; replies answer whoever was waiting and does
\* not wait any more, all at once; a step that answers nobody is a stutter.
LEMMA PromiseNext ==
    TypeOK /\ IInv /\ [Next]_vars /\ TypeOK' /\ IInv'
        => [Promise!Next]_([c \in Calls |-> CallerOf(c)])
<1> SUFFICES ASSUME TypeOK, IInv, [Next]_vars, TypeOK', IInv'
             PROVE  [Promise!Next]_([c \in Calls |-> CallerOf(c)])
  OBVIOUS
<1> DEFINE caller == [c \in Calls |-> CallerOf(c)]
           called == [c \in Calls |-> CallerOf(c)']
<1>1. caller' = called
  OBVIOUS
<1>2. \A c \in Calls :
         /\ caller[c] = IF call[c].state = "unsent" THEN "idle"
                        ELSE IF ~call[c].wantsReply THEN "oneway"
                        ELSE IF call[c].replies = 0 THEN "waiting" ELSE "answered"
         /\ call[c].replies \in {0, 1}
  <2>1. \A c \in Calls : call[c] \in Call /\ call[c].replies <= 1
    BY DEF TypeOK, IInv, CallInv
  <2>2. \A c \in Calls : call[c].replies \in {0, 1}
    BY <2>1 DEF Call
  <2> QED BY <2>2, CallerValues
<1>3. \A c \in Calls :
         /\ called[c] = IF call'[c].state = "unsent" THEN "idle"
                        ELSE IF ~call'[c].wantsReply THEN "oneway"
                        ELSE IF call'[c].replies = 0 THEN "waiting" ELSE "answered"
         /\ call'[c].replies \in {0, 1}
  <2>1. \A c \in Calls : call'[c] \in Call /\ call'[c].replies <= 1
    BY DEF TypeOK, IInv, CallInv
  <2>2. \A c \in Calls : call'[c].replies \in {0, 1}
    BY <2>1 DEF Call
  <2>3. (\A c \in Calls :
            CallerOf(c) = IF call[c].state = "unsent" THEN "idle"
                          ELSE IF ~call[c].wantsReply THEN "oneway"
                          ELSE IF call[c].replies = 0 THEN "waiting" ELSE "answered")'
    BY CallerValues, PTL
  <2> QED BY <2>2, <2>3
<1>4. /\ caller = [c \in Calls |-> caller[c]] /\ called = [c \in Calls |-> called[c]]
      /\ DOMAIN caller = Calls /\ DOMAIN called = Calls
  OBVIOUS
<1> HIDE DEF caller, called
<1>5. ASSUME NEW c \in Calls, Kept(c)
      PROVE  called[c] = caller[c] \/ (caller[c] = "waiting" /\ called[c] = "answered")
  BY <1>2, <1>3, <1>5 DEF Kept
<1>6. CASE \A c \in Calls : Kept(c)
  <2> DEFINE cs == {c \in Calls : called[c] # caller[c]}
  <2>1. /\ \A c \in cs : caller[c] = "waiting"
        /\ called = [c \in Calls |-> IF c \in cs THEN "answered" ELSE caller[c]]
    BY <1>4, <1>5, <1>6
  <2>2. CASE cs = {}
    BY <1>1, <1>4, <2>1, <2>2 DEF caller
  <2>3. CASE cs # {}
    <3>1. cs \in SUBSET Calls
      OBVIOUS
    <3> HIDE DEF cs
    <3>2. Promise!Answer(cs)
      BY <1>1, <2>1, <2>3 DEF Promise!Answer, caller
    <3> QED BY <3>1, <3>2 DEF Promise!Next
  <2> QED BY <2>2, <2>3
<1>7. ASSUME NEW c \in Calls, Arrives(c) PROVE Promise!Next
  <2>1. caller[c] = "idle" /\ called[c] \in {"waiting", "answered", "oneway"}
    BY <1>2, <1>3, <1>7 DEF Arrives
  <2>2. \A d \in Calls \ {c} : called[d] = caller[d]
    <3> SUFFICES ASSUME NEW d \in Calls \ {c} PROVE called[d] = caller[d]
      OBVIOUS
    <3>1. call'[d] = call[d]
      BY <1>7 DEF Arrives
    <3> QED BY <1>2, <1>3, <3>1
  <2>3. called = [caller EXCEPT ![c] = called[c]]
    BY <1>4, <2>2
  <2>4. Promise!Ask(c)
    BY <1>1, <2>1, <2>3 DEF Promise!Ask, caller
  <2> QED BY <2>4 DEF Promise!Next
<1> QED BY <1>6, <1>7, StepOfCalls

\* The adaptor keeps what a method caller is promised: one reply for each call
\* that asks for one, none for a call that asks for none, however the handler
\* returns, throws, holds, nests or loses its adaptor or engine on the way.
THEOREM EachCallAnsweredOnce == Spec => ImplementsOneReply
<1>1. Spec => Promise!Init /\ [][Promise!Next]_([c \in Calls |-> CallerOf(c)])
  BY TypeInit, IInvInit, PromiseInit, PromiseNext, Invariant, PTL DEF Spec
<1> QED BY <1>1, PTL DEF ImplementsOneReply, Promise!Spec
=============================================================================
