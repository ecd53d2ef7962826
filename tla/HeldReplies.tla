---------------------------- MODULE HeldReplies -----------------------------
(***************************************************************************)
(* How one adaptor answers method calls (src/dbusadaptor.cpp and           *)
(* src/dbusheldreply.cpp): in the delivery itself, by what the handler     *)
(* returns or throws, or later, through the handle the handler took with   *)
(* holdReply().  A handler may call methods of its own adaptor over the    *)
(* bus: QtDBus delivers those inside the handler, so dispatches nest.      *)
(*                                                                         *)
(* One thread runs it all; between two steps lies either the event loop    *)
(* (empty stack) or a point of a running handler.  A reply is counted when *)
(* it reaches its caller; success and error replies count alike.           *)
(*                                                                         *)
(* An operator named X_Y is a faulty variant of X that a run's mutant puts *)
(* in the place of X; no definition uses it.                               *)
(***************************************************************************)
EXTENDS Naturals, Sequences, FiniteSets

CONSTANTS Calls,      \* method calls, each sent once
          MaxNesting, \* bound on the dispatches in progress at once
          MaxHandles, \* bound on the handles made in a run
          NoHandle    \* the handle of a dispatch that holds none

ASSUME NoHandleAssumption == NoHandle \notin Nat
ASSUME BoundsAssumption == MaxNesting \in Nat /\ MaxHandles \in Nat

VARIABLES call,       \* each call as its caller sees it
          stack,      \* m_currentCall, then m_callStack: dispatches, inner first
          handles,    \* DBusHeldReply objects, in the order they were made
          adaptor,    \* attached, detached or destroyed
          engine      \* the QML engine: alive, gone with the tail posted, gone

vars == <<call, stack, handles, adaptor, engine>>

-----------------------------------------------------------------------------
(* Calls.  A local call is one this process makes on the adaptor's own     *)
(* connection: QtDBus wants its reply before the delivery returns.         *)

Call == [state : {"unsent", "running", "finished"}, wantsReply : BOOLEAN,
         local : BOOLEAN, replies : 0 .. 2]

Arrived(state, wantsReply, local) ==
    [state |-> state, wantsReply |-> wantsReply, local |-> local, replies |-> 0]

\* Would a reply sent now reach the caller?  Nobody reads a late local one.
Reaches(c) == c.wantsReply /\ ~(c.local /\ c.state = "finished")

\* The call after n replies are sent for it; a second one is as bad as a third.
Replied(c, n) == IF ~Reaches(c) THEN c
                 ELSE [c EXCEPT !.replies = IF @ + n > 2 THEN 2 ELSE @ + n]

\* The delivery of a local call returns: QtDBus answers in the place of an
\* adaptor that did not (external).
Finished(c) == LET f == [c EXCEPT !.state = "finished"] IN
               IF c.local /\ c.replies = 0 THEN [f EXCEPT !.replies = 1] ELSE f

-----------------------------------------------------------------------------
(* Dispatches and handles.                                                 *)

Dispatch == [of : Calls, held : BOOLEAN, reply : Nat \cup {NoHandle}]
HeldReply == [of : Calls, settled : BOOLEAN, timer : BOOLEAN]

InDispatch == stack # <<>>
Current == Head(stack)

Pending == {h \in DOMAIN handles : ~handles[h].settled}

TypeOK ==
    /\ call \in [Calls -> Call]
    /\ stack \in Seq(Dispatch) /\ Len(stack) <= MaxNesting
    /\ handles \in Seq(HeldReply) /\ Len(handles) <= MaxHandles
    /\ adaptor \in {"attached", "detached", "destroyed"}
    /\ engine \in {"alive", "tail posted", "gone"}
    /\ \A i \in DOMAIN stack : stack[i].held => stack[i].reply \in DOMAIN handles

Init ==
    /\ call = [c \in Calls |-> Arrived("unsent", FALSE, FALSE)]
    /\ stack = <<>>
    /\ handles = <<>>
    /\ adaptor = "attached"
    /\ engine = "alive"

\* settle(), for the handles in hs: stops the timer.
Settled(hs) == [h \in DOMAIN handles |->
    IF h \in hs THEN [handles[h] EXCEPT !.settled = TRUE, !.timer = FALSE] ELSE handles[h]]

\* send, sendError or expire on the handles in hs: settled ones ignore it.
RepliedBy(hs) ==
    [c \in Calls |-> Replied(call[c], Cardinality({h \in hs \cap Pending : handles[h].of = c}))]

-----------------------------------------------------------------------------
(* Deliveries.  QtDBus delivers a remote call from the event loop, a local *)
(* one from the handler that makes it.                                     *)

Deliverable(c, local) ==
    /\ call[c].state = "unsent"
    /\ adaptor = "attached"
    /\ local <=> InDispatch
    /\ Len(stack) < MaxNesting

\* A delivery that no QML handler runs for: a sender that is not allowed, a
\* body that does not decode, the Properties interface, a refused option, a
\* C++ method, which is outside the DispatchScope, or a call the adaptor
\* declines, for QtDBus to answer.
Answered(c, local, wantsReply) ==
    /\ Deliverable(c, local)
    /\ local => wantsReply
    /\ call' = [call EXCEPT ![c] = Finished(Replied(Arrived("running", wantsReply, local), 1))]
    /\ UNCHANGED <<stack, handles, adaptor, engine>>

\* DispatchScope: the handler starts with a context of its own.
NewScope_Inherits(c) ==
    IF InDispatch THEN [Current EXCEPT !.of = c] ELSE [of |-> c, held |-> FALSE, reply |-> NoHandle]
NewScope(c) == [of |-> c, held |-> FALSE, reply |-> NoHandle]

StartHandler(c, local, wantsReply) ==
    /\ Deliverable(c, local)
    /\ engine = "alive"
    /\ local => wantsReply
    /\ call' = [call EXCEPT ![c] = Arrived("running", wantsReply, local)]
    /\ stack' = <<NewScope(c)>> \o stack
    /\ UNCHANGED <<handles, adaptor, engine>>

-----------------------------------------------------------------------------
(* What a handler does.                                                    *)

\* holdReply(); a second call in one dispatch returns the same handle.  The
\* timer is armed when heldReplyTimeout is positive.
HoldReply_Unregistered(timeout) ==
    /\ InDispatch
    /\ ~Current.held
    /\ Len(handles) < MaxHandles
    /\ handles' = Append(handles, [of |-> Current.of, settled |-> FALSE, timer |-> timeout])
    /\ stack' = [stack EXCEPT ![1].held = TRUE]
    /\ UNCHANGED <<call, adaptor, engine>>
HoldReply(timeout) ==
    /\ InDispatch
    /\ ~Current.held
    /\ Len(handles) < MaxHandles
    /\ handles' = Append(handles, [of |-> Current.of, settled |-> FALSE, timer |-> timeout])
    /\ stack' = [stack EXCEPT ![1].held = TRUE, ![1].reply = Len(handles) + 1]
    /\ UNCHANGED <<call, adaptor, engine>>

\* The handler of the inner dispatch ends; the outer context is restored.
EndHandler(answered) ==
    /\ call' = [answered EXCEPT ![Current.of] = Finished(@)]
    /\ stack' = Tail(stack)
    /\ UNCHANGED <<adaptor, engine>>

\* It returns, with a value or none: a held call is left to its handle.
ReturnHeld ==
    /\ InDispatch
    /\ Current.held
    /\ EndHandler(call)
    /\ UNCHANGED handles

ReturnUnheld ==
    /\ InDispatch
    /\ ~Current.held
    /\ EndHandler([call EXCEPT ![Current.of] = Replied(@, 1)])
    /\ UNCHANGED handles

\* It throws; after holdReply() a bare string, number, bool or null counts
\* as thrown.  The error goes to the handle, else straight to the caller.
ThrowHeld_Directly ==
    /\ InDispatch
    /\ Current.held
    /\ EndHandler([call EXCEPT ![Current.of] = Replied(@, 1)])
    /\ UNCHANGED handles
ThrowHeld ==
    /\ InDispatch
    /\ Current.held
    /\ EndHandler(RepliedBy({Current.reply}))
    /\ handles' = Settled({Current.reply})

ThrowUnheld ==
    /\ InDispatch
    /\ ~Current.held
    /\ EndHandler([call EXCEPT ![Current.of] = Replied(@, 1)])
    /\ UNCHANGED handles

HandlerEnds == ReturnHeld \/ ReturnUnheld \/ ThrowHeld \/ ThrowUnheld

\* send() or sendError(), from any handler or from the event loop.
Send(h) ==
    /\ engine = "alive"
    /\ call' = RepliedBy({h})
    /\ handles' = Settled({h})
    /\ UNCHANGED <<stack, adaptor, engine>>

-----------------------------------------------------------------------------
(* Timers and the end of the adaptor.                                      *)

\* A timer fires from the event loop: "reply timed out".
Expire_WhileAttached(h) ==
    /\ ~InDispatch
    /\ handles[h].timer
    /\ adaptor = "attached"
    /\ call' = RepliedBy({h})
    /\ handles' = Settled({h})
    /\ UNCHANGED <<stack, adaptor, engine>>
Expire(h) ==
    /\ ~InDispatch
    /\ handles[h].timer
    /\ call' = RepliedBy({h})
    /\ handles' = Settled({h})
    /\ UNCHANGED <<stack, adaptor, engine>>

\* The tail of unregister(), of the destructor and of the engine's end:
\* every pending handle is settled with an error.
ErrorPending ==
    /\ call' = RepliedBy(Pending)
    /\ handles' = Settled(Pending)

\* unregister(), possibly from a handler.
Unregister ==
    /\ adaptor = "attached"
    /\ engine = "alive"
    /\ ErrorPending
    /\ adaptor' = "detached"
    /\ UNCHANGED <<stack, engine>>

\* Deletion is deferred past a dispatch.
Destroy_Silently ==
    /\ ~InDispatch
    /\ adaptor # "destroyed"
    /\ adaptor' = "destroyed"
    /\ handles' = Settled(Pending)
    /\ UNCHANGED <<call, stack, engine>>
Destroy ==
    /\ ~InDispatch
    /\ adaptor # "destroyed"
    /\ ErrorPending
    /\ adaptor' = "destroyed"
    /\ UNCHANGED <<stack, engine>>

\* The engine goes: the adaptor lives on, and the tail is queued.
EngineGoes ==
    /\ ~InDispatch
    /\ engine = "alive"
    /\ adaptor # "destroyed"
    /\ engine' = "tail posted"
    /\ UNCHANGED <<call, stack, handles, adaptor>>

EngineTail_Attached ==
    /\ ~InDispatch
    /\ engine = "tail posted"
    /\ IF adaptor = "attached" THEN ErrorPending ELSE UNCHANGED <<call, handles>>
    /\ adaptor' = IF adaptor = "attached" THEN "detached" ELSE adaptor
    /\ engine' = "gone"
    /\ UNCHANGED stack
EngineTail ==
    /\ ~InDispatch
    /\ engine = "tail posted"
    /\ adaptor # "destroyed"
    /\ ErrorPending
    /\ adaptor' = "detached"
    /\ engine' = "gone"
    /\ UNCHANGED stack

Deliver == \E c \in Calls, local, wantsReply \in BOOLEAN :
              Answered(c, local, wantsReply) \/ StartHandler(c, local, wantsReply)

Next == \/ Deliver
        \/ \E timeout \in BOOLEAN : HoldReply(timeout)
        \/ HandlerEnds
        \/ \E h \in DOMAIN handles : Send(h) \/ Expire(h)
        \/ Unregister \/ Destroy \/ EngineGoes \/ EngineTail

\* Handlers return; the event loop runs timers and what was posted to it.
Fairness ==
    /\ WF_vars(HandlerEnds)
    /\ WF_vars(EngineTail)
    /\ \A h \in 1 .. MaxHandles : WF_vars(h \in DOMAIN handles /\ Expire(h))

Spec == Init /\ [][Next]_vars /\ Fairness

-----------------------------------------------------------------------------
(* Properties.                                                             *)

CallerOf(c) ==
    CASE call[c].state = "unsent" -> "idle"
      [] call[c].state # "unsent" /\ ~call[c].wantsReply ->
            IF call[c].replies = 0 THEN "oneway" ELSE "answered unasked"
      [] OTHER -> <<"waiting", "answered", "answered twice">>[call[c].replies + 1]

Promise == INSTANCE OneReply WITH caller <- [c \in Calls |-> CallerOf(c)]

\* Exactly one reply per call, however the handler returns, throws, holds,
\* nests, lets a timer run out or loses its adaptor or engine on the way.
ImplementsOneReply == Promise!Spec

\* A caller that still waits when its handler is done is in somebody's hands:
\* a pending handle of a living adaptor, with the engine to use it or the
\* tail that will error it still to come.
NobodyForgotten ==
    \A c \in Calls :
        call[c].state = "finished" /\ call[c].wantsReply /\ call[c].replies = 0 =>
            /\ \E h \in Pending : handles[h].of = c
            /\ adaptor # "destroyed"
            /\ engine # "gone"

\* Whatever nests, a dispatch holds a handle of its own call and no other's.
ContextIsOwn ==
    \A i \in DOMAIN stack :
        /\ stack[i].held => handles[stack[i].reply].of = stack[i].of
        /\ ~stack[i].held => \A h \in DOMAIN handles : handles[h].of # stack[i].of

\* A handle with a timer is settled, by the timer at the latest.
TimedHoldEnds ==
    \A h \in 1 .. MaxHandles :
        (h \in DOMAIN handles /\ handles[h].timer) ~> (h \in DOMAIN handles /\ handles[h].settled)

\* Once the engine is gone, no caller waits for a handler's JavaScript.
TeardownAnswers ==
    (engine = "tail posted") ~> (\A c \in Calls : CallerOf(c) # "waiting")
=============================================================================
