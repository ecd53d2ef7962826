------------------------ MODULE PendingRepliesProofs ------------------------
(***************************************************************************)
(* Theorems about PendingReplies, for every number of calls, every set of  *)
(* property names and whatever the application connects: type correctness, *)
(* that the pointers a shared Get keeps are lost to nothing but the        *)
(* application, that a Get that can be joined has one answer to come, and  *)
(* that a reply is deleted only when it has settled and its receivers were *)
(* told.                                                                   *)
(***************************************************************************)
EXTENDS PendingReplies, EntriesProofs

-----------------------------------------------------------------------------
(* Replies.                                                                *)

LEMMA UnbornFields ==
    /\ Unborn \in Reply /\ Unborn.owner = "unborn" /\ Unborn.of = "proxy" /\ ~Unborn.promise
    /\ ~Unborn.settled /\ Unborn.receiver = "none" /\ Unborn.told = 0
BY DEF Unborn, Reply

LEMMA NewFields ==
    ASSUME NEW of \in {"proxy", "connection"}
    PROVE  /\ New(of) \in Reply /\ New(of).owner = "parent" /\ New(of).of = of
           /\ ~New(of).promise /\ ~New(of).settled /\ New(of).receiver = "none" /\ New(of).told = 0
BY DEF New, Unborn, Reply

LEMMA PromiseFields ==
    /\ PromiseReply \in Reply /\ PromiseReply.owner = "parent" /\ PromiseReply.of = "connection"
    /\ PromiseReply.promise /\ ~PromiseReply.settled /\ PromiseReply.receiver = "promise"
    /\ PromiseReply.told = 0
<1> DEFINE d == New("connection")
<1>1. d \in Reply /\ d.owner = "parent" /\ d.of = "connection" /\ ~d.settled /\ d.told = 0
  BY NewFields
<1> HIDE DEF d
<1>2. PromiseReply = [d EXCEPT !.promise = TRUE, !.receiver = "promise"]
  BY DEF PromiseReply, d
<1> QED BY <1>1, <1>2 DEF Reply

LEMMA HandedOffFields ==
    ASSUME NEW rec \in Reply
    PROVE  /\ HandedOff(rec) \in Reply
           /\ HandedOff(rec).owner = IF engine = "alive" /\ ~rec.promise THEN "js" ELSE rec.owner
           /\ HandedOff(rec).of = rec.of /\ HandedOff(rec).promise = rec.promise
           /\ HandedOff(rec).settled = rec.settled /\ HandedOff(rec).receiver = rec.receiver
           /\ HandedOff(rec).told = rec.told
BY DEF HandedOff, Reply

LEMMA SettledFields ==
    ASSUME NEW rec \in Reply
    PROVE  LET d == [rec EXCEPT !.settled = TRUE]
           IN  /\ d \in Reply /\ d.owner = rec.owner /\ d.of = rec.of /\ d.promise = rec.promise
               /\ d.settled /\ d.receiver = rec.receiver /\ d.told = rec.told
BY DEF Reply

LEMMA ToldFields ==
    ASSUME NEW rec \in Reply, rec.receiver # "none" => rec.told = 0
    PROVE  /\ Told(rec) \in Reply
           /\ Told(rec).owner = rec.owner /\ Told(rec).of = rec.of
           /\ Told(rec).promise = rec.promise /\ Told(rec).settled = rec.settled
           /\ Told(rec).receiver = rec.receiver
BY DEF Told, Reply

LEMMA GhostFields ==
    ASSUME NEW r \in Replies, reply[r] \in Reply, NEW how \in {"deleted", "destroyed"}
    PROVE  /\ Ghost(r, how) \in Reply /\ Ghost(r, how).owner = how /\ ~Ghost(r, how).settled
           /\ Ghost(r, how).promise = reply[r].promise /\ Ghost(r, how).of = reply[r].of
BY DEF Ghost, Reply

-----------------------------------------------------------------------------
(* The inductive invariant.                                                *)

FinishedAt(i, r) == events[i][1] = "finished" /\ events[i][2] = r
DeleteAt(i, r) == events[i][1] = "delete" /\ events[i][2] = r

\* A settled reply is still to tell its receivers.
Untold(r) == \E i \in DOMAIN events : FinishedAt(i, r)

\* Only what has settled is collected; who is told of it is told once, by the
\* emission that is posted or under way; and only what waits is on the wire.
ReplyInv(r) ==
    /\ reply[r].owner = "js" => reply[r].settled
    /\ Exists(r) /\ ~reply[r].settled => reply[r].told = 0
    /\ r \in wire => reply[r].owner \in {"parent", "destroyed"} /\ ~reply[r].settled
    /\ Exists(r) /\ reply[r].settled /\ (reply[r].receiver # "none" \/ caller = r) =>
           emitting = r \/ Untold(r)

\* What is posted is for a reply that exists and has settled.  Its emission is
\* posted once, and a deletion behind it.
FinishedInv(i, r) ==
    /\ Exists(r) /\ reply[r].settled /\ emitting # r /\ reply[r].told = 0
    /\ \A j \in DOMAIN events : FinishedAt(j, r) => j = i
DeleteInv(i, r) ==
    /\ Exists(r) /\ reply[r].settled /\ caller # r
    /\ reply[r].receiver # "none" => emitting = r \/ \E j \in 1 .. i - 1 : FinishedAt(j, r)
EventsInv ==
    \A i \in DOMAIN events, r \in Replies :
        (FinishedAt(i, r) => FinishedInv(i, r)) /\ (DeleteAt(i, r) => DeleteInv(i, r))

\* The replies of a Get wait, or were destroyed, the owner on the wire and the
\* others behind it, each in one record.
GetInv(n, i) ==
    /\ reply[gets[n][i]].owner \in {"parent", "destroyed"} /\ ~reply[gets[n][i]].settled
    /\ ~reply[gets[n][i]].promise /\ reply[gets[n][i]].of = "proxy"
    /\ gets[n][i] \in wire <=> i = 1
    /\ \A j \in DOMAIN finishing : finishing[j] # gets[n][i]
    /\ \A m \in Names : \A j \in DOMAIN gets[m] : gets[m][j] = gets[n][i] => m = n /\ j = i

\* So it is with those of the Get that is being finished.
FinishingInv(i) ==
    /\ reply[finishing[i]].owner \in {"parent", "destroyed"} /\ reply[finishing[i]].of = "proxy"
    /\ ~reply[finishing[i]].settled /\ ~reply[finishing[i]].promise
    /\ finishing[i] \notin wire
    /\ \A j \in DOMAIN finishing : finishing[j] = finishing[i] => j = i

WaitingInv == /\ \A n \in Names : \A i \in DOMAIN gets[n] : GetInv(n, i)
              /\ \A i \in DOMAIN finishing : FinishingInv(i)

\* Nobody is connected yet to a reply that is just returned.
CallerInv == caller # NoReply => /\ Exists(caller) /\ emitting # caller
                                 /\ reply[caller].receiver = "none" /\ reply[caller].told = 0
EmittingInv == emitting # NoReply => /\ reply[emitting].owner # "unborn"
                                     /\ Exists(emitting) => reply[emitting].settled

IInv == /\ \A r \in Replies : ReplyInv(r)
        /\ EventsInv /\ WaitingInv /\ CallerInv /\ EmittingInv

-----------------------------------------------------------------------------
(* Types.                                                                  *)

Event == {"finished", "delete"} \X Replies

LEMMA ReplyTypes ==
    ASSUME TypeOK, NEW r \in Replies
    PROVE  /\ reply[r] \in Reply
           /\ reply[r].owner \in {"unborn", "parent", "js", "deleted", "destroyed"}
           /\ reply[r].of \in {"proxy", "connection"}
           /\ reply[r].promise \in BOOLEAN /\ reply[r].settled \in BOOLEAN
           /\ reply[r].receiver \in {"none", "promise", "plain", "capturing"}
           /\ reply[r].told \in {0, 1}
           /\ reply[r].owner = "js" => engine = "alive" /\ ~reply[r].promise
           /\ r # NoReply
BY RepliesAssumption DEF TypeOK, Reply

LEMMA EventTypes ==
    ASSUME TypeOK
    PROVE  /\ events \in Seq(Event) /\ Len(events) \in Nat /\ DOMAIN events = 1 .. Len(events)
           /\ \A i \in DOMAIN events : /\ events[i] \in Event
                                       /\ events[i][1] \in {"finished", "delete"}
                                       /\ events[i][2] \in Replies
<1>1. events \in Seq(Event)
  BY DEF TypeOK, Event
<1>2. Len(events) \in Nat /\ DOMAIN events = 1 .. Len(events) /\ \A i \in DOMAIN events : events[i] \in Event
  BY <1>1, LenProperties
<1> QED BY <1>1, <1>2 DEF Event

LEMMA GetTypes ==
    ASSUME TypeOK, NEW n \in Names
    PROVE  /\ gets[n] \in Seq(Replies) /\ Len(gets[n]) \in Nat /\ DOMAIN gets[n] = 1 .. Len(gets[n])
           /\ \A i \in DOMAIN gets[n] : gets[n][i] \in Replies
<1>1. gets[n] \in Seq(Replies)
  BY DEF TypeOK
<1> QED BY <1>1, LenProperties

LEMMA FinishingTypes ==
    ASSUME TypeOK
    PROVE  /\ finishing \in Seq(Replies) /\ Len(finishing) \in Nat
           /\ DOMAIN finishing = 1 .. Len(finishing)
           /\ \A i \in DOMAIN finishing : finishing[i] \in Replies
<1>1. finishing \in Seq(Replies)
  BY DEF TypeOK
<1> QED BY <1>1, LenProperties

-----------------------------------------------------------------------------
(* What is posted.                                                         *)

\* An event is appended.
LEMMA Appended ==
    ASSUME TypeOK, NEW kind \in {"finished", "delete"}, NEW r \in Replies,
           events' = Append(events, <<kind, r>>)
    PROVE  /\ events' \in Seq(Event) /\ DOMAIN events' = 1 .. Len(events) + 1
           /\ \A i \in DOMAIN events : events'[i] = events[i]
           /\ events'[Len(events) + 1][1] = kind /\ events'[Len(events) + 1][2] = r
           /\ \A q : Untold(q) => Untold(q)'
<1>1. <<kind, r>> \in Event
  BY DEF Event
<1>2. events \in Seq(Event) /\ Len(events) \in Nat /\ DOMAIN events = 1 .. Len(events)
  BY EventTypes
<1>3. /\ events' \in Seq(Event) /\ Len(events') = Len(events) + 1
      /\ \A i \in 1 .. Len(events) : events'[i] = events[i]
      /\ events'[Len(events) + 1] = <<kind, r>>
  BY <1>1, <1>2, AppendProperties
<1>4. DOMAIN events' = 1 .. Len(events) + 1
  BY <1>3, LenProperties
<1>5. ASSUME NEW q, Untold(q) PROVE Untold(q)'
  BY <1>2, <1>3, <1>4, <1>5 DEF Untold, FinishedAt
<1> QED BY <1>2, <1>3, <1>4, <1>5

\* What a step leaves true of a reply that has an emission posted, or a
\* deletion.
FinishKept(r) == Exists(r)' /\ reply'[r].settled /\ emitting' # r /\ reply'[r].told = 0
DeleteKept(r) ==
    /\ Exists(r)' /\ reply'[r].settled /\ caller' # r
    /\ reply'[r].receiver # "none" => emitting' = r \/ (reply[r].receiver # "none" /\ emitting # r)
EventsKept(dead) ==
    \A i \in DOMAIN events : \A r \in Replies \ dead :
        (FinishedAt(i, r) => FinishKept(r)) /\ (DeleteAt(i, r) => DeleteKept(r))

LEMMA SameEvents ==
    ASSUME EventsInv, EventsKept({}), events' = events
    PROVE  EventsInv'
<1> SUFFICES ASSUME NEW i \in DOMAIN events, NEW r \in Replies
             PROVE  (FinishedAt(i, r)' => FinishedInv(i, r)') /\ (DeleteAt(i, r)' => DeleteInv(i, r)')
  BY DEF EventsInv
<1>1. FinishedAt(i, r)' => FinishedInv(i, r)'
  BY DEF EventsInv, EventsKept, FinishKept, FinishedInv, FinishedAt
<1>2. DeleteAt(i, r)' => DeleteInv(i, r)'
  BY DEF EventsInv, EventsKept, DeleteKept, DeleteInv, DeleteAt, FinishedAt
<1> QED BY <1>1, <1>2

LEMMA AppendedFinished ==
    ASSUME TypeOK, EventsInv, EventsKept({}), NEW r \in Replies,
           events' = Append(events, <<"finished", r>>), ~Untold(r), FinishKept(r)
    PROVE  EventsInv' /\ Untold(r)'
<1>1. /\ DOMAIN events' = 1 .. Len(events) + 1 /\ DOMAIN events = 1 .. Len(events) /\ Len(events) \in Nat
      /\ \A i \in DOMAIN events : events'[i] = events[i]
      /\ events'[Len(events) + 1][1] = "finished" /\ events'[Len(events) + 1][2] = r
  BY Appended, EventTypes
<1>2. ASSUME NEW i \in DOMAIN events', NEW q \in Replies, FinishedAt(i, q)'
      PROVE  FinishedInv(i, q)'
  <2>1. CASE i = Len(events) + 1
    BY <1>1, <1>2, <2>1 DEF FinishedAt, FinishedInv, FinishKept, Untold
  <2>2. CASE i \in DOMAIN events
    <3>1. FinishedAt(i, q) /\ q # r
      BY <1>1, <1>2, <2>2 DEF FinishedAt, Untold
    <3>2. FinishKept(q) /\ FinishedInv(i, q)
      BY <2>2, <3>1 DEF EventsInv, EventsKept
    <3> QED BY <1>1, <3>1, <3>2 DEF FinishedAt, FinishedInv, FinishKept
  <2> QED BY <1>1, <2>1, <2>2
<1>3. ASSUME NEW i \in DOMAIN events', NEW q \in Replies, DeleteAt(i, q)'
      PROVE  DeleteInv(i, q)'
  <2>1. i \in DOMAIN events /\ DeleteAt(i, q)
    BY <1>1, <1>3 DEF DeleteAt
  <2>2. DeleteKept(q) /\ DeleteInv(i, q)
    BY <2>1 DEF EventsInv, EventsKept
  <2> QED BY <1>1, <2>1, <2>2 DEF FinishedAt, DeleteInv, DeleteKept
<1> QED BY <1>1, <1>2, <1>3 DEF EventsInv, Untold, FinishedAt

LEMMA AppendedDelete ==
    ASSUME TypeOK, EventsInv, EventsKept({}), NEW r \in Replies,
           events' = Append(events, <<"delete", r>>),
           Exists(r)', reply'[r].settled, caller' # r,
           reply'[r].receiver # "none" => emitting' = r \/ Untold(r)
    PROVE  EventsInv'
<1>1. /\ DOMAIN events' = 1 .. Len(events) + 1 /\ DOMAIN events = 1 .. Len(events) /\ Len(events) \in Nat
      /\ \A i \in DOMAIN events : events'[i] = events[i]
      /\ events'[Len(events) + 1][1] = "delete" /\ events'[Len(events) + 1][2] = r
  BY Appended, EventTypes
<1>2. ASSUME NEW i \in DOMAIN events', NEW q \in Replies, FinishedAt(i, q)'
      PROVE  FinishedInv(i, q)'
  <2>1. i \in DOMAIN events /\ FinishedAt(i, q)
    BY <1>1, <1>2 DEF FinishedAt
  <2>2. FinishKept(q) /\ FinishedInv(i, q)
    BY <2>1 DEF EventsInv, EventsKept
  <2> QED BY <1>1, <2>1, <2>2 DEF FinishedAt, FinishedInv, FinishKept
<1>3. ASSUME NEW i \in DOMAIN events', NEW q \in Replies, DeleteAt(i, q)'
      PROVE  DeleteInv(i, q)'
  <2>1. CASE i = Len(events) + 1
    BY <1>1, <1>3, <2>1 DEF DeleteAt, DeleteInv, FinishedAt, Untold
  <2>2. CASE i \in DOMAIN events
    <3>1. DeleteAt(i, q)
      BY <1>1, <1>3, <2>2 DEF DeleteAt
    <3>2. DeleteKept(q) /\ DeleteInv(i, q)
      BY <2>2, <3>1 DEF EventsInv, EventsKept
    <3> QED BY <1>1, <2>2, <3>1, <3>2 DEF FinishedAt, DeleteInv, DeleteKept
  <2> QED BY <1>1, <2>1, <2>2
<1> QED BY <1>2, <1>3 DEF EventsInv

\* What was posted to deleted replies goes, the rest stays in order.
LEMMA PurgedEvents ==
    ASSUME TypeOK, EventsInv, NEW dead \in SUBSET Replies, EventsKept(dead),
           events' = Purged(dead)
    PROVE  /\ events' \in Seq(Event) /\ EventsInv'
           /\ \A q \in Replies \ dead : Untold(q) => Untold(q)'
<1> DEFINE hits == {i \in DOMAIN events : events[i][2] \notin dead}
<1>1. events \in Seq(Event) /\ DOMAIN events = 1 .. Len(events) /\ Len(events) \in Nat
      /\ hits \in SUBSET DOMAIN events
  BY EventTypes
<1>2. events' = EntriesAt(events, hits)
  BY DEF Purged
<1> HIDE DEF hits
<1>3. events' \in Seq(Event) /\ \E f : Traces(f, events', events, hits)
  BY <1>1, <1>2, EntriesKept
<1>4. PICK f : Traces(f, events', events, hits)
  BY <1>3
<1>5. /\ f \in [DOMAIN events' -> hits]
      /\ \A j, k \in DOMAIN events' : j < k => f[j] < f[k]
      /\ \A j \in DOMAIN events' : events'[j] = events[f[j]]
      /\ \A i \in hits : \E j \in DOMAIN events' : f[j] = i
  BY <1>4 DEF Traces
<1>6. DOMAIN events' = 1 .. Len(events') /\ Len(events') \in Nat
  BY <1>3, LenProperties
<1>7. ASSUME NEW i \in DOMAIN events'
      PROVE  /\ f[i] \in DOMAIN events /\ events[f[i]][2] \notin dead /\ f[i] \in hits
             /\ \A q : FinishedAt(i, q)' <=> FinishedAt(f[i], q)
             /\ \A q : DeleteAt(i, q)' <=> DeleteAt(f[i], q)
  BY <1>5 DEF hits, FinishedAt, DeleteAt
<1>8. ASSUME NEW i \in DOMAIN events', NEW k \in DOMAIN events', f[i] = f[k] PROVE i = k
  <2>1. f[i] \in Nat /\ f[k] \in Nat
    BY <1>1, <1>7
  <2>2. ~(i < k) /\ ~(k < i)
    BY <1>5, <1>8, <2>1
  <2> QED BY <1>6, <2>2
<1>9. ASSUME NEW i \in DOMAIN events', NEW q \in Replies, FinishedAt(i, q)'
      PROVE  FinishedInv(i, q)'
  <2>1. FinishedAt(f[i], q) /\ q \notin dead /\ f[i] \in DOMAIN events
    BY <1>7, <1>9 DEF FinishedAt
  <2>2. FinishKept(q) /\ FinishedInv(f[i], q)
    BY <2>1 DEF EventsInv, EventsKept
  <2>3. ASSUME NEW j \in DOMAIN events', FinishedAt(j, q)' PROVE j = i
    <3>1. FinishedAt(f[j], q) /\ f[j] \in DOMAIN events
      BY <1>7, <2>3
    <3>2. f[j] = f[i]
      BY <2>2, <3>1 DEF FinishedInv
    <3> QED BY <1>8, <3>2
  <2> QED BY <2>2, <2>3 DEF FinishedInv, FinishKept
<1>10. ASSUME NEW i \in DOMAIN events', NEW q \in Replies, DeleteAt(i, q)'
       PROVE  DeleteInv(i, q)'
  <2>1. DeleteAt(f[i], q) /\ q \notin dead /\ f[i] \in DOMAIN events
    BY <1>7, <1>10 DEF DeleteAt
  <2>2. DeleteKept(q) /\ DeleteInv(f[i], q)
    BY <2>1 DEF EventsInv, EventsKept
  <2>3. ASSUME NEW k \in 1 .. f[i] - 1, FinishedAt(k, q)
        PROVE  \E j \in 1 .. i - 1 : FinishedAt(j, q)'
    <3>1. k \in DOMAIN events /\ k < f[i]
      BY <1>1, <2>1
    <3>2. k \in hits
      BY <2>1, <2>3, <3>1 DEF hits, FinishedAt
    <3>3. PICK j \in DOMAIN events' : f[j] = k
      BY <1>5, <3>2
    <3>4. j < i \/ i < j \/ i = j
      BY <1>6
    <3>5. j < i
      BY <1>1, <1>5, <2>1, <3>1, <3>3, <3>4
    <3>6. FinishedAt(j, q)'
      BY <1>7, <2>3, <3>3
    <3> QED BY <1>6, <3>5, <3>6
  <2> QED BY <2>2, <2>3 DEF DeleteInv, DeleteKept
<1>11. ASSUME NEW q \in Replies \ dead, Untold(q) PROVE Untold(q)'
  <2>1. PICK i \in DOMAIN events : FinishedAt(i, q)
    BY <1>11 DEF Untold
  <2>2. i \in hits
    BY <2>1 DEF hits, FinishedAt
  <2>3. PICK j \in DOMAIN events' : f[j] = i
    BY <1>5, <2>2
  <2> QED BY <1>7, <2>1, <2>3 DEF Untold
<1> QED BY <1>3, <1>9, <1>10, <1>11 DEF EventsInv

-----------------------------------------------------------------------------
(* What waits.                                                             *)

IsWaiting(q) == \/ \E n \in Names : \E i \in DOMAIN gets[n] : gets[n][i] = q
                \/ \E i \in DOMAIN finishing : finishing[i] = q

LEMMA WaitingFacts ==
    ASSUME IInv, NEW q, IsWaiting(q)
    PROVE  ~reply[q].settled /\ ~reply[q].promise /\ reply[q].owner \in {"parent", "destroyed"}
<1>1. CASE \E n \in Names : \E i \in DOMAIN gets[n] : gets[n][i] = q
  BY <1>1 DEF IInv, WaitingInv, GetInv
<1>2. CASE \E i \in DOMAIN finishing : finishing[i] = q
  BY <1>2 DEF IInv, WaitingInv, FinishingInv
<1> QED BY <1>1, <1>2 DEF IsWaiting

\* A step that leaves alone what waits.
WaitingKept == \A q : IsWaiting(q) => /\ reply'[q].owner = reply[q].owner
                                      /\ reply'[q].of = reply[q].of
                                      /\ reply'[q].settled <=> reply[q].settled
                                      /\ reply'[q].promise <=> reply[q].promise
                                      /\ q \in wire' <=> q \in wire

LEMMA SameWaiting ==
    ASSUME WaitingInv, WaitingKept, gets' = gets, finishing' = finishing
    PROVE  WaitingInv'
<1>1. ASSUME NEW n \in Names, NEW i \in DOMAIN gets[n] PROVE GetInv(n, i)'
  <2> DEFINE q == gets[n][i]
  <2>1. IsWaiting(q) /\ GetInv(n, i)
    BY DEF IsWaiting, WaitingInv
  <2>2. /\ reply'[q].owner = reply[q].owner /\ reply'[q].of = reply[q].of
        /\ reply'[q].settled <=> reply[q].settled
        /\ reply'[q].promise <=> reply[q].promise
        /\ q \in wire' <=> q \in wire
    BY <2>1 DEF WaitingKept
  <2> QED BY <2>1, <2>2 DEF GetInv
<1>2. ASSUME NEW i \in DOMAIN finishing PROVE FinishingInv(i)'
  <2> DEFINE q == finishing[i]
  <2>1. IsWaiting(q) /\ FinishingInv(i)
    BY DEF IsWaiting, WaitingInv
  <2>2. /\ reply'[q].owner = reply[q].owner /\ reply'[q].of = reply[q].of
        /\ reply'[q].settled <=> reply[q].settled
        /\ reply'[q].promise <=> reply[q].promise
        /\ q \in wire' <=> q \in wire
    BY <2>1 DEF WaitingKept
  <2> QED BY <2>1, <2>2 DEF FinishingInv
<1> QED BY <1>1, <1>2 DEF WaitingInv

-----------------------------------------------------------------------------
(* Calls.                                                                  *)

\* Nothing is known of a reply that is not made yet.
LEMMA UnbornFacts ==
    ASSUME TypeOK, IInv, NEW r \in Replies, reply[r].owner = "unborn"
    PROVE  /\ ~Untold(r) /\ \A i \in DOMAIN events : ~FinishedAt(i, r) /\ ~DeleteAt(i, r)
           /\ r \notin wire /\ ~IsWaiting(r) /\ emitting # r /\ caller # r
<1>1. ~Exists(r)
  BY DEF Exists
<1>2. \A i \in DOMAIN events : ~FinishedAt(i, r) /\ ~DeleteAt(i, r)
  BY <1>1 DEF IInv, EventsInv, FinishedInv, DeleteInv
<1>3. r \notin wire
  BY DEF IInv, ReplyInv
<1>4. ~IsWaiting(r)
  BY WaitingFacts
<1>5. emitting # r /\ caller # r
  BY <1>1, ReplyTypes DEF IInv, EmittingInv, CallerInv
<1> QED BY <1>2, <1>3, <1>4, <1>5 DEF Untold

\* A call starts: what it makes is on the wire, or has failed and is posted.
LEMMA StartKeeps ==
    ASSUME TypeOK, IInv, NEW r \in Replies, reply[r].owner = "unborn", caller = NoReply,
           NEW rec \in Reply, rec.owner = "parent", ~rec.settled, rec.told = 0,
           StartCall(r, rec), caller' = NoReply \/ (caller' = r /\ rec.receiver = "none"),
           UNCHANGED <<engine, creators, gets, emitting, finishing>>
    PROVE  TypeOK' /\ IInv'
<1>1. /\ reply \in [Replies -> Reply] /\ r # NoReply
      /\ ~Untold(r) /\ \A i \in DOMAIN events : ~FinishedAt(i, r) /\ ~DeleteAt(i, r)
      /\ r \notin wire /\ ~IsWaiting(r) /\ emitting # r
  BY UnbornFacts, ReplyTypes DEF TypeOK
\* In both cases.
<1>2. ASSUME NEW d \in Reply, reply' = [reply EXCEPT ![r] = d],
             d.owner \in {"parent", "js"}, d.receiver = rec.receiver, d.told = 0,
             d.owner = "js" => engine = "alive" /\ ~d.promise /\ d.settled,
             d.settled => Untold(r)',
             wire' \in {wire, wire \cup {r}}, r \in wire' => d.owner = "parent" /\ ~d.settled,
             events' \in Seq(Event), EventsInv',
             \A q \in Replies : Untold(q) => Untold(q)'
      PROVE  TypeOK' /\ IInv'
  <2>1. reply'[r] = d /\ \A q \in Replies : q # r => reply'[q] = reply[q]
    BY <1>1, <1>2
  <2>2. TypeOK'
    <3>1. reply' \in [Replies -> Reply]
      BY <1>1, <1>2
    <3>2. \A q \in Replies : reply'[q].owner = "js" => engine' = "alive" /\ ~reply'[q].promise
      BY <1>2, <2>1, ReplyTypes
    <3>3. wire' \subseteq Replies /\ caller' \in Replies \cup {NoReply}
      BY <1>2 DEF TypeOK
    <3> QED BY <1>2, <3>1, <3>2, <3>3 DEF TypeOK, Event
  <2>3. ASSUME NEW q \in Replies PROVE ReplyInv(q)'
    <3>1. CASE q = r
      BY <1>1, <1>2, <2>1, <3>1 DEF ReplyInv, Exists
    <3>2. CASE q # r
      BY <1>1, <1>2, <2>1, <3>2, ReplyTypes DEF IInv, ReplyInv, Exists
    <3> QED BY <3>1, <3>2
  <2>4. WaitingKept
    <3> SUFFICES ASSUME NEW q, IsWaiting(q)
                 PROVE  /\ reply'[q] = reply[q]
                        /\ q \in wire' <=> q \in wire
      BY DEF WaitingKept
    <3>1. q # r /\ q \in Replies
      BY <1>1, GetTypes, FinishingTypes DEF IsWaiting
    <3> QED BY <1>2, <2>1, <3>1
  <2>5. WaitingInv'
    BY <2>4, SameWaiting DEF IInv
  <2>6. CallerInv' /\ EmittingInv'
    <3>1. CallerInv'
      BY <1>1, <1>2, <2>1 DEF CallerInv, Exists
    <3>2. EmittingInv'
      BY <1>1, <2>1 DEF IInv, EmittingInv, Exists, TypeOK
    <3> QED BY <3>1, <3>2
  <2> QED BY <1>2, <2>2, <2>3, <2>5, <2>6 DEF IInv
<1>3. ASSUME NEW d \in Reply, reply' = [reply EXCEPT ![r] = d] PROVE EventsKept({})
  <2> SUFFICES ASSUME NEW i \in DOMAIN events, NEW q \in Replies
               PROVE  /\ FinishedAt(i, q) => FinishKept(q)
                      /\ DeleteAt(i, q) => DeleteKept(q)
    BY DEF EventsKept
  <2>1. CASE q = r
    BY <1>1, <2>1
  <2>2. CASE q # r
    <3>1. reply'[q] = reply[q] /\ emitting' = emitting /\ (caller' = NoReply \/ caller' = r)
      BY <1>1, <1>3, <2>2
    <3>2. FinishedAt(i, q) => FinishKept(q)
      BY <3>1 DEF IInv, EventsInv, FinishedInv, FinishKept, Exists
    <3>3. DeleteAt(i, q) => DeleteKept(q)
      BY <2>2, <3>1, ReplyTypes DEF IInv, EventsInv, DeleteInv, DeleteKept, Exists
    <3> QED BY <3>2, <3>3
  <2> QED BY <2>1, <2>2
<1>4. CASE OnTheWire(r, rec)
  <2>1. reply' = [reply EXCEPT ![r] = rec] /\ wire' = wire \cup {r} /\ events' = events
    BY <1>4 DEF OnTheWire
  <2>2. EventsInv' /\ events' \in Seq(Event) /\ \A q \in Replies : Untold(q) => Untold(q)'
    BY <1>3, <2>1, SameEvents, EventTypes DEF IInv, Untold, FinishedAt
  <2> QED BY <1>2, <2>1, <2>2
<1>5. CASE FailLocally(r, rec)
  <2> DEFINE e == [rec EXCEPT !.settled = TRUE]
             d == HandedOff(e)
  <2>1. /\ reply' = [reply EXCEPT ![r] = d] /\ wire' = wire
        /\ events' = Append(events, <<"finished", r>>)
    BY <1>5 DEF FailLocally, SettleLater
  <2>2. /\ e \in Reply /\ e.owner = "parent" /\ e.settled /\ e.promise = rec.promise
        /\ e.receiver = rec.receiver /\ e.told = 0
    BY SettledFields
  <2> HIDE DEF e
  <2>3. /\ d \in Reply /\ d.owner \in {"parent", "js"} /\ d.settled /\ d.told = 0
        /\ d.receiver = rec.receiver
        /\ d.owner = "js" => engine = "alive" /\ ~d.promise
    BY <2>2, HandedOffFields
  <2> HIDE DEF d
  <2>4. reply'[r] = d
    BY <1>1, <2>1
  <2>5. FinishKept(r)
    BY <1>1, <2>3, <2>4 DEF FinishKept, Exists
  <2>6. EventsInv' /\ Untold(r)'
    BY <1>1, <1>3, <2>1, <2>3, <2>5, AppendedFinished DEF IInv
  <2>7. events' \in Seq(Event) /\ \A q \in Replies : Untold(q) => Untold(q)'
    BY <2>1, Appended
  <2> QED BY <1>1, <1>2, <2>1, <2>3, <2>6, <2>7
<1> QED BY <1>4, <1>5 DEF StartCall

LEMMA CallKeeps ==
    ASSUME TypeOK, IInv, NEW r \in Replies,
           Promise(r) \/ \E of \in CallMakers : Call(r, of)
    PROVE  TypeOK' /\ IInv'
<1>1. CASE Promise(r)
  <2>1. reply[r].owner = "unborn" /\ caller = NoReply
    BY <1>1 DEF Promise, IsNew, UserMayRun
  <2>2. StartCall(r, PromiseReply) /\ UNCHANGED <<engine, creators, gets, emitting, finishing>>
        /\ caller' = NoReply
    BY <1>1, <2>1 DEF Promise
  <2> QED BY <2>1, <2>2, PromiseFields, StartKeeps
<1>2. ASSUME NEW of \in CallMakers, Call(r, of) PROVE TypeOK' /\ IInv'
  <2>1. reply[r].owner = "unborn" /\ caller = NoReply
    BY <1>2 DEF Call, IsNew, UserMayRun
  <2>2. StartCall(r, New(of)) /\ UNCHANGED <<engine, creators, gets, emitting, finishing>>
        /\ caller' = r
    BY <1>2 DEF Call
  <2>3. of \in {"proxy", "connection"}
    BY MakersAssumption
  <2> QED BY <2>1, <2>2, <2>3, NewFields, StartKeeps
<1> QED BY <1>1, <1>2

\* getProperty: the new reply joins the record of its name, or starts one and
\* goes on the wire.
LEMMA GetPropertyKeeps ==
    ASSUME TypeOK, IInv, NEW r \in Replies, NEW n \in Names, GetProperty(r, n)
    PROVE  TypeOK' /\ IInv'
<1> DEFINE d == New("proxy")
<1>1. /\ d \in Reply /\ d.owner = "parent" /\ d.of = "proxy" /\ ~d.promise /\ ~d.settled
      /\ d.receiver = "none" /\ d.told = 0
  BY NewFields
<1>2. /\ reply' = [reply EXCEPT ![r] = d] /\ gets' = [gets EXCEPT ![n] = Append(@, r)]
      /\ wire' = (IF gets[n] = <<>> THEN wire \cup {r} ELSE wire) /\ caller' = r
      /\ UNCHANGED <<engine, creators, events, emitting, finishing>>
      /\ reply[r].owner = "unborn" /\ caller = NoReply
  BY DEF GetProperty, IsNew, UserMayRun
<1> HIDE DEF d
<1>3. /\ ~Untold(r) /\ \A i \in DOMAIN events : ~FinishedAt(i, r) /\ ~DeleteAt(i, r)
      /\ r \notin wire /\ ~IsWaiting(r) /\ emitting # r /\ r # NoReply
  BY <1>2, UnbornFacts, ReplyTypes
<1>4. reply'[r] = d /\ \A q \in Replies : q # r => reply'[q] = reply[q]
  BY <1>2 DEF TypeOK
<1>5. /\ gets'[n] \in Seq(Replies) /\ DOMAIN gets'[n] = 1 .. Len(gets[n]) + 1
      /\ \A i \in DOMAIN gets[n] : gets'[n][i] = gets[n][i]
      /\ gets'[n][Len(gets[n]) + 1] = r
      /\ \A m \in Names : m # n => gets'[m] = gets[m]
  <2>1. gets'[n] = Append(gets[n], r) /\ \A m \in Names : m # n => gets'[m] = gets[m]
    BY <1>2 DEF TypeOK
  <2>2. /\ gets'[n] \in Seq(Replies) /\ Len(gets'[n]) = Len(gets[n]) + 1
        /\ \A i \in 1 .. Len(gets[n]) : gets'[n][i] = gets[n][i]
        /\ gets'[n][Len(gets[n]) + 1] = r
    BY <2>1, GetTypes, AppendProperties
  <2> QED BY <2>1, <2>2, GetTypes, LenProperties
<1>6. TypeOK'
  <2>1. reply' \in [Replies -> Reply] /\ wire' \subseteq Replies /\ caller' \in Replies \cup {NoReply}
    BY <1>1, <1>2 DEF TypeOK
  <2>2. \A q \in Replies : reply'[q].owner = "js" => engine' = "alive" /\ ~reply'[q].promise
    BY <1>1, <1>2, <1>4, ReplyTypes
  <2>3. gets' \in [Names -> Seq(Replies)]
    BY <1>2, <1>5 DEF TypeOK
  <2> QED BY <1>2, <2>1, <2>2, <2>3 DEF TypeOK
<1>7. ASSUME NEW q \in Replies PROVE ReplyInv(q)'
  <2>1. CASE q = r
    BY <1>1, <1>2, <1>4, <2>1 DEF ReplyInv, Exists
  <2>2. CASE q # r
    BY <1>2, <1>4, <2>2, ReplyTypes DEF IInv, ReplyInv, Exists, Untold, FinishedAt
  <2> QED BY <2>1, <2>2
<1>8. EventsInv'
  <2>1. EventsKept({})
    <3> SUFFICES ASSUME NEW i \in DOMAIN events, NEW q \in Replies
                 PROVE  /\ FinishedAt(i, q) => FinishKept(q)
                        /\ DeleteAt(i, q) => DeleteKept(q)
      BY DEF EventsKept
    <3>1. CASE q = r
      BY <1>3, <3>1
    <3>2. CASE q # r
      <4>1. reply'[q] = reply[q] /\ emitting' = emitting /\ caller' # q
        BY <1>2, <1>4, <3>2
      <4>2. FinishedAt(i, q) => FinishKept(q)
        BY <4>1 DEF IInv, EventsInv, FinishedInv, FinishKept, Exists
      <4>3. DeleteAt(i, q) => DeleteKept(q)
        BY <4>1 DEF IInv, EventsInv, DeleteInv, DeleteKept, Exists
      <4> QED BY <4>2, <4>3
    <3> QED BY <3>1, <3>2
  <2> QED BY <1>2, <2>1, SameEvents DEF IInv
\* What waited before waits as before.
<1>9. ASSUME NEW q, IsWaiting(q)
      PROVE  q # r /\ reply'[q] = reply[q] /\ (q \in wire' <=> q \in wire)
  <2>1. q # r /\ q \in Replies
    BY <1>3, <1>9, GetTypes, FinishingTypes DEF IsWaiting
  <2> QED BY <1>2, <1>4, <2>1
<1>10. ASSUME NEW m \in Names, NEW i \in DOMAIN gets[m]
       PROVE  GetInv(m, i)' /\ gets'[m][i] = gets[m][i]
  <2> DEFINE q == gets[m][i]
  <2>1. gets'[m][i] = q
    BY <1>5
  <2>2. q # r /\ reply'[q] = reply[q] /\ (q \in wire' <=> q \in wire) /\ GetInv(m, i)
    BY <1>9 DEF IsWaiting, IInv, WaitingInv
  <2>3. ASSUME NEW k \in Names, NEW j \in DOMAIN gets'[k], gets'[k][j] = q
        PROVE  k = m /\ j = i
    <3>1. j \in DOMAIN gets[k] /\ gets[k][j] = q
      BY <1>5, <2>2, <2>3, GetTypes
    <3> QED BY <2>2, <3>1 DEF GetInv
  <2> HIDE DEF q
  <2>4. finishing' = finishing
    BY <1>2
  <2>5. /\ reply[q].owner \in {"parent", "destroyed"} /\ ~reply[q].settled /\ ~reply[q].promise
        /\ reply[q].of = "proxy" /\ (q \in wire <=> i = 1)
        /\ \A j \in DOMAIN finishing : finishing[j] # q
    BY <2>2 DEF GetInv, q
  <2>6. GetInv(m, i)'
    BY <2>1, <2>2, <2>3, <2>4, <2>5 DEF GetInv
  <2> QED BY <2>1, <2>6 DEF q
<1>11. ASSUME NEW i \in Nat, i = Len(gets[n]) + 1 PROVE GetInv(n, i)'
  <2>1. gets'[n][i] = r
    BY <1>5, <1>11
  <2>2. r \in wire' <=> i = 1
    <3>1. gets[n] = <<>> <=> Len(gets[n]) = 0
      BY GetTypes, EmptySeq
    <3> QED BY <1>2, <1>3, <1>11, <3>1, GetTypes
  <2>3. \A j \in DOMAIN finishing : finishing[j] # r
    BY <1>3 DEF IsWaiting
  <2>4. ASSUME NEW k \in Names, NEW j \in DOMAIN gets'[k], gets'[k][j] = r
        PROVE  k = n /\ j = i
    <3>1. k = n
      BY <1>3, <1>5, <2>4 DEF IsWaiting
    <3>2. ~(j \in DOMAIN gets[n])
      BY <1>3, <1>5, <2>4, <3>1 DEF IsWaiting
    <3> QED BY <1>5, <1>11, <2>4, <3>1, <3>2, GetTypes
  <2>5. /\ reply'[r].owner = "parent" /\ ~reply'[r].settled /\ ~reply'[r].promise
        /\ reply'[r].of = "proxy" /\ finishing' = finishing
    BY <1>1, <1>2, <1>4
  <2> QED BY <2>1, <2>2, <2>3, <2>4, <2>5 DEF GetInv
<1>12. WaitingInv'
  <2>1. ASSUME NEW m \in Names, NEW i \in DOMAIN gets'[m] PROVE GetInv(m, i)'
    <3>1. CASE i \in DOMAIN gets[m]
      BY <1>10, <3>1
    <3>2. CASE i \notin DOMAIN gets[m]
      <4>1. m = n /\ i = Len(gets[n]) + 1 /\ i \in Nat
        BY <1>5, <3>2, GetTypes
      <4> QED BY <1>11, <4>1
    <3> QED BY <3>1, <3>2
  <2>2. ASSUME NEW i \in DOMAIN finishing PROVE FinishingInv(i)'
    <3> DEFINE q == finishing[i]
    <3>1. FinishingInv(i) /\ reply'[q] = reply[q] /\ (q \in wire' <=> q \in wire)
      BY <1>9 DEF IsWaiting, IInv, WaitingInv
    <3> QED BY <1>2, <3>1 DEF FinishingInv
  <2> QED BY <1>2, <2>1, <2>2 DEF WaitingInv
<1>13. CallerInv' /\ EmittingInv'
  <2>1. CallerInv'
    BY <1>1, <1>2, <1>3, <1>4 DEF CallerInv, Exists
  <2>2. EmittingInv'
    BY <1>2, <1>3, <1>4 DEF IInv, EmittingInv, Exists, TypeOK
  <2> QED BY <2>1, <2>2
<1> QED BY <1>6, <1>7, <1>8, <1>12, <1>13 DEF IInv

\* The application connects to what it was given.
LEMMA ReturnedKeeps ==
    ASSUME TypeOK, IInv, NEW receiver \in Handlers, Returned(receiver)
    PROVE  TypeOK' /\ IInv'
<1> PICK r \in Replies : r = caller
  BY DEF Returned, TypeOK
<1> DEFINE d == [reply[r] EXCEPT !.receiver = receiver]
<1>1. /\ reply' = [reply EXCEPT ![r] = d] /\ caller' = NoReply /\ caller = r /\ r # NoReply
      /\ UNCHANGED <<engine, creators, wire, gets, events, emitting, finishing>>
  BY ReplyTypes DEF Returned
<1>2. /\ d \in Reply /\ d.owner = reply[r].owner /\ d.of = reply[r].of
      /\ d.promise = reply[r].promise /\ d.settled = reply[r].settled /\ d.told = reply[r].told
  BY ReplyTypes, HandlersAssumption DEF Reply
<1> HIDE DEF d
<1>3. reply'[r] = d /\ \A q \in Replies : q # r => reply'[q] = reply[q]
  BY <1>1 DEF TypeOK
<1>4. /\ Exists(r) /\ emitting # r
      /\ reply[r].settled => Untold(r)
      /\ \A i \in DOMAIN events : ~DeleteAt(i, r)
  BY <1>1 DEF IInv, CallerInv, ReplyInv, EventsInv, DeleteInv
<1>5. ASSUME NEW q \in Replies
      PROVE  /\ reply'[q].owner = reply[q].owner /\ reply'[q].of = reply[q].of
             /\ reply'[q].promise = reply[q].promise /\ reply'[q].settled = reply[q].settled
             /\ reply'[q].told = reply[q].told
             /\ q # r => reply'[q].receiver = reply[q].receiver
  BY <1>2, <1>3
<1>6. TypeOK'
  <2>1. reply' \in [Replies -> Reply] /\ caller' \in Replies \cup {NoReply}
    BY <1>1, <1>2 DEF TypeOK
  <2>2. \A q \in Replies : reply'[q].owner = "js" => engine' = "alive" /\ ~reply'[q].promise
    BY <1>1, <1>5, ReplyTypes
  <2> QED BY <1>1, <2>1, <2>2 DEF TypeOK
<1>7. ASSUME NEW q \in Replies PROVE ReplyInv(q)'
  <2>1. Untold(q)' <=> Untold(q)
    BY <1>1 DEF Untold, FinishedAt
  <2>2. ReplyInv(q)
    BY DEF IInv
  <2>3. CASE q = r
    BY <1>1, <1>4, <1>5, <2>1, <2>2, <2>3 DEF ReplyInv, Exists
  <2>4. CASE q # r
    BY <1>1, <1>5, <2>1, <2>2, <2>4, ReplyTypes DEF ReplyInv, Exists
  <2> QED BY <2>3, <2>4
<1>8. EventsInv'
  <2>1. EventsKept({})
    <3> SUFFICES ASSUME NEW i \in DOMAIN events, NEW q \in Replies
                 PROVE  /\ FinishedAt(i, q) => FinishKept(q)
                        /\ DeleteAt(i, q) => DeleteKept(q)
      BY DEF EventsKept
    <3>1. FinishedAt(i, q) => FinishKept(q)
      BY <1>1, <1>5 DEF IInv, EventsInv, FinishedInv, FinishKept, Exists
    <3>2. DeleteAt(i, q) => DeleteKept(q)
      <4> SUFFICES ASSUME DeleteAt(i, q) PROVE DeleteKept(q)
        OBVIOUS
      <4>1. q # r /\ DeleteInv(i, q)
        BY <1>4 DEF IInv, EventsInv
      <4> QED BY <1>1, <1>5, <4>1, ReplyTypes DEF DeleteInv, DeleteKept, Exists
    <3> QED BY <3>1, <3>2
  <2> QED BY <1>1, <2>1, SameEvents DEF IInv
<1>9. WaitingInv'
  <2>1. WaitingKept
    <3> SUFFICES ASSUME NEW q, IsWaiting(q)
                 PROVE  /\ reply'[q].owner = reply[q].owner /\ reply'[q].of = reply[q].of
                        /\ reply'[q].promise = reply[q].promise
                        /\ reply'[q].settled = reply[q].settled
      BY <1>1 DEF WaitingKept
    <3>1. q \in Replies
      BY GetTypes, FinishingTypes DEF IsWaiting
    <3> QED BY <1>5, <3>1
  <2> QED BY <1>1, <2>1, SameWaiting DEF IInv
<1>10. CallerInv' /\ EmittingInv'
  <2>1. CallerInv'
    BY <1>1 DEF CallerInv
  <2>2. EmittingInv'
    BY <1>1, <1>5 DEF IInv, EmittingInv, Exists, TypeOK
  <2> QED BY <2>1, <2>2
<1> QED BY <1>6, <1>7, <1>8, <1>9, <1>10 DEF IInv

-----------------------------------------------------------------------------
(* Answers.                                                                *)

\* What settles had nothing posted, and does not disturb what was posted to
\* others.
LEMMA SettlingEvents ==
    ASSUME TypeOK, IInv, NEW r \in Replies, ~reply[r].settled, emitting = NoReply,
           caller' = NoReply, emitting' \in {r, NoReply},
           \A q \in Replies : q # r => reply'[q] = reply[q]
    PROVE  EventsKept({}) /\ ~Untold(r)
<1>1. \A i \in DOMAIN events : ~FinishedAt(i, r) /\ ~DeleteAt(i, r)
  BY DEF IInv, EventsInv, FinishedInv, DeleteInv
<1>2. ASSUME NEW i \in DOMAIN events, NEW q \in Replies
      PROVE  /\ FinishedAt(i, q) => FinishKept(q)
             /\ DeleteAt(i, q) => DeleteKept(q)
  <2>1. CASE q = r
    BY <1>1, <2>1
  <2>2. CASE q # r
    <3>1. reply'[q] = reply[q] /\ emitting' # q /\ caller' # q /\ emitting # q
      BY <2>2, ReplyTypes
    <3>2. FinishedAt(i, q) => FinishKept(q)
      BY <3>1 DEF IInv, EventsInv, FinishedInv, FinishKept, Exists
    <3>3. DeleteAt(i, q) => DeleteKept(q)
      BY <3>1 DEF IInv, EventsInv, DeleteInv, DeleteKept, Exists
    <3> QED BY <3>2, <3>3
  <2> QED BY <2>1, <2>2
<1> QED BY <1>1, <1>2 DEF EventsKept, Untold

\* A reply settles: its emission is posted, or under way.
LEMMA SettleKeeps ==
    ASSUME TypeOK, IInv, NEW r \in Replies, ~reply[r].settled,
           caller = NoReply, emitting = NoReply, UNCHANGED <<engine, creators, caller>>,
           reply' \in [Replies -> Reply], \A q \in Replies : q # r => reply'[q] = reply[q],
           reply'[r].owner \in {"parent", "js"}, reply'[r].settled,
           reply'[r].owner = "js" => engine = "alive" /\ ~reply'[r].promise,
           emitting' = r \/ (emitting' = NoReply /\ Untold(r)'),
           wire' \subseteq wire, r \notin wire',
           gets' \in [Names -> Seq(Replies)], finishing' \in Seq(Replies), WaitingInv',
           events' \in Seq(Event), EventsInv', \A q \in Replies : Untold(q) => Untold(q)'
    PROVE  TypeOK' /\ IInv'
<1>1. TypeOK'
  <2>1. \A q \in Replies : reply'[q].owner = "js" => engine' = "alive" /\ ~reply'[q].promise
    BY ReplyTypes
  <2> QED BY <2>1 DEF TypeOK, Event
<1>2. ASSUME NEW q \in Replies PROVE ReplyInv(q)'
  <2>1. CASE q = r
    BY <2>1 DEF ReplyInv, Exists
  <2>2. CASE q # r
    <3>1. reply'[q] = reply[q] /\ caller' # q /\ emitting # q /\ (q \in wire' => q \in wire)
      BY <2>2, ReplyTypes
    <3> QED BY <3>1 DEF IInv, ReplyInv, Exists
  <2> QED BY <2>1, <2>2
<1>3. CallerInv' /\ EmittingInv'
  BY DEF CallerInv, EmittingInv
<1> QED BY <1>1, <1>2, <1>3 DEF IInv

\* settle() with direct delivery.
LEMMA SettleNowFields ==
    ASSUME TypeOK, NEW r \in Replies, reply[r].told = 0, SettleNow(r)
    PROVE  /\ reply' \in [Replies -> Reply] /\ \A q \in Replies : q # r => reply'[q] = reply[q]
           /\ reply'[r].owner = reply[r].owner /\ reply'[r].of = reply[r].of
           /\ reply'[r].promise = reply[r].promise /\ reply'[r].settled
           /\ emitting' = r
<1> DEFINE e == [reply[r] EXCEPT !.settled = TRUE]
<1>1. reply' = [reply EXCEPT ![r] = Told(e)] /\ emitting' = r
  BY DEF SettleNow
<1>2. /\ e \in Reply /\ e.owner = reply[r].owner /\ e.of = reply[r].of
      /\ e.promise = reply[r].promise /\ e.settled /\ e.told = 0
  BY ReplyTypes, SettledFields
<1> HIDE DEF e
<1>3. /\ Told(e) \in Reply /\ Told(e).owner = reply[r].owner /\ Told(e).of = reply[r].of
      /\ Told(e).promise = reply[r].promise /\ Told(e).settled
  BY <1>2, ToldFields
<1> QED BY <1>1, <1>3 DEF TypeOK

LEMMA OnFinishedKeeps ==
    ASSUME TypeOK, IInv, NEW r \in Replies, OnFinished(r)
    PROVE  TypeOK' /\ IInv'
<1>1. /\ emitting = NoReply /\ caller = NoReply /\ finishing = <<>> /\ r \in wire /\ ~IsGet(r)
      /\ Exists(r) /\ wire' = wire \ {r} /\ UNCHANGED <<engine, creators, gets, finishing, caller>>
  BY DEF OnFinished, Idle
<1>2. reply[r].owner = "parent" /\ ~reply[r].settled /\ reply[r].told = 0 /\ r # NoReply
  BY <1>1, ReplyTypes DEF IInv, ReplyInv, Exists
<1>3. ~IsWaiting(r)
  <2>1. \A n \in Names : \A i \in DOMAIN gets[n] : gets[n][i] # r
    BY <1>1 DEF IsGet, ToSet
  <2> QED BY <1>1, <2>1 DEF IsWaiting
<1>4. ASSUME \A q \in Replies : q # r => reply'[q] = reply[q] PROVE WaitingInv'
  <2>1. WaitingKept
    <3> SUFFICES ASSUME NEW q, IsWaiting(q) PROVE reply'[q] = reply[q] /\ (q \in wire' <=> q \in wire)
      BY DEF WaitingKept
    <3>1. q # r /\ q \in Replies
      BY <1>3, GetTypes, FinishingTypes DEF IsWaiting
    <3> QED BY <1>1, <1>4, <3>1
  <2> QED BY <1>1, <2>1, SameWaiting DEF IInv
<1>5. gets' \in [Names -> Seq(Replies)] /\ finishing' \in Seq(Replies) /\ wire' \subseteq wire /\ r \notin wire'
  BY <1>1 DEF TypeOK
<1>6. CASE engine = "alive"
  <2> DEFINE e == [reply[r] EXCEPT !.settled = TRUE]
             d == HandedOff(e)
  <2>1. /\ reply' = [reply EXCEPT ![r] = d] /\ emitting' = emitting
        /\ events' = Append(events, <<"finished", r>>)
    BY <1>6 DEF OnFinished, SettleLater
  <2>2. /\ e \in Reply /\ e.owner = "parent" /\ e.settled /\ e.told = 0
        /\ e.promise = reply[r].promise
    BY <1>2, ReplyTypes, SettledFields
  <2> HIDE DEF e
  <2>3. /\ d \in Reply /\ d.owner \in {"parent", "js"} /\ d.settled /\ d.told = 0
        /\ d.owner = "js" => engine = "alive" /\ ~d.promise
    BY <2>2, HandedOffFields
  <2> HIDE DEF d
  <2>4. /\ reply' \in [Replies -> Reply] /\ reply'[r] = d
        /\ \A q \in Replies : q # r => reply'[q] = reply[q]
    BY <2>1, <2>3 DEF TypeOK
  <2>5. EventsKept({}) /\ ~Untold(r)
    BY <1>1, <1>2, <2>1, <2>4, SettlingEvents
  <2>6. FinishKept(r)
    BY <1>1, <1>2, <2>1, <2>3, <2>4 DEF FinishKept, Exists
  <2>7. EventsInv' /\ Untold(r)' /\ events' \in Seq(Event) /\ \A q : Untold(q) => Untold(q)'
    BY <2>1, <2>5, <2>6, AppendedFinished, Appended DEF IInv
  <2> QED BY <1>1, <1>2, <1>4, <1>5, <2>1, <2>3, <2>4, <2>7, SettleKeeps
<1>7. CASE engine # "alive"
  <2>1. /\ SettleNow(r)
        /\ events' = IF reply[r].promise THEN Append(events, <<"delete", r>>) ELSE events
    BY <1>7 DEF OnFinished
  <2>2. /\ reply' \in [Replies -> Reply] /\ \A q \in Replies : q # r => reply'[q] = reply[q]
        /\ reply'[r].owner = "parent" /\ reply'[r].settled /\ emitting' = r
    BY <1>2, <2>1, SettleNowFields
  <2>3. EventsKept({})
    BY <1>1, <1>2, <2>2, SettlingEvents
  <2>4. EventsInv' /\ events' \in Seq(Event) /\ \A q \in Replies : Untold(q) => Untold(q)'
    <3>1. CASE reply[r].promise
      <4>1. events' = Append(events, <<"delete", r>>) /\ Exists(r)' /\ caller' # r
        BY <1>1, <1>2, <2>1, <2>2, <3>1 DEF Exists
      <4> QED BY <2>2, <2>3, <4>1, AppendedDelete, Appended DEF IInv
    <3>2. CASE ~reply[r].promise
      <4>1. events' = events
        BY <2>1, <3>2
      <4> QED BY <2>3, <4>1, SameEvents, EventTypes DEF IInv, Untold, FinishedAt
    <3> QED BY <3>1, <3>2
  <2> QED BY <1>1, <1>2, <1>4, <1>5, <2>2, <2>4, SettleKeeps
<1> QED BY <1>6, <1>7

\* finishPendingGet: those of the record are to be completed.
LEMMA FinishGetKeeps ==
    ASSUME TypeOK, IInv, NEW n \in Names, FinishGet(n)
    PROVE  TypeOK' /\ IInv'
<1>1. /\ emitting = NoReply /\ caller = NoReply /\ finishing = <<>> /\ gets[n] # <<>>
      /\ wire' = wire \ {Head(gets[n])} /\ finishing' = gets[n]
      /\ gets'[n] = <<>> /\ \A m \in Names : m # n => gets'[m] = gets[m]
      /\ gets' \in [Names -> Seq(Replies)]
      /\ UNCHANGED <<engine, creators, reply, events, emitting, caller>>
  BY DEF FinishGet, Idle, TypeOK
<1>2. Head(gets[n]) = gets[n][1] /\ 1 \in DOMAIN gets[n]
  BY <1>1, GetTypes, EmptySeq
<1>3. TypeOK'
  BY <1>1, GetTypes DEF TypeOK
<1>4. ASSUME NEW r \in Replies PROVE ReplyInv(r)'
  BY <1>1 DEF IInv, ReplyInv, Exists, Untold, FinishedAt
<1>5. EventsInv'
  BY <1>1 DEF IInv, EventsInv, FinishedInv, DeleteInv, FinishedAt, DeleteAt, Exists
<1>6. ASSUME NEW m \in Names, NEW i \in DOMAIN gets'[m] PROVE GetInv(m, i)'
  <2> DEFINE q == gets[m][i]
  <2>1. m # n /\ gets'[m] = gets[m] /\ i \in DOMAIN gets[m] /\ GetInv(m, i)
    BY <1>1 DEF IInv, WaitingInv
  <2>2. \A j \in DOMAIN gets[n] : gets[n][j] # q
    BY <2>1 DEF GetInv
  <2>3. (q \in wire' <=> i = 1) /\ \A j \in DOMAIN finishing' : finishing'[j] # q
    BY <1>1, <1>2, <2>1, <2>2 DEF GetInv
  <2>4. ASSUME NEW k \in Names, NEW j \in DOMAIN gets'[k], gets'[k][j] = q PROVE k = m /\ j = i
    <3>1. gets'[k] = gets[k]
      BY <1>1
    <3> QED BY <2>1, <2>4, <3>1 DEF GetInv
  <2> QED BY <1>1, <2>1, <2>3, <2>4 DEF GetInv
<1>7. ASSUME NEW i \in DOMAIN finishing' PROVE FinishingInv(i)'
  <2> PICK q \in Replies : q = gets[n][i]
    BY <1>1, GetTypes
  <2>1. finishing'[i] = q /\ i \in DOMAIN gets[n] /\ GetInv(n, i) /\ GetInv(n, 1)
    BY <1>1, <1>2 DEF IInv, WaitingInv
  <2>2. q \notin wire'
    BY <1>1, <1>2, <2>1 DEF GetInv
  <2>3. \A j \in DOMAIN finishing' : finishing'[j] = q => j = i
    BY <1>1, <2>1 DEF GetInv
  <2>4. /\ reply[q].owner \in {"parent", "destroyed"} /\ reply[q].of = "proxy"
        /\ ~reply[q].settled /\ ~reply[q].promise
    BY <2>1 DEF GetInv
  <2>5. /\ reply'[q].owner \in {"parent", "destroyed"} /\ reply'[q].of = "proxy"
        /\ ~reply'[q].settled /\ ~reply'[q].promise
    BY <1>1, <2>4
  <2> QED BY <2>1, <2>2, <2>3, <2>5 DEF FinishingInv
<1>8. CallerInv' /\ EmittingInv'
  BY <1>1 DEF CallerInv, EmittingInv
<1> QED BY <1>3, <1>4, <1>5, <1>6, <1>7, <1>8 DEF IInv, WaitingInv

\* completeFromReply, of the next one.
LEMMA CompleteKeeps ==
    ASSUME TypeOK, IInv, Complete
    PROVE  TypeOK' /\ IInv'
<1>1. /\ emitting = NoReply /\ caller = NoReply /\ finishing # <<>> /\ finishing' = Tail(finishing)
      /\ UNCHANGED <<engine, creators, wire, gets, events, caller>>
  BY DEF Complete
<1>2. /\ Head(finishing) = finishing[1] /\ 1 \in DOMAIN finishing
      /\ finishing' \in Seq(Replies) /\ DOMAIN finishing' = 1 .. Len(finishing) - 1
      /\ \A i \in DOMAIN finishing' : i + 1 \in DOMAIN finishing /\ finishing'[i] = finishing[i + 1]
  <2>1. /\ finishing' \in Seq(Replies) /\ Len(finishing') = Len(finishing) - 1
        /\ \A i \in 1 .. Len(finishing) - 1 : finishing'[i] = finishing[i + 1]
    BY <1>1, FinishingTypes, HeadTailProperties
  <2> QED BY <1>1, <2>1, FinishingTypes, EmptySeq, LenProperties
<1> PICK r \in Replies : r = finishing[1]
  BY <1>2, FinishingTypes
<1>3. Exists(r) /\ SettleNow(r)
  BY <1>2 DEF Complete
<1>4. FinishingInv(1) /\ reply[r].owner = "parent" /\ ~reply[r].settled /\ reply[r].told = 0 /\ r \notin wire
  BY <1>2, <1>3 DEF IInv, WaitingInv, FinishingInv, Exists, ReplyInv
<1>5. /\ reply' \in [Replies -> Reply] /\ \A q \in Replies : q # r => reply'[q] = reply[q]
      /\ reply'[r].owner = "parent" /\ reply'[r].settled /\ emitting' = r
  BY <1>3, <1>4, SettleNowFields
<1>6. EventsInv' /\ events' \in Seq(Event) /\ \A q \in Replies : Untold(q) => Untold(q)'
  <2>1. EventsKept({})
    BY <1>1, <1>4, <1>5, SettlingEvents
  <2> QED BY <1>1, <2>1, SameEvents, EventTypes DEF IInv, Untold, FinishedAt
<1>7. ASSUME NEW m \in Names, NEW i \in DOMAIN gets'[m] PROVE GetInv(m, i)'
  <2> DEFINE q == gets[m][i]
  <2>1. gets' = gets /\ i \in DOMAIN gets[m] /\ GetInv(m, i) /\ q \in Replies
    BY <1>1, GetTypes DEF IInv, WaitingInv
  <2>2. q # r
    BY <1>2, <2>1 DEF GetInv
  <2>3. reply'[q] = reply[q] /\ wire' = wire
    BY <1>1, <1>5, <2>1, <2>2
  <2>4. \A j \in DOMAIN finishing' : finishing'[j] # q
    BY <1>2, <2>1 DEF GetInv
  <2> QED BY <2>1, <2>3, <2>4 DEF GetInv
<1>8. ASSUME NEW i \in DOMAIN finishing' PROVE FinishingInv(i)'
  <2> DEFINE q == finishing[i + 1]
  <2>1. finishing'[i] = q /\ i + 1 \in DOMAIN finishing /\ FinishingInv(i + 1) /\ q \in Replies
    BY <1>2, FinishingTypes DEF IInv, WaitingInv
  <2>2. q # r
    BY <1>2, <1>4, <2>1, FinishingTypes DEF FinishingInv
  <2>3. reply'[q] = reply[q] /\ wire' = wire
    BY <1>1, <1>5, <2>1, <2>2
  <2>4. ASSUME NEW j \in DOMAIN finishing', finishing'[j] = q PROVE j = i
    <3>1. j + 1 = i + 1
      BY <1>2, <2>1, <2>4 DEF FinishingInv
    <3> QED BY <1>2, <3>1, FinishingTypes
  <2> HIDE DEF q
  <2>5. /\ reply[q].owner \in {"parent", "destroyed"} /\ reply[q].of = "proxy"
        /\ ~reply[q].settled /\ ~reply[q].promise /\ q \notin wire
    BY <2>1 DEF FinishingInv, q
  <2> QED BY <2>1, <2>3, <2>4, <2>5 DEF FinishingInv
<1>9. WaitingInv' /\ gets' \in [Names -> Seq(Replies)]
  BY <1>1, <1>7, <1>8 DEF WaitingInv, TypeOK
<1> QED BY <1>1, <1>2, <1>4, <1>5, <1>6, <1>9, SettleKeeps

-----------------------------------------------------------------------------
(* Emissions.                                                              *)

\* The first event is taken off the queue; behind the rest a deletion may be
\* appended.
LEMMA Taken ==
    ASSUME TypeOK, NEW r \in Replies, events # <<>>,
           events' \in {Tail(events), Append(Tail(events), <<"delete", r>>)}
    PROVE  /\ events' \in Seq(Event) /\ 1 \in DOMAIN events /\ Head(events) = events[1]
           /\ \A i \in DOMAIN events' : i # Len(events) =>
                 i + 1 \in DOMAIN events /\ events'[i] = events[i + 1]
           /\ \A i \in DOMAIN events : i # 1 => i - 1 \in DOMAIN events' /\ events'[i - 1] = events[i]
           /\ Len(events) \in DOMAIN events' =>
                 events'[Len(events)][1] = "delete" /\ events'[Len(events)][2] = r
<1> PICK n \in Nat : n = Len(events)
  BY EventTypes
<1> PICK t : t = Tail(events)
  OBVIOUS
<1>1. n # 0 /\ DOMAIN events = 1 .. n /\ events \in Seq(Event)
  BY EventTypes, EmptySeq
<1>2. /\ Head(events) = events[1] /\ t \in Seq(Event) /\ Len(t) = n - 1
      /\ \A i \in 1 .. n - 1 : t[i] = events[i + 1]
  BY <1>1, HeadTailProperties
<1>3. DOMAIN t = 1 .. n - 1
  BY <1>1, <1>2, LenProperties
<1>4. ASSUME NEW i \in 1 .. n, i # 1 PROVE i - 1 \in 1 .. n - 1 /\ t[i - 1] = events[i]
  <2>1. i - 1 \in 1 .. n - 1 /\ (i - 1) + 1 = i
    BY <1>4
  <2>2. t[i - 1] = events[(i - 1) + 1]
    BY <1>2, <2>1
  <2> QED BY <2>1, <2>2
<1>5. ASSUME NEW i \in 1 .. n - 1 PROVE i + 1 \in 1 .. n
  OBVIOUS
<1>6. 1 \in 1 .. n /\ n \notin 1 .. n - 1
  BY <1>1
<1>7. CASE events' = t
  <2>1. DOMAIN events' = 1 .. n - 1
    BY <1>3, <1>7
  <2> QED BY <1>1, <1>2, <1>4, <1>5, <1>6, <1>7, <2>1
<1>8. CASE events' = Append(t, <<"delete", r>>)
  <2>1. <<"delete", r>> \in Event
    BY DEF Event
  <2>2. /\ events' \in Seq(Event) /\ Len(events') = Len(t) + 1
        /\ \A i \in 1 .. Len(t) : events'[i] = t[i]
        /\ events'[Len(t) + 1] = <<"delete", r>>
    BY <1>2, <1>8, <2>1, AppendProperties
  <2>3. Len(events') = n /\ events'[n] = <<"delete", r>> /\ \A i \in 1 .. n - 1 : events'[i] = t[i]
    BY <1>2, <2>2
  <2>4. DOMAIN events' = 1 .. n
    BY <2>2, <2>3, LenProperties
  <2>5. \A i \in 1 .. n : i # n => i \in 1 .. n - 1
    OBVIOUS
  <2>6. \A i \in 1 .. n - 1 : i \in 1 .. n
    OBVIOUS
  <2>7. ASSUME NEW i \in DOMAIN events', i # n
        PROVE  i + 1 \in DOMAIN events /\ events'[i] = events[i + 1]
    BY <1>1, <1>2, <1>5, <2>3, <2>4, <2>5, <2>7
  <2>8. ASSUME NEW i \in DOMAIN events, i # 1
        PROVE  i - 1 \in DOMAIN events' /\ events'[i - 1] = events[i]
    <3>1. i - 1 \in 1 .. n - 1 /\ t[i - 1] = events[i]
      BY <1>1, <1>4, <2>8
    <3> QED BY <2>3, <2>4, <2>6, <3>1
  <2>9. events'[n][1] = "delete" /\ events'[n][2] = r
    BY <2>3
  <2> QED BY <1>1, <1>2, <1>6, <2>2, <2>7, <2>8, <2>9
<1> QED BY <1>7, <1>8

\* The posted emission of one reply.
LEMMA DeliverKeeps ==
    ASSUME TypeOK, IInv, Deliver
    PROVE  TypeOK' /\ IInv'
<1>1. /\ emitting = NoReply /\ caller = NoReply /\ finishing = <<>> /\ events # <<>>
      /\ UNCHANGED <<engine, creators, wire, gets, finishing, caller>>
  BY DEF Deliver, Idle
<1>2. 1 \in DOMAIN events /\ Head(events) = events[1]
  BY <1>1, EventTypes, EmptySeq
<1> PICK r \in Replies : r = events[1][2]
  BY <1>2, EventTypes
<1>3. /\ FinishedAt(1, r) /\ emitting' = r /\ reply' = [reply EXCEPT ![r] = Told(@)]
      /\ events' \in {Tail(events), Append(Tail(events), <<"delete", r>>)}
  BY <1>2 DEF Deliver, FinishedAt
<1>4. FinishedInv(1, r)
  BY <1>2, <1>3 DEF IInv, EventsInv
<1>5. /\ Told(reply[r]) \in Reply /\ Told(reply[r]).owner = reply[r].owner
      /\ Told(reply[r]).of = reply[r].of /\ Told(reply[r]).promise = reply[r].promise
      /\ Told(reply[r]).settled = reply[r].settled
  BY <1>4, ReplyTypes, ToldFields DEF FinishedInv
<1>6. /\ reply' \in [Replies -> Reply] /\ \A q \in Replies : q # r => reply'[q] = reply[q]
      /\ reply'[r].owner = reply[r].owner /\ reply'[r].of = reply[r].of
      /\ reply'[r].promise = reply[r].promise /\ reply'[r].settled = reply[r].settled
  BY <1>3, <1>5 DEF TypeOK
<1>7. Exists(r) /\ reply[r].settled /\ reply[r].owner \in {"parent", "js"}
  BY <1>4 DEF FinishedInv, Exists
<1>8. /\ events' \in Seq(Event)
      /\ \A i \in DOMAIN events' : i # Len(events) =>
            i + 1 \in DOMAIN events /\ events'[i] = events[i + 1]
      /\ \A i \in DOMAIN events : i # 1 => i - 1 \in DOMAIN events' /\ events'[i - 1] = events[i]
      /\ Len(events) \in DOMAIN events' =>
            events'[Len(events)][1] = "delete" /\ events'[Len(events)][2] = r
  BY <1>1, <1>3, Taken
<1>9. DOMAIN events = 1 .. Len(events) /\ Len(events) \in Nat
      /\ DOMAIN events' = 1 .. Len(events') /\ Len(events') \in Nat
  BY <1>8, EventTypes, LenProperties
<1>10. TypeOK'
  <2>1. \A q \in Replies : reply'[q].owner = "js" => engine' = "alive" /\ ~reply'[q].promise
    BY <1>1, <1>6, ReplyTypes
  <2> QED BY <1>1, <1>3, <1>6, <1>8, <2>1 DEF TypeOK, Event
<1>11. ASSUME NEW i \in DOMAIN events', NEW q \in Replies, FinishedAt(i, q)'
       PROVE  i + 1 \in DOMAIN events /\ FinishedAt(i + 1, q) /\ q # r
  <2>1. i # Len(events)
    BY <1>8, <1>11 DEF FinishedAt
  <2>2. i + 1 \in DOMAIN events /\ FinishedAt(i + 1, q)
    BY <1>8, <1>11, <2>1 DEF FinishedAt
  <2>3. i + 1 # 1
    BY <1>9
  <2> QED BY <1>4, <2>2, <2>3 DEF FinishedInv
<1>12. ASSUME NEW q \in Replies, NEW i \in DOMAIN events, FinishedAt(i, q), q # r
       PROVE  i # 1 /\ i - 1 \in DOMAIN events' /\ FinishedAt(i - 1, q)'
  <2>1. i # 1
    BY <1>3, <1>12 DEF FinishedAt
  <2> QED BY <1>8, <1>12, <2>1 DEF FinishedAt
<1>13. ASSUME NEW i \in DOMAIN events', NEW q \in Replies, FinishedAt(i, q)'
       PROVE  FinishedInv(i, q)'
  <2>1. FinishedInv(i + 1, q) /\ q # r
    BY <1>11, <1>13 DEF IInv, EventsInv
  <2>2. ASSUME NEW j \in DOMAIN events', FinishedAt(j, q)' PROVE j = i
    <3>1. j + 1 = i + 1
      BY <1>11, <2>1, <2>2 DEF FinishedInv
    <3> QED BY <1>9, <3>1
  <2> QED BY <1>3, <1>6, <2>1, <2>2 DEF FinishedInv, Exists
<1>14. ASSUME NEW i \in DOMAIN events', NEW q \in Replies, DeleteAt(i, q)'
       PROVE  DeleteInv(i, q)'
  <2>1. CASE q = r
    BY <1>1, <1>3, <1>6, <1>7, <2>1, ReplyTypes DEF DeleteInv, Exists
  <2>2. CASE q # r
    <3>1. i # Len(events)
      BY <1>8, <1>14, <2>2 DEF DeleteAt
    <3>2. i + 1 \in DOMAIN events /\ DeleteAt(i + 1, q)
      BY <1>8, <1>14, <3>1 DEF DeleteAt
    <3>3. DeleteInv(i + 1, q) /\ reply'[q] = reply[q] /\ emitting # q
      BY <1>1, <1>6, <2>2, <3>2, ReplyTypes DEF IInv, EventsInv
    <3>4. ASSUME NEW j \in 1 .. (i + 1) - 1, FinishedAt(j, q)
          PROVE  \E k \in 1 .. i - 1 : FinishedAt(k, q)'
      <4>1. j \in DOMAIN events
        BY <1>9, <3>2
      <4>2. j # 1 /\ FinishedAt(j - 1, q)'
        BY <1>12, <2>2, <3>4, <4>1
      <4>3. j - 1 \in 1 .. i - 1
        BY <1>9, <4>2
      <4> QED BY <4>2, <4>3
    <3> QED BY <1>1, <3>3, <3>4 DEF DeleteInv, Exists
  <2> QED BY <2>1, <2>2
<1>15. EventsInv'
  BY <1>13, <1>14 DEF EventsInv
<1>16. ASSUME NEW q \in Replies PROVE ReplyInv(q)'
  <2>1. CASE q = r
    BY <1>1, <1>3, <1>6, <1>7, <2>1 DEF IInv, ReplyInv, Exists
  <2>2. CASE q # r
    <3>1. reply'[q] = reply[q] /\ caller' # q /\ emitting # q
      BY <1>1, <1>6, <2>2, ReplyTypes
    <3>2. Untold(q) => Untold(q)'
      BY <1>12, <2>2 DEF Untold
    <3> QED BY <1>1, <3>1, <3>2 DEF IInv, ReplyInv, Exists
  <2> QED BY <2>1, <2>2
<1>17. WaitingInv'
  <2>1. WaitingKept
    <3> SUFFICES ASSUME NEW q, IsWaiting(q)
                 PROVE  /\ reply'[q].owner = reply[q].owner /\ reply'[q].of = reply[q].of
                        /\ reply'[q].promise = reply[q].promise
                        /\ reply'[q].settled = reply[q].settled
      BY <1>1 DEF WaitingKept
    <3>1. q \in Replies
      BY GetTypes, FinishingTypes DEF IsWaiting
    <3> QED BY <1>6, <3>1
  <2> QED BY <1>1, <2>1, SameWaiting DEF IInv
<1>18. CallerInv' /\ EmittingInv'
  BY <1>1, <1>3, <1>6, <1>7 DEF CallerInv, EmittingInv
<1> QED BY <1>10, <1>15, <1>16, <1>17, <1>18 DEF IInv

\* The receivers return: they are disconnected, and the reply is handed off.
LEMMA EmissionReturnsKeeps ==
    ASSUME TypeOK, IInv, EmissionReturns
    PROVE  TypeOK' /\ IInv'
<1> PICK r \in Replies : r = emitting
  BY DEF EmissionReturns, TypeOK
<1> DEFINE e == [reply[r] EXCEPT !.receiver = "none"]
           d == IF Exists(r) THEN HandedOff(e) ELSE e
<1>1. /\ reply' = [reply EXCEPT ![r] = d] /\ emitting' = NoReply /\ caller = NoReply /\ r # NoReply
      /\ UNCHANGED <<engine, creators, wire, gets, events, finishing, caller>>
  BY ReplyTypes DEF EmissionReturns
<1>2. /\ e \in Reply /\ e.owner = reply[r].owner /\ e.of = reply[r].of /\ e.receiver = "none"
      /\ e.promise = reply[r].promise /\ e.settled = reply[r].settled /\ e.told = reply[r].told
  BY ReplyTypes DEF Reply
<1> HIDE DEF e
<1>3. /\ d \in Reply /\ d.of = reply[r].of /\ d.receiver = "none"
      /\ d.promise = reply[r].promise /\ d.settled = reply[r].settled /\ d.told = reply[r].told
      /\ Exists(r) => d.owner \in {"parent", "js"}
      /\ ~Exists(r) => d.owner = reply[r].owner
      /\ d.owner = "js" => engine = "alive" /\ ~reply[r].promise
  <2>1. CASE Exists(r)
    <3>1. d = HandedOff(e) /\ e.owner \in {"parent", "js"}
      BY <1>2, <2>1 DEF Exists
    <3>2. e.owner = "js" => engine = "alive" /\ ~reply[r].promise
      BY <1>2, ReplyTypes
    <3> HIDE DEF d
    <3> QED BY <1>2, <2>1, <3>1, <3>2, HandedOffFields
  <2>2. CASE ~Exists(r)
    BY <1>2, <2>2, ReplyTypes DEF Exists
  <2> QED BY <2>1, <2>2
<1> HIDE DEF d
<1>4. /\ reply' \in [Replies -> Reply] /\ reply'[r] = d
      /\ \A q \in Replies : q # r => reply'[q] = reply[q]
  BY <1>1, <1>3 DEF TypeOK
<1>5. reply[r].owner # "unborn" /\ (Exists(r) => reply[r].settled)
  BY <1>1 DEF IInv, EmittingInv
<1>6. TypeOK'
  <2>1. \A q \in Replies : reply'[q].owner = "js" => engine' = "alive" /\ ~reply'[q].promise
    BY <1>1, <1>3, <1>4, ReplyTypes
  <2> QED BY <1>1, <1>4, <2>1 DEF TypeOK
<1>7. ASSUME NEW q \in Replies PROVE ReplyInv(q)'
  <2>1. Untold(q)' <=> Untold(q)
    BY <1>1 DEF Untold, FinishedAt
  <2>2. ReplyInv(q)
    BY DEF IInv
  <2>3. CASE q = r
    <3>1. r \in wire => reply'[r].owner \in {"parent", "destroyed"} /\ ~reply'[r].settled
      BY <1>3, <1>4, <1>5, <2>2, <2>3 DEF ReplyInv
    <3>2. ~Exists(r) => ~Exists(r)'
      BY <1>3, <1>4 DEF Exists
    <3>3. reply'[r].owner = "js" => reply'[r].settled
      BY <1>3, <1>4, <1>5, <2>2, <2>3 DEF ReplyInv, Exists
    <3>4. Exists(r)' => reply'[r].settled
      BY <1>3, <1>4, <1>5, <3>2
    <3>5. reply'[r].receiver = "none" /\ caller' # r
      BY <1>1, <1>3, <1>4
    <3> QED BY <1>1, <2>3, <3>1, <3>3, <3>4, <3>5 DEF ReplyInv
  <2>4. CASE q # r
    <3>1. reply'[q] = reply[q] /\ caller' # q /\ emitting # q
      BY <1>1, <1>4, <2>4, ReplyTypes
    <3> QED BY <1>1, <2>1, <2>2, <3>1 DEF ReplyInv, Exists
  <2> QED BY <2>3, <2>4
<1>8. EventsInv'
  <2>1. EventsKept({})
    <3> SUFFICES ASSUME NEW i \in DOMAIN events, NEW q \in Replies
                 PROVE  /\ FinishedAt(i, q) => FinishKept(q)
                        /\ DeleteAt(i, q) => DeleteKept(q)
      BY DEF EventsKept
    <3>1. ASSUME FinishedAt(i, q) PROVE FinishKept(q)
      <4>1. FinishedInv(i, q) /\ q # r
        BY <3>1 DEF IInv, EventsInv, FinishedInv
      <4> QED BY <1>1, <1>4, <4>1, ReplyTypes DEF FinishedInv, FinishKept, Exists
    <3>2. ASSUME DeleteAt(i, q) PROVE DeleteKept(q)
      <4>1. DeleteInv(i, q)
        BY <3>2 DEF IInv, EventsInv
      <4>2. CASE q = r
        <5>1. Exists(r) /\ reply'[r].owner \in {"parent", "js"} /\ reply'[r].settled
              /\ reply'[r].receiver = "none"
          BY <1>3, <1>4, <4>1, <4>2 DEF DeleteInv
        <5> QED BY <1>1, <4>2, <5>1 DEF DeleteKept, Exists
      <4>3. CASE q # r
        BY <1>1, <1>4, <4>1, <4>3, ReplyTypes DEF DeleteInv, DeleteKept, Exists
      <4> QED BY <4>2, <4>3
    <3> QED BY <3>1, <3>2
  <2> QED BY <1>1, <2>1, SameEvents DEF IInv
<1>9. WaitingInv'
  <2>1. WaitingKept
    <3> SUFFICES ASSUME NEW q, IsWaiting(q)
                 PROVE  /\ reply'[q].owner = reply[q].owner /\ reply'[q].of = reply[q].of
                        /\ reply'[q].promise = reply[q].promise
                        /\ reply'[q].settled = reply[q].settled
      BY <1>1 DEF WaitingKept
    <3>1. q \in Replies /\ ~reply[q].settled
      BY GetTypes, FinishingTypes, WaitingFacts DEF IsWaiting
    <3>2. CASE q = r
      BY <1>3, <1>4, <1>5, <3>1, <3>2
    <3>3. CASE q # r
      BY <1>4, <3>1, <3>3
    <3> QED BY <3>2, <3>3
  <2> QED BY <1>1, <2>1, SameWaiting DEF IInv
<1>10. CallerInv' /\ EmittingInv'
  BY <1>1 DEF CallerInv, EmittingInv
<1> QED BY <1>6, <1>7, <1>8, <1>9, <1>10 DEF IInv

-----------------------------------------------------------------------------
(* Deletion.                                                               *)

\* Replies end, with what was posted to them; a receiver of another may go.
\* Only what the application destroys had not settled.
LEMMA DeletedKeeps ==
    ASSUME TypeOK, IInv, NEW dead \in SUBSET Replies, NEW how \in {"deleted", "destroyed"},
           \A q \in dead : how = "destroyed" \/ reply[q].settled, caller = NoReply,
           UNCHANGED <<emitting, finishing, caller>>, engine' \in {engine, "gone"},
           \A q \in Replies : reply[q].owner = "js" /\ q \notin dead => engine' = engine,
           creators' \subseteq creators, reply' \in [Replies -> Reply],
           \A q \in dead : reply'[q] = Ghost(q, how),
           \A q \in Replies : q \notin dead =>
               /\ reply'[q].owner = reply[q].owner /\ reply'[q].of = reply[q].of
               /\ reply'[q].promise = reply[q].promise /\ reply'[q].settled = reply[q].settled
               /\ reply'[q].told = reply[q].told /\ reply'[q].receiver \in {reply[q].receiver, "none"},
           wire' \subseteq wire, events' = Purged(dead), gets' \in [Names -> Seq(Replies)],
           \A n \in Names : DOMAIN gets'[n] # {} => gets' = gets,
           \A n \in Names : \A i \in DOMAIN gets'[n] : gets'[n][i] \in wire => gets'[n][i] \in wire'
    PROVE  TypeOK' /\ IInv'
<1>1. ASSUME NEW q \in dead
      PROVE  /\ q \in Replies /\ reply'[q].owner = how /\ ~reply'[q].settled
             /\ (reply'[q].promise <=> reply[q].promise) /\ reply'[q].of = reply[q].of
             /\ how = "destroyed" \/ (q \notin wire' /\ ~IsWaiting(q))
  <2>1. q \in Replies /\ reply'[q] = Ghost(q, how)
    OBVIOUS
  <2>2. how = "destroyed" \/ (q \notin wire' /\ ~IsWaiting(q))
    BY <2>1, WaitingFacts DEF IInv, ReplyInv
  <2> QED BY <2>1, <2>2, ReplyTypes, GhostFields
<1>2. ASSUME NEW q \in Replies, q \notin dead
      PROVE  /\ reply'[q].owner = reply[q].owner /\ reply'[q].of = reply[q].of
             /\ reply'[q].promise = reply[q].promise /\ reply'[q].settled = reply[q].settled
             /\ reply'[q].told = reply[q].told /\ reply'[q].receiver \in {reply[q].receiver, "none"}
             /\ Exists(q)' <=> Exists(q)
             /\ q \in wire' => q \in wire
  BY <1>2 DEF Exists
<1>3. EventsKept(dead)
  <2> SUFFICES ASSUME NEW i \in DOMAIN events, NEW q \in Replies, q \notin dead
               PROVE  /\ FinishedAt(i, q) => FinishKept(q)
                      /\ DeleteAt(i, q) => DeleteKept(q)
    BY DEF EventsKept
  <2>1. FinishedAt(i, q) => FinishKept(q)
    BY <1>2 DEF IInv, EventsInv, FinishedInv, FinishKept
  <2>2. ASSUME DeleteAt(i, q) PROVE DeleteKept(q)
    <3>1. DeleteInv(i, q)
      BY <2>2 DEF IInv, EventsInv
    <3>2. caller' # q /\ emitting' = emitting
      BY ReplyTypes
    <3> QED BY <1>2, <3>1, <3>2 DEF DeleteInv, DeleteKept
  <2> QED BY <2>1, <2>2
<1>4. /\ events' \in Seq(Event) /\ EventsInv'
      /\ \A q \in Replies : q \notin dead => (Untold(q) => Untold(q)')
  BY <1>3, PurgedEvents DEF IInv
<1>5. TypeOK'
  <2>1. ASSUME NEW q \in Replies, reply'[q].owner = "js"
        PROVE  engine' = "alive" /\ ~reply'[q].promise
    <3>1. q \notin dead
      BY <1>1, <2>1
    <3>2. reply[q].owner = "js" /\ reply'[q].promise = reply[q].promise
      BY <1>2, <2>1, <3>1
    <3>3. engine' = engine
      BY <3>1, <3>2
    <3> QED BY <3>2, <3>3, ReplyTypes
  <2>2. engine' \in {"none", "alive", "gone"} /\ creators' \subseteq {"proxy", "connection"}
    BY DEF TypeOK
  <2> QED BY <1>4, <2>1, <2>2 DEF TypeOK, Event
<1>6. ASSUME NEW q \in Replies PROVE ReplyInv(q)'
  <2>1. CASE q \in dead
    BY <1>1, <2>1 DEF ReplyInv, Exists
  <2>2. CASE q \notin dead
    <3>1. caller' # q /\ emitting' = emitting
      BY ReplyTypes
    <3>2. Untold(q) => Untold(q)'
      BY <1>4, <2>2
    <3>3. ReplyInv(q)
      BY DEF IInv
    <3>4. reply[q].receiver = "none" => reply'[q].receiver = "none"
      BY <1>2, <2>2
    <3> QED BY <1>2, <2>2, <3>1, <3>2, <3>3, <3>4 DEF ReplyInv
  <2> QED BY <2>1, <2>2
<1>7. ASSUME NEW n \in Names, NEW i \in DOMAIN gets'[n] PROVE GetInv(n, i)'
  <2>1. gets' = gets /\ finishing' = finishing
    BY <1>7
  <2> PICK q \in Replies : q = gets[n][i]
    BY <2>1, GetTypes
  <2>2. GetInv(n, i) /\ gets'[n][i] = q /\ (q \in wire' <=> q \in wire) /\ IsWaiting(q)
    BY <2>1 DEF IInv, WaitingInv, IsWaiting
  <2>3. /\ reply[q].owner \in {"parent", "destroyed"} /\ reply[q].of = "proxy"
        /\ ~reply[q].promise /\ ~reply[q].settled
    BY <2>2 DEF GetInv
  <2>4. /\ reply'[q].owner \in {"parent", "destroyed"} /\ reply'[q].of = "proxy"
        /\ ~reply'[q].promise /\ ~reply'[q].settled
    BY <1>1, <1>2, <2>2, <2>3
  <2> QED BY <2>1, <2>2, <2>4 DEF GetInv
<1>8. ASSUME NEW i \in DOMAIN finishing PROVE FinishingInv(i)'
  <2> PICK q \in Replies : q = finishing[i]
    BY FinishingTypes
  <2>1. FinishingInv(i) /\ finishing' = finishing
    BY DEF IInv, WaitingInv
  <2>2. /\ reply[q].owner \in {"parent", "destroyed"} /\ reply[q].of = "proxy"
        /\ ~reply[q].promise /\ ~reply[q].settled /\ IsWaiting(q)
    BY <2>1 DEF FinishingInv, IsWaiting
  <2>3. /\ reply'[q].owner \in {"parent", "destroyed"} /\ reply'[q].of = "proxy"
        /\ ~reply'[q].promise /\ ~reply'[q].settled
    BY <1>1, <1>2, <2>2
  <2> QED BY <2>1, <2>3 DEF FinishingInv
<1>9. WaitingInv'
  <2>1. finishing' = finishing
    OBVIOUS
  <2> QED BY <1>7, <1>8, <2>1 DEF WaitingInv
<1>10. CallerInv' /\ EmittingInv'
  <2>1. CallerInv'
    BY DEF CallerInv
  <2>2. ASSUME emitting # NoReply
        PROVE  reply'[emitting].owner # "unborn" /\ (Exists(emitting)' => reply'[emitting].settled)
    <3> PICK q \in Replies : q = emitting
      BY <2>2 DEF TypeOK
    <3>1. reply[q].owner # "unborn" /\ (Exists(q) => reply[q].settled) /\ emitting' = q
      BY <2>2 DEF IInv, EmittingInv
    <3>2. CASE q \in dead
      BY <1>1, <3>1, <3>2 DEF Exists
    <3>3. CASE q \notin dead
      <4>1. reply'[q].owner # "unborn" /\ (Exists(q)' => reply'[q].settled)
        BY <1>2, <3>1, <3>3
      <4> QED BY <3>1, <4>1 DEF Exists
    <3> QED BY <3>2, <3>3
  <2>3. EmittingInv'
    BY <2>2 DEF EmittingInv
  <2> QED BY <2>1, <2>3
<1> QED BY <1>4, <1>5, <1>6, <1>9, <1>10 DEF IInv

\* The application destroys a reply, whoever holds a pointer to it; a deferred
\* deletion comes when it has settled.
LEMMA OneDeletedKeeps ==
    ASSUME TypeOK, IInv, NEW r \in Replies, NEW how \in {"deleted", "destroyed"},
           how = "destroyed" \/ reply[r].settled, Deleted({r}, how), caller = NoReply,
           UNCHANGED <<engine, creators, wire, gets, emitting, finishing, caller>>
    PROVE  TypeOK' /\ IInv'
<1> DEFINE dead == {r}
<1>1. /\ reply' = [q \in Replies |-> IF q \in dead THEN Ghost(q, how) ELSE reply[q]]
      /\ events' = Purged(dead)
  BY DEF Deleted
<1>2. dead \in SUBSET Replies /\ \A q \in dead : how = "destroyed" \/ reply[q].settled
  OBVIOUS
<1> HIDE DEF dead
<1>3. ASSUME NEW q \in Replies PROVE reply'[q] \in Reply
  BY <1>1, ReplyTypes, GhostFields
<1>4. reply' \in [Replies -> Reply] /\ gets' \in [Names -> Seq(Replies)]
  BY <1>1, <1>3 DEF TypeOK
<1> QED BY <1>1, <1>2, <1>4, DeletedKeeps

LEMMA DestroyReplyKeeps ==
    ASSUME TypeOK, IInv, NEW r \in Replies, DestroyReply(r)
    PROVE  TypeOK' /\ IInv'
BY OneDeletedKeeps DEF DestroyReply, UserMayRun

LEMMA DeferredDeleteKeeps ==
    ASSUME TypeOK, IInv, DeferredDelete
    PROVE  TypeOK' /\ IInv'
<1>1. /\ caller = NoReply /\ events # <<>> /\ Head(events)[1] = "delete"
      /\ Deleted({Head(events)[2]}, "deleted")
      /\ UNCHANGED <<engine, creators, wire, gets, emitting, finishing, caller>>
  BY DEF DeferredDelete, Idle
<1>2. 1 \in DOMAIN events /\ Head(events) = events[1]
  BY <1>1, EventTypes, EmptySeq
<1> PICK r \in Replies : r = events[1][2]
  BY <1>2, EventTypes
<1>3. DeleteAt(1, r) /\ Deleted({r}, "deleted")
  BY <1>1, <1>2 DEF DeleteAt
<1>4. reply[r].settled
  BY <1>2, <1>3 DEF IInv, EventsInv, DeleteInv
<1> QED BY <1>1, <1>3, <1>4, OneDeletedKeeps

\* The proxy's destruction takes the records of its Gets with it and their
\* watchers; the connection has none.
LEMMA DestroyCreatorKeeps ==
    ASSUME TypeOK, IInv, NEW c, DestroyCreator(c)
    PROVE  TypeOK' /\ IInv'
<1> DEFINE dead == {r \in Replies : reply[r].owner = "parent" /\ reply[r].of = c}
<1>1. /\ caller = NoReply /\ c \in creators /\ creators' = creators \ {c}
      /\ Deleted(dead, "destroyed") /\ wire' = {r \in wire : reply[r].of # c}
      /\ gets' = IF c = "proxy" THEN [n \in Names |-> <<>>] ELSE gets
      /\ UNCHANGED <<engine, emitting, finishing, caller>>
  BY DEF DestroyCreator, UserMayRun
<1>2. dead \in SUBSET Replies /\ wire' \subseteq wire
  BY <1>1
<1> HIDE DEF dead
<1>3. /\ reply' = [r \in Replies |-> IF r \in dead THEN Ghost(r, "destroyed") ELSE reply[r]]
      /\ events' = Purged(dead)
  BY <1>1 DEF Deleted
<1>4. ASSUME NEW q \in Replies PROVE reply'[q] \in Reply
  BY <1>3, ReplyTypes, GhostFields
<1>5. reply' \in [Replies -> Reply]
  BY <1>3, <1>4
<1>6. /\ gets' \in [Names -> Seq(Replies)]
      /\ \A n \in Names : DOMAIN gets'[n] # {} => gets' = gets /\ c # "proxy"
  BY <1>1 DEF TypeOK
<1>7. ASSUME NEW n \in Names, NEW i \in DOMAIN gets'[n], gets'[n][i] \in wire
      PROVE  gets'[n][i] \in wire'
  <2>1. gets' = gets /\ c # "proxy"
    BY <1>6, <1>7
  <2>2. reply[gets[n][i]].of = "proxy"
    BY <2>1 DEF IInv, WaitingInv, GetInv
  <2> QED BY <1>1, <1>7, <2>1, <2>2
<1> QED BY <1>1, <1>2, <1>3, <1>5, <1>6, <1>7, DeletedKeeps

\* The collector's replies go with the engine, and JavaScript's receivers.
LEMMA EngineGoesKeeps ==
    ASSUME TypeOK, IInv, EngineGoes
    PROVE  TypeOK' /\ IInv'
<1> DEFINE dead == {r \in Replies : reply[r].owner = "js"}
           Rest(r) == [reply[r] EXCEPT !.receiver = IF reply[r].promise THEN @ ELSE "none"]
<1>1. /\ caller = NoReply /\ engine' = "gone" /\ events' = Purged(dead)
      /\ reply' = [r \in Replies |-> IF r \in dead THEN Ghost(r, "deleted") ELSE Rest(r)]
      /\ UNCHANGED <<creators, wire, gets, emitting, finishing, caller>>
  BY DEF EngineGoes, Idle
<1>2. ASSUME NEW q \in Replies
      PROVE  /\ Rest(q) \in Reply
             /\ Rest(q).owner = reply[q].owner /\ Rest(q).of = reply[q].of
             /\ Rest(q).promise = reply[q].promise /\ Rest(q).settled = reply[q].settled
             /\ Rest(q).told = reply[q].told /\ Rest(q).receiver \in {reply[q].receiver, "none"}
  BY ReplyTypes DEF Reply
<1>3. /\ dead \in SUBSET Replies /\ \A q \in dead : reply[q].owner = "js"
      /\ \A q \in Replies : reply[q].owner = "js" => q \in dead
  OBVIOUS
<1> HIDE DEF dead, Rest
<1>4. ASSUME NEW q \in Replies PROVE reply'[q] \in Reply
  BY <1>1, <1>2, ReplyTypes, GhostFields
<1>5. reply' \in [Replies -> Reply]
  BY <1>1, <1>4
<1>6. \A q \in Replies : q \notin dead => reply'[q] = Rest(q)
  BY <1>1
<1>7. \A q \in dead : reply[q].settled
  BY <1>3 DEF IInv, ReplyInv
<1>8. gets' \in [Names -> Seq(Replies)]
  BY <1>1 DEF TypeOK
<1>9. /\ \A q \in dead : reply'[q] = Ghost(q, "deleted")
      /\ \A q \in Replies : q \notin dead =>
            /\ reply'[q].owner = reply[q].owner /\ reply'[q].of = reply[q].of
            /\ reply'[q].promise = reply[q].promise /\ reply'[q].settled = reply[q].settled
            /\ reply'[q].told = reply[q].told /\ reply'[q].receiver \in {reply[q].receiver, "none"}
  BY <1>1, <1>2, <1>3, <1>6
<1> QED BY <1>1, <1>3, <1>5, <1>7, <1>8, <1>9, DeletedKeeps

\* The collector posts the deletion of what has settled, behind its emission.
LEMMA CollectKeeps ==
    ASSUME TypeOK, IInv, NEW r \in Replies, Collect(r)
    PROVE  TypeOK' /\ IInv'
<1>1. /\ caller # r /\ reply[r].owner = "js" /\ events' = Append(events, <<"delete", r>>)
      /\ emitting # r
      /\ UNCHANGED <<engine, creators, reply, wire, gets, emitting, finishing, caller>>
  BY DEF Collect
<1>2. Exists(r)' /\ reply'[r].settled /\ (reply'[r].receiver # "none" => Untold(r))
  BY <1>1 DEF IInv, ReplyInv, Exists
<1>3. EventsKept({})
  BY <1>1 DEF IInv, EventsInv, FinishedInv, DeleteInv, EventsKept, FinishKept, DeleteKept, Exists
<1>4. EventsInv' /\ events' \in Seq(Event) /\ \A q : Untold(q) => Untold(q)'
  BY <1>1, <1>2, <1>3, Appended, AppendedDelete DEF IInv
<1>5. \A q \in Replies : ReplyInv(q)'
  BY <1>1, <1>4 DEF IInv, ReplyInv, Exists
<1>6. WaitingInv'
  BY <1>1, SameWaiting DEF IInv, WaitingKept
<1>7. TypeOK'
  BY <1>1, <1>4 DEF TypeOK, Event
<1>8. CallerInv' /\ EmittingInv'
  BY <1>1 DEF IInv, CallerInv, EmittingInv, Exists
<1> QED BY <1>4, <1>5, <1>6, <1>7, <1>8 DEF IInv

-----------------------------------------------------------------------------
(* The invariant, and the theorems.                                        *)

LEMMA Invariant == Spec => [](TypeOK /\ IInv)
<1>1. Init => TypeOK /\ IInv
  <2> SUFFICES ASSUME Init PROVE TypeOK /\ IInv
    OBVIOUS
  <2>1. /\ \A r \in Replies : reply[r] = Unborn
        /\ reply \in [Replies -> Reply] /\ gets \in [Names -> Seq(Replies)]
    BY UnbornFields, EmptySeq DEF Init
  <2>2. /\ wire = {} /\ events = <<>> /\ emitting = NoReply /\ finishing = <<>> /\ caller = NoReply
        /\ DOMAIN events = {} /\ DOMAIN finishing = {} /\ \A n \in Names : DOMAIN gets[n] = {}
    BY DEF Init
  <2>3. TypeOK
    BY <2>1, <2>2, UnbornFields, EmptySeq DEF Init, TypeOK
  <2>4. IInv
    BY <2>1, <2>2, UnbornFields
       DEF IInv, ReplyInv, EventsInv, WaitingInv, CallerInv, EmittingInv, Exists
  <2> QED BY <2>3, <2>4
<1>2. TypeOK /\ IInv /\ [Next]_vars => TypeOK' /\ IInv'
  <2> SUFFICES ASSUME TypeOK, IInv, [Next]_vars PROVE TypeOK' /\ IInv'
    OBVIOUS
  <2>1. ASSUME NEW r \in Replies, Promise(r) \/ \E of \in CallMakers : Call(r, of)
        PROVE  TypeOK' /\ IInv'
    BY <2>1, CallKeeps
  <2>2. ASSUME NEW r \in Replies, NEW n \in Names, GetProperty(r, n) PROVE TypeOK' /\ IInv'
    BY <2>2, GetPropertyKeeps
  <2>3. ASSUME NEW receiver \in Handlers, Returned(receiver) PROVE TypeOK' /\ IInv'
    BY <2>3, ReturnedKeeps
  <2>4. ASSUME NEW r \in Replies, OnFinished(r) PROVE TypeOK' /\ IInv'
    BY <2>4, OnFinishedKeeps
  <2>5. ASSUME NEW n \in Names, FinishGet(n) PROVE TypeOK' /\ IInv'
    BY <2>5, FinishGetKeeps
  <2>6. ASSUME Complete \/ Deliver \/ EmissionReturns PROVE TypeOK' /\ IInv'
    BY <2>6, CompleteKeeps, DeliverKeeps, EmissionReturnsKeeps
  <2>7. ASSUME DeferredDelete \/ EngineGoes \/ \E r \in Replies : DestroyReply(r)
        PROVE  TypeOK' /\ IInv'
    BY <2>7, DestroyReplyKeeps, DeferredDeleteKeeps, EngineGoesKeeps
  <2>8. ASSUME NEW c \in creators, DestroyCreator(c) PROVE TypeOK' /\ IInv'
    BY <2>8, DestroyCreatorKeeps
  <2>9. ASSUME NEW r \in Replies, Collect(r) PROVE TypeOK' /\ IInv'
    BY <2>9, CollectKeeps
  <2>10. CASE UNCHANGED vars
    <3>1. UNCHANGED <<engine, creators, reply, wire, gets, events, emitting, finishing, caller>>
      BY <2>10 DEF vars
    <3>2. TypeOK'
      BY <3>1 DEF TypeOK
    <3>3. EventsKept({})
      BY <3>1 DEF IInv, EventsInv, FinishedInv, DeleteInv, EventsKept, FinishKept, DeleteKept, Exists
    <3>4. EventsInv'
      BY <3>1, <3>3, SameEvents DEF IInv
    <3>5. WaitingInv'
      BY <3>1, SameWaiting DEF IInv, WaitingKept
    <3>6. \A q \in Replies : ReplyInv(q)'
      BY <3>1 DEF IInv, ReplyInv, Exists, Untold, FinishedAt
    <3>7. CallerInv' /\ EmittingInv'
      BY <3>1 DEF IInv, CallerInv, EmittingInv, Exists
    <3> QED BY <3>2, <3>4, <3>5, <3>6, <3>7 DEF IInv
  <2> QED BY <2>1, <2>2, <2>3, <2>4, <2>5, <2>6, <2>7, <2>8, <2>9, <2>10 DEF Next
<1> QED BY <1>1, <1>2, PTL DEF Spec

\* Every state has the types the model says.
THEOREM TypeCorrect == Spec => []TypeOK
BY Invariant, PTL

\* However many Gets, callers and names there are: the owner of a Get that can
\* be joined is on the wire, and nobody else of it.
THEOREM GetsShared == Spec => []GetsAreShared
<1>1. TypeOK /\ IInv => GetsAreShared
  <2> SUFFICES ASSUME TypeOK, IInv, NEW n \in Names, gets[n] # <<>>
               PROVE  ToSet(gets[n]) \cap wire = {Head(gets[n])}
    BY DEF GetsAreShared
  <2>1. 1 \in DOMAIN gets[n] /\ Head(gets[n]) = gets[n][1]
    BY GetTypes, EmptySeq
  <2>2. \A i \in DOMAIN gets[n] : gets[n][i] \in wire <=> i = 1
    BY DEF IInv, WaitingInv, GetInv
  <2>3. ToSet(gets[n]) = {gets[n][i] : i \in DOMAIN gets[n]}
    BY DEF ToSet
  <2> QED BY <2>1, <2>2, <2>3
<1> QED BY <1>1, Invariant, PTL

\* No pointer that a Get keeps, in its record or while it is being finished, is
\* lost to anything but the application's own destruction of the reply.
THEOREM DanglingIsDestroyed == Spec => []OnlyDestroyedDangle
<1>1. TypeOK /\ IInv => OnlyDestroyedDangle
  <2> SUFFICES ASSUME TypeOK, IInv,
                      NEW r \in (UNION {ToSet(gets[n]) : n \in Names}) \cup ToSet(finishing)
               PROVE  reply[r].owner \in {"parent", "destroyed"} /\ ~reply[r].settled
    BY DEF OnlyDestroyedDangle
  <2>1. CASE \E n \in Names : \E i \in DOMAIN gets[n] : gets[n][i] = r
    BY <2>1 DEF IInv, WaitingInv, GetInv
  <2>2. CASE \E i \in DOMAIN finishing : finishing[i] = r
    BY <2>2 DEF IInv, WaitingInv, FinishingInv
  <2>3. CASE r \in ToSet(finishing)
    BY <2>2, <2>3 DEF ToSet
  <2>4. ASSUME NEW n \in Names, r \in ToSet(gets[n])
        PROVE  \E i \in DOMAIN gets[n] : gets[n][i] = r
    BY <2>4 DEF ToSet
  <2>5. r \in ToSet(finishing) \/ \E n \in Names : r \in ToSet(gets[n])
    OBVIOUS
  <2> QED BY <2>1, <2>3, <2>4, <2>5
<1> QED BY <1>1, Invariant, PTL

\* A deferred deletion, the collector's or a promise's, finds a reply that has
\* settled and whose receivers have been told.
THEOREM DeletionWaits == Spec => DeletedWhenDone
<1>1. TypeOK /\ IInv /\ DeferredDelete =>
          LET r == Head(events)[2] IN reply[r].settled /\ reply[r].receiver = "none"
  <2> SUFFICES ASSUME TypeOK, IInv, DeferredDelete
               PROVE  reply[Head(events)[2]].settled /\ reply[Head(events)[2]].receiver = "none"
    OBVIOUS
  <2>1. emitting = NoReply /\ events # <<>> /\ Head(events)[1] = "delete"
    BY DEF DeferredDelete, Idle
  <2>2. 1 \in DOMAIN events /\ Head(events) = events[1]
    BY <2>1, EventTypes, EmptySeq
  <2> PICK r \in Replies : r = events[1][2]
    BY <2>2, EventTypes
  <2>3. DeleteInv(1, r) /\ r # NoReply
    BY <2>1, <2>2, ReplyTypes DEF DeleteAt, IInv, EventsInv
  <2>4. 1 .. 1 - 1 = {}
    OBVIOUS
  <2>5. reply[r].settled /\ reply[r].receiver = "none"
    BY <2>1, <2>3, <2>4, ReplyTypes DEF DeleteInv
  <2> QED BY <2>2, <2>5
<1> QED BY <1>1, Invariant, PTL DEF DeletedWhenDone
=============================================================================
