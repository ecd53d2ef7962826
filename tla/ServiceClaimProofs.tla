------------------------- MODULE ServiceClaimProofs -------------------------
(***************************************************************************)
(* Theorems about ServiceClaim, for every set of names and adaptors, every *)
(* set of flags, every bound, with or without timeouts and a dying link:   *)
(* type correctness, the invariant A5 the source asserts at each write of  *)
(* a claim, that no wake is lost and that the holders are counted; for one *)
(* adaptor, that it is told of its name in turn and up to date; and for    *)
(* adaptors that all carry flags, that the registry and the daemon agree   *)
(* once all is handled.                                                    *)
(***************************************************************************)
EXTENDS ServiceClaim, SequenceTheorems, FiniteSetTheorems, TLAPS

-----------------------------------------------------------------------------
(* The operators keep their types.                                         *)

\* Each way attach and detach rewrite a claim gives a claim.
LEMMA ClaimOperators ==
    ASSUME NEW c \in Claim, NEW a \in Adaptors, NEW token \in Nat
    PROVE  /\ NoClaim \in Claim
           /\ Adopted(c) \in Claim
           /\ Joined(c, a) \in Claim
           /\ FlaggedClaim(c, a, token) \in Claim
           /\ PlainClaim(c, a) \in Claim
           /\ Tombstone(c, token) \in Claim
           /\ c.refs > 1 => OneHolderFewer(c, a) \in Claim
<1>1. NoClaim \in Claim
  BY DEF NoClaim, Claim
<1>2. Adopted(c) \in Claim
  <2>1. CASE ~c.tearingDown
    BY <2>1 DEF Adopted
  <2>2. CASE c.tearingDown
    BY <2>2 DEF Adopted, Claim
  <2> QED BY <2>1, <2>2
<1>3. Joined(c, a) \in Claim
  <2>1. c.refs + 1 \in Nat /\ c.holders \cup {a} \in SUBSET Adaptors
    BY DEF Claim
  <2> QED BY <2>1 DEF Joined, Claim
<1>4. FirstClaim(c, a) \in Claim
  BY DEF FirstClaim, Claim
<1>5. FlaggedClaim(c, a, token) \in Claim
  BY <1>4 DEF FlaggedClaim, Claim
<1>6. PlainClaim(c, a) \in Claim
  BY <1>4 DEF PlainClaim, Claim
<1>7. Tombstone(c, token) \in Claim
  BY DEF Tombstone, Claim
<1>8. c.refs > 1 => OneHolderFewer(c, a) \in Claim
  <2>1. c.refs > 1 => c.refs - 1 \in Nat /\ c.holders \ {a} \in SUBSET Adaptors
    BY DEF Claim
  <2> QED BY <2>1 DEF OneHolderFewer, Claim
<1> QED BY <1>1, <1>2, <1>3, <1>5, <1>6, <1>7, <1>8

\* Each event handler gives a claim.
LEMMA HandlerOperators ==
    ASSUME NEW c \in Claim
    PROVE  /\ \A owner : AfterOwnerChange(c, owner) \in Claim
           /\ \A code, token : AfterReply(c, code, token) \in Claim
<1>1. ASSUME NEW owner PROVE AfterOwnerChange(c, owner) \in Claim
  BY DEF AfterOwnerChange, Claim
<1>2. ASSUME NEW code, NEW token PROVE AfterReply(c, code, token) \in Claim
  BY DEF AfterReply, Claim
<1> QED BY <1>1, <1>2

\* The daemon keeps a well-formed record of a name, and answers 1 to 4.
LEMMA BrokerOperators ==
    ASSUME NEW b \in BrokerName, NEW who \in Clients, NEW f \in Flags
    PROVE  /\ ReplyCode(b, who, f) \in 1 .. 4
           /\ AfterRequest(b, who, f) \in BrokerName
           /\ AfterRelease(b, who) \in BrokerName
<1>1. ReplyCode(b, who, f) \in {PrimaryOwner, InQueue, Exists, AlreadyOwner}
  BY DEF ReplyCode
<1>2. ReplyCode(b, who, f) \in 1 .. 4
  BY <1>1 DEF PrimaryOwner, InQueue, Exists, AlreadyOwner
<1>3. AfterRelease(b, who) \in BrokerName
  BY DEF AfterRelease, BrokerName
<1>4. AfterRequest(b, who, f) \in BrokerName
  <2>1. [b.flags EXCEPT ![who] = f] \in [Clients -> Flags]
    BY DEF BrokerName
  <2>2. CASE ReplyCode(b, who, f) = PrimaryOwner
    BY <2>1, <2>2 DEF AfterRequest, BrokerName, PrimaryOwner, InQueue, Exists, AlreadyOwner
  <2>3. CASE ReplyCode(b, who, f) = AlreadyOwner
    BY <2>1, <2>3 DEF AfterRequest, BrokerName, PrimaryOwner, InQueue, Exists, AlreadyOwner
  <2>4. CASE ReplyCode(b, who, f) = InQueue
    BY <2>1, <2>4 DEF AfterRequest, BrokerName, PrimaryOwner, InQueue, Exists, AlreadyOwner
  <2>5. CASE ReplyCode(b, who, f) = Exists
    BY <2>1, <2>5 DEF AfterRequest, BrokerName, PrimaryOwner, InQueue, Exists, AlreadyOwner
  <2> QED BY <1>1, <2>2, <2>3, <2>4, <2>5
<1> QED BY <1>2, <1>3, <1>4

\* A broadcast appends an event of the name, or nothing.
LEMMA BroadcastType ==
    ASSUME NEW q \in Seq(Event), NEW n \in Names, NEW old, NEW new \in BrokerName
    PROVE  Broadcast(q, n, old, new) \in Seq(Event)
<1>1. OwnerChanged(n, new) \in Event
  BY DEF OwnerChanged, Event, BrokerName
<1> QED BY <1>1 DEF Broadcast

LEMMA NullTypes ==
    /\ AnyName \in Names
    /\ AnyAdaptor \in Adaptors
    /\ Idle \in MainState
    /\ Plain \in Flags
    /\ RelayOff \in RelayState
    /\ RelayDraining \in RelayState
<1>1. AnyName \in Names
  BY NamesAssumption DEF AnyName
<1>2. AnyAdaptor \in Adaptors
  BY AdaptorsAssumption DEF AnyAdaptor
<1>3. Idle \in MainState
  BY <1>1, <1>2 DEF Idle, MainState, Ops
<1>4. Plain \in Flags
  BY DEF Plain, Flags
<1>5. RelayOff \in RelayState /\ RelayDraining \in RelayState
  BY DEF RelayOff, RelayDraining, RelayState
<1> QED BY <1>1, <1>2, <1>3, <1>4, <1>5

\* A call put on the socket is a call; so is the thread's wait for it.
LEMMA CallTypes ==
    ASSUME TypeOK, NEW n \in Names, NEW a \in Adaptors, NEW token \in Nat
    PROVE  /\ \A t \in {"request", "register", "release"}, f \in Flags :
                  Sent(Call(t, n, f, token)) \in Seq(CallSet)
           /\ \A op \in Ops : Inside(op, n, a, token) \in MainState
<1>1. ASSUME NEW t \in {"request", "register", "release"}, NEW f \in Flags
      PROVE  Sent(Call(t, n, f, token)) \in Seq(CallSet)
  <2>1. Call(t, n, f, token) \in CallSet
    BY DEF Call, CallSet
  <2> QED BY <2>1 DEF Sent, TypeOK
<1>2. ASSUME NEW op \in Ops PROVE Inside(op, n, a, token) \in MainState
  BY DEF Inside, MainState
<1> QED BY <1>1, <1>2

LEMMA HearingType ==
    ASSUME NEW h \in Heard, NEW kind \in {"acquired", "lost"}
    PROVE  AfterHearing(h, kind) \in Heard
BY DEF AfterHearing, Heard

\* Taking the head of the event queue leaves a queue, and posting notes too.
LEMMA PostNotesType ==
    ASSUME TypeOK, mainQ # <<>>, NEW ns \in SUBSET Names, PostNotes(ns)
    PROVE  mainQ' \in Seq(Event) /\ notes' \in SUBSET Names /\ drainPosted' \in BOOLEAN
<1>1. Tail(mainQ) \in Seq(Event) /\ Wake \in Event
  BY HeadTailProperties DEF TypeOK, Event
<1>2. CASE ns = {}
  BY <1>1, <1>2 DEF PostNotes, TypeOK
<1>3. CASE ns # {}
  <2>1. Append(Tail(mainQ), Wake) \in Seq(Event)
    BY <1>1
  <2>2. mainQ' \in Seq(Event)
    BY <1>1, <1>3, <2>1 DEF PostNotes
  <2>3. notes' \in SUBSET Names /\ drainPosted' \in BOOLEAN
    BY <1>3 DEF PostNotes, TypeOK
  <2> QED BY <2>2, <2>3
<1> QED BY <1>2, <1>3

-----------------------------------------------------------------------------
(* Type correctness.                                                       *)

LEMMA TypeOKInit == Init => TypeOK
<1> SUFFICES ASSUME Init PROVE TypeOK
  OBVIOUS
<1>1. claims \in [Names -> Claim]
  BY DEF Init, NoClaim, Claim
<1>2. broker \in [Names -> BrokerName]
  BY NullTypes DEF Init, BrokerName, Clients
<1>3. main \in MainState /\ relay \in RelayState
  BY NullTypes DEF Init
<1>4. mainQ \in Seq(Event) /\ up \in Seq(CallSet)
  BY DEF Init
<1>5. heard \in [Adaptors -> Heard]
  BY DEF Init, Heard
<1> QED BY <1>1, <1>2, <1>3, <1>4, <1>5 DEF Init, TypeOK

LEMMA TypeOKAttach == TypeOK /\ Attach => TypeOK'
<1> SUFFICES ASSUME TypeOK, NEW a \in Adaptors, NEW n \in Names,
                    \/ AttachJoin(a, n)
                    \/ AttachPlain(a, n)
                    \/ \E f \in FlagSets : AttachFlagged(a, n, f)
             PROVE  TypeOK'
  BY DEF Attach
<1>1. claims[n] \in Claim /\ Adopted(claims[n]) \in Claim
  BY ClaimOperators, 0 \in Nat DEF TypeOK
<1>2. CASE AttachJoin(a, n)
  <2>1. claims' \in [Names -> Claim]
    BY <1>1, <1>2, ClaimOperators, 0 \in Nat DEF TypeOK, AttachJoin
  <2>2. heard' \in [Adaptors -> Heard]
    BY <1>2 DEF TypeOK, AttachJoin, Heard
  <2>3. life' \in [Adaptors -> {"free", "attaching", "attached", "unregistered"}]
    BY <1>2 DEF TypeOK, AttachJoin
  <2> QED BY <1>2, <2>1, <2>2, <2>3 DEF TypeOK, AttachJoin, relayVars, busVars
<1>3. CASE AttachPlain(a, n)
  <2>1. claims' \in [Names -> Claim]
    BY <1>1, <1>3, ClaimOperators, 0 \in Nat DEF TypeOK, AttachPlain
  <2>2. up' \in Seq(CallSet)
    BY <1>3, CallTypes, NullTypes, 0 \in Nat DEF AttachPlain
  <2>3. main' \in MainState
    BY <1>3, CallTypes, 0 \in Nat DEF AttachPlain, Ops
  <2>4. heard' \in [Adaptors -> Heard]
    BY <1>3 DEF TypeOK, AttachPlain, Heard
  <2>5. life' \in [Adaptors -> {"free", "attaching", "attached", "unregistered"}]
    BY <1>3 DEF TypeOK, AttachPlain
  <2> QED BY <1>3, <2>1, <2>2, <2>3, <2>4, <2>5 DEF TypeOK, AttachPlain, relayVars
<1>4. ASSUME NEW f \in FlagSets, AttachFlagged(a, n, f) PROVE TypeOK'
  <2>1. nextToken + 1 \in Nat /\ f \in Flags
    BY FlagsAssumption DEF TypeOK, Flags
  <2>2. claims' \in [Names -> Claim]
    BY <1>1, <1>4, <2>1, ClaimOperators DEF TypeOK, AttachFlagged
  <2>3. up' \in Seq(CallSet)
    BY <1>4, <2>1, CallTypes DEF AttachFlagged
  <2>4. main' \in MainState
    BY <1>4, <2>1, CallTypes DEF AttachFlagged, Ops
  <2>5. heard' \in [Adaptors -> Heard]
    BY <1>4 DEF TypeOK, AttachFlagged, Heard
  <2>6. life' \in [Adaptors -> {"free", "attaching", "attached", "unregistered"}]
    BY <1>4 DEF TypeOK, AttachFlagged
  <2> QED BY <1>4, <2>1, <2>2, <2>3, <2>4, <2>5, <2>6 DEF TypeOK, AttachFlagged, relayVars
<1> QED BY <1>2, <1>3, <1>4

LEMMA TypeOKDetach == TypeOK /\ Detach => TypeOK'
<1> SUFFICES ASSUME TypeOK, NEW a \in Adaptors, NEW n \in Names,
                    NEW after \in {"unregistered", "free"},
                    DetachOne(a, n, after) \/ DetachLast(a, n, after)
             PROVE  TypeOK'
  BY DEF Detach
<1>1. Leave(a, after)
  BY DEF DetachOne, DetachLast
<1>2. life' \in [Adaptors -> {"free", "attaching", "attached", "unregistered"}]
  BY <1>1 DEF Leave, TypeOK
<1>3. relay' \in RelayState
  BY <1>1 DEF Leave, TypeOK, Gone, RelayState
<1>4. claims[n] \in Claim /\ nextToken + 1 \in Nat
  BY DEF TypeOK
<1>5. CASE DetachOne(a, n, after)
  <2>1. claims' \in [Names -> Claim]
    BY <1>4, <1>5, ClaimOperators DEF TypeOK, DetachOne
  <2> QED BY <1>1, <1>2, <1>3, <1>5, <2>1 DEF TypeOK, DetachOne, Leave
<1>6. CASE DetachLast(a, n, after)
  <2>1. claims' \in [Names -> Claim]
    BY <1>4, <1>6, ClaimOperators DEF TypeOK, DetachLast
  <2>2. up' \in Seq(CallSet)
    <3>1. Sent(Call("release", n, Plain, nextToken + 1)) \in Seq(CallSet)
      BY <1>4, CallTypes, NullTypes
    <3> QED BY <1>6, <3>1 DEF DetachLast, TypeOK
  <2>3. main' \in MainState
    <3>1. Inside("release", n, a, nextToken + 1) \in MainState
      BY <1>4, CallTypes DEF Ops
    <3> QED BY <1>6, <3>1 DEF DetachLast, TypeOK
  <2>4. nextToken' \in Nat
    BY <1>4, <1>6 DEF DetachLast
  <2> QED BY <1>1, <1>2, <1>3, <2>1, <2>2, <2>3, <2>4 DEF TypeOK, Leave
<1> QED BY <1>5, <1>6

\* The ends of the bus calls and the event handlers.
LEMMA TypeOKMain == TypeOK /\ MainStep => TypeOK'
<1> SUFFICES ASSUME TypeOK, MainStep PROVE TypeOK'
  OBVIOUS
<1>0. main.n \in Names /\ main.a \in Adaptors /\ main.token \in Nat /\ main.code \in 0 .. 4
  BY DEF TypeOK, MainState
<1>1. CASE WatchReply
  <2>1. mainQ' \in Seq(Event)
    <3>1. main.code # 0 => Reply(main.n, main.code, main.token) \in Event
      BY <1>0 DEF Reply, Event
    <3> QED BY <1>1, <3>1 DEF WatchReply, TypeOK
  <2>2. life' \in [Adaptors -> {"free", "attaching", "attached", "unregistered"}]
    BY <1>0, <1>1 DEF WatchReply, TypeOK
  <2>3. main' \in MainState
    BY <1>1, NullTypes DEF WatchReply
  <2> QED BY <1>1, <2>1, <2>2, <2>3 DEF WatchReply, TypeOK, claimVars, relayVars, busVars
<1>2. CASE RegisterReturns
  <2>1. claims' \in [Names -> Claim]
    <3>1. claims[main.n] \in Claim
      BY <1>0 DEF TypeOK
    <3>2. PICK ok \in BOOLEAN :
             claims' = [claims EXCEPT ![main.n].pending = FALSE,
                                      ![main.n].owned = @ \/ ok,
                                      ![main.n].lastNotifiedOwned = @ \/ ok]
      BY <1>2 DEF RegisterReturns
    <3>3. claims' = [claims EXCEPT ![main.n] =
                        [claims[main.n] EXCEPT !.pending = FALSE,
                                               !.owned = @ \/ ok,
                                               !.lastNotifiedOwned = @ \/ ok]]
      BY <3>2, <1>0 DEF TypeOK, Claim
    <3> QED BY <3>1, <3>3 DEF TypeOK, Claim
  <2>2. heard' \in [Adaptors -> Heard]
    BY <1>0, <1>2, HearingType DEF RegisterReturns, TypeOK
  <2>3. life' \in [Adaptors -> {"free", "attaching", "attached", "unregistered"}]
    BY <1>0, <1>2 DEF RegisterReturns, TypeOK
  <2>4. main' \in MainState
    BY <1>2, NullTypes DEF RegisterReturns
  <2> QED BY <1>2, <2>1, <2>2, <2>3, <2>4 DEF RegisterReturns, TypeOK, relayVars, busVars
<1>3. CASE ReleaseReturns
  <2>1. claims' \in [Names -> Claim]
    <3>1. claims[main.n] \in Claim /\ NoClaim \in Claim
      BY <1>0 DEF TypeOK, NoClaim, Claim
    <3>2. [claims[main.n] EXCEPT !.requestSent = FALSE] \in Claim
      BY <3>1 DEF Claim
    <3> QED BY <1>3, <3>1, <3>2 DEF ReleaseReturns, TypeOK
  <2>2. main' \in MainState
    BY <1>3, NullTypes DEF ReleaseReturns
  <2> QED BY <1>3, <2>1, <2>2 DEF ReleaseReturns, TypeOK, adaptorVars, relayVars, busVars
<1>4. ASSUME mainQ # <<>> PROVE Head(mainQ) \in Event /\ Tail(mainQ) \in Seq(Event)
  BY <1>4, HeadTailProperties DEF TypeOK
<1>5. CASE HandleOwnerChange
  <2>1. mainQ # <<>> /\ Head(mainQ).n \in Names
    BY <1>4, <1>5 DEF HandleOwnerChange, Dispatching, Event, Wake, ConnectionLost
  <2>2. PICK ns \in SUBSET Names : PostNotes(ns)
    BY <1>5, <2>1 DEF HandleOwnerChange
  <2>3. claims' \in [Names -> Claim]
    BY <1>5, <2>1, HandlerOperators DEF HandleOwnerChange, TypeOK
  <2> QED BY <1>5, <2>1, <2>2, <2>3, PostNotesType
          DEF HandleOwnerChange, TypeOK, adaptorVars, busVars
<1>6. CASE HandleReply
  <2>1. mainQ # <<>> /\ Head(mainQ).n \in Names
    BY <1>4, <1>6 DEF HandleReply, Dispatching, Event, Wake, ConnectionLost
  <2>2. PICK ns \in SUBSET Names : PostNotes(ns)
    BY <1>6, <2>1 DEF HandleReply
  <2>3. claims' \in [Names -> Claim]
    BY <1>6, <2>1, HandlerOperators DEF HandleReply, TypeOK
  <2> QED BY <1>6, <2>1, <2>2, <2>3, PostNotesType
          DEF HandleReply, TypeOK, adaptorVars, busVars
<1>7. CASE HandleConnectionLost
  <2>1. mainQ # <<>>
    BY <1>7 DEF HandleConnectionLost, Dispatching
  <2>2. PICK ns \in SUBSET Names : PostNotes(ns)
    BY <1>7 DEF HandleConnectionLost
  <2>3. claims' \in [Names -> Claim]
    <3>1. ASSUME NEW n \in Names PROVE claims'[n] \in Claim
      <4>1. claims[n] \in Claim
        BY DEF TypeOK
      <4>2. [claims[n] EXCEPT !.owned = FALSE, !.queued = FALSE, !.requestSent = FALSE,
                              !.notifyQueued = TRUE] \in Claim
        BY <4>1 DEF Claim
      <4> QED BY <1>7, <4>1, <4>2 DEF HandleConnectionLost
    <3>2. claims' = [n \in Names |-> claims'[n]]
      BY <1>7 DEF HandleConnectionLost
    <3> QED BY <3>1, <3>2
  <2> QED BY <1>7, <2>1, <2>2, <2>3, PostNotesType
          DEF HandleConnectionLost, TypeOK, adaptorVars, busVars
<1>8. CASE TakeWake
  <2>1. mainQ' \in Seq(Event)
    BY <1>4, <1>8 DEF TakeWake, Dispatching
  <2> QED BY <1>8, <2>1, NullTypes DEF TakeWake, TypeOK, claimVars, adaptorVars, busVars
<1>9. ASSUME NEW n \in Names, RelayNote(n) PROVE TypeOK'
  <2>1. claims[n] \in Claim
    BY DEF TypeOK
  <2>2. claims' \in [Names -> Claim]
    <3>1. claims' = claims
          \/ claims' = [claims EXCEPT ![n] = [claims[n] EXCEPT !.notifyQueued = FALSE,
                                                 !.lastNotifiedOwned = claims[n].owned]]
      BY <1>9, <2>1 DEF RelayNote, TypeOK, Claim
    <3>2. [claims[n] EXCEPT !.notifyQueued = FALSE,
                            !.lastNotifiedOwned = claims[n].owned] \in Claim
      BY <2>1 DEF Claim
    <3> QED BY <3>1, <3>2 DEF TypeOK
  <2>3. relay' \in RelayState
    BY <1>9, <2>1 DEF RelayNote, RelayDraining, RelayOff, RelayState, Claim
  <2> QED BY <1>9, <2>2, <2>3 DEF RelayNote, TypeOK, adaptorVars, busVars
<1>10. ASSUME NEW a \in Adaptors, RelayDeliver(a) PROVE TypeOK'
  <2>1. heard' \in [Adaptors -> Heard]
    BY <1>10, HearingType DEF RelayDeliver, TypeOK
  <2>2. relay' \in RelayState
    BY <1>10 DEF RelayDeliver, TypeOK, RelayState
  <2> QED BY <1>10, <2>1, <2>2 DEF RelayDeliver, TypeOK, claimVars, busVars
<1>11. CASE RelayDone
  BY <1>11, NullTypes DEF RelayDone, TypeOK, claimVars, adaptorVars, busVars
<1> QED BY <1>1, <1>2, <1>3, <1>5, <1>6, <1>7, <1>8, <1>9, <1>10, <1>11 DEF MainStep, RelayStep

\* The daemon, the peer and the connection.
LEMMA TypeOKBus ==
    TypeOK /\ (DaemonStep \/ PeerActs \/ LinkDrops \/ LossObserved) => TypeOK'
<1> SUFFICES ASSUME TypeOK, DaemonStep \/ PeerActs \/ LinkDrops \/ LossObserved PROVE TypeOK'
  OBVIOUS
<1>1. Us \in Clients /\ Peer \in Clients
  BY DEF Clients
<1>2. ASSUME up # <<>>
      PROVE  /\ Tail(up) \in Seq(CallSet)
             /\ Head(up).n \in Names /\ Head(up).f \in Flags /\ Head(up).token \in Nat
  <2>1. Head(up) \in CallSet /\ Tail(up) \in Seq(CallSet)
    BY <1>2, HeadTailProperties DEF TypeOK
  <2> QED BY <2>1 DEF CallSet
<1>3. CASE ServeRequest
  <2> DEFINE r == Head(up)
             b == AfterRequest(broker[r.n], Us, r.f)
             code == ReplyCode(broker[r.n], Us, r.f)
             q == Broadcast(mainQ, r.n, broker[r.n], b)
  <2>1. r.n \in Names /\ r.f \in Flags /\ r.token \in Nat /\ Tail(up) \in Seq(CallSet)
    BY <1>2, <1>3 DEF ServeRequest
  <2>2. broker[r.n] \in BrokerName
    BY <2>1 DEF TypeOK
  <2>3. b \in BrokerName /\ code \in 1 .. 4
    BY <1>1, <2>1, <2>2, BrokerOperators
  <2>4. q \in Seq(Event)
    BY <2>1, <2>2, <2>3, BroadcastType DEF TypeOK
  <2>5. Reply(r.n, code, r.token) \in Event
    BY <2>1, <2>3 DEF Reply, Event
  <2>6. mainQ' \in Seq(Event)
    <3>1. mainQ' = q \/ mainQ' = Append(q, Reply(r.n, code, r.token))
      BY <1>3 DEF ServeRequest
    <3> HIDE DEF q, b, code, r
    <3> QED BY <2>4, <2>5, <3>1
  <2>7. main' \in MainState
    <3>1. main' = main \/ main' = [main EXCEPT !.code = code]
      BY <1>3 DEF ServeRequest
    <3> HIDE DEF code
    <3> QED BY <2>3, <3>1 DEF TypeOK, MainState
  <2>8. broker' \in [Names -> BrokerName]
    BY <1>3, <2>3 DEF ServeRequest, TypeOK
  <2> QED BY <1>3, <2>1, <2>6, <2>7, <2>8
          DEF ServeRequest, TypeOK, claimVars, adaptorVars, relayVars
<1>4. CASE ServeRegister
  <2> DEFINE r == Head(up)
             b == AfterRequest(broker[r.n], Us, r.f)
             code == ReplyCode(broker[r.n], Us, r.f)
  <2>1. r.n \in Names /\ r.f \in Flags /\ Tail(up) \in Seq(CallSet)
    BY <1>2, <1>4 DEF ServeRegister
  <2>2. broker[r.n] \in BrokerName
    BY <2>1 DEF TypeOK
  <2>3. b \in BrokerName /\ code \in 1 .. 4
    BY <1>1, <2>1, <2>2, BrokerOperators
  <2>4. mainQ' \in Seq(Event)
    BY <1>4, <2>1, <2>2, <2>3, BroadcastType DEF ServeRegister, TypeOK
  <2>5. main' \in MainState
    <3>1. main' = main \/ main' = [main EXCEPT !.op = "registered", !.code = code]
      BY <1>4 DEF ServeRegister
    <3>2. \A c \in 0 .. 4 : [main EXCEPT !.op = "registered", !.code = c] \in MainState
      BY DEF TypeOK, MainState, Ops
    <3>3. code \in 0 .. 4
      BY <2>3
    <3> HIDE DEF code
    <3> QED BY <3>1, <3>2, <3>3 DEF TypeOK
  <2>6. broker' \in [Names -> BrokerName]
    BY <1>4, <2>3 DEF ServeRegister, TypeOK
  <2> QED BY <1>4, <2>1, <2>4, <2>5, <2>6
          DEF ServeRegister, TypeOK, claimVars, adaptorVars, relayVars
<1>5. CASE ServeRelease
  <2> DEFINE r == Head(up)
             b == AfterRelease(broker[r.n], Us)
  <2>1. r.n \in Names /\ r.f \in Flags /\ Tail(up) \in Seq(CallSet)
    BY <1>2, <1>5 DEF ServeRelease
  <2>2. broker[r.n] \in BrokerName
    BY <2>1 DEF TypeOK
  <2>3. b \in BrokerName
    BY <1>1, <2>1, <2>2, BrokerOperators
  <2>4. mainQ' \in Seq(Event)
    BY <1>5, <2>1, <2>2, <2>3, BroadcastType DEF ServeRelease, TypeOK
  <2>5. main' \in MainState
    BY <1>5 DEF ServeRelease, TypeOK, MainState, Ops
  <2>6. broker' \in [Names -> BrokerName]
    BY <1>5, <2>3 DEF ServeRelease, TypeOK
  <2> QED BY <1>5, <2>1, <2>4, <2>5, <2>6
          DEF ServeRelease, TypeOK, claimVars, adaptorVars, relayVars
<1>6. ASSUME NEW n \in Names, NEW b \in BrokerName, PeerStep(n, b) PROVE TypeOK'
  <2>1. mainQ' \in Seq(Event)
    BY <1>6, BroadcastType DEF PeerStep, TypeOK
  <2>2. broker' \in [Names -> BrokerName]
    BY <1>6 DEF PeerStep, TypeOK
  <2> QED BY <1>6, <2>1, <2>2 DEF PeerStep, TypeOK, claimVars, adaptorVars, relayVars
<1>7. CASE PeerActs
  <2>1. ASSUME NEW n \in Names, NEW f \in FlagSets, PeerRequests(n, f) PROVE TypeOK'
    BY <1>1, <1>6, <2>1, FlagsAssumption, BrokerOperators DEF PeerRequests, TypeOK, Flags
  <2>2. ASSUME NEW n \in Names, PeerReleases(n) PROVE TypeOK'
    BY <1>1, <1>6, <2>2, NullTypes, BrokerOperators DEF PeerReleases, TypeOK
  <2> QED BY <1>7, <2>1, <2>2 DEF PeerActs
<1>8. CASE LinkDrops
  <2>1. broker' \in [Names -> BrokerName]
    BY <1>1, <1>8, NullTypes, BrokerOperators DEF LinkDrops, TypeOK
  <2> QED BY <1>8, <2>1 DEF LinkDrops, TypeOK, claimVars, adaptorVars, relayVars
<1>9. CASE LossObserved
  <2>1. mainQ' \in Seq(Event)
    BY <1>9 DEF LossObserved, TypeOK, Event
  <2> QED BY <1>9, <2>1 DEF LossObserved, TypeOK, claimVars, adaptorVars, relayVars
<1> QED BY <1>3, <1>4, <1>5, <1>7, <1>8, <1>9 DEF DaemonStep

LEMMA TypeOKNext == TypeOK /\ [Next]_vars => TypeOK'
<1> SUFFICES ASSUME TypeOK, [Next]_vars PROVE TypeOK'
  OBVIOUS
<1>1. ASSUME NEW a \in Adaptors, DestroyUnregistered(a) PROVE TypeOK'
  <2>1. life' \in [Adaptors -> {"free", "attaching", "attached", "unregistered"}]
    BY <1>1 DEF DestroyUnregistered, TypeOK
  <2>2. relay' \in RelayState
    BY <1>1 DEF DestroyUnregistered, TypeOK, Gone, RelayState
  <2> QED BY <1>1, <2>1, <2>2 DEF DestroyUnregistered, TypeOK, claimVars, busVars
<1>2. CASE UNCHANGED vars
  BY <1>2 DEF vars, TypeOK
<1> QED BY <1>1, <1>2, TypeOKAttach, TypeOKDetach, TypeOKMain, TypeOKBus DEF Next

\* Every reachable state is well typed, whatever the application, the daemon,
\* the peer and the connection do.
THEOREM TypeCorrect == Spec => []TypeOK
BY TypeOKInit, TypeOKNext, PTL DEF Spec

-----------------------------------------------------------------------------
(* OwnedIsAnnounced (the source's invariant A5) and NoLostWake.  Neither   *)
(* is inductive alone.  attach starts a record afresh without clearing     *)
(* owned, which is safe only because a record nobody holds is absent or a  *)
(* tombstone, and adopting a tombstone clears owned; the relay drops a     *)
(* note of an absent claim, which loses nothing only because such a claim  *)
(* waits for no note; and the end of registerService writes to the claim   *)
(* it finds, which has to be the one attach left there.                    *)

\* An absent record is blank.
Unheld(c) == ~c.exists => /\ ~c.owned /\ ~c.tearingDown /\ ~c.pending /\ ~c.notifyQueued
                          /\ c.refs = 0 /\ c.holders = {}
\* A record that is no tombstone has holders.
Held(c) == c.exists /\ ~c.tearingDown => c.refs > 0
Announced(c) == c.owned => c.lastNotifiedOwned \/ c.notifyQueued
ClaimInv(c) == Unheld(c) /\ Held(c) /\ Announced(c)

HasWake(q) == \E i \in 1 .. Len(q) : q[i] = Wake

RegisteringIsRecorded == main.op \in {"register", "registered"} => claims[main.n].exists
NoticeHasNote == \A n \in Names : claims[n].notifyQueued => n \in notes
NoteHasWake == notes # {} => relay.on \/ drainPosted
WakeIsPosted == drainPosted => HasWake(mainQ)

IInv == /\ \A n \in Names : ClaimInv(claims[n])
        /\ RegisteringIsRecorded
        /\ NoticeHasNote
        /\ NoteHasWake
        /\ WakeIsPosted

\* Each rewriting of one claim keeps its part of the invariant.
LEMMA ClaimInvKept ==
    ASSUME NEW c \in Claim, ClaimInv(c), NEW a \in Adaptors, NEW token \in Nat
    PROVE  /\ ClaimInv(NoClaim)
           /\ Adopted(c).pending \/ Adopted(c).refs > 0 => ClaimInv(Joined(Adopted(c), a))
           /\ ~(Adopted(c).pending \/ Adopted(c).refs > 0) =>
                  /\ ClaimInv(FlaggedClaim(Adopted(c), a, token))
                  /\ ClaimInv(PlainClaim(Adopted(c), a))
           /\ c.refs > 1 => ClaimInv(OneHolderFewer(c, a))
           /\ c.holders # {} => ClaimInv(Tombstone(c, token))
           /\ \A owner : ClaimInv(AfterOwnerChange(c, owner))
           /\ \A code, t : ClaimInv(AfterReply(c, code, t))
<1> USE DEF ClaimInv, Unheld, Held, Announced
<1>1. ClaimInv(NoClaim)
  BY DEF NoClaim
<1>2. Adopted(c) \in Claim
  BY ClaimOperators
<1>3. ASSUME Adopted(c).pending \/ Adopted(c).refs > 0 PROVE ClaimInv(Joined(Adopted(c), a))
  <2>1. Adopted(c) = c /\ c.refs > 0 /\ c.exists
    BY <1>3 DEF Adopted, Claim
  <2> QED BY <2>1 DEF Joined, Claim
<1>4. ASSUME ~(Adopted(c).pending \/ Adopted(c).refs > 0)
      PROVE  ClaimInv(FlaggedClaim(Adopted(c), a, token)) /\ ClaimInv(PlainClaim(Adopted(c), a))
  <2>1. Adopted(c).owned = FALSE /\ Adopted(c).tearingDown = FALSE
    BY <1>4 DEF Adopted, Claim
  <2> QED BY <1>2, <2>1 DEF FlaggedClaim, PlainClaim, FirstClaim, Claim
<1>5. c.refs > 1 => ClaimInv(OneHolderFewer(c, a))
  BY DEF OneHolderFewer, Claim
<1>6. c.holders # {} => ClaimInv(Tombstone(c, token))
  BY DEF Tombstone, Claim
<1>7. ASSUME NEW owner PROVE ClaimInv(AfterOwnerChange(c, owner))
  BY DEF AfterOwnerChange, Claim
<1>8. ASSUME NEW code, NEW t PROVE ClaimInv(AfterReply(c, code, t))
  BY DEF AfterReply, StaleReply, Claim
<1> QED BY <1>1, <1>3, <1>4, <1>5, <1>6, <1>7, <1>8

\* attach and detach never ask for a note; a handler that does changes owned.
LEMMA NoticeKept ==
    ASSUME NEW c \in Claim, NEW a \in Adaptors, NEW token \in Nat
    PROVE  /\ Joined(Adopted(c), a).notifyQueued => c.notifyQueued
           /\ FlaggedClaim(Adopted(c), a, token).notifyQueued => c.notifyQueued
           /\ PlainClaim(Adopted(c), a).notifyQueued => c.notifyQueued
           /\ OneHolderFewer(c, a).notifyQueued => c.notifyQueued
           /\ Tombstone(c, token).notifyQueued => c.notifyQueued
           /\ \A owner : LET d == AfterOwnerChange(c, owner)
                         IN  /\ d.notifyQueued => c.notifyQueued \/ d.owned # c.owned
                             /\ d.exists = c.exists
           /\ \A code, t : LET d == AfterReply(c, code, t)
                           IN  /\ d.notifyQueued => c.notifyQueued \/ d.owned # c.owned
                               /\ d.exists = c.exists
<1>0. Adopted(c) \in Claim
  BY ClaimOperators
<1>1. Joined(Adopted(c), a).notifyQueued => c.notifyQueued
  BY <1>0 DEF Joined, Adopted, Claim
<1>2. FlaggedClaim(Adopted(c), a, token).notifyQueued => c.notifyQueued
  BY <1>0 DEF FlaggedClaim, FirstClaim, Claim
<1>3. PlainClaim(Adopted(c), a).notifyQueued => c.notifyQueued
  BY <1>0 DEF PlainClaim, FirstClaim, Claim
<1>4. OneHolderFewer(c, a).notifyQueued => c.notifyQueued
  BY DEF OneHolderFewer, Claim
<1>5. Tombstone(c, token).notifyQueued => c.notifyQueued
  BY DEF Tombstone, Claim
<1>6. ASSUME NEW owner
      PROVE  LET d == AfterOwnerChange(c, owner)
             IN  /\ d.notifyQueued => c.notifyQueued \/ d.owned # c.owned
                 /\ d.exists = c.exists
  BY DEF AfterOwnerChange, Claim
<1>7. ASSUME NEW code, NEW t
      PROVE  LET d == AfterReply(c, code, t)
             IN  /\ d.notifyQueued => c.notifyQueued \/ d.owned # c.owned
                 /\ d.exists = c.exists
  BY DEF AfterReply, StaleReply, Claim
<1> QED BY <1>1, <1>2, <1>3, <1>4, <1>5, <1>6, <1>7

\* A wake stays in the queue until it is itself the head that is taken.
LEMMA WakeKept ==
    ASSUME NEW q \in Seq(Event)
    PROVE  /\ \A e \in Event : HasWake(q) => HasWake(Append(q, e))
           /\ HasWake(Append(q, Wake))
           /\ q # <<>> /\ Head(q) # Wake /\ HasWake(q) => HasWake(Tail(q))
           /\ \A n \in Names, old, new \in BrokerName :
                  HasWake(q) => HasWake(Broadcast(q, n, old, new))
<1>0. Wake \in Event
  BY DEF Event
<1>1. ASSUME NEW e \in Event, HasWake(q) PROVE HasWake(Append(q, e))
  BY <1>1 DEF HasWake
<1>2. HasWake(Append(q, Wake))
  <2>1. Len(Append(q, Wake)) = Len(q) + 1 /\ Append(q, Wake)[Len(q) + 1] = Wake
    BY <1>0
  <2>2. Len(q) + 1 \in 1 .. Len(q) + 1
    BY LenProperties
  <2> QED BY <2>1, <2>2 DEF HasWake
<1>3. ASSUME q # <<>>, Head(q) # Wake, HasWake(q) PROVE HasWake(Tail(q))
  <2>1. PICK i \in 1 .. Len(q) : q[i] = Wake
    BY <1>3 DEF HasWake
  <2>2. i # 1
    BY <1>3, <2>1
  <2>3. i - 1 \in 1 .. Len(Tail(q)) /\ Tail(q)[i - 1] = q[i]
    BY <1>3, <2>1, <2>2, HeadTailProperties, LenProperties
  <2> QED BY <2>1, <2>3 DEF HasWake
<1>4. ASSUME NEW n \in Names, NEW old, NEW new \in BrokerName, HasWake(q)
      PROVE  HasWake(Broadcast(q, n, old, new))
  <2>1. OwnerChanged(n, new) \in Event
    BY DEF OwnerChanged, Event, BrokerName
  <2> QED BY <1>1, <1>4, <2>1 DEF Broadcast
<1> QED BY <1>1, <1>2, <1>3, <1>4

\* postNote keeps the mailbox guarded by a wake, and loses no note.
LEMMA PostNotesKeeps ==
    ASSUME TypeOK, NoteHasWake, WakeIsPosted, UNCHANGED relay,
           NEW ns \in SUBSET Names, PostNotes(ns), mainQ # <<>>, Head(mainQ) # Wake
    PROVE  NoteHasWake' /\ WakeIsPosted' /\ notes' = notes \cup ns
<1>1. Tail(mainQ) \in Seq(Event)
  BY HeadTailProperties DEF TypeOK
<1>2. CASE ns = {}
  BY <1>1, <1>2, WakeKept DEF PostNotes, NoteHasWake, WakeIsPosted, TypeOK
<1>3. CASE ns # {}
  <2>1. drainPosted' = TRUE /\ notes' = notes \cup ns
    BY <1>3 DEF PostNotes
  <2>2. HasWake(mainQ')
    BY <1>1, <1>3, WakeKept DEF PostNotes, WakeIsPosted, TypeOK
  <2> QED BY <2>1, <2>2 DEF NoteHasWake, WakeIsPosted
<1> QED BY <1>2, <1>3

\* A step that touches the claim of one name only, and posts nothing.
LEMMA OneClaimChanges ==
    ASSUME TypeOK, IInv, NEW n \in Names, NEW c, ClaimInv(c),
           c.notifyQueued => claims[n].notifyQueued,
           claims' = [claims EXCEPT ![n] = c], UNCHANGED <<notes, drainPosted>>,
           relay'.on = relay.on, HasWake(mainQ) => HasWake(mainQ'),
           RegisteringIsRecorded'
    PROVE  IInv'
<1>1. \A m \in Names : ClaimInv(claims'[m])
  BY DEF TypeOK, IInv
<1>2. NoticeHasNote'
  BY DEF TypeOK, IInv, NoticeHasNote
<1>3. NoteHasWake' /\ WakeIsPosted'
  BY DEF IInv, NoteHasWake, WakeIsPosted
<1> QED BY <1>1, <1>2, <1>3 DEF IInv

\* A step that touches no claim and posts no note.
LEMMA NoClaimChanges ==
    ASSUME TypeOK, IInv, UNCHANGED <<claims, notes, drainPosted>>,
           relay'.on = relay.on, HasWake(mainQ) => HasWake(mainQ'),
           RegisteringIsRecorded'
    PROVE  IInv'
<1>1. NoticeHasNote' /\ NoteHasWake' /\ WakeIsPosted'
  BY DEF IInv, NoticeHasNote, NoteHasWake, WakeIsPosted
<1> QED BY <1>1 DEF IInv

LEMMA IInvInit == Init => IInv
<1> SUFFICES ASSUME Init PROVE IInv
  OBVIOUS
<1>1. \A n \in Names : ClaimInv(claims[n]) /\ ~claims[n].notifyQueued
  BY DEF Init, NoClaim, ClaimInv, Unheld, Held, Announced
<1>2. RegisteringIsRecorded
  BY DEF Init, Idle, RegisteringIsRecorded
<1>3. NoteHasWake /\ WakeIsPosted
  BY DEF Init, NoteHasWake, WakeIsPosted
<1> QED BY <1>1, <1>2, <1>3 DEF IInv, NoticeHasNote

LEMMA IInvAttach == TypeOK /\ IInv /\ Attach => IInv'
<1> SUFFICES ASSUME TypeOK, IInv, NEW a \in Adaptors, NEW n \in Names,
                    \/ AttachJoin(a, n)
                    \/ AttachPlain(a, n)
                    \/ \E f \in FlagSets : AttachFlagged(a, n, f)
             PROVE  IInv'
  BY DEF Attach
<1>1. claims[n] \in Claim /\ ClaimInv(claims[n]) /\ main.op = "idle"
  BY DEF TypeOK, IInv, AttachJoin, AttachPlain, AttachFlagged, StartAttach, UserMayRun
<1> DEFINE c == Adopted(claims[n])
<1>2. CASE AttachJoin(a, n)
  <2>1. ClaimInv(Joined(c, a)) /\ (Joined(c, a).notifyQueued => claims[n].notifyQueued)
    BY <1>1, <1>2, ClaimInvKept, NoticeKept, 0 \in Nat DEF AttachJoin
  <2>2. RegisteringIsRecorded'
    BY <1>1, <1>2 DEF AttachJoin, RegisteringIsRecorded
  <2> QED BY <1>2, <2>1, <2>2, OneClaimChanges DEF AttachJoin, relayVars
<1>3. CASE AttachPlain(a, n)
  <2>1. ClaimInv(PlainClaim(c, a)) /\ (PlainClaim(c, a).notifyQueued => claims[n].notifyQueued)
    BY <1>1, <1>3, ClaimInvKept, NoticeKept, 0 \in Nat DEF AttachPlain
  <2>2. RegisteringIsRecorded'
    <3>1. c \in Claim
      BY <1>1, ClaimOperators, 0 \in Nat
    <3>2. PlainClaim(c, a).exists
      BY <3>1 DEF PlainClaim, FirstClaim, Claim
    <3>3. claims'[n] = PlainClaim(c, a)
      BY <1>3 DEF AttachPlain, TypeOK
    <3>4. main'.n = n
      BY <1>3 DEF AttachPlain, Inside
    <3> QED BY <3>2, <3>3, <3>4 DEF RegisteringIsRecorded
  <2> QED BY <1>3, <2>1, <2>2, OneClaimChanges DEF AttachPlain, relayVars
<1>4. ASSUME NEW f \in FlagSets, AttachFlagged(a, n, f) PROVE IInv'
  <2> DEFINE token == nextToken + 1
  <2>1. token \in Nat
    BY DEF TypeOK
  <2>2. /\ ClaimInv(FlaggedClaim(c, a, token))
        /\ FlaggedClaim(c, a, token).notifyQueued => claims[n].notifyQueued
    BY <1>1, <1>4, <2>1, ClaimInvKept, NoticeKept DEF AttachFlagged
  <2>3. RegisteringIsRecorded'
    BY <1>4 DEF AttachFlagged, Inside, RegisteringIsRecorded
  <2> QED BY <1>4, <2>2, <2>3, OneClaimChanges DEF AttachFlagged, relayVars
<1> QED BY <1>2, <1>3, <1>4

LEMMA IInvDetach == TypeOK /\ IInv /\ Detach => IInv'
<1> SUFFICES ASSUME TypeOK, IInv, NEW a \in Adaptors, NEW n \in Names,
                    NEW after \in {"unregistered", "free"}, a \in claims[n].holders,
                    DetachOne(a, n, after) \/ DetachLast(a, n, after)
             PROVE  IInv'
  BY DEF Detach
<1>1. claims[n] \in Claim /\ ClaimInv(claims[n]) /\ claims[n].holders # {}
  BY DEF TypeOK, IInv
<1>2. Leave(a, after) /\ main.op = "idle"
  BY DEF DetachOne, DetachLast, Leave, UserMayRun
<1>3. relay'.on = relay.on
  BY <1>2 DEF Leave, Gone, TypeOK, RelayState
<1>4. CASE DetachOne(a, n, after)
  <2>1. /\ ClaimInv(OneHolderFewer(claims[n], a))
        /\ OneHolderFewer(claims[n], a).notifyQueued => claims[n].notifyQueued
    BY <1>1, <1>4, ClaimInvKept, NoticeKept, 0 \in Nat DEF DetachOne
  <2>2. RegisteringIsRecorded'
    BY <1>2, <1>4 DEF DetachOne, RegisteringIsRecorded
  <2> QED BY <1>2, <1>3, <1>4, <2>1, <2>2, OneClaimChanges DEF DetachOne, Leave
<1>5. CASE DetachLast(a, n, after)
  <2> DEFINE token == nextToken + 1
  <2>1. token \in Nat
    BY DEF TypeOK
  <2>2. /\ ClaimInv(Tombstone(claims[n], token))
        /\ Tombstone(claims[n], token).notifyQueued => claims[n].notifyQueued
    BY <1>1, <2>1, ClaimInvKept, NoticeKept
  <2>3. RegisteringIsRecorded'
    BY <1>2, <1>5 DEF DetachLast, Inside, RegisteringIsRecorded
  <2> QED BY <1>2, <1>3, <1>5, <2>2, <2>3, OneClaimChanges DEF DetachLast, Leave
<1> QED BY <1>4, <1>5

\* The handlers that may post a note: the note of a claim whose owned they changed.
LEMMA IInvHandlers == TypeOK /\ IInv /\ (HandleOwnerChange \/ HandleReply) => IInv'
<1> SUFFICES ASSUME TypeOK, IInv, HandleOwnerChange \/ HandleReply PROVE IInv'
  OBVIOUS
<1> DEFINE e == Head(mainQ)
<1>1. /\ mainQ # <<>> /\ e # Wake /\ e.n \in Names
      /\ main.op = "idle" /\ UNCHANGED <<main, relay>>
  <2>1. mainQ # <<>> /\ e \in Event
    BY HeadTailProperties DEF TypeOK, HandleOwnerChange, HandleReply, Dispatching
  <2> QED BY <2>1 DEF HandleOwnerChange, HandleReply, Dispatching, Event, Wake, ConnectionLost
<1>2. claims[e.n] \in Claim /\ ClaimInv(claims[e.n])
  BY <1>1 DEF TypeOK, IInv
<1>3. PICK d : /\ claims' = [claims EXCEPT ![e.n] = d]
               /\ PostNotes(IF d.owned # claims[e.n].owned THEN {e.n} ELSE {})
               /\ ClaimInv(d)
               /\ d.notifyQueued => claims[e.n].notifyQueued \/ d.owned # claims[e.n].owned
  <2>1. CASE HandleOwnerChange
    <3> DEFINE d == AfterOwnerChange(claims[e.n], e.owner)
    <3>1. /\ claims' = [claims EXCEPT ![e.n] = d]
          /\ PostNotes(IF d.owned # claims[e.n].owned THEN {e.n} ELSE {})
      BY <2>1 DEF HandleOwnerChange
    <3>2. ClaimInv(d)
      BY <1>2, ClaimInvKept, AdaptorsAssumption, 0 \in Nat
    <3>3. d.notifyQueued => claims[e.n].notifyQueued \/ d.owned # claims[e.n].owned
      BY <1>2, NoticeKept, AdaptorsAssumption, 0 \in Nat
    <3> HIDE DEF d
    <3> QED BY <3>1, <3>2, <3>3
  <2>2. CASE HandleReply
    <3> DEFINE d == AfterReply(claims[e.n], e.code, e.token)
    <3>1. /\ claims' = [claims EXCEPT ![e.n] = d]
          /\ PostNotes(IF d.owned # claims[e.n].owned THEN {e.n} ELSE {})
      BY <2>2 DEF HandleReply
    <3>2. ClaimInv(d)
      BY <1>2, ClaimInvKept, AdaptorsAssumption, 0 \in Nat
    <3>3. d.notifyQueued => claims[e.n].notifyQueued \/ d.owned # claims[e.n].owned
      BY <1>2, NoticeKept, AdaptorsAssumption, 0 \in Nat
    <3> HIDE DEF d
    <3> QED BY <3>1, <3>2, <3>3
  <2> QED BY <2>1, <2>2
<1> DEFINE ns == IF d.owned # claims[e.n].owned THEN {e.n} ELSE {}
<1>4. ns \in SUBSET Names /\ PostNotes(ns)
  BY <1>1, <1>3
<1>5. NoteHasWake' /\ WakeIsPosted' /\ notes' = notes \cup ns
  BY <1>1, <1>4, PostNotesKeeps DEF IInv
<1>6. \A n \in Names : ClaimInv(claims'[n])
  BY <1>1, <1>3 DEF TypeOK, IInv
<1>7. NoticeHasNote'
  BY <1>1, <1>3, <1>5 DEF TypeOK, IInv, NoticeHasNote
<1>8. RegisteringIsRecorded'
  BY <1>1 DEF RegisteringIsRecorded
<1> QED BY <1>5, <1>6, <1>7, <1>8 DEF IInv

LEMMA IInvConnectionLost == TypeOK /\ IInv /\ HandleConnectionLost => IInv'
<1> SUFFICES ASSUME TypeOK, IInv, HandleConnectionLost PROVE IInv'
  OBVIOUS
<1> DEFINE owned == {n \in Names : claims[n].owned}
<1>1. /\ mainQ # <<>> /\ Head(mainQ) # Wake
      /\ main.op = "idle" /\ UNCHANGED <<main, relay>> /\ PostNotes(owned)
  <2>1. Dispatching("lost") /\ UNCHANGED <<main, relay>> /\ PostNotes(owned)
    BY DEF HandleConnectionLost
  <2> QED BY <2>1 DEF Dispatching, Wake
<1>2. NoteHasWake' /\ WakeIsPosted' /\ notes' = notes \cup owned
  BY <1>1, PostNotesKeeps DEF IInv
<1>3. ASSUME NEW n \in Names
      PROVE  ClaimInv(claims'[n]) /\ (claims'[n].notifyQueued => n \in notes')
  <2>1. claims[n] \in Claim /\ ClaimInv(claims[n])
        /\ (claims[n].notifyQueued => n \in notes)
    BY DEF TypeOK, IInv, NoticeHasNote
  <2>2. CASE claims[n].owned
    <3>1. claims'[n] = [claims[n] EXCEPT !.owned = FALSE, !.queued = FALSE,
                                         !.requestSent = FALSE, !.notifyQueued = TRUE]
      BY <2>2 DEF HandleConnectionLost
    <3>2. ClaimInv(claims'[n])
      BY <2>1, <2>2, <3>1 DEF ClaimInv, Unheld, Held, Announced, Claim
    <3> QED BY <1>2, <2>2, <3>2
  <2>3. CASE ~claims[n].owned
    BY <1>2, <2>1, <2>3 DEF HandleConnectionLost
  <2> QED BY <2>2, <2>3
<1>4. NoticeHasNote'
  BY <1>3 DEF NoticeHasNote
<1>5. RegisteringIsRecorded'
  BY <1>1 DEF RegisteringIsRecorded
<1> QED BY <1>2, <1>3, <1>4, <1>5 DEF IInv

\* The ends of the bus calls.
LEMMA IInvReturns ==
    TypeOK /\ IInv /\ (WatchReply \/ RegisterReturns \/ ReleaseReturns) => IInv'
<1> SUFFICES ASSUME TypeOK, IInv, WatchReply \/ RegisterReturns \/ ReleaseReturns PROVE IInv'
  OBVIOUS
<1>1. /\ main.n \in Names /\ main.code \in 0 .. 4 /\ main.token \in Nat
      /\ claims[main.n] \in Claim /\ ClaimInv(claims[main.n])
  BY DEF TypeOK, MainState, IInv
<1>2. RegisteringIsRecorded' /\ relay'.on = relay.on /\ UNCHANGED <<notes, drainPosted>>
  BY DEF WatchReply, RegisterReturns, ReleaseReturns, Idle, RegisteringIsRecorded, relayVars
<1>3. CASE WatchReply
  <2>1. HasWake(mainQ) => HasWake(mainQ')
    <3>1. main.code # 0 => Reply(main.n, main.code, main.token) \in Event
      BY <1>1 DEF Reply, Event
    <3> QED BY <1>3, <3>1, WakeKept DEF WatchReply, TypeOK
  <2> QED BY <1>2, <1>3, <2>1, NoClaimChanges DEF WatchReply, claimVars
<1>4. CASE RegisterReturns
  <2>1. PICK ok \in BOOLEAN :
           claims' = [claims EXCEPT ![main.n].pending = FALSE,
                                    ![main.n].owned = @ \/ ok,
                                    ![main.n].lastNotifiedOwned = @ \/ ok]
    BY <1>4 DEF RegisterReturns
  <2> DEFINE c == [claims[main.n] EXCEPT !.pending = FALSE, !.owned = @ \/ ok,
                                         !.lastNotifiedOwned = @ \/ ok]
  <2>2. claims' = [claims EXCEPT ![main.n] = c]
    BY <1>1, <2>1 DEF TypeOK, Claim
  <2>3. claims[main.n].exists
    BY <1>4 DEF RegisterReturns, CallFails, IInv, RegisteringIsRecorded
  <2>4. ClaimInv(c) /\ (c.notifyQueued => claims[main.n].notifyQueued)
    BY <1>1, <2>3 DEF ClaimInv, Unheld, Held, Announced, Claim
  <2> HIDE DEF c
  <2> QED BY <1>1, <1>2, <1>4, <2>2, <2>4, OneClaimChanges DEF RegisterReturns
<1>5. CASE ReleaseReturns
  <2>1. PICK c : /\ claims' = [claims EXCEPT ![main.n] = c]
                 /\ c \in {NoClaim, claims[main.n], [claims[main.n] EXCEPT !.requestSent = FALSE]}
    BY <1>5 DEF ReleaseReturns
  <2>2. ClaimInv(c) /\ (c.notifyQueued => claims[main.n].notifyQueued)
    BY <1>1, <2>1 DEF ClaimInv, Unheld, Held, Announced, Claim, NoClaim
  <2> QED BY <1>1, <1>2, <1>5, <2>1, <2>2, OneClaimChanges DEF ReleaseReturns
<1> QED BY <1>3, <1>4, <1>5

LEMMA IInvRelay == TypeOK /\ IInv /\ (TakeWake \/ RelayStep) => IInv'
<1> SUFFICES ASSUME TypeOK, IInv, TakeWake \/ RelayStep PROVE IInv'
  OBVIOUS
<1>1. main.op = "idle" /\ UNCHANGED main
  BY DEF TakeWake, RelayStep, RelayNote, RelayDeliver, RelayDone, Dispatching
<1>2. RegisteringIsRecorded'
  BY <1>1 DEF RegisteringIsRecorded
<1>3. CASE TakeWake
  <2>1. NoteHasWake' /\ WakeIsPosted' /\ NoticeHasNote'
    BY <1>3 DEF TakeWake, RelayDraining, RelayOff, IInv, NoteHasWake, WakeIsPosted,
                NoticeHasNote, claimVars
  <2> QED BY <1>2, <1>3, <2>1 DEF TakeWake, IInv, claimVars
<1>4. ASSUME NEW n \in Names, RelayNote(n) PROVE IInv'
  <2>1. claims[n] \in Claim /\ ClaimInv(claims[n])
    BY DEF TypeOK, IInv
  <2>2. relay'.on /\ UNCHANGED <<mainQ, drainPosted>> /\ notes' = notes \ {n}
    BY <1>4 DEF RelayNote, RelayDraining, RelayOff
  <2>3. NoteHasWake' /\ WakeIsPosted'
    BY <2>2 DEF IInv, NoteHasWake, WakeIsPosted
  <2>4. CASE claims[n].exists /\ claims[n].notifyQueued
    <3> DEFINE c == [claims[n] EXCEPT !.notifyQueued = FALSE,
                                      !.lastNotifiedOwned = claims[n].owned]
    <3>1. claims' = [claims EXCEPT ![n] = c]
      BY <1>4, <2>1, <2>4 DEF RelayNote, TypeOK, Claim
    <3>2. ClaimInv(c) /\ ~c.notifyQueued
      BY <2>1, <2>4 DEF ClaimInv, Unheld, Held, Announced, Claim
    <3> HIDE DEF c
    <3>3. \A m \in Names : ClaimInv(claims'[m])
      BY <3>1, <3>2 DEF TypeOK, IInv
    <3>4. NoticeHasNote'
      BY <2>2, <3>1, <3>2 DEF TypeOK, IInv, NoticeHasNote
    <3> QED BY <1>2, <2>3, <3>3, <3>4 DEF IInv
  <2>5. CASE ~(claims[n].exists /\ claims[n].notifyQueued)
    <3>1. ~claims[n].notifyQueued /\ UNCHANGED claims
      BY <1>4, <2>1, <2>5 DEF RelayNote, ClaimInv, Unheld
    <3>2. NoticeHasNote'
      BY <2>2, <3>1 DEF IInv, NoticeHasNote
    <3> QED BY <1>2, <2>3, <3>1, <3>2 DEF IInv
  <2> QED BY <2>4, <2>5
<1>5. ASSUME NEW a \in Adaptors, RelayDeliver(a) PROVE IInv'
  <2>1. relay'.on = relay.on
    BY <1>5 DEF RelayDeliver, TypeOK, RelayState
  <2> QED BY <1>2, <1>5, <2>1, NoClaimChanges DEF RelayDeliver, claimVars
<1>6. CASE RelayDone
  <2>1. NoteHasWake' /\ WakeIsPosted' /\ NoticeHasNote'
    BY <1>6 DEF RelayDone, IInv, NoteHasWake, WakeIsPosted, NoticeHasNote, claimVars
  <2> QED BY <1>2, <1>6, <2>1 DEF RelayDone, IInv, claimVars
<1> QED BY <1>3, <1>4, <1>5, <1>6 DEF RelayStep

\* The daemon, the peer and the connection touch no claim and take no event.
LEMMA IInvBus ==
    TypeOK /\ IInv /\ (DaemonStep \/ PeerActs \/ LinkDrops \/ LossObserved) => IInv'
<1> SUFFICES ASSUME TypeOK, IInv, DaemonStep \/ PeerActs \/ LinkDrops \/ LossObserved
             PROVE  IInv'
  OBVIOUS
<1>1. UNCHANGED <<claims, notes, drainPosted, relay>>
  BY DEF DaemonStep, ServeRequest, ServeRegister, ServeRelease, PeerActs, PeerRequests,
         PeerReleases, PeerStep, LinkDrops, LossObserved, claimVars, relayVars
<1>2. RegisteringIsRecorded'
  <2>1. main'.n = main.n /\ (main'.op \in {"register", "registered"} =>
                                main.op \in {"register", "registered"})
    BY DEF DaemonStep, ServeRequest, ServeRegister, ServeRelease, PeerActs, PeerRequests,
           PeerReleases, PeerStep, LinkDrops, LossObserved, TypeOK, MainState
  <2> QED BY <1>1, <2>1 DEF IInv, RegisteringIsRecorded
<1>3. Us \in Clients /\ Peer \in Clients /\ mainQ \in Seq(Event)
  BY DEF Clients, TypeOK
<1>4. ASSUME DaemonStep
      PROVE  LET r == Head(up)
             IN  /\ r.n \in Names /\ r.f \in Flags /\ r.token \in Nat
                 /\ broker[r.n] \in BrokerName
                 /\ ReplyCode(broker[r.n], Us, r.f) \in 1 .. 4
                 /\ AfterRequest(broker[r.n], Us, r.f) \in BrokerName
                 /\ AfterRelease(broker[r.n], Us) \in BrokerName
  <2>1. up # <<>>
    BY <1>4 DEF DaemonStep, ServeRequest, ServeRegister, ServeRelease
  <2>2. Head(up).n \in Names /\ Head(up).f \in Flags /\ Head(up).token \in Nat
    <3>1. Head(up) \in CallSet
      BY <2>1, HeadTailProperties DEF TypeOK
    <3> QED BY <3>1 DEF CallSet
  <2>3. broker[Head(up).n] \in BrokerName
    BY <2>2 DEF TypeOK
  <2> QED BY <1>3, <2>2, <2>3, BrokerOperators
<1>5. HasWake(mainQ) => HasWake(mainQ')
  <2>1. CASE ServeRequest
    <3> DEFINE r == Head(up)
               b == AfterRequest(broker[r.n], Us, r.f)
               code == ReplyCode(broker[r.n], Us, r.f)
               q == Broadcast(mainQ, r.n, broker[r.n], b)
    <3>1. HasWake(mainQ) => HasWake(q)
      BY <1>3, <1>4, <2>1, WakeKept DEF DaemonStep
    <3>2. q \in Seq(Event)
      BY <1>3, <1>4, <2>1, BroadcastType DEF DaemonStep
    <3>3. Reply(r.n, code, r.token) \in Event
      BY <1>4, <2>1 DEF DaemonStep, Reply, Event
    <3>4. mainQ' = q \/ mainQ' = Append(q, Reply(r.n, code, r.token))
      BY <2>1 DEF ServeRequest
    <3> HIDE DEF q, code, b, r
    <3> QED BY <3>1, <3>2, <3>3, <3>4, WakeKept
  <2>2. CASE ServeRegister
    BY <1>3, <1>4, <2>2, WakeKept DEF DaemonStep, ServeRegister
  <2>3. CASE ServeRelease
    BY <1>3, <1>4, <2>3, WakeKept DEF DaemonStep, ServeRelease
  <2>4. ASSUME NEW n \in Names, NEW b \in BrokerName, PeerStep(n, b)
        PROVE  HasWake(mainQ) => HasWake(mainQ')
    BY <1>3, <2>4, WakeKept DEF PeerStep, TypeOK
  <2>5. CASE PeerActs
    <3>1. \A n \in Names : /\ AfterRelease(broker[n], Peer) \in BrokerName
                           /\ \A f \in FlagSets : AfterRequest(broker[n], Peer, f) \in BrokerName
      BY <1>3, NullTypes, FlagsAssumption, BrokerOperators DEF TypeOK, Flags
    <3> QED BY <2>4, <2>5, <3>1 DEF PeerActs, PeerRequests, PeerReleases
  <2>6. CASE LinkDrops
    BY <2>6 DEF LinkDrops
  <2>7. CASE LossObserved
    <3>1. ConnectionLost \in Event
      BY DEF Event
    <3> QED BY <1>3, <2>7, <3>1, WakeKept DEF LossObserved
  <2> QED BY <2>1, <2>2, <2>3, <2>5, <2>6, <2>7 DEF DaemonStep
<1> QED BY <1>1, <1>2, <1>5, NoClaimChanges

LEMMA IInvNext == TypeOK /\ IInv /\ [Next]_vars => IInv'
<1> SUFFICES ASSUME TypeOK, IInv, [Next]_vars PROVE IInv'
  OBVIOUS
<1>1. ASSUME NEW a \in Adaptors, DestroyUnregistered(a) PROVE IInv'
  <2>1. main.op = "idle" /\ UNCHANGED main /\ relay'.on = relay.on
    BY <1>1 DEF DestroyUnregistered, UserMayRun, Gone, TypeOK, RelayState
  <2>2. RegisteringIsRecorded'
    BY <2>1 DEF RegisteringIsRecorded
  <2> QED BY <1>1, <2>1, <2>2, NoClaimChanges DEF DestroyUnregistered, claimVars
<1>2. CASE UNCHANGED vars
  <2>1. RegisteringIsRecorded'
    BY <1>2 DEF vars, IInv, RegisteringIsRecorded
  <2> QED BY <1>2, <2>1, NoClaimChanges DEF vars
<1> QED BY <1>1, <1>2, IInvAttach, IInvDetach, IInvHandlers, IInvConnectionLost,
           IInvReturns, IInvRelay, IInvBus DEF Next, MainStep

\* A5, at every state and not only where the source asserts it: a claim that
\* is owned had its acquisition delivered, or a note that will deliver it.
THEOREM EveryOwnerAnnounced == Spec => []OwnedIsAnnounced
<1>1. IInv => OwnedIsAnnounced
  BY DEF IInv, ClaimInv, Announced, OwnedIsAnnounced
<1> QED BY <1>1, TypeCorrect, IInvInit, IInvNext, PTL DEF Spec

\* No wake-up of the relay is lost: no order of owner changes, replies, drains
\* and handlers leaves a claim waiting for a relay that will not run.
THEOREM WakeNeverLost == Spec => []NoLostWake
<1>1. IInv => NoLostWake
  BY DEF IInv, NoticeHasNote, NoteHasWake, WakeIsPosted, HasWake, NoLostWake
<1> QED BY <1>1, TypeCorrect, IInvInit, IInvNext, PTL DEF Spec

-----------------------------------------------------------------------------
(* RefsCountHolders.  It is not inductive: an adaptor that is counted for  *)
(* one name must not be for another, a tombstone that is adopted must have *)
(* nobody left to lose, and the adaptor whose attach is inside a bus call  *)
(* must still be attaching when the call returns.                          *)

Counts(c) == /\ IsFiniteSet(c.holders)
             /\ c.refs = Cardinality(c.holders)
             /\ c.tearingDown => c.holders = {}
OnRecord == {"attaching", "attached"}
AttachedIsHolder == \A a \in Adaptors : life[a] \in OnRecord <=> \E n \in Names : a \in claims[n].holders
HoldsOneName == \A m, n \in Names : \A a \in Adaptors :
                   a \in claims[m].holders /\ a \in claims[n].holders => m = n
AttachingInside == main.op \in {"watch", "register", "registered"} => life[main.a] = "attaching"

HoldersInv == /\ \A n \in Names : Counts(claims[n])
              /\ AttachedIsHolder
              /\ HoldsOneName
              /\ AttachingInside

\* What each rewriting of one claim does to its holders.
LEMMA HoldersKept ==
    ASSUME NEW c \in Claim, Counts(c), NEW a \in Adaptors, NEW token \in Nat
    PROVE  /\ Counts(NoClaim) /\ NoClaim.holders = {}
           /\ (Adopted(c).pending \/ Adopted(c).refs > 0) /\ a \notin c.holders =>
                  /\ Counts(Joined(Adopted(c), a))
                  /\ Joined(Adopted(c), a).holders = c.holders \cup {a}
           /\ ~(Adopted(c).pending \/ Adopted(c).refs > 0) =>
                  /\ c.holders = {}
                  /\ Counts(FlaggedClaim(Adopted(c), a, token))
                  /\ FlaggedClaim(Adopted(c), a, token).holders = {a}
                  /\ Counts(PlainClaim(Adopted(c), a))
                  /\ PlainClaim(Adopted(c), a).holders = {a}
           /\ c.refs > 1 /\ a \in c.holders =>
                  /\ Counts(OneHolderFewer(c, a))
                  /\ OneHolderFewer(c, a).holders = c.holders \ {a}
           /\ c.refs <= 1 /\ a \in c.holders =>
                  /\ c.holders = {a}
                  /\ Counts(Tombstone(c, token)) /\ Tombstone(c, token).holders = {}
<1>1. Cardinality({}) = 0 /\ IsFiniteSet({}) /\ Cardinality({a}) = 1 /\ IsFiniteSet({a})
  BY FS_EmptySet, FS_Singleton
<1>2. Counts(NoClaim) /\ NoClaim.holders = {}
  BY <1>1 DEF Counts, NoClaim
<1>3. ASSUME Adopted(c).pending \/ Adopted(c).refs > 0, a \notin c.holders
      PROVE  Counts(Joined(Adopted(c), a)) /\ Joined(Adopted(c), a).holders = c.holders \cup {a}
  <2>1. Adopted(c) = c /\ ~c.tearingDown
    BY <1>3 DEF Adopted, Claim
  <2>2. /\ Joined(c, a).holders = c.holders \cup {a} /\ Joined(c, a).refs = c.refs + 1
        /\ ~Joined(c, a).tearingDown
    BY <2>1 DEF Joined, Claim
  <2>3. IsFiniteSet(c.holders \cup {a}) /\ Cardinality(c.holders \cup {a}) = Cardinality(c.holders) + 1
    BY <1>3, FS_AddElement DEF Counts
  <2> QED BY <2>1, <2>2, <2>3 DEF Counts
<1>4. ASSUME ~(Adopted(c).pending \/ Adopted(c).refs > 0)
      PROVE  /\ c.holders = {}
             /\ Counts(FlaggedClaim(Adopted(c), a, token))
             /\ FlaggedClaim(Adopted(c), a, token).holders = {a}
             /\ Counts(PlainClaim(Adopted(c), a))
             /\ PlainClaim(Adopted(c), a).holders = {a}
  <2> DEFINE d == Adopted(c)
  <2>1. c.holders = {}
    <3>1. CASE c.tearingDown
      BY <3>1 DEF Counts
    <3>2. CASE ~c.tearingDown
      <4>1. c.refs = 0
        BY <1>4, <3>2 DEF Adopted, Claim
      <4> QED BY <4>1, FS_EmptySet DEF Counts
    <3> QED BY <3>1, <3>2
  <2>2. d \in Claim /\ d.holders = {} /\ ~d.tearingDown
    <3>1. d \in Claim
      BY ClaimOperators
    <3>2. d.holders = {} /\ ~d.tearingDown
      BY <2>1 DEF Adopted, Claim
    <3> QED BY <3>1, <3>2
  <2> HIDE DEF d
  <2>3. /\ FlaggedClaim(d, a, token).holders = {a} /\ FlaggedClaim(d, a, token).refs = 1
        /\ ~FlaggedClaim(d, a, token).tearingDown
    BY <2>2 DEF FlaggedClaim, FirstClaim, Claim
  <2>4. PlainClaim(d, a).holders = {a} /\ PlainClaim(d, a).refs = 1 /\ ~PlainClaim(d, a).tearingDown
    BY <2>2 DEF PlainClaim, FirstClaim, Claim
  <2> QED BY <1>1, <2>1, <2>3, <2>4 DEF Counts, d
<1>5. ASSUME c.refs > 1, a \in c.holders
      PROVE  Counts(OneHolderFewer(c, a)) /\ OneHolderFewer(c, a).holders = c.holders \ {a}
  <2>1. /\ OneHolderFewer(c, a).holders = c.holders \ {a} /\ OneHolderFewer(c, a).refs = c.refs - 1
        /\ ~OneHolderFewer(c, a).tearingDown
    BY <1>5 DEF OneHolderFewer, Claim, Counts
  <2>2. IsFiniteSet(c.holders \ {a}) /\ Cardinality(c.holders \ {a}) = Cardinality(c.holders) - 1
    BY <1>5, FS_RemoveElement DEF Counts
  <2> QED BY <2>1, <2>2 DEF Counts
<1>6. ASSUME c.refs <= 1, a \in c.holders
      PROVE  /\ c.holders = {a}
             /\ Counts(Tombstone(c, token)) /\ Tombstone(c, token).holders = {}
  <2>1. /\ IsFiniteSet(c.holders \ {a}) /\ Cardinality(c.holders \ {a}) = Cardinality(c.holders) - 1
        /\ Cardinality(c.holders) \in Nat /\ Cardinality(c.holders \ {a}) \in Nat
    BY <1>6, FS_RemoveElement, FS_CardinalityType DEF Counts
  <2>2. Cardinality(c.holders \ {a}) = 0
    BY <1>6, <2>1 DEF Counts
  <2>3. c.holders \ {a} = {}
    BY <2>1, <2>2, FS_EmptySet
  <2>4. Tombstone(c, token).holders = {} /\ Tombstone(c, token).refs = 0
    BY DEF Tombstone, Claim
  <2> QED BY <1>1, <1>6, <2>3, <2>4 DEF Counts
<1> QED BY <1>2, <1>3, <1>4, <1>5, <1>6

\* A step that leaves every claim its holders.
LEMMA SameHolders ==
    ASSUME TypeOK, HoldersInv, AttachingInside',
           \A n \in Names : claims'[n].holders = claims[n].holders /\ Counts(claims'[n]),
           \A a \in Adaptors : life'[a] \in OnRecord <=> life[a] \in OnRecord
    PROVE  HoldersInv'
<1>1. AttachedIsHolder'
  BY DEF HoldersInv, AttachedIsHolder
<1>2. HoldsOneName'
  BY DEF HoldersInv, HoldsOneName
<1> QED BY <1>1, <1>2 DEF HoldersInv

\* An adaptor that nobody counts is counted for one name.
LEMMA HolderJoins ==
    ASSUME TypeOK, HoldersInv, AttachingInside', NEW a \in Adaptors, NEW n \in Names,
           life[a] = "free", life' \in {[life EXCEPT ![a] = k] : k \in OnRecord},
           NEW c, claims' = [claims EXCEPT ![n] = c], Counts(c),
           c.holders = claims[n].holders \cup {a}
    PROVE  HoldersInv'
<1>1. \A m \in Names : a \notin claims[m].holders
  BY DEF HoldersInv, AttachedIsHolder, OnRecord
<1>2. claims'[n] = c /\ \A m \in Names : m # n => claims'[m] = claims[m]
  BY DEF TypeOK
<1>3. life'[a] \in OnRecord /\ \A b \in Adaptors : b # a => life'[b] = life[b]
  BY DEF TypeOK
<1>4. AttachedIsHolder'
  <2> SUFFICES ASSUME NEW b \in Adaptors
               PROVE  life'[b] \in OnRecord <=> \E m \in Names : b \in claims'[m].holders
    BY DEF AttachedIsHolder
  <2>1. CASE b = a
    BY <1>2, <1>3, <2>1
  <2>2. CASE b # a
    <3>1. \A m \in Names : b \in claims'[m].holders <=> b \in claims[m].holders
      BY <1>2, <2>2
    <3> QED BY <1>3, <2>2, <3>1 DEF HoldersInv, AttachedIsHolder
  <2> QED BY <2>1, <2>2
<1>5. HoldsOneName'
  BY <1>1, <1>2 DEF HoldersInv, HoldsOneName
<1>6. \A m \in Names : Counts(claims'[m])
  BY <1>2 DEF HoldersInv
<1> QED BY <1>4, <1>5, <1>6 DEF HoldersInv

\* A holder leaves its only name.
LEMMA HolderLeaves ==
    ASSUME TypeOK, HoldersInv, AttachingInside', NEW a \in Adaptors, NEW n \in Names,
           a \in claims[n].holders, life' \in {[life EXCEPT ![a] = k] : k \in {"free", "unregistered"}},
           NEW c, claims' = [claims EXCEPT ![n] = c], Counts(c),
           c.holders = claims[n].holders \ {a}
    PROVE  HoldersInv'
<1>1. \A m \in Names : m # n => a \notin claims[m].holders
  BY DEF HoldersInv, HoldsOneName
<1>2. claims'[n] = c /\ \A m \in Names : m # n => claims'[m] = claims[m]
  BY DEF TypeOK
<1>3. life'[a] \notin OnRecord /\ \A b \in Adaptors : b # a => life'[b] = life[b]
  BY DEF TypeOK, OnRecord
<1>4. AttachedIsHolder'
  <2> SUFFICES ASSUME NEW b \in Adaptors
               PROVE  life'[b] \in OnRecord <=> \E m \in Names : b \in claims'[m].holders
    BY DEF AttachedIsHolder
  <2>1. CASE b = a
    BY <1>1, <1>2, <1>3, <2>1
  <2>2. CASE b # a
    <3>1. \A m \in Names : b \in claims'[m].holders <=> b \in claims[m].holders
      BY <1>2, <2>2
    <3> QED BY <1>3, <2>2, <3>1 DEF HoldersInv, AttachedIsHolder
  <2> QED BY <2>1, <2>2
<1>5. HoldsOneName'
  BY <1>2 DEF HoldersInv, HoldsOneName
<1>6. \A m \in Names : Counts(claims'[m])
  BY <1>2 DEF HoldersInv
<1> QED BY <1>4, <1>5, <1>6 DEF HoldersInv

LEMMA HoldersAttach == TypeOK /\ HoldersInv /\ Attach => HoldersInv'
<1> SUFFICES ASSUME TypeOK, HoldersInv, NEW a \in Adaptors, NEW n \in Names,
                    \/ AttachJoin(a, n)
                    \/ AttachPlain(a, n)
                    \/ \E f \in FlagSets : AttachFlagged(a, n, f)
             PROVE  HoldersInv'
  BY DEF Attach
<1>1. /\ claims[n] \in Claim /\ Counts(claims[n]) /\ life[a] = "free" /\ main.op = "idle"
      /\ nextToken + 1 \in Nat /\ life \in [Adaptors -> {"free", "attaching", "attached", "unregistered"}]
  BY DEF TypeOK, HoldersInv, AttachJoin, AttachPlain, AttachFlagged, StartAttach, UserMayRun
<1>2. a \notin claims[n].holders
  BY <1>1 DEF HoldersInv, AttachedIsHolder, OnRecord
<1>3. CASE AttachJoin(a, n)
  <2> DEFINE c == Joined(Adopted(claims[n]), a)
  <2>1. claims' = [claims EXCEPT ![n] = c] /\ life' = [life EXCEPT ![a] = "attached"] /\ main' = main
    BY <1>3 DEF AttachJoin
  <2>2. Counts(c) /\ c.holders = claims[n].holders \cup {a}
    BY <1>1, <1>2, <1>3, HoldersKept DEF AttachJoin
  <2> HIDE DEF c
  <2>3. AttachingInside'
    BY <1>1, <2>1 DEF AttachingInside
  <2> QED BY <1>1, <2>1, <2>2, <2>3, HolderJoins DEF OnRecord
<1>4. CASE AttachPlain(a, n)
  <2> DEFINE c == PlainClaim(Adopted(claims[n]), a)
  <2>1. claims' = [claims EXCEPT ![n] = c] /\ life' = [life EXCEPT ![a] = "attaching"] /\ main'.a = a
    BY <1>4 DEF AttachPlain, Inside
  <2>2. Counts(c) /\ c.holders = claims[n].holders \cup {a}
    BY <1>1, <1>4, HoldersKept DEF AttachPlain
  <2> HIDE DEF c
  <2>3. AttachingInside'
    BY <1>1, <2>1 DEF AttachingInside
  <2> QED BY <1>1, <2>1, <2>2, <2>3, HolderJoins DEF OnRecord
<1>5. ASSUME NEW f \in FlagSets, AttachFlagged(a, n, f) PROVE HoldersInv'
  <2> DEFINE c == FlaggedClaim(Adopted(claims[n]), a, nextToken + 1)
  <2>1. claims' = [claims EXCEPT ![n] = c] /\ life' = [life EXCEPT ![a] = "attaching"] /\ main'.a = a
    BY <1>5 DEF AttachFlagged, Inside
  <2>2. Counts(c) /\ c.holders = claims[n].holders \cup {a}
    BY <1>1, <1>5, HoldersKept DEF AttachFlagged
  <2> HIDE DEF c
  <2>3. AttachingInside'
    BY <1>1, <2>1 DEF AttachingInside
  <2> QED BY <1>1, <2>1, <2>2, <2>3, HolderJoins DEF OnRecord
<1> QED BY <1>3, <1>4, <1>5

LEMMA HoldersDetach == TypeOK /\ HoldersInv /\ Detach => HoldersInv'
<1> SUFFICES ASSUME TypeOK, HoldersInv, NEW a \in Adaptors, NEW n \in Names,
                    NEW after \in {"unregistered", "free"}, a \in claims[n].holders,
                    DetachOne(a, n, after) \/ DetachLast(a, n, after)
             PROVE  HoldersInv'
  BY DEF Detach
<1>1. /\ claims[n] \in Claim /\ Counts(claims[n]) /\ nextToken + 1 \in Nat
      /\ life' \in {[life EXCEPT ![a] = k] : k \in {"free", "unregistered"}}
      /\ main.op = "idle"
  BY DEF TypeOK, HoldersInv, DetachOne, DetachLast, Leave, UserMayRun
<1>2. CASE DetachOne(a, n, after)
  <2> DEFINE c == OneHolderFewer(claims[n], a)
  <2>1. claims' = [claims EXCEPT ![n] = c] /\ main' = main
    BY <1>2 DEF DetachOne
  <2>2. Counts(c) /\ c.holders = claims[n].holders \ {a}
    BY <1>1, <1>2, HoldersKept DEF DetachOne
  <2> HIDE DEF c
  <2>3. AttachingInside'
    BY <1>1, <2>1 DEF AttachingInside
  <2> QED BY <1>1, <2>1, <2>2, <2>3, HolderLeaves
<1>3. CASE DetachLast(a, n, after)
  <2> DEFINE c == Tombstone(claims[n], nextToken + 1)
  <2>1. claims' = [claims EXCEPT ![n] = c] /\ main'.op \in {"idle", "release"}
    BY <1>1, <1>3 DEF DetachLast, Inside
  <2>2. Counts(c) /\ c.holders = claims[n].holders \ {a}
    BY <1>1, <1>3, HoldersKept DEF DetachLast
  <2> HIDE DEF c
  <2>3. AttachingInside'
    BY <2>1 DEF AttachingInside
  <2> QED BY <1>1, <2>1, <2>2, <2>3, HolderLeaves
<1> QED BY <1>2, <1>3

\* What the main thread does with a claim leaves its holders alone.
SameCount(c, d) == d.holders = c.holders /\ d.refs = c.refs /\ d.tearingDown = c.tearingDown

LEMMA SameCountKept ==
    ASSUME NEW c \in Claim
    PROVE  /\ \A owner : SameCount(c, AfterOwnerChange(c, owner))
           /\ \A code, token : SameCount(c, AfterReply(c, code, token))
<1>1. ASSUME NEW owner PROVE SameCount(c, AfterOwnerChange(c, owner))
  BY DEF AfterOwnerChange, SameCount, Claim
<1>2. ASSUME NEW code, NEW token PROVE SameCount(c, AfterReply(c, code, token))
  BY DEF AfterReply, SameCount, Claim
<1> QED BY <1>1, <1>2

LEMMA HoldersMain == TypeOK /\ HoldersInv /\ MainStep => HoldersInv'
<1> SUFFICES ASSUME TypeOK, HoldersInv, MainStep PROVE HoldersInv'
  OBVIOUS
<1>1. ASSUME \A n \in Names : SameCount(claims[n], claims'[n]), UNCHANGED <<life, main>>
      PROVE  HoldersInv'
  <2>1. AttachingInside'
    BY <1>1 DEF HoldersInv, AttachingInside
  <2>2. \A n \in Names : claims'[n].holders = claims[n].holders /\ Counts(claims'[n])
    BY <1>1 DEF HoldersInv, Counts, SameCount
  <2> QED BY <1>1, <2>1, <2>2, SameHolders
<1>2. \A n \in Names : claims[n] \in Claim
  BY DEF TypeOK
<1>3. main.n \in Names /\ main.a \in Adaptors
  BY DEF TypeOK, MainState
<1>4. ASSUME mainQ # <<>>, Head(mainQ).t \in {"ownerChanged", "reply"} PROVE Head(mainQ).n \in Names
  <2>1. Head(mainQ) \in Event
    BY <1>4, HeadTailProperties DEF TypeOK
  <2> QED BY <1>4, <2>1 DEF Event, Wake, ConnectionLost
<1>5. CASE WatchReply
  <2>1. AttachingInside'
    BY <1>5 DEF WatchReply, Idle, AttachingInside
  <2>2. life[main.a] = "attaching"
    BY <1>5 DEF WatchReply, HoldersInv, AttachingInside
  <2>3. \A a \in Adaptors : life'[a] \in OnRecord <=> life[a] \in OnRecord
    BY <1>3, <1>5, <2>2 DEF WatchReply, OnRecord, TypeOK
  <2> QED BY <1>5, <2>1, <2>3, SameHolders DEF WatchReply, claimVars, HoldersInv
<1>6. CASE RegisterReturns
  <2>1. AttachingInside'
    BY <1>6 DEF RegisterReturns, Idle, AttachingInside
  <2>2. life[main.a] = "attaching"
    BY <1>6 DEF RegisterReturns, CallFails, HoldersInv, AttachingInside
  <2>3. \A a \in Adaptors : life'[a] \in OnRecord <=> life[a] \in OnRecord
    BY <1>3, <1>6, <2>2 DEF RegisterReturns, OnRecord, TypeOK
  <2>4. PICK ok \in BOOLEAN :
           claims' = [claims EXCEPT ![main.n].pending = FALSE,
                                    ![main.n].owned = @ \/ ok,
                                    ![main.n].lastNotifiedOwned = @ \/ ok]
    BY <1>6 DEF RegisterReturns
  <2> DEFINE c == [claims[main.n] EXCEPT !.pending = FALSE, !.owned = @ \/ ok,
                                         !.lastNotifiedOwned = @ \/ ok]
  <2>5. claims' = [claims EXCEPT ![main.n] = c]
    BY <1>2, <1>3, <2>4 DEF TypeOK, Claim
  <2>6. SameCount(claims[main.n], c)
    BY <1>2, <1>3 DEF SameCount, Claim
  <2> HIDE DEF c
  <2>7. \A n \in Names : SameCount(claims[n], claims'[n])
    BY <1>3, <2>5, <2>6 DEF TypeOK, SameCount
  <2>8. \A n \in Names : claims'[n].holders = claims[n].holders /\ Counts(claims'[n])
    BY <2>7 DEF HoldersInv, Counts, SameCount
  <2> QED BY <2>1, <2>3, <2>8, SameHolders
<1>7. CASE ReleaseReturns
  <2>1. AttachingInside' /\ life' = life
    BY <1>7 DEF ReleaseReturns, Idle, AttachingInside, adaptorVars
  <2> DEFINE c == claims[main.n]
  <2>2. PICK d : claims' = [claims EXCEPT ![main.n] = d]
                 /\ \/ c.tearingDown /\ d = NoClaim
                    \/ d \in {c, [c EXCEPT !.requestSent = FALSE]}
    BY <1>7 DEF ReleaseReturns
  <2>3. c \in Claim /\ Counts(c)
    BY <1>2, <1>3 DEF HoldersInv
  <2> HIDE DEF c
  <2>4. d.holders = c.holders /\ Counts(d)
    <3>1. CASE c.tearingDown /\ d = NoClaim
      BY <2>3, <3>1, FS_EmptySet DEF Counts, NoClaim
    <3>2. CASE d \in {c, [c EXCEPT !.requestSent = FALSE]}
      BY <2>3, <3>2 DEF Counts, Claim
    <3> QED BY <2>2, <3>1, <3>2
  <2>5. \A n \in Names : claims'[n].holders = claims[n].holders /\ Counts(claims'[n])
    BY <1>3, <2>2, <2>4 DEF HoldersInv, TypeOK, c
  <2> QED BY <2>1, <2>5, SameHolders
<1>8. CASE HandleOwnerChange
  <2> DEFINE e == Head(mainQ)
             d == AfterOwnerChange(claims[e.n], e.owner)
  <2>1. claims' = [claims EXCEPT ![e.n] = d] /\ UNCHANGED <<life, main>> /\ e.n \in Names
    BY <1>4, <1>8 DEF HandleOwnerChange, Dispatching, adaptorVars
  <2>2. SameCount(claims[e.n], d)
    BY <1>2, <2>1, SameCountKept
  <2> HIDE DEF d, e
  <2> QED BY <1>1, <2>1, <2>2 DEF TypeOK, SameCount
<1>9. CASE HandleReply
  <2> DEFINE e == Head(mainQ)
             d == AfterReply(claims[e.n], e.code, e.token)
  <2>1. claims' = [claims EXCEPT ![e.n] = d] /\ UNCHANGED <<life, main>> /\ e.n \in Names
    BY <1>4, <1>9 DEF HandleReply, Dispatching, adaptorVars
  <2>2. SameCount(claims[e.n], d)
    BY <1>2, <2>1, SameCountKept
  <2> HIDE DEF d, e
  <2> QED BY <1>1, <2>1, <2>2 DEF TypeOK, SameCount
<1>10. CASE HandleConnectionLost
  <2>1. UNCHANGED <<life, main>>
    BY <1>10 DEF HandleConnectionLost, adaptorVars
  <2>2. ASSUME NEW n \in Names PROVE SameCount(claims[n], claims'[n])
    BY <1>2, <1>10 DEF HandleConnectionLost, SameCount, Claim
  <2> QED BY <1>1, <2>1, <2>2
<1>11. CASE TakeWake
  BY <1>1, <1>11 DEF TakeWake, claimVars, adaptorVars, SameCount
<1>12. ASSUME NEW n \in Names, RelayNote(n) PROVE HoldersInv'
  <2>1. UNCHANGED <<life, main>>
    BY <1>12 DEF RelayNote, adaptorVars
  <2>2. claims' = claims
        \/ claims' = [claims EXCEPT ![n] = [claims[n] EXCEPT !.notifyQueued = FALSE,
                                               !.lastNotifiedOwned = claims[n].owned]]
    BY <1>2, <1>12 DEF RelayNote, TypeOK, Claim
  <2>3. SameCount(claims[n], [claims[n] EXCEPT !.notifyQueued = FALSE,
                                               !.lastNotifiedOwned = claims[n].owned])
    BY <1>2 DEF SameCount, Claim
  <2>4. \A m \in Names : SameCount(claims[m], claims'[m])
    BY <2>2, <2>3 DEF TypeOK, SameCount
  <2> QED BY <1>1, <2>1, <2>4
<1>13. CASE \/ \E a \in Adaptors : RelayDeliver(a)
            \/ RelayDone
  BY <1>1, <1>13 DEF RelayDeliver, RelayDone, claimVars, adaptorVars, SameCount
<1> QED BY <1>5, <1>6, <1>7, <1>8, <1>9, <1>10, <1>11, <1>12, <1>13 DEF MainStep, RelayStep

LEMMA HoldersNext == TypeOK /\ HoldersInv /\ [Next]_vars => HoldersInv'
<1> SUFFICES ASSUME TypeOK, HoldersInv, [Next]_vars PROVE HoldersInv'
  OBVIOUS
<1>1. ASSUME NEW a \in Adaptors, DestroyUnregistered(a) PROVE HoldersInv'
  <2>1. /\ UNCHANGED <<claims, main>> /\ life[a] = "unregistered"
        /\ life' = [life EXCEPT ![a] = "free"] /\ main.op = "idle"
    BY <1>1 DEF DestroyUnregistered, claimVars, UserMayRun
  <2>2. AttachingInside'
    BY <2>1 DEF AttachingInside
  <2>3. \A b \in Adaptors : life'[b] \in OnRecord <=> life[b] \in OnRecord
    BY <2>1 DEF TypeOK, OnRecord
  <2> QED BY <2>1, <2>2, <2>3, SameHolders DEF HoldersInv
<1>2. CASE DaemonStep \/ PeerActs \/ LinkDrops \/ LossObserved
  <2>1. UNCHANGED <<claims, life>>
    BY <1>2 DEF DaemonStep, ServeRequest, ServeRegister, ServeRelease, PeerActs, PeerRequests,
                PeerReleases, PeerStep, LinkDrops, LossObserved, claimVars, adaptorVars
  <2>2. AttachingInside'
    <3>1. main'.a = main.a /\ (main'.op \in {"watch", "register", "registered"} =>
                                  main.op \in {"watch", "register", "registered"})
      BY <1>2 DEF DaemonStep, ServeRequest, ServeRegister, ServeRelease, PeerActs, PeerRequests,
                  PeerReleases, PeerStep, LinkDrops, LossObserved, TypeOK, MainState
    <3> QED BY <2>1, <3>1 DEF HoldersInv, AttachingInside
  <2> QED BY <2>1, <2>2, SameHolders DEF HoldersInv
<1>3. CASE UNCHANGED vars
  <2>1. AttachingInside'
    BY <1>3 DEF vars, HoldersInv, AttachingInside
  <2> QED BY <1>3, <2>1, SameHolders DEF vars, HoldersInv
<1> QED BY <1>1, <1>2, <1>3, HoldersAttach, HoldersDetach, HoldersMain DEF Next

LEMMA HoldersInit == Init => HoldersInv
<1> SUFFICES ASSUME Init PROVE HoldersInv
  OBVIOUS
<1>1. \A n \in Names : claims[n] = NoClaim
  BY DEF Init
<1>2. NoClaim.holders = {} /\ Counts(NoClaim)
  BY FS_EmptySet DEF NoClaim, Counts
<1> QED BY <1>1, <1>2 DEF Init, Idle, HoldersInv, AttachedIsHolder, HoldsOneName,
                          AttachingInside, OnRecord

\* However many adaptors share how many names, and whoever leaves while a call
\* is under way or a handler runs: refs counts the holders of a claim, which
\* are the adaptors attached, so that the last to leave is known to be the last.
THEOREM RefsAreRight == Spec => []RefsCountHolders
<1>1. HoldersInv => RefsCountHolders
  BY DEF HoldersInv, Counts, AttachedIsHolder, OnRecord, RefsCountHolders
<1> QED BY <1>1, TypeCorrect, HoldersInit, HoldersNext, PTL DEF Spec

-----------------------------------------------------------------------------
(* What an adaptor that shares its name with nobody is told.  (For a name  *)
(* that is shared neither theorem is true.)  Two parts of the strengthened *)
(* invariant are kept by any number of adaptors: HoldersInv, and that a    *)
(* loss that was not delivered waits for its note.  SoleInv says what the  *)
(* one adaptor has heard: what the relay recorded last, or, while it is    *)
(* still to be told, the opposite.                                         *)

OneAdaptor == \E a : Adaptors = {a}

LossWaits(c) == c.lastNotifiedOwned /\ ~c.owned /\ ~c.tearingDown => c.notifyQueued
LossAnnounced == \A n \in Names : LossWaits(claims[n])

\* Each rewriting of one claim keeps its part.
LEMMA LossWaitsKept ==
    ASSUME NEW c \in Claim, LossWaits(c), NEW a \in Adaptors, NEW token \in Nat
    PROVE  /\ LossWaits(NoClaim)
           /\ LossWaits(Joined(Adopted(c), a))
           /\ LossWaits(FlaggedClaim(Adopted(c), a, token))
           /\ LossWaits(PlainClaim(Adopted(c), a))
           /\ LossWaits(OneHolderFewer(c, a))
           /\ LossWaits(Tombstone(c, token))
           /\ \A owner : LossWaits(AfterOwnerChange(c, owner))
           /\ \A code, t : LossWaits(AfterReply(c, code, t))
<1> USE DEF LossWaits
<1>1. LossWaits(NoClaim)
  BY DEF NoClaim
<1>2. Adopted(c) \in Claim /\ LossWaits(Adopted(c))
  <2>1. Adopted(c) \in Claim
    BY ClaimOperators
  <2>2. LossWaits(Adopted(c))
    BY DEF Adopted, Claim
  <2> QED BY <2>1, <2>2
<1>3. LossWaits(Joined(Adopted(c), a))
  BY <1>2 DEF Joined, Claim
<1>4. LossWaits(FlaggedClaim(Adopted(c), a, token)) /\ LossWaits(PlainClaim(Adopted(c), a))
  BY <1>2 DEF FlaggedClaim, PlainClaim, FirstClaim, Claim
<1>5. LossWaits(OneHolderFewer(c, a)) /\ LossWaits(Tombstone(c, token))
  BY DEF OneHolderFewer, Tombstone, Claim
<1>6. ASSUME NEW owner PROVE LossWaits(AfterOwnerChange(c, owner))
  BY DEF AfterOwnerChange, Claim
<1>7. ASSUME NEW code, NEW t PROVE LossWaits(AfterReply(c, code, t))
  BY DEF AfterReply, StaleReply, Claim
<1> QED BY <1>1, <1>3, <1>4, <1>5, <1>6, <1>7

LEMMA LossAnnouncedNext == TypeOK /\ LossAnnounced /\ [Next]_vars => LossAnnounced'
<1> SUFFICES ASSUME TypeOK, LossAnnounced, [Next]_vars PROVE LossAnnounced'
  OBVIOUS
<1>1. /\ \A n \in Names : claims[n] \in Claim /\ LossWaits(claims[n])
      /\ claims \in [Names -> Claim] /\ nextToken + 1 \in Nat
  BY DEF TypeOK, LossAnnounced
<1>2. ASSUME NEW n \in Names, NEW c, claims' = [claims EXCEPT ![n] = c], LossWaits(c)
      PROVE  LossAnnounced'
  BY <1>1, <1>2 DEF LossAnnounced
<1>3. ASSUME UNCHANGED claims PROVE LossAnnounced'
  BY <1>3 DEF LossAnnounced
<1>4. main.n \in Names
  BY DEF TypeOK, MainState
<1>5. ASSUME mainQ # <<>>, Head(mainQ).t \in {"ownerChanged", "reply"} PROVE Head(mainQ).n \in Names
  <2>1. Head(mainQ) \in Event
    BY <1>5, HeadTailProperties DEF TypeOK
  <2> QED BY <1>5, <2>1 DEF Event, Wake, ConnectionLost
<1>6. CASE Attach
  <2>1. ASSUME NEW a \in Adaptors, NEW n \in Names, AttachJoin(a, n) PROVE LossAnnounced'
    <3>1. LossWaits(Joined(Adopted(claims[n]), a))
      BY <1>1, LossWaitsKept
    <3> QED BY <1>2, <2>1, <3>1 DEF AttachJoin
  <2>2. ASSUME NEW a \in Adaptors, NEW n \in Names, AttachPlain(a, n) PROVE LossAnnounced'
    <3>1. LossWaits(PlainClaim(Adopted(claims[n]), a))
      BY <1>1, LossWaitsKept
    <3> QED BY <1>2, <2>2, <3>1 DEF AttachPlain
  <2>3. ASSUME NEW a \in Adaptors, NEW n \in Names, NEW f \in FlagSets, AttachFlagged(a, n, f)
        PROVE  LossAnnounced'
    <3>1. LossWaits(FlaggedClaim(Adopted(claims[n]), a, nextToken + 1))
      BY <1>1, LossWaitsKept
    <3> QED BY <1>2, <2>3, <3>1 DEF AttachFlagged
  <2> QED BY <1>6, <2>1, <2>2, <2>3 DEF Attach
<1>7. CASE Detach
  <2> SUFFICES ASSUME NEW a \in Adaptors, NEW n \in Names, NEW after \in {"unregistered", "free"},
                      DetachOne(a, n, after) \/ DetachLast(a, n, after)
               PROVE  LossAnnounced'
    BY <1>7 DEF Detach
  <2>1. LossWaits(OneHolderFewer(claims[n], a)) /\ LossWaits(Tombstone(claims[n], nextToken + 1))
    BY <1>1, LossWaitsKept
  <2> QED BY <1>2, <2>1 DEF DetachOne, DetachLast
<1>8. CASE RegisterReturns
  <2>1. PICK ok \in BOOLEAN :
           claims' = [claims EXCEPT ![main.n].pending = FALSE,
                                    ![main.n].owned = @ \/ ok,
                                    ![main.n].lastNotifiedOwned = @ \/ ok]
    BY <1>8 DEF RegisterReturns
  <2> DEFINE c == [claims[main.n] EXCEPT !.pending = FALSE, !.owned = @ \/ ok,
                                         !.lastNotifiedOwned = @ \/ ok]
  <2>2. claims' = [claims EXCEPT ![main.n] = c]
    BY <1>1, <1>4, <2>1 DEF Claim
  <2>3. LossWaits(c)
    <3>1. claims[main.n] \in Claim /\ LossWaits(claims[main.n])
      BY <1>1, <1>4
    <3> QED BY <3>1 DEF LossWaits, Claim
  <2> HIDE DEF c
  <2> QED BY <1>2, <1>4, <2>2, <2>3
<1>9. CASE ReleaseReturns
  <2>1. PICK c : /\ claims' = [claims EXCEPT ![main.n] = c]
                 /\ c \in {NoClaim, claims[main.n], [claims[main.n] EXCEPT !.requestSent = FALSE]}
    BY <1>9 DEF ReleaseReturns
  <2>2. LossWaits(c)
    <3>1. claims[main.n] \in Claim /\ LossWaits(claims[main.n])
      BY <1>1, <1>4
    <3> QED BY <2>1, <3>1 DEF LossWaits, Claim, NoClaim
  <2> QED BY <1>2, <1>4, <2>1, <2>2
<1>10. CASE HandleOwnerChange
  <2> DEFINE e == Head(mainQ)
             d == AfterOwnerChange(claims[e.n], e.owner)
  <2>1. claims' = [claims EXCEPT ![e.n] = d] /\ e.n \in Names
    BY <1>5, <1>10 DEF HandleOwnerChange, Dispatching
  <2>2. LossWaits(d)
    BY <1>1, <2>1, LossWaitsKept, AdaptorsAssumption, 0 \in Nat
  <2> HIDE DEF d, e
  <2> QED BY <1>2, <2>1, <2>2
<1>11. CASE HandleReply
  <2> DEFINE e == Head(mainQ)
             d == AfterReply(claims[e.n], e.code, e.token)
  <2>1. claims' = [claims EXCEPT ![e.n] = d] /\ e.n \in Names
    BY <1>5, <1>11 DEF HandleReply, Dispatching
  <2>2. LossWaits(d)
    BY <1>1, <2>1, LossWaitsKept, AdaptorsAssumption, 0 \in Nat
  <2> HIDE DEF d, e
  <2> QED BY <1>2, <2>1, <2>2
<1>12. CASE HandleConnectionLost
  <2> SUFFICES ASSUME NEW n \in Names PROVE LossWaits(claims'[n])
    BY DEF LossAnnounced
  <2>1. claims[n] \in Claim /\ LossWaits(claims[n])
    BY <1>1
  <2> QED BY <1>12, <2>1 DEF HandleConnectionLost, LossWaits, Claim
<1>13. ASSUME NEW n \in Names, RelayNote(n) PROVE LossAnnounced'
  <2>1. claims[n] \in Claim
    BY <1>1
  <2> DEFINE c == [claims[n] EXCEPT !.notifyQueued = FALSE, !.lastNotifiedOwned = claims[n].owned]
  <2>2. claims' = claims \/ claims' = [claims EXCEPT ![n] = c]
    BY <1>1, <1>13 DEF RelayNote, Claim
  <2>3. LossWaits(c)
    BY <2>1 DEF LossWaits, Claim
  <2> HIDE DEF c
  <2> QED BY <1>2, <1>3, <2>2, <2>3
<1>14. CASE \/ WatchReply \/ TakeWake \/ RelayDone
            \/ \E a \in Adaptors : RelayDeliver(a) \/ DestroyUnregistered(a)
            \/ DaemonStep \/ PeerActs \/ LinkDrops \/ LossObserved \/ UNCHANGED vars
  BY <1>3, <1>14
     DEF WatchReply, TakeWake, RelayDone, RelayDeliver, DestroyUnregistered, DaemonStep,
         ServeRequest, ServeRegister, ServeRelease, PeerActs, PeerRequests, PeerReleases,
         PeerStep, LinkDrops, LossObserved, vars, claimVars
<1> QED BY <1>6, <1>7, <1>8, <1>9, <1>10, <1>11, <1>12, <1>13, <1>14 DEF Next, MainStep, RelayStep

LEMMA LossAnnouncedInit == Init => LossAnnounced
BY DEF Init, LossAnnounced, LossWaits, NoClaim

\* The parts of SoleInv that only say who is inside which call.
TellsBetweenCalls == relay.todo # {} => relay.on /\ ~relay.inHandler /\ main.op = "idle"
TellsHolders == \A x \in relay.todo : \E n \in Names : x \in claims[n].holders
PendingInside == \A n \in Names : claims[n].pending =>
                    main.op \in {"register", "registered"} /\ main.n = n
RegistersUntold == main.op \in {"register", "registered"} =>
                      main.a \in claims[main.n].holders /\ ~claims[main.n].lastNotifiedOwned

\* Whether x was told last that it has the name of c.
Knows(x, c) == /\ heard[x] = "acquired" <=> IF x \in relay.todo THEN ~relay.acquired
                                                               ELSE c.lastNotifiedOwned
               /\ x \in relay.todo => (c.lastNotifiedOwned <=> relay.acquired)
HolderKnows == \A n \in Names : \A x \in claims[n].holders : Knows(x, claims[n])

SoleInv == /\ TellsBetweenCalls /\ TellsHolders
           /\ PendingInside /\ RegistersUntold
           /\ HolderKnows /\ ToldInTurn

LEMMA SoleInit == Init => SoleInv
<1> SUFFICES ASSUME Init PROVE SoleInv
  OBVIOUS
<1>1. \A n \in Names : claims[n].holders = {} /\ ~claims[n].pending
  BY DEF Init, NoClaim
<1>2. relay.todo = {} /\ main.op = "idle" /\ \A x \in Adaptors : heard[x] = "none"
  BY DEF Init, RelayOff, Idle
<1> QED BY <1>1, <1>2 DEF SoleInv, TellsBetweenCalls, TellsHolders, PendingInside,
                          RegistersUntold, HolderKnows, ToldInTurn

\* A step that leaves the holders, what they were told and what is recorded.
SameRecord(c, d) == /\ d.holders = c.holders
                    /\ d.pending => c.pending
                    /\ d.lastNotifiedOwned <=> c.lastNotifiedOwned

LEMMA SoleSame ==
    ASSUME TypeOK, SoleInv, UNCHANGED <<heard, relay>>,
           \A n \in Names : SameRecord(claims[n], claims'[n]),
           main'.n = main.n, main'.a = main.a,
           main.op = "idle" => main'.op = "idle",
           main'.op \in {"register", "registered"} <=> main.op \in {"register", "registered"}
    PROVE  SoleInv'
<1>1. main.n \in Names /\ UNCHANGED <<heard, relay>>
  BY DEF TypeOK, MainState
<1>2. \A n \in Names : /\ claims'[n].holders = claims[n].holders
                       /\ claims'[n].pending => claims[n].pending
                       /\ claims'[n].lastNotifiedOwned <=> claims[n].lastNotifiedOwned
  BY DEF SameRecord
<1>3. TellsBetweenCalls'
  BY <1>1 DEF SoleInv, TellsBetweenCalls
<1>4. TellsHolders'
  BY <1>1, <1>2 DEF SoleInv, TellsHolders
<1>5. PendingInside'
  BY <1>2 DEF SoleInv, PendingInside
<1>6. RegistersUntold'
  BY <1>1, <1>2 DEF SoleInv, RegistersUntold
<1>7. HolderKnows'
  BY <1>1, <1>2 DEF SoleInv, HolderKnows, Knows
<1>8. ToldInTurn'
  BY <1>1 DEF SoleInv, ToldInTurn
<1> QED BY <1>3, <1>4, <1>5, <1>6, <1>7, <1>8 DEF SoleInv

\* Nobody is being told anything: then the rest is about the claims alone.
LEMMA SoleQuiet ==
    ASSUME relay'.todo = {}, PendingInside', RegistersUntold', ToldInTurn',
           \A n \in Names : \A x \in claims'[n].holders :
               heard'[x] = "acquired" <=> claims'[n].lastNotifiedOwned
    PROVE  SoleInv'
BY DEF SoleInv, TellsBetweenCalls, TellsHolders, HolderKnows, Knows

\* The only adaptor is attached to nothing, or to one name; it leaves, and joins, alone.
LEMMA SoleAttach ==
    ASSUME OneAdaptor, TypeOK, HoldersInv, SoleInv, Attach PROVE SoleInv'
<1> SUFFICES ASSUME NEW a \in Adaptors, NEW n \in Names,
                    \/ AttachJoin(a, n)
                    \/ AttachPlain(a, n)
                    \/ \E f \in FlagSets : AttachFlagged(a, n, f)
             PROVE  SoleInv'
  BY DEF Attach
<1>1. /\ claims \in [Names -> Claim] /\ claims[n] \in Claim /\ life[a] = "free" /\ main.op = "idle"
      /\ nextToken + 1 \in Nat /\ heard \in [Adaptors -> Heard] /\ Counts(claims[n])
      /\ UNCHANGED relay
  BY DEF TypeOK, HoldersInv, AttachJoin, AttachPlain, AttachFlagged, StartAttach, UserMayRun, relayVars
<1>2. Adaptors = {a}
  BY DEF OneAdaptor
<1>3. \A m \in Names : claims[m].holders = {}
  <2>1. \A m \in Names : a \notin claims[m].holders /\ claims[m].holders \subseteq Adaptors
    BY <1>1 DEF HoldersInv, AttachedIsHolder, OnRecord, TypeOK, Claim
  <2> QED BY <1>2, <2>1
<1>4. relay.todo = {} /\ \A m \in Names : ~claims[m].pending
  BY <1>1, <1>3 DEF SoleInv, TellsHolders, PendingInside
<1> DEFINE c == Adopted(claims[n])
<1>5. c \in Claim
  BY <1>1, ClaimOperators, 0 \in Nat
<1>6. ~AttachJoin(a, n)
  <2>1. claims[n].refs = 0
    BY <1>1, <1>3, FS_EmptySet DEF Counts
  <2>2. ~c.pending /\ c.refs = 0
    BY <1>1, <1>4, <2>1 DEF Adopted, Claim
  <2> QED BY <2>2 DEF AttachJoin
<1>7. ASSUME NEW d, claims' = [claims EXCEPT ![n] = d], heard' = [heard EXCEPT ![a] = "none"],
             ~d.lastNotifiedOwned, PendingInside', RegistersUntold'
      PROVE  SoleInv'
  <2>1. claims'[n] = d /\ \A m \in Names : m # n => claims'[m].holders = {}
    BY <1>1, <1>3, <1>7
  <2>2. \A x \in Adaptors : heard'[x] = "none"
    BY <1>1, <1>2, <1>7
  <2>3. claims'[n].holders \subseteq Adaptors => \A m \in Names : \A x \in claims'[m].holders :
            heard'[x] = "acquired" <=> claims'[m].lastNotifiedOwned
    BY <1>7, <2>1, <2>2
  <2>4. claims'[n].holders \subseteq Adaptors
    <3>1. TypeOK'
      BY TypeOKAttach
    <3> QED BY <3>1 DEF TypeOK, Claim
  <2>5. ToldInTurn'
    BY <2>2 DEF ToldInTurn
  <2> QED BY <1>1, <1>4, <1>7, <2>3, <2>4, <2>5, SoleQuiet
<1>8. CASE AttachPlain(a, n)
  <2> DEFINE d == PlainClaim(c, a)
  <2>1. /\ claims' = [claims EXCEPT ![n] = d] /\ heard' = [heard EXCEPT ![a] = "none"]
        /\ main'.op = "register" /\ main'.n = n /\ main'.a = a
    BY <1>8 DEF AttachPlain, Inside
  <2>2. ~d.lastNotifiedOwned /\ a \in d.holders
    BY <1>5 DEF PlainClaim, FirstClaim, Claim
  <2> HIDE DEF d
  <2>3. PendingInside' /\ RegistersUntold'
    BY <1>1, <1>4, <2>1, <2>2 DEF PendingInside, RegistersUntold
  <2> QED BY <1>7, <2>1, <2>2, <2>3
<1>9. ASSUME NEW f \in FlagSets, AttachFlagged(a, n, f) PROVE SoleInv'
  <2> DEFINE d == FlaggedClaim(c, a, nextToken + 1)
  <2>1. /\ claims' = [claims EXCEPT ![n] = d] /\ heard' = [heard EXCEPT ![a] = "none"]
        /\ main'.op = "watch"
    BY <1>9 DEF AttachFlagged, Inside
  <2>2. ~d.lastNotifiedOwned /\ ~d.pending
    BY <1>1, <1>5 DEF FlaggedClaim, FirstClaim, Claim
  <2> HIDE DEF d
  <2>3. PendingInside' /\ RegistersUntold'
    BY <1>1, <1>4, <2>1, <2>2 DEF PendingInside, RegistersUntold
  <2> QED BY <1>7, <2>1, <2>2, <2>3
<1> QED BY <1>6, <1>8, <1>9

\* The only adaptor leaves while nothing is told: no claim has a holder any more.
LEMMA SoleLeaves ==
    ASSUME OneAdaptor, TypeOK, HoldersInv, SoleInv,
           Detach \/ \E a \in Adaptors : DestroyUnregistered(a)
    PROVE  SoleInv'
<1>1. UserMayRun /\ UNCHANGED heard /\ relay'.todo \subseteq relay.todo
  BY DEF Detach, DetachOne, DetachLast, DestroyUnregistered, Leave, Gone, TypeOK, RelayState
<1>2. relay.todo = {} /\ relay'.todo = {} /\ main.op = "idle"
  BY <1>1 DEF UserMayRun, SoleInv, TellsBetweenCalls
<1>3. main'.op \notin {"register", "registered"} /\ ToldInTurn'
  BY <1>1, <1>2 DEF Detach, DetachOne, DetachLast, DestroyUnregistered, Inside, SoleInv, ToldInTurn
<1>4. HoldersInv'
  BY HoldersNext DEF Next
<1>5. \A n \in Names : claims'[n].holders = {}
  <2>1. PICK a \in Adaptors : life' \in {[life EXCEPT ![a] = k] : k \in {"free", "unregistered"}}
    BY DEF Detach, DetachOne, DetachLast, DestroyUnregistered, Leave
  <2>2. \A n \in Names : a \notin claims'[n].holders
    <3>1. life'[a] \notin OnRecord
      BY <2>1 DEF OnRecord, TypeOK
    <3> QED BY <1>4, <3>1 DEF HoldersInv, AttachedIsHolder
  <2>3. TypeOK'
    BY TypeOKNext DEF Next
  <2>4. \A n \in Names : claims'[n].holders \subseteq {a}
    BY <2>1, <2>3 DEF TypeOK, Claim, OneAdaptor
  <2> QED BY <2>2, <2>4
<1>6. \A n \in Names : claims'[n].pending => claims[n].pending
  <2>1. \A n \in Names, a \in Adaptors, token \in Nat :
           /\ OneHolderFewer(claims[n], a).pending <=> claims[n].pending
           /\ Tombstone(claims[n], token).pending <=> claims[n].pending
    BY DEF OneHolderFewer, Tombstone, TypeOK, Claim
  <2>2. nextToken + 1 \in Nat /\ claims \in [Names -> Claim]
    BY DEF TypeOK
  <2>3. \/ UNCHANGED claims
        \/ \E n \in Names : \E c : /\ c.pending <=> claims[n].pending
                                   /\ claims' = [claims EXCEPT ![n] = c]
    BY <2>1, <2>2 DEF Detach, DetachOne, DetachLast, DestroyUnregistered, claimVars
  <2> QED BY <2>2, <2>3
<1>7. PendingInside'
  BY <1>2, <1>6 DEF SoleInv, PendingInside
<1> QED BY <1>2, <1>3, <1>5, <1>7, SoleQuiet DEF RegistersUntold

\* registerService returns: the acquisition is told at once, and recorded.
LEMMA SoleRegister ==
    ASSUME TypeOK, HoldersInv, SoleInv, OneAdaptor, RegisterReturns PROVE SoleInv'
<1>1. main.n \in Names /\ main.a \in Adaptors /\ main.op \in {"register", "registered"}
  BY DEF RegisterReturns, CallFails, TypeOK, MainState
<1>2. main.a \in claims[main.n].holders /\ ~claims[main.n].lastNotifiedOwned /\ relay.todo = {}
  BY <1>1 DEF SoleInv, RegistersUntold, TellsBetweenCalls
<1>3. claims \in [Names -> Claim] /\ heard \in [Adaptors -> Heard] /\ claims[main.n] \in Claim
  BY <1>1 DEF TypeOK
<1>4. heard[main.a] \in {"none", "lost"}
  BY <1>1, <1>2, <1>3 DEF SoleInv, HolderKnows, Knows, ToldInTurn, Heard
<1> DEFINE ok == main.op = "registered" /\ main.code \in {PrimaryOwner, AlreadyOwner}
<1>5. /\ ok \in BOOLEAN
      /\ claims' = [claims EXCEPT ![main.n].pending = FALSE,
                                  ![main.n].owned = @ \/ ok,
                                  ![main.n].lastNotifiedOwned = @ \/ ok]
      /\ heard' = IF ok THEN [heard EXCEPT ![main.a] = AfterHearing(@, "acquired")] ELSE heard
  BY DEF RegisterReturns
<1> HIDE DEF ok
<1> DEFINE c == [claims[main.n] EXCEPT !.pending = FALSE, !.owned = @ \/ ok,
                                       !.lastNotifiedOwned = @ \/ ok]
<1>6. claims' = [claims EXCEPT ![main.n] = c]
  BY <1>1, <1>3, <1>5 DEF Claim
<1>7. c.holders = claims[main.n].holders /\ ~c.pending /\ (c.lastNotifiedOwned <=> ok)
  BY <1>2, <1>3 DEF Claim
<1> HIDE DEF c
<1>8. /\ heard'[main.a] = IF ok THEN "acquired" ELSE heard[main.a]
      /\ \A x \in Adaptors : x # main.a => heard'[x] = heard[x]
  BY <1>1, <1>3, <1>4, <1>5 DEF AfterHearing
<1>9. UNCHANGED relay /\ main'.op = "idle"
  BY DEF RegisterReturns, Idle, relayVars
<1>10. ToldInTurn'
  BY <1>4, <1>8 DEF SoleInv, ToldInTurn
<1>11. PendingInside'
  BY <1>1, <1>3, <1>6, <1>7 DEF SoleInv, PendingInside
<1>12. ASSUME NEW n \in Names, NEW x \in claims'[n].holders
       PROVE  heard'[x] = "acquired" <=> claims'[n].lastNotifiedOwned
  <2>1. x \in claims[n].holders /\ x \in Adaptors
    BY <1>1, <1>3, <1>6, <1>7, <1>12 DEF Claim
  <2>2. x = main.a
    BY <1>1, <2>1 DEF OneAdaptor
  <2>3. n = main.n
    BY <1>1, <1>2, <2>1, <2>2 DEF HoldersInv, HoldsOneName
  <2>4. claims'[n] = c
    BY <1>1, <1>3, <1>6, <2>3
  <2> QED BY <1>4, <1>7, <1>8, <2>2, <2>4
<1> QED BY <1>2, <1>9, <1>10, <1>11, <1>12, SoleQuiet DEF RegistersUntold

\* The relay takes one note: the holders it copies knew the opposite.
LEMMA SoleNote ==
    ASSUME TypeOK, HoldersInv, SoleInv, NEW n \in Names, RelayNote(n) PROVE SoleInv'
<1>1. claims \in [Names -> Claim] /\ claims[n] \in Claim
  BY DEF TypeOK
<1>2. relay.todo = {} /\ relay.on /\ main.op = "idle" /\ UNCHANGED <<main, heard>>
  BY DEF RelayNote, adaptorVars
<1>3. ToldInTurn' /\ RegistersUntold'
  BY <1>2 DEF SoleInv, ToldInTurn, RegistersUntold
<1>4. CASE ~(claims[n].exists /\ claims[n].notifyQueued)
  <2>1. relay' = RelayDraining /\ UNCHANGED claims
    BY <1>4 DEF RelayNote
  <2>2. PendingInside'
    BY <1>2, <2>1 DEF SoleInv, PendingInside
  <2>3. \A m \in Names : \A x \in claims'[m].holders :
           heard'[x] = "acquired" <=> claims'[m].lastNotifiedOwned
    BY <1>2, <2>1 DEF SoleInv, HolderKnows, Knows
  <2> QED BY <1>3, <2>1, <2>2, <2>3, SoleQuiet DEF RelayDraining, RelayOff
<1>5. CASE claims[n].exists /\ claims[n].notifyQueued
  <2> DEFINE c == [claims[n] EXCEPT !.notifyQueued = FALSE, !.lastNotifiedOwned = claims[n].owned]
  <2>1. claims' = [claims EXCEPT ![n] = c]
    BY <1>1, <1>5 DEF RelayNote, Claim
  <2>2. /\ c.holders = claims[n].holders
        /\ c.pending <=> claims[n].pending
        /\ c.lastNotifiedOwned <=> claims[n].owned
    BY <1>1 DEF Claim
  <2> HIDE DEF c
  <2>3. /\ relay'.on /\ ~relay'.inHandler /\ (relay'.acquired <=> claims[n].owned)
        /\ relay'.todo = IF RelayTells(claims[n]) THEN claims[n].holders ELSE {}
    BY <1>5 DEF RelayNote, RelayDraining, RelayOff
  <2>4. claims'[n] = c /\ \A m \in Names : m # n => claims'[m] = claims[m]
    BY <1>1, <2>1
  <2>5. PendingInside'
    BY <1>2, <2>2, <2>4 DEF SoleInv, PendingInside
  <2>6. TellsBetweenCalls' /\ TellsHolders'
    BY <1>2, <2>2, <2>3, <2>4 DEF TellsBetweenCalls, TellsHolders
  <2>7. HolderKnows'
    <3> SUFFICES ASSUME NEW m \in Names, NEW x \in claims'[m].holders PROVE Knows(x, claims[m])'
      BY DEF HolderKnows
    <3>1. x \in claims[m].holders
      BY <2>2, <2>4
    <3>2. heard[x] = "acquired" <=> claims[m].lastNotifiedOwned
      BY <1>2, <3>1 DEF SoleInv, HolderKnows, Knows
    <3>3. CASE m = n
      <4>1. claims[n].owned \in BOOLEAN /\ claims[n].lastNotifiedOwned \in BOOLEAN
        BY <1>1 DEF Claim
      <4> QED BY <1>2, <2>2, <2>3, <2>4, <3>1, <3>2, <3>3, <4>1 DEF Knows, RelayTells
    <3>4. CASE m # n
      <4>1. x \notin claims[n].holders
        <5>1. x \in Adaptors
          BY <3>1 DEF TypeOK, Claim
        <5> QED BY <3>1, <3>4, <5>1 DEF HoldersInv, HoldsOneName
      <4> QED BY <1>2, <2>3, <2>4, <3>2, <3>4, <4>1 DEF Knows
    <3> QED BY <3>3, <3>4
  <2> QED BY <1>3, <2>5, <2>6, <2>7 DEF SoleInv
<1> QED BY <1>4, <1>5

\* The relay tells the one adaptor, which has not heard this before.
LEMMA SoleDeliver ==
    ASSUME TypeOK, SoleInv, OneAdaptor, NEW a \in Adaptors, RelayDeliver(a) PROVE SoleInv'
<1>1. Adaptors = {a} /\ a \in relay.todo /\ relay.todo \subseteq Adaptors
  BY DEF OneAdaptor, RelayDeliver, TypeOK, RelayState
<1>2. relay'.todo = {} /\ UNCHANGED <<claims, main>> /\ main.op = "idle"
  BY <1>1 DEF RelayDeliver, TypeOK, RelayState, claimVars
<1>3. /\ heard[a] = "acquired" <=> ~relay.acquired
      /\ \A n \in Names : a \in claims[n].holders =>
             (claims[n].lastNotifiedOwned <=> relay.acquired)
  BY <1>1 DEF SoleInv, TellsHolders, HolderKnows, Knows
<1>4. heard[a] \in {"none", "acquired", "lost"}
  BY DEF TypeOK, Heard, SoleInv, ToldInTurn
<1>5. heard'[a] = AfterHearing(heard[a], IF relay.acquired THEN "acquired" ELSE "lost")
  BY DEF RelayDeliver, TypeOK
<1>6. heard'[a] = IF relay.acquired THEN "acquired" ELSE "lost"
  BY <1>3, <1>4, <1>5 DEF AfterHearing
<1>7. ToldInTurn'
  BY <1>1, <1>6 DEF ToldInTurn
<1>8. PendingInside' /\ RegistersUntold'
  BY <1>2 DEF SoleInv, PendingInside, RegistersUntold
<1>9. \A n \in Names : \A x \in claims'[n].holders :
         heard'[x] = "acquired" <=> claims'[n].lastNotifiedOwned
  <2>1. \A n \in Names : claims[n].holders \subseteq {a}
    BY <1>1 DEF TypeOK, Claim
  <2> QED BY <1>2, <1>3, <1>6, <2>1
<1> QED BY <1>2, <1>7, <1>8, <1>9, SoleQuiet

LEMMA SoleNext ==
    ASSUME OneAdaptor PROVE TypeOK /\ HoldersInv /\ SoleInv /\ [Next]_vars => SoleInv'
<1> SUFFICES ASSUME TypeOK, HoldersInv, SoleInv, [Next]_vars PROVE SoleInv'
  OBVIOUS
<1>1. \A n \in Names : claims[n] \in Claim /\ claims \in [Names -> Claim]
  BY DEF TypeOK
<1>2. \A n \in Names : SameRecord(claims[n], claims[n])
  BY DEF SameRecord
<1>3. ASSUME mainQ # <<>>, Head(mainQ).t \in {"ownerChanged", "reply"} PROVE Head(mainQ).n \in Names
  <2>1. Head(mainQ) \in Event
    BY <1>3, HeadTailProperties DEF TypeOK
  <2> QED BY <1>3, <2>1 DEF Event, Wake, ConnectionLost
<1>4. CASE WatchReply \/ ReleaseReturns
  <2>1. main'.op = "idle" /\ relay.todo = {} /\ UNCHANGED relay
        /\ main.op \notin {"register", "registered"}
    BY <1>4 DEF WatchReply, ReleaseReturns, CallFails, Idle, relayVars, SoleInv, TellsBetweenCalls
  <2>2. ToldInTurn' /\ \A n \in Names : \A x \in claims[n].holders :
                          heard'[x] = "acquired" <=> claims[n].lastNotifiedOwned
    BY <1>4, <2>1 DEF WatchReply, ReleaseReturns, adaptorVars, SoleInv, ToldInTurn, HolderKnows, Knows
  <2>3. \A n \in Names : claims'[n] = NoClaim \/ SameRecord(claims[n], claims'[n])
    <3>1. \A c \in Claim : SameRecord(c, [c EXCEPT !.requestSent = FALSE])
      BY DEF SameRecord, Claim
    <3> QED BY <1>1, <1>2, <1>4, <3>1 DEF WatchReply, ReleaseReturns, claimVars
  <2>4. \A n \in Names : ~claims[n].pending /\ ~claims'[n].pending
    BY <2>1, <2>3 DEF SoleInv, PendingInside, SameRecord, NoClaim
  <2>5. \A n \in Names : \A x \in claims'[n].holders :
           heard'[x] = "acquired" <=> claims'[n].lastNotifiedOwned
    BY <2>2, <2>3 DEF SameRecord, NoClaim
  <2> QED BY <2>1, <2>2, <2>4, <2>5, SoleQuiet DEF PendingInside, RegistersUntold
<1>5. CASE HandleOwnerChange
  <2> DEFINE e == Head(mainQ)
             d == AfterOwnerChange(claims[e.n], e.owner)
  <2>1. /\ claims' = [claims EXCEPT ![e.n] = d] /\ e.n \in Names
        /\ UNCHANGED <<main, heard, relay>>
    BY <1>3, <1>5 DEF HandleOwnerChange, Dispatching, adaptorVars
  <2>2. SameRecord(claims[e.n], d)
    BY <1>1, <2>1 DEF AfterOwnerChange, SameRecord, Claim
  <2> HIDE DEF d, e
  <2>3. \A n \in Names : SameRecord(claims[n], claims'[n])
    BY <1>1, <1>2, <2>1, <2>2
  <2> QED BY <2>1, <2>3, SoleSame
<1>6. CASE HandleReply
  <2> DEFINE e == Head(mainQ)
             d == AfterReply(claims[e.n], e.code, e.token)
  <2>1. /\ claims' = [claims EXCEPT ![e.n] = d] /\ e.n \in Names
        /\ UNCHANGED <<main, heard, relay>>
    BY <1>3, <1>6 DEF HandleReply, Dispatching, adaptorVars
  <2>2. SameRecord(claims[e.n], d)
    BY <1>1, <2>1 DEF AfterReply, SameRecord, Claim
  <2> HIDE DEF d, e
  <2>3. \A n \in Names : SameRecord(claims[n], claims'[n])
    BY <1>1, <1>2, <2>1, <2>2
  <2> QED BY <2>1, <2>3, SoleSame
<1>7. CASE HandleConnectionLost
  <2>1. UNCHANGED <<main, heard, relay>>
    BY <1>7 DEF HandleConnectionLost, adaptorVars
  <2>2. ASSUME NEW n \in Names PROVE SameRecord(claims[n], claims'[n])
    <3>1. claims[n] \in Claim
      BY <1>1
    <3>2. /\ claims[n].owned => claims'[n] = [claims[n] EXCEPT !.owned = FALSE, !.queued = FALSE,
                                                 !.requestSent = FALSE, !.notifyQueued = TRUE]
          /\ ~claims[n].owned => claims'[n] = claims[n]
      BY <1>7 DEF HandleConnectionLost
    <3> QED BY <3>1, <3>2 DEF SameRecord, Claim
  <2> QED BY <2>1, <2>2, SoleSame
<1>8. CASE TakeWake \/ RelayDone
  <2>1. relay.todo = {} /\ relay'.todo = {} /\ UNCHANGED <<claims, main, heard>>
    BY <1>8 DEF TakeWake, RelayDone, Dispatching, RelayOff, RelayDraining, claimVars, adaptorVars,
                SoleInv, TellsBetweenCalls
  <2>2. PendingInside' /\ RegistersUntold' /\ ToldInTurn'
    BY <2>1 DEF SoleInv, PendingInside, RegistersUntold, ToldInTurn
  <2>3. \A n \in Names : \A x \in claims'[n].holders :
           heard'[x] = "acquired" <=> claims'[n].lastNotifiedOwned
    BY <2>1 DEF SoleInv, HolderKnows, Knows
  <2> QED BY <2>1, <2>2, <2>3, SoleQuiet
<1>9. CASE DaemonStep \/ PeerActs \/ LinkDrops \/ LossObserved \/ UNCHANGED vars
  <2>1. UNCHANGED <<claims, heard, relay>>
    BY <1>9 DEF DaemonStep, ServeRequest, ServeRegister, ServeRelease, PeerActs, PeerRequests,
                PeerReleases, PeerStep, LinkDrops, LossObserved, vars, claimVars, adaptorVars, relayVars
  <2>2. /\ main'.n = main.n /\ main'.a = main.a /\ (main.op = "idle" => main'.op = "idle")
        /\ main'.op \in {"register", "registered"} <=> main.op \in {"register", "registered"}
    BY <1>9 DEF DaemonStep, ServeRequest, ServeRegister, ServeRelease, PeerActs, PeerRequests,
                PeerReleases, PeerStep, LinkDrops, LossObserved, vars, TypeOK, MainState
  <2> QED BY <1>2, <2>1, <2>2, SoleSame
<1> QED BY <1>4, <1>5, <1>6, <1>7, <1>8, <1>9, SoleAttach, SoleLeaves, SoleRegister, SoleNote, SoleDeliver
        DEF Next, MainStep, RelayStep

\* An adaptor that shares its names with nobody hears acquisitions and losses
\* in turn, an acquisition first: through every attach and detach, blocking or
\* flagged, through timeouts, and through the loss of the connection.
THEOREM ToldInTurnAlone == ASSUME OneAdaptor PROVE Spec => []ToldInTurn
<1>1. SoleInv => ToldInTurn
  BY DEF SoleInv
<1>2. TypeOK /\ HoldersInv /\ SoleInv /\ [Next]_vars => SoleInv'
  BY SoleNext
<1> QED BY <1>1, <1>2, TypeCorrect, HoldersInit, HoldersNext, SoleInit, PTL DEF Spec

\* And once nothing is posted, running or on its way, what it heard last is
\* what the registry knows.  This takes every invariant above: the note of an
\* acquisition (IInv) and of a loss (LossAnnounced) that was not delivered is
\* in the mailbox, and a mailbox with notes has a wake.
THEOREM InformedAlone == ASSUME OneAdaptor PROVE Spec => []HoldersInformed
<1>1. TypeOK /\ IInv /\ HoldersInv /\ LossAnnounced /\ SoleInv => HoldersInformed
  <2> SUFFICES ASSUME TypeOK, IInv, HoldersInv, LossAnnounced, SoleInv, Settled,
                      NEW n \in Names, NEW a \in claims[n].holders
               PROVE  claims[n].owned <=> heard[a] = "acquired"
    BY DEF HoldersInformed
  <2>1. relay.todo = {}
    BY DEF SoleInv, TellsBetweenCalls, Settled
  <2>2. heard[a] = "acquired" <=> claims[n].lastNotifiedOwned
    BY <2>1 DEF SoleInv, HolderKnows, Knows
  <2>3. ~claims[n].notifyQueued
    <3>1. ~HasWake(mainQ)
      BY DEF Settled, HasWake
    <3>2. notes = {}
      BY <3>1 DEF IInv, NoteHasWake, WakeIsPosted, Settled
    <3> QED BY <3>2 DEF IInv, NoticeHasNote
  <2>4. claims[n].owned => claims[n].lastNotifiedOwned
    BY <2>3 DEF IInv, ClaimInv, Announced
  <2>5. claims[n].lastNotifiedOwned => claims[n].owned
    BY <2>3 DEF HoldersInv, Counts, LossAnnounced, LossWaits
  <2> QED BY <2>2, <2>4, <2>5
<1>2. TypeOK /\ HoldersInv /\ SoleInv /\ [Next]_vars => SoleInv'
  BY SoleNext
<1> QED BY <1>1, <1>2, TypeCorrect, IInvInit, IInvNext, HoldersInit, HoldersNext,
           LossAnnouncedInit, LossAnnouncedNext, SoleInit, PTL DEF Spec
-----------------------------------------------------------------------------
(* OwnershipAgrees and NoGhostOwner, for adaptors that all carry flags;    *)
(* blocking calls may time out and the link may die.  Neither is           *)
(* inductive: they speak of the moments at which nothing is under way, so  *)
(* the invariant follows a claim through the queues.  The last change of   *)
(* ownership that waits in mainQ names the owner the daemon records; a     *)
(* reply that grants the name comes behind the signal that says the same,  *)
(* or finds it handled; and the daemon seats the connection at a name only *)
(* while somebody holds it or its release is on the socket.  A release     *)
(* that timed out may be followed by a new request, and that by another    *)
(* release: a name has one request between two releases.                   *)

AllFlagged == \A f \in FlagSets : flaggedForClaim(f)

\* What waits in a queue of events.
Tells(e, n) == e.t = "ownerChanged" /\ e.n = n
Answers(e, n, token) == e.t = "reply" /\ e.n = n /\ e.token = token
Silent(q, n) == \A i \in 1 .. Len(q) : ~Tells(q[i], n)
Last(q, n, i) == Tells(q[i], n) /\ \A j \in 1 .. Len(q) : j > i => ~Tells(q[j], n)
Current(q, n, owner) == \A i \in 1 .. Len(q) : Last(q, n, i) => q[i].owner = owner
Gained(q, n, k) == \E j \in 1 .. Len(q) : j < k /\ Tells(q[j], n) /\ q[j].owner = Us
GainWaits(q, n) == \E j \in 1 .. Len(q) : Tells(q[j], n) /\ q[j].owner = Us
Explained(q, n, token, noted) ==
    \A i \in 1 .. Len(q) : Answers(q[i], n, token) =>
        /\ q[i].code # AlreadyOwner
        /\ q[i].code = PrimaryOwner => Gained(q, n, i) \/ noted
Fresh(q, token) == \A i \in 1 .. Len(q) : q[i].t = "reply" => q[i].token # token
Issued(q, last) == \A i \in 1 .. Len(q) : q[i].t = "reply" => q[i].token <= last
Distinct(q) == \A i, j \in 1 .. Len(q) :
                  q[i].t = "reply" /\ q[j].t = "reply" /\ q[i].token = q[j].token => i = j
NoLoss(q) == \A i \in 1 .. Len(q) : q[i].t # "lost"

\* The claim c of n, the daemon's record b of it, and the queue q between them;
\* going: an earlier claim's release is still on the socket.
Noted(c) == c.owned \/ c.lostSinceSend
Follows(c, b, q, n, going) ==
    /\ Current(q, n, b.owner)
    /\ c.refs > 0 => /\ Silent(q, n) => /\ c.owned => b.owner = Us
                                        /\ b.owner = Us => c.owned \/ going
                     /\ Explained(q, n, c.requestToken, Noted(c))

\* Releases of n on the socket s, before entry i and behind it.
Gives(e, n) == e.t = "release" /\ e.n = n
GivenBefore(s, n, i) == \E j \in 1 .. Len(s) : j < i /\ Gives(s[j], n)
GivenAfter(s, n, i) == \E j \in 1 .. Len(s) : j > i /\ Gives(s[j], n)
Giving(s, n) == \E j \in 1 .. Len(s) : Gives(s[j], n)

Wanted(n) == claims[n].refs > 0 \/ Giving(up, n)
Leaving(n) == main.op \in {"release", "released"} /\ main.n = n
Outside(n) == Us \notin {broker[n].owner, broker[n].waiter}

\* The main thread is never inside a plain registration.
Unblocked == main.op \in {"idle", "watch", "release", "released"} /\ NoLoss(mainQ)

\* A claim nobody holds is gone, or its release is under way.
Recorded(c, leaving) ==
    /\ ~c.pending
    /\ c.refs > 0 => c.exists /\ c.requestSent /\ ~c.tearingDown
    /\ c.refs = 0 /\ ~leaving => c = NoClaim
    /\ leaving => c.refs = 0 /\ c.tearingDown
Records == \A n \in Names : Recorded(claims[n], Leaving(n))

\* The socket holds requests and releases; the release the main thread waits for
\* is at its end.
Calls ==
    /\ \A i \in 1 .. Len(up) : up[i].t \in {"request", "release"}
    /\ main.op = "release" => up # <<>> /\ Gives(up[Len(up)], main.n)
    /\ main.op = "released" => up = <<>>

\* A request finds the connection outside, if only by the releases ahead of it,
\* and what it brings is wanted, if not by a release behind it.
Asks(i) == i \in 1 .. Len(up) /\ up[i].t = "request"
Parted(i, j) == \E k \in 1 .. Len(up) : i < k /\ k < j /\ Gives(up[k], up[i].n)
Requests ==
    /\ \A i \in 1 .. Len(up) : Asks(i) =>
          /\ Outside(up[i].n) \/ GivenBefore(up, up[i].n, i)
          /\ claims[up[i].n].refs > 0 \/ GivenAfter(up, up[i].n, i)
    /\ \A i, j \in 1 .. Len(up) : Asks(i) /\ Asks(j) =>
          /\ up[i].n = up[j].n /\ i < j => Parted(i, j)
          /\ up[i].token = up[j].token => i = j

\* The daemon's record of a name.
Seats == \A n \in Names : /\ Wanted(n) \/ Outside(n)
                          /\ broker[n].owner = NoOne \/ broker[n].owner # broker[n].waiter

Arming == ~armed => up = <<>> /\ \A n \in Names : claims[n].refs = 0 /\ Silent(mainQ, n)

FollowsAll == \A n \in Names : Follows(claims[n], broker[n], mainQ, n, Giving(up, n))
Watched == main.op = "watch" =>
              /\ main.code # AlreadyOwner
              /\ main.code = PrimaryOwner => GainWaits(mainQ, main.n) \/ Noted(claims[main.n])

\* A RequestName is answered once: its token is on the socket, at the watcher
\* or in mainQ.
Tokens ==
    /\ Distinct(mainQ) /\ Issued(mainQ, nextToken)
    /\ main.op = "watch" => Fresh(mainQ, main.token) /\ main.token <= nextToken
    /\ \A i \in 1 .. Len(up) : up[i].t = "request" =>
          /\ Fresh(mainQ, up[i].token)
          /\ up[i].token <= nextToken
          /\ main.op = "watch" /\ up[i].token = main.token => up[i].n = main.n /\ main.code = 0

OwnInv == link = "up" => /\ Unblocked /\ Records /\ Calls /\ Requests /\ Seats
                         /\ Arming /\ FollowsAll /\ Watched /\ Tokens

-----------------------------------------------------------------------------
(* Queues.                                                                 *)

\* What an event at the end of a queue of events changes.
LEMMA QueueGrows ==
    ASSUME NEW q \in Seq(Event), NEW e \in Event
    PROVE  /\ Append(q, e) \in Seq(Event) /\ Len(Append(q, e)) = Len(q) + 1
           /\ \A i \in 1 .. Len(q) : Append(q, e)[i] = q[i]
           /\ Append(q, e)[Len(q) + 1] = e
           /\ Len(q) \in Nat
BY AppendProperties, LenProperties

\* What the head leaves behind.
LEMMA QueueShrinks ==
    ASSUME NEW q \in Seq(Event), q # <<>>
    PROVE  /\ Tail(q) \in Seq(Event) /\ Len(Tail(q)) = Len(q) - 1 /\ Head(q) = q[1]
           /\ \A i \in 1 .. Len(Tail(q)) : Tail(q)[i] = q[i + 1]
           /\ Len(q) \in Nat \ {0}
BY HeadTailProperties, LenProperties

LEMMA FollowsGrows ==
    ASSUME NEW q \in Seq(Event), NEW e \in Event, NEW n, NEW c, NEW b, NEW d, NEW going,
           Follows(c, b, q, n, going),
           d.owner = b.owner \/ (Tells(e, n) /\ e.owner = d.owner),
           Tells(e, n) => e.owner = d.owner,
           c.refs > 0 /\ Answers(e, n, c.requestToken) =>
               e.code # AlreadyOwner /\ (e.code = PrimaryOwner => GainWaits(q, n) \/ Noted(c))
    PROVE  Follows(c, d, Append(q, e), n, going)
<1> DEFINE r == Append(q, e)
<1>1. /\ Len(r) = Len(q) + 1 /\ Len(q) \in Nat /\ \A i \in 1 .. Len(q) : r[i] = q[i]
      /\ r[Len(q) + 1] = e
  BY QueueGrows
<1> HIDE DEF r
<1>2. Current(r, n, d.owner)
  <2> SUFFICES ASSUME NEW i \in 1 .. Len(r), Last(r, n, i) PROVE r[i].owner = d.owner
    BY DEF Current
  <2>1. CASE i = Len(q) + 1
    BY <1>1, <2>1 DEF Last
  <2>2. CASE i # Len(q) + 1
    <3>1. i \in 1 .. Len(q) /\ Len(q) + 1 \in 1 .. Len(r) /\ Len(q) + 1 > i
      BY <1>1, <2>2
    <3>2. ~Tells(e, n)
      BY <1>1, <3>1 DEF Last
    <3>3. Last(q, n, i)
      BY <1>1, <3>1 DEF Last
    <3> QED BY <1>1, <3>1, <3>2, <3>3 DEF Follows, Current
  <2> QED BY <2>1, <2>2
<1>3. Silent(r, n) => Silent(q, n) /\ ~Tells(e, n)
  BY <1>1 DEF Silent
<1>4. ASSUME NEW k \in 1 .. Len(q), Gained(q, n, k) PROVE Gained(r, n, k)
  BY <1>1, <1>4 DEF Gained
<1>5. GainWaits(q, n) => Gained(r, n, Len(q) + 1)
  BY <1>1 DEF Gained, GainWaits
<1>6. ASSUME c.refs > 0 PROVE Explained(r, n, c.requestToken, Noted(c))
  <2> SUFFICES ASSUME NEW i \in 1 .. Len(r), Answers(r[i], n, c.requestToken)
               PROVE  /\ r[i].code # AlreadyOwner
                      /\ r[i].code = PrimaryOwner => Gained(r, n, i) \/ Noted(c)
    BY DEF Explained
  <2>1. CASE i = Len(q) + 1
    BY <1>1, <1>5, <1>6, <2>1
  <2>2. CASE i # Len(q) + 1
    <3>1. i \in 1 .. Len(q) /\ r[i] = q[i]
      BY <1>1, <2>2
    <3> QED BY <1>4, <1>6, <3>1 DEF Follows, Explained
  <2> QED BY <2>1, <2>2
<1>7. c.refs > 0 /\ Silent(r, n) => (c.owned => d.owner = Us) /\ (d.owner = Us => c.owned \/ going)
  BY <1>3 DEF Follows
<1> QED BY <1>2, <1>6, <1>7 DEF Follows, r

\* A release that is gone from the socket is missed by a claim that owns.
LEMMA FollowsLess ==
    ASSUME NEW q, NEW n, NEW c, NEW b, NEW going, NEW gone,
           Follows(c, b, q, n, going), b.owner = Us /\ going => gone
    PROVE  Follows(c, b, q, n, gone)
BY DEF Follows

\* A claim follows its name when the head of the queue has been handled.
LEMMA FollowsShrinks ==
    ASSUME NEW q \in Seq(Event), q # <<>>, NEW n, NEW c, NEW b, NEW d, NEW going,
           Follows(c, b, q, n, going), d.refs > 0 => c.refs > 0 /\ d.requestToken = c.requestToken,
           ~Tells(Head(q), n) => (d.owned <=> c.owned),
           Tells(Head(q), n) /\ c.refs > 0 => (d.owned <=> Head(q).owner = Us),
           \/ ~(c.refs > 0)
           \/ ~Noted(c)
           \/ Noted(d)
           \/ \A i \in 2 .. Len(q) : ~Answers(q[i], n, c.requestToken)
    PROVE  Follows(d, b, Tail(q), n, going)
<1> DEFINE r == Tail(q)
<1>1. /\ Len(r) = Len(q) - 1 /\ Head(q) = q[1] /\ \A i \in 1 .. Len(r) : r[i] = q[i + 1]
      /\ Len(q) \in Nat \ {0}
  BY QueueShrinks
<1> HIDE DEF r
<1>2. Current(r, n, b.owner)
  <2> SUFFICES ASSUME NEW i \in 1 .. Len(r), Last(r, n, i) PROVE r[i].owner = b.owner
    BY DEF Current
  <2>1. i + 1 \in 1 .. Len(q) /\ r[i] = q[i + 1]
    BY <1>1
  <2>2. Last(q, n, i + 1)
    <3>1. ASSUME NEW j \in 1 .. Len(q), j > i + 1 PROVE ~Tells(q[j], n)
      <4>1. j - 1 \in 1 .. Len(r) /\ j - 1 > i /\ r[j - 1] = q[j]
        BY <1>1, <3>1
      <4> QED BY <4>1 DEF Last
    <3> QED BY <2>1, <3>1 DEF Last
  <2> QED BY <2>1, <2>2 DEF Follows, Current
<1>3. ASSUME Silent(r, n)
      PROVE  \A j \in 1 .. Len(q) : j > 1 => ~Tells(q[j], n)
  <2> TAKE j \in 1 .. Len(q)
  <2>1. j > 1 => j - 1 \in 1 .. Len(r) /\ r[j - 1] = q[j]
    BY <1>1
  <2> QED BY <1>3, <2>1 DEF Silent
<1>4. ASSUME d.refs > 0, Silent(r, n)
      PROVE  (d.owned => b.owner = Us) /\ (b.owner = Us => d.owned \/ going)
  <2>1. CASE Tells(Head(q), n)
    <3>1. Last(q, n, 1) /\ 1 \in 1 .. Len(q)
      BY <1>1, <1>3, <1>4, <2>1 DEF Last
    <3>2. q[1].owner = b.owner
      BY <3>1 DEF Follows, Current
    <3> QED BY <1>1, <1>4, <2>1, <3>2
  <2>2. CASE ~Tells(Head(q), n)
    <3>1. Silent(q, n)
      BY <1>1, <1>3, <1>4, <2>2 DEF Silent
    <3> QED BY <1>4, <2>2, <3>1 DEF Follows
  <2> QED BY <2>1, <2>2
<1>5. ASSUME NEW i \in 1 .. Len(r), Gained(q, n, i + 1)
      PROVE  Gained(r, n, i) \/ (Tells(Head(q), n) /\ Head(q).owner = Us)
  <2>1. PICK j \in 1 .. Len(q) : j < i + 1 /\ Tells(q[j], n) /\ q[j].owner = Us
    BY <1>5 DEF Gained
  <2>2. j # 1 => j - 1 \in 1 .. Len(r) /\ j - 1 < i /\ r[j - 1] = q[j]
    BY <1>1, <2>1
  <2> QED BY <1>1, <2>1, <2>2 DEF Gained
<1>6. ASSUME d.refs > 0 PROVE Explained(r, n, d.requestToken, Noted(d))
  <2> SUFFICES ASSUME NEW i \in 1 .. Len(r), Answers(r[i], n, d.requestToken)
               PROVE  /\ r[i].code # AlreadyOwner
                      /\ r[i].code = PrimaryOwner => Gained(r, n, i) \/ Noted(d)
    BY DEF Explained
  <2>1. i + 1 \in 2 .. Len(q) /\ i + 1 \in 1 .. Len(q) /\ r[i] = q[i + 1]
    BY <1>1
  <2>2. Answers(q[i + 1], n, c.requestToken) /\ c.refs > 0
    BY <1>6, <2>1
  <2>3. /\ q[i + 1].code # AlreadyOwner
        /\ q[i + 1].code = PrimaryOwner => Gained(q, n, i + 1) \/ Noted(c)
    BY <2>1, <2>2 DEF Follows, Explained
  <2>4. Noted(c) => Noted(d)
    BY <2>1, <2>2
  <2>5. Tells(Head(q), n) /\ Head(q).owner = Us => Noted(d)
    BY <2>2 DEF Noted
  <2> QED BY <1>5, <2>1, <2>3, <2>4, <2>5
<1> QED BY <1>2, <1>4, <1>6 DEF Follows, r

\* What one more event at the end of a queue does to the rest of the invariant.
LEMMA QueueAppends ==
    ASSUME NEW q \in Seq(Event), NEW e \in Event
    PROVE  /\ NoLoss(q) /\ e.t # "lost" => NoLoss(Append(q, e))
           /\ \A n : Silent(q, n) /\ ~Tells(e, n) => Silent(Append(q, e), n)
           /\ \A n : GainWaits(q, n) => GainWaits(Append(q, e), n)
           /\ \A n : Tells(e, n) /\ e.owner = Us => GainWaits(Append(q, e), n)
           /\ \A t : Fresh(q, t) /\ (e.t = "reply" => e.token # t) => Fresh(Append(q, e), t)
           /\ \A l : Issued(q, l) /\ (e.t = "reply" => e.token <= l) => Issued(Append(q, e), l)
           /\ Distinct(q) /\ (e.t = "reply" => Fresh(q, e.token)) => Distinct(Append(q, e))
<1> DEFINE r == Append(q, e)
<1>1. /\ Len(r) = Len(q) + 1 /\ Len(q) \in Nat /\ \A i \in 1 .. Len(q) : r[i] = q[i]
      /\ r[Len(q) + 1] = e
  BY QueueGrows
<1> HIDE DEF r
<1>2. \A i \in 1 .. Len(r) : i \in 1 .. Len(q) \/ i = Len(q) + 1
  BY <1>1
<1>3. NoLoss(q) /\ e.t # "lost" => NoLoss(r)
  BY <1>1, <1>2 DEF NoLoss
<1>4. \A n : Silent(q, n) /\ ~Tells(e, n) => Silent(r, n)
  BY <1>1, <1>2 DEF Silent
<1>5. \A n : GainWaits(q, n) => GainWaits(r, n)
  BY <1>1 DEF GainWaits
<1>6. \A n : Tells(e, n) /\ e.owner = Us => GainWaits(r, n)
  BY <1>1 DEF GainWaits
<1>7. \A t : Fresh(q, t) /\ (e.t = "reply" => e.token # t) => Fresh(r, t)
  BY <1>1, <1>2 DEF Fresh
<1>8. \A l : Issued(q, l) /\ (e.t = "reply" => e.token <= l) => Issued(r, l)
  BY <1>1, <1>2 DEF Issued
<1>9. ASSUME Distinct(q), e.t = "reply" => Fresh(q, e.token) PROVE Distinct(r)
  <2> SUFFICES ASSUME NEW i \in 1 .. Len(r), NEW j \in 1 .. Len(r),
                      r[i].t = "reply", r[j].t = "reply", r[i].token = r[j].token
               PROVE  i = j
    BY DEF Distinct
  <2>1. CASE i \in 1 .. Len(q) /\ j \in 1 .. Len(q)
    BY <1>1, <1>9, <2>1 DEF Distinct
  <2>2. CASE i \in 1 .. Len(q) /\ j = Len(q) + 1
    BY <1>1, <1>9, <2>2 DEF Fresh
  <2>3. CASE i = Len(q) + 1 /\ j \in 1 .. Len(q)
    BY <1>1, <1>9, <2>3 DEF Fresh
  <2> QED BY <1>2, <2>1, <2>2, <2>3
<1> QED BY <1>3, <1>4, <1>5, <1>6, <1>7, <1>8, <1>9 DEF r

\* What taking the head does to it.
LEMMA QueueTakes ==
    ASSUME NEW q \in Seq(Event), q # <<>>
    PROVE  /\ NoLoss(q) => NoLoss(Tail(q))
           /\ \A n : Silent(q, n) => Silent(Tail(q), n)
           /\ \A t : Fresh(q, t) => Fresh(Tail(q), t)
           /\ \A l : Issued(q, l) => Issued(Tail(q), l)
           /\ Distinct(q) => Distinct(Tail(q))
<1> DEFINE r == Tail(q)
<1>1. /\ Len(r) = Len(q) - 1 /\ Len(q) \in Nat \ {0}
      /\ \A i \in 1 .. Len(r) : i + 1 \in 1 .. Len(q) /\ r[i] = q[i + 1]
  BY QueueShrinks
<1> HIDE DEF r
<1>2. NoLoss(q) => NoLoss(r)
  BY <1>1 DEF NoLoss
<1>3. \A n : Silent(q, n) => Silent(r, n)
  BY <1>1 DEF Silent
<1>4. \A t : Fresh(q, t) => Fresh(r, t)
  BY <1>1 DEF Fresh
<1>5. \A l : Issued(q, l) => Issued(r, l)
  BY <1>1 DEF Issued
<1>6. ASSUME Distinct(q) PROVE Distinct(r)
  <2> SUFFICES ASSUME NEW i \in 1 .. Len(r), NEW j \in 1 .. Len(r),
                      r[i].t = "reply", r[j].t = "reply", r[i].token = r[j].token
               PROVE  i = j
    BY DEF Distinct
  <2>1. i + 1 = j + 1
    BY <1>1, <1>6 DEF Distinct
  <2> QED BY <2>1
<1> QED BY <1>2, <1>3, <1>4, <1>5, <1>6 DEF r

-----------------------------------------------------------------------------
(* Steps that change little.                                               *)

\* What the invariant sees of a claim, and of whether it is owned.
Kept(c, d) == /\ d.refs > 0 <=> c.refs > 0
              /\ d.refs = 0 <=> c.refs = 0
              /\ d.pending = c.pending /\ d.exists = c.exists
              /\ d.requestSent = c.requestSent /\ d.tearingDown = c.tearingDown
              /\ d.requestToken = c.requestToken
              /\ c = NoClaim => d = NoClaim
Alike(c, d) == Kept(c, d) /\ d.owned = c.owned /\ d.lostSinceSend = c.lostSinceSend

LEMMA CallNames == TypeOK => \A i \in 1 .. Len(up) : up[i] \in CallSet /\ up[i].n \in Names
<1> SUFFICES ASSUME TypeOK, NEW i \in 1 .. Len(up) PROVE up[i] \in CallSet /\ up[i].n \in Names
  OBVIOUS
<1>1. up[i] \in CallSet
  BY DEF TypeOK
<1> QED BY <1>1 DEF CallSet

\* The socket stays.
LEMMA SameRequests ==
    ASSUME TypeOK, Requests, UNCHANGED up,
           \A n \in Names : Outside(n) => Outside(n)',
           \A n \in Names : claims[n].refs > 0 => claims'[n].refs > 0
    PROVE  Requests'
<1>1. \A i \in 1 .. Len(up) : up[i].n \in Names
  BY CallNames
<1>2. \A i \in 1 .. Len(up) : Asks(i) => Outside(up[i].n)' \/ GivenBefore(up, up[i].n, i)
  BY <1>1 DEF Requests
<1>3. \A i \in 1 .. Len(up) : Asks(i) => claims'[up[i].n].refs > 0 \/ GivenAfter(up, up[i].n, i)
  BY <1>1 DEF Requests
<1>4. \A i, j \in 1 .. Len(up) : (Asks(i)' <=> Asks(i)) /\ (Parted(i, j)' <=> Parted(i, j))
  BY DEF Asks, Parted
<1>5. up' = up
  OBVIOUS
<1> QED BY <1>2, <1>3, <1>4, <1>5 DEF Requests, Outside

LEMMA OwnInit == Init => OwnInv
<1> SUFFICES ASSUME Init PROVE OwnInv
  OBVIOUS
<1>1. /\ mainQ = <<>> /\ up = <<>> /\ main.op = "idle" /\ armed = FALSE
      /\ Len(mainQ) = 0 /\ Len(up) = 0
  BY DEF Init, Idle
<1>2. \A n \in Names : claims[n] = NoClaim /\ broker[n].owner = NoOne /\ broker[n].waiter = NoOne
  BY DEF Init
<1>3. \A n \in Names : claims[n].refs = 0 /\ ~claims[n].pending
  BY <1>2 DEF NoClaim
<1>4. Unblocked /\ Calls /\ Requests /\ Watched
  BY <1>1 DEF Unblocked, NoLoss, Calls, Requests, Asks, Watched
<1>5. Records
  BY <1>1, <1>2, <1>3 DEF Records, Recorded, Leaving
<1>6. Seats
  BY <1>2 DEF Seats, Outside, NoOne, Us
<1>7. Arming
  BY <1>1, <1>3 DEF Arming, Silent
<1>8. FollowsAll
  BY <1>1, <1>3 DEF FollowsAll, Follows, Current
<1>9. Tokens
  BY <1>1 DEF Tokens, Distinct, Issued
<1> QED BY <1>4, <1>5, <1>6, <1>7, <1>8, <1>9 DEF OwnInv

\* Claims may change in what the invariant does not see; the rest stays.
LEMMA OwnQuiet ==
    ASSUME TypeOK, OwnInv, UNCHANGED <<nextToken, armed, main, mainQ, up, broker, link>>,
           \A n \in Names : Alike(claims[n], claims'[n])
    PROVE  OwnInv'
<1> SUFFICES ASSUME link' = "up" PROVE OwnInv'
  BY DEF OwnInv
<1>0. /\ Unblocked /\ Records /\ Calls /\ Requests /\ Seats
      /\ Arming /\ FollowsAll /\ Watched /\ Tokens
  BY DEF OwnInv
<1>1. \A n \in Names : (Wanted(n)' <=> Wanted(n)) /\ (Outside(n)' <=> Outside(n))
  BY DEF Alike, Kept, Wanted, Outside
<1>2. Unblocked' /\ Calls' /\ Tokens'
  BY <1>0 DEF Unblocked, Calls, Tokens
<1>3. Records'
  BY <1>0 DEF Records, Recorded, Leaving, Alike, Kept
<1>4. Requests'
  <2>1. \A n \in Names : claims[n].refs > 0 => claims'[n].refs > 0
    BY DEF Alike, Kept
  <2> QED BY <1>0, <1>1, <2>1, SameRequests
<1>5. Seats'
  BY <1>0, <1>1 DEF Seats
<1>6. Arming'
  BY <1>0 DEF Arming, Alike, Kept
<1>7. FollowsAll'
  BY <1>0 DEF FollowsAll, Follows, Alike, Kept, Noted
<1>8. Watched'
  BY <1>0 DEF Watched, Noted, Alike, TypeOK, MainState
<1> QED BY <1>2, <1>3, <1>4, <1>5, <1>6, <1>7, <1>8 DEF OwnInv

\* The head of the queue is handled.
LEMMA OwnEvent ==
    ASSUME TypeOK, OwnInv, link = "up", main.op = "idle", mainQ # <<>>,
           UNCHANGED <<nextToken, armed, main, up, broker, link>>,
           mainQ' = Tail(mainQ) \/ mainQ' = Append(Tail(mainQ), Wake),
           \A n \in Names : Kept(claims[n], claims'[n]),
           \A n \in Names :
              /\ ~Tells(Head(mainQ), n) => (claims'[n].owned <=> claims[n].owned)
              /\ Tells(Head(mainQ), n) /\ claims[n].refs > 0 => (claims'[n].owned <=> Head(mainQ).owner = Us)
              /\ \/ ~(claims[n].refs > 0)
                 \/ ~Noted(claims[n])
                 \/ Noted(claims'[n])
                 \/ \A i \in 2 .. Len(mainQ) : ~Answers(mainQ[i], n, claims[n].requestToken)
    PROVE  OwnInv'
<1>0. /\ Unblocked /\ Records /\ Calls /\ Requests /\ Seats
      /\ Arming /\ FollowsAll /\ Watched /\ Tokens
  BY DEF OwnInv
<1>a. mainQ \in Seq(Event) /\ Tail(mainQ) \in Seq(Event) /\ Wake \in Event
  BY QueueShrinks DEF TypeOK, Event
<1>b. Wake.t = "wake"
  BY DEF Wake
<1>1. \A n \in Names : (Wanted(n)' <=> Wanted(n)) /\ (Outside(n)' <=> Outside(n))
  BY DEF Kept, Wanted, Outside
<1>2. /\ NoLoss(mainQ) => NoLoss(mainQ')
      /\ \A n : Silent(mainQ, n) => Silent(mainQ', n)
      /\ \A t : Fresh(mainQ, t) => Fresh(mainQ', t)
      /\ Issued(mainQ, nextToken) => Issued(mainQ', nextToken)
      /\ Distinct(mainQ) => Distinct(mainQ')
  <2> PICK r : r = Tail(mainQ)
    OBVIOUS
  <2>1. /\ NoLoss(mainQ) => NoLoss(r)
        /\ \A n : Silent(mainQ, n) => Silent(r, n)
        /\ \A t : Fresh(mainQ, t) => Fresh(r, t)
        /\ Issued(mainQ, nextToken) => Issued(r, nextToken)
        /\ Distinct(mainQ) => Distinct(r)
    BY <1>a, QueueTakes
  <2>2. /\ NoLoss(r) => NoLoss(Append(r, Wake))
        /\ \A n : Silent(r, n) => Silent(Append(r, Wake), n)
        /\ \A t : Fresh(r, t) => Fresh(Append(r, Wake), t)
        /\ Issued(r, nextToken) => Issued(Append(r, Wake), nextToken)
        /\ Distinct(r) => Distinct(Append(r, Wake))
    BY <1>a, <1>b, QueueAppends DEF Tells
  <2> QED BY <2>1, <2>2
<1>3. Unblocked' /\ Calls' /\ Tokens' /\ Watched'
  BY <1>0, <1>2 DEF Unblocked, Calls, Tokens, Watched
<1>4. Records'
  BY <1>0 DEF Records, Recorded, Leaving, Kept
<1>5. Requests'
  <2>1. \A n \in Names : claims[n].refs > 0 => claims'[n].refs > 0
    BY DEF Kept
  <2> QED BY <1>0, <1>1, <2>1, SameRequests
<1>6. Seats'
  BY <1>0, <1>1 DEF Seats
<1>7. Arming'
  BY <1>0, <1>2 DEF Arming, Kept
<1>8. FollowsAll'
  <2> SUFFICES ASSUME NEW n \in Names PROVE Follows(claims'[n], broker[n], mainQ', n, Giving(up, n))
    BY DEF FollowsAll
  <2> PICK c, d, b, q, g : /\ c = claims[n] /\ d = claims'[n] /\ b = broker[n] /\ q = mainQ
                           /\ g = Giving(up, n)
    OBVIOUS
  <2>1. Follows(c, b, q, n, g)
    BY <1>0 DEF FollowsAll
  <2>2. /\ d.refs > 0 => c.refs > 0 /\ d.requestToken = c.requestToken
        /\ ~Tells(Head(q), n) => (d.owned <=> c.owned)
        /\ Tells(Head(q), n) /\ c.refs > 0 => (d.owned <=> Head(q).owner = Us)
    BY DEF Kept
  <2>3. \/ ~(c.refs > 0)
        \/ ~Noted(c)
        \/ Noted(d)
        \/ \A i \in 2 .. Len(q) : ~Answers(q[i], n, c.requestToken)
    OBVIOUS
  <2>4. Follows(d, b, Tail(q), n, g)
    BY <1>a, <2>1, <2>2, <2>3, FollowsShrinks
  <2>5. Follows(d, b, Append(Tail(q), Wake), n, g)
    <3> PICK r : r = Tail(q)
      OBVIOUS
    <3>1. Follows(d, b, Append(r, Wake), n, g)
      BY <1>a, <1>b, <2>4, FollowsGrows DEF Tells, Answers
    <3> QED BY <3>1
  <2> QED BY <2>4, <2>5
<1> QED BY <1>3, <1>4, <1>5, <1>6, <1>7, <1>8 DEF OwnInv

\* A change of ownership is handled: the registry follows the daemon.
LEMMA OwnHandlesChange == TypeOK /\ OwnInv /\ link = "up" /\ HandleOwnerChange => OwnInv'
<1> SUFFICES ASSUME TypeOK, OwnInv, link = "up", HandleOwnerChange PROVE OwnInv'
  OBVIOUS
<1> PICK e, q : e = Head(mainQ) /\ q = mainQ
  OBVIOUS
<1>1. q \in Seq(Event) /\ q # <<>> /\ e.t = "ownerChanged" /\ main.op = "idle"
  BY DEF HandleOwnerChange, Dispatching, TypeOK
<1>2. e \in Event /\ e.n \in Names
  <2>1. e \in Event
    BY <1>1, HeadTailProperties
  <2> QED BY <1>1, <2>1 DEF Event, Wake, ConnectionLost
<1> PICK c, d : c = claims[e.n] /\ d = AfterOwnerChange(c, e.owner)
  OBVIOUS
<1>3. c \in Claim /\ d \in Claim
  <2>1. c \in Claim
    BY <1>2 DEF TypeOK
  <2> QED BY <2>1, HandlerOperators
<1>4. claims' = [claims EXCEPT ![e.n] = d] /\ (mainQ' = Tail(mainQ) \/ mainQ' = Append(Tail(mainQ), Wake))
  BY DEF HandleOwnerChange, PostNotes
<1>5. Recorded(c, FALSE)
  BY <1>1, <1>2 DEF OwnInv, Records, Leaving
<1>6. Kept(c, d)
  <2>1. c = NoClaim => d = NoClaim
    BY DEF AfterOwnerChange, NoClaim
  <2>2. /\ d.refs = c.refs /\ d.pending = c.pending /\ d.exists = c.exists
        /\ d.requestSent = c.requestSent /\ d.tearingDown = c.tearingDown
        /\ d.requestToken = c.requestToken
    BY <1>3 DEF AfterOwnerChange, Claim
  <2> QED BY <2>1, <2>2 DEF Kept
<1>7. c.refs > 0 => (d.owned <=> e.owner = Us)
  BY <1>3, <1>5 DEF AfterOwnerChange, Recorded, Claim
<1>8. Noted(c) => Noted(d)
  BY <1>3 DEF AfterOwnerChange, Noted, Claim
<1>9. ASSUME NEW n \in Names
      PROVE  /\ Kept(claims[n], claims'[n])
             /\ ~Tells(Head(mainQ), n) => (claims'[n].owned <=> claims[n].owned)
             /\ Tells(Head(mainQ), n) /\ claims[n].refs > 0 => (claims'[n].owned <=> Head(mainQ).owner = Us)
             /\ Noted(claims[n]) => Noted(claims'[n])
  <2>1. CASE n = e.n
    BY <1>1, <1>2, <1>4, <1>6, <1>7, <1>8, <2>1 DEF TypeOK, Tells
  <2>2. CASE n # e.n
    <3>1. claims'[n] = claims[n]
      BY <1>4, <2>2 DEF TypeOK
    <3> QED BY <2>2, <3>1 DEF Tells, Kept
  <2> QED BY <2>1, <2>2
<1> QED BY <1>1, <1>4, <1>9, OwnEvent DEF HandleOwnerChange, adaptorVars, busVars

\* A reply is handled: it brings nothing that a signal before it did not.
LEMMA OwnHandlesReply == TypeOK /\ OwnInv /\ link = "up" /\ HandleReply => OwnInv'
<1> SUFFICES ASSUME TypeOK, OwnInv, link = "up", HandleReply PROVE OwnInv'
  OBVIOUS
<1> PICK e, q : e = Head(mainQ) /\ q = mainQ
  OBVIOUS
<1>1. q \in Seq(Event) /\ q # <<>> /\ e.t = "reply" /\ main.op = "idle"
  BY DEF HandleReply, Dispatching, TypeOK
<1>2. e \in Event /\ e.n \in Names
  <2>1. e \in Event
    BY <1>1, HeadTailProperties
  <2> QED BY <1>1, <2>1 DEF Event, Wake, ConnectionLost
<1> PICK c, d : c = claims[e.n] /\ d = AfterReply(c, e.code, e.token)
  OBVIOUS
<1>3. c \in Claim /\ d \in Claim
  <2>1. c \in Claim
    BY <1>2 DEF TypeOK
  <2> QED BY <2>1, HandlerOperators
<1>4. claims' = [claims EXCEPT ![e.n] = d] /\ (mainQ' = Tail(mainQ) \/ mainQ' = Append(Tail(mainQ), Wake))
  BY DEF HandleReply, PostNotes
<1>6. Kept(c, d)
  <2>1. c = NoClaim => d = NoClaim
    BY DEF AfterReply, StaleReply, NoClaim
  <2>2. /\ d.refs = c.refs /\ d.pending = c.pending /\ d.exists = c.exists
        /\ d.requestSent = c.requestSent /\ d.tearingDown = c.tearingDown
        /\ d.requestToken = c.requestToken
    BY <1>3 DEF AfterReply, Claim
  <2> QED BY <2>1, <2>2 DEF Kept
<1>7. e = q[1] /\ 1 \in 1 .. Len(q)
  BY <1>1, QueueShrinks
<1>8. /\ d.owned <=> c.owned
      /\ \/ ~(c.refs > 0)
         \/ ~Noted(c)
         \/ Noted(d)
         \/ \A i \in 2 .. Len(q) : ~Answers(q[i], e.n, c.requestToken)
  <2>1. CASE StaleReply(c, e.token)
    BY <2>1 DEF AfterReply
  <2>2. CASE ~StaleReply(c, e.token)
    <3>1. c.refs > 0 /\ c.requestToken = e.token
      BY <1>3, <2>2 DEF StaleReply, Claim
    <3>2. ASSUME NEW i \in 2 .. Len(q) PROVE ~Answers(q[i], e.n, c.requestToken)
      <4>1. i \in 1 .. Len(q) /\ i # 1
        BY <1>1, LenProperties
      <4> QED BY <1>1, <1>7, <3>1, <4>1 DEF OwnInv, Tokens, Distinct, Answers
    <3>3. Explained(q, e.n, c.requestToken, Noted(c))
      BY <1>2, <3>1 DEF OwnInv, FollowsAll, Follows
    <3>4. ~Gained(q, e.n, 1)
      BY <1>1, LenProperties DEF Gained
    <3>5. e.code # AlreadyOwner /\ (e.code = PrimaryOwner => Noted(c))
      BY <1>1, <1>7, <3>1, <3>3, <3>4 DEF Explained, Answers
    <3>6. d.owned <=> c.owned
      BY <1>3, <2>2, <3>5 DEF AfterReply, Noted, Claim
    <3> QED BY <3>2, <3>6
  <2> QED BY <2>1, <2>2
<1>9. ASSUME NEW n \in Names
      PROVE  /\ Kept(claims[n], claims'[n])
             /\ claims'[n].owned <=> claims[n].owned
             /\ ~Tells(Head(mainQ), n)
             /\ \/ ~(claims[n].refs > 0)
                \/ ~Noted(claims[n])
                \/ Noted(claims'[n])
                \/ \A i \in 2 .. Len(mainQ) : ~Answers(mainQ[i], n, claims[n].requestToken)
  <2>0. ~Tells(Head(mainQ), n)
    BY <1>1 DEF Tells
  <2>1. CASE n = e.n
    <3>1. claims'[n] = d /\ claims[n] = c
      BY <1>4, <2>1 DEF TypeOK
    <3> QED BY <1>6, <1>8, <2>0, <2>1, <3>1
  <2>2. CASE n # e.n
    <3>1. claims'[n] = claims[n]
      BY <1>4, <2>2 DEF TypeOK
    <3> QED BY <2>0, <3>1 DEF Kept
  <2> QED BY <2>1, <2>2
<1> QED BY <1>1, <1>4, <1>9, OwnEvent DEF HandleReply, adaptorVars, busVars

\* The relay, further adaptors that join and leave, and adaptors without a claim.
LEMMA OwnRelay ==
    ASSUME TypeOK, OwnInv, link = "up",
           TakeWake \/ RelayStep \/ \E a \in Adaptors : DestroyUnregistered(a)
    PROVE  OwnInv'
<1>1. CASE TakeWake
  <2>1. main.op = "idle" /\ mainQ # <<>> /\ Head(mainQ).t = "wake" /\ mainQ' = Tail(mainQ)
    BY <1>1 DEF TakeWake, Dispatching
  <2>2. UNCHANGED <<claims, nextToken, armed, main, up, broker, link>>
    BY <1>1 DEF TakeWake, claimVars, busVars
  <2>3. \A n \in Names : Kept(claims[n], claims'[n]) /\ ~Tells(Head(mainQ), n) /\ claims'[n] = claims[n]
    BY <2>1, <2>2 DEF Kept, Tells
  <2> QED BY <2>1, <2>2, <2>3, OwnEvent
<1>2. ASSUME NEW n \in Names, RelayNote(n) PROVE OwnInv'
  <2>1. UNCHANGED <<nextToken, armed, main, mainQ, up, broker, link>>
    BY <1>2 DEF RelayNote, busVars
  <2>2. ASSUME NEW m \in Names PROVE Alike(claims[m], claims'[m])
    <3> PICK c, d : c = claims[m] /\ d = claims'[m]
      OBVIOUS
    <3>1. c \in Claim
      BY DEF TypeOK
    <3>2. \/ d = c
          \/ c.exists /\ \E x : d = [c EXCEPT !.notifyQueued = FALSE, !.lastNotifiedOwned = x]
      <4>1. CASE claims[n].exists /\ claims[n].notifyQueued
        <5>1. claims' = [claims EXCEPT ![n] = [@ EXCEPT !.notifyQueued = FALSE,
                                                        !.lastNotifiedOwned = claims[n].owned]]
          BY <1>2, <4>1 DEF RelayNote
        <5> QED BY <4>1, <5>1 DEF TypeOK
      <4>2. CASE ~(claims[n].exists /\ claims[n].notifyQueued)
        BY <1>2, <4>2 DEF RelayNote
      <4> QED BY <4>1, <4>2
    <3>3. ~NoClaim.exists
      BY DEF NoClaim
    <3> QED BY <3>1, <3>2, <3>3 DEF Alike, Kept, Claim
  <2> QED BY <2>1, <2>2, OwnQuiet
<1>3. ASSUME NEW a \in Adaptors, RelayDeliver(a) \/ RelayDone \/ DestroyUnregistered(a) PROVE OwnInv'
  <2>1. UNCHANGED <<claims, nextToken, armed, main, mainQ, up, broker, link>>
    BY <1>3 DEF RelayDeliver, RelayDone, DestroyUnregistered, claimVars, busVars
  <2>2. \A m \in Names : Alike(claims[m], claims'[m])
    BY <2>1 DEF Alike, Kept
  <2> QED BY <2>1, <2>2, OwnQuiet
<1> QED BY <1>1, <1>2, <1>3, AdaptorsAssumption DEF RelayStep

-----------------------------------------------------------------------------
(* attach and detach.                                                      *)

\* What each rewriting of a claim does to its record.
LEMMA RecordedKept ==
    ASSUME NEW c \in Claim, NEW a \in Adaptors, NEW token \in Nat, Recorded(c, FALSE)
    PROVE  /\ ~c.tearingDown /\ Adopted(c) = c
           /\ c.refs > 0 => Alike(c, Joined(c, a))
           /\ c.refs > 1 => Alike(c, OneHolderFewer(c, a))
           /\ c.refs = 0 => /\ Recorded(FlaggedClaim(c, a, token), FALSE)
                            /\ FlaggedClaim(c, a, token).refs = 1
                            /\ FlaggedClaim(c, a, token).requestToken = token
                            /\ ~Noted(FlaggedClaim(c, a, token))
           /\ c.refs > 0 => /\ needUnregister(c)
                            /\ Recorded(Tombstone(c, token), TRUE)
                            /\ Tombstone(c, token).refs = 0
<1>1. ~c.tearingDown
  BY DEF Recorded, NoClaim, Claim
<1>2. Adopted(c) = c
  BY <1>1 DEF Adopted
<1>3. c.refs > 0 => Alike(c, Joined(c, a))
  BY DEF Alike, Kept, Joined, Claim, NoClaim
<1>4. c.refs > 1 => Alike(c, OneHolderFewer(c, a))
  BY DEF Alike, Kept, OneHolderFewer, Claim, NoClaim
<1>5. ASSUME c.refs = 0
      PROVE  /\ Recorded(FlaggedClaim(c, a, token), FALSE)
             /\ FlaggedClaim(c, a, token).refs = 1
             /\ FlaggedClaim(c, a, token).requestToken = token
             /\ ~Noted(FlaggedClaim(c, a, token))
  <2>1. c = NoClaim
    BY <1>5 DEF Recorded
  <2> QED BY <2>1 DEF Recorded, FlaggedClaim, FirstClaim, NoClaim, Noted
<1>6. c.refs > 0 => /\ needUnregister(c)
                    /\ Recorded(Tombstone(c, token), TRUE)
                    /\ Tombstone(c, token).refs = 0
  BY DEF needUnregister, Recorded, Tombstone, Claim
<1> QED BY <1>1, <1>2, <1>3, <1>4, <1>5, <1>6

\* Another adaptor of a name joins or leaves: the name stays held.
LEMMA OwnJoinsAndLeaves ==
    ASSUME TypeOK, OwnInv, link = "up", NEW a \in Adaptors, NEW n \in Names,
           AttachJoin(a, n) \/ \E after \in {"unregistered", "free"} : DetachOne(a, n, after)
    PROVE  OwnInv'
<1> PICK c : c = claims[n]
  OBVIOUS
<1>1. c \in Claim /\ main.op = "idle"
  BY DEF TypeOK, AttachJoin, StartAttach, DetachOne, Leave, UserMayRun
<1>2. Recorded(c, FALSE)
  BY <1>1 DEF OwnInv, Records, Leaving
<1>3. UNCHANGED <<nextToken, armed, main, mainQ, up, broker, link>>
  BY DEF AttachJoin, DetachOne, Leave, busVars
<1>4. \E d : Alike(c, d) /\ claims' = [claims EXCEPT ![n] = d]
  <2>1. CASE AttachJoin(a, n)
    <3>1. Adopted(c) = c /\ c.refs > 0 /\ Alike(c, Joined(c, a))
      BY <1>1, <1>2, <2>1, RecordedKept, 0 \in Nat DEF AttachJoin, Recorded
    <3> QED BY <2>1, <3>1 DEF AttachJoin
  <2>2. ASSUME NEW after \in {"unregistered", "free"}, DetachOne(a, n, after)
        PROVE  \E d : Alike(c, d) /\ claims' = [claims EXCEPT ![n] = d]
    <3>1. c.refs > 1 /\ Alike(c, OneHolderFewer(c, a))
      BY <1>1, <1>2, <2>2, RecordedKept, 0 \in Nat DEF DetachOne
    <3> QED BY <2>2, <3>1 DEF DetachOne
  <2> QED BY <2>1, <2>2
<1>5. \A m \in Names : Alike(claims[m], claims'[m])
  <2> PICK d : Alike(c, d) /\ claims' = [claims EXCEPT ![n] = d]
    BY <1>4
  <2> TAKE m \in Names
  <2>1. m = n => claims'[m] = d
    BY DEF TypeOK
  <2>2. m # n => claims'[m] = claims[m]
    BY DEF TypeOK
  <2> QED BY <2>1, <2>2 DEF Alike, Kept
<1> QED BY <1>3, <1>5, OwnQuiet

\* The application sends one more call.
LEMMA SocketGrows ==
    ASSUME TypeOK, NEW call \in CallSet, up' = Append(up, call)
    PROVE  /\ Len(up') = Len(up) + 1 /\ Len(up) \in Nat
           /\ \A i \in 1 .. Len(up) : up'[i] = up[i]
           /\ up'[Len(up) + 1] = call
           /\ \A i \in 1 .. Len(up') : i \in 1 .. Len(up) \/ i = Len(up) + 1
           /\ \A i \in 1 .. Len(up) : i # Len(up) + 1 /\ i \in 1 .. Len(up') /\ i < Len(up) + 1
           /\ Len(up) + 1 \in 1 .. Len(up') /\ up' # <<>>
           /\ \A m : Giving(up, m) \/ Gives(call, m) <=> Giving(up', m)
           /\ \A m : Giving(up, m) => GivenBefore(up', m, Len(up) + 1)
           /\ \A m : \A i \in 1 .. Len(up) : GivenBefore(up, m, i) => GivenBefore(up', m, i)
           /\ \A m : \A i \in 1 .. Len(up) : GivenAfter(up, m, i) \/ Gives(call, m) => GivenAfter(up', m, i)
           /\ \A i \in 1 .. Len(up) : up[i].n \in Names
           /\ \A i, j \in 1 .. Len(up) : Parted(i, j) => Parted(i, j)'
           /\ \A i \in 1 .. Len(up), j \in 1 .. Len(up') :
                 j = Len(up) + 1 /\ GivenAfter(up, up[i].n, i) => Parted(i, j)'
<1>1. up \in Seq(CallSet)
  BY DEF TypeOK
<1>2. /\ Len(up') = Len(up) + 1 /\ Len(up) \in Nat
      /\ \A i \in 1 .. Len(up) : up'[i] = up[i]
      /\ up'[Len(up) + 1] = call /\ up' # <<>>
  BY <1>1, AppendProperties, LenProperties
<1>3. /\ \A i \in 1 .. Len(up') : i \in 1 .. Len(up) \/ i = Len(up) + 1
      /\ \A i \in 1 .. Len(up) : i # Len(up) + 1 /\ i \in 1 .. Len(up') /\ i < Len(up) + 1
      /\ Len(up) + 1 \in 1 .. Len(up')
  BY <1>2
<1>4. \A m : Giving(up, m) \/ Gives(call, m) <=> Giving(up', m)
  BY <1>2, <1>3 DEF Giving
<1>5. /\ \A m : Giving(up, m) => GivenBefore(up', m, Len(up) + 1)
      /\ \A m : \A i \in 1 .. Len(up) : GivenBefore(up, m, i) => GivenBefore(up', m, i)
  BY <1>2, <1>3 DEF Giving, GivenBefore
<1>6. \A m : \A i \in 1 .. Len(up) : GivenAfter(up, m, i) \/ Gives(call, m) => GivenAfter(up', m, i)
  BY <1>2, <1>3 DEF GivenAfter
<1>7. \A i \in 1 .. Len(up) : up[i].n \in Names
  BY CallNames
<1>8. \A i, j \in 1 .. Len(up) : Parted(i, j) => Parted(i, j)'
  BY <1>2, <1>3 DEF Parted
<1>9. \A i \in 1 .. Len(up), j \in 1 .. Len(up') :
                 j = Len(up) + 1 /\ GivenAfter(up, up[i].n, i) => Parted(i, j)'
  BY <1>2, <1>3 DEF Parted, GivenAfter
<1> QED BY <1>2, <1>3, <1>4, <1>5, <1>6, <1>7, <1>8, <1>9

\* The first adaptor of a name: nobody held it, so the daemon seats us there only
\* until a release that is on the socket.
LEMMA OwnFirst ==
    ASSUME TypeOK, OwnInv, link = "up", NEW a \in Adaptors, NEW n \in Names, NEW f \in FlagSets,
           AttachFlagged(a, n, f)
    PROVE  OwnInv'
<1>0. /\ Unblocked /\ Records /\ Calls /\ Requests /\ Seats
      /\ Arming /\ FollowsAll /\ Watched /\ Tokens
  BY DEF OwnInv
<1> PICK c, token, call : /\ c = claims[n] /\ token = nextToken + 1
                          /\ call = Call("request", n, f, token)
  OBVIOUS
<1>1. c \in Claim /\ main.op = "idle" /\ token \in Nat /\ nextToken \in Nat /\ f \in Flags
  BY FlagsAssumption DEF TypeOK, AttachFlagged, StartAttach, UserMayRun, Flags
<1>2. Recorded(c, FALSE)
  BY <1>0, <1>1 DEF Records, Leaving
<1>3. Adopted(c) = c /\ c.refs = 0
  <2>1. Adopted(c) = c
    BY <1>1, <1>2, RecordedKept
  <2> QED BY <1>1, <2>1 DEF AttachFlagged, Claim
<1> PICK d : d = FlaggedClaim(c, a, token)
  OBVIOUS
<1>4. Recorded(d, FALSE) /\ d.refs = 1 /\ d.requestToken = token /\ ~Noted(d)
  BY <1>1, <1>2, <1>3, RecordedKept
<1>5. /\ claims' = [claims EXCEPT ![n] = d] /\ armed' = TRUE /\ nextToken' = token
      /\ up' = Append(up, call) /\ main' = Inside("watch", n, a, token)
      /\ UNCHANGED <<mainQ, broker, link>>
  <2>1. claims' = [claims EXCEPT ![n] = FlaggedClaim(Adopted(claims[n]), a, nextToken + 1)]
    BY DEF AttachFlagged
  <2>2. /\ armed' = TRUE /\ nextToken' = token
        /\ up' = Sent(call) /\ main' = Inside("watch", n, a, token)
        /\ UNCHANGED <<mainQ, broker, link>>
    BY DEF AttachFlagged
  <2> QED BY <1>3, <2>1, <2>2 DEF Sent
<1>6. /\ claims'[n] = d /\ \A m \in Names : m # n => claims'[m] = claims[m]
      /\ main'.op = "watch" /\ main'.n = n /\ main'.token = token /\ main'.code = 0
  BY <1>5 DEF TypeOK, Inside
<1>7. /\ Outside(n) \/ Giving(up, n)
      /\ broker[n].owner = Us => Giving(up, n)
      /\ ~(claims[n].refs > 0)
  <2>1. ~(claims[n].refs > 0)
    BY <1>1, <1>3
  <2> QED BY <1>0, <2>1 DEF Seats, Wanted, Outside
<1>8. /\ call.t = "request" /\ call.n = n /\ call.token = token /\ call \in CallSet
  BY <1>1 DEF Call, CallSet
<1>9. /\ Len(up') = Len(up) + 1 /\ Len(up) \in Nat
      /\ \A i \in 1 .. Len(up) : up'[i] = up[i]
      /\ up'[Len(up) + 1] = call
      /\ \A i \in 1 .. Len(up') : i \in 1 .. Len(up) \/ i = Len(up) + 1
      /\ \A i \in 1 .. Len(up) : i # Len(up) + 1 /\ i \in 1 .. Len(up')
      /\ Len(up) + 1 \in 1 .. Len(up')
      /\ \A m : Giving(up', m) <=> Giving(up, m)
  BY <1>5, <1>8, SocketGrows DEF Gives
<1>10. \A i \in 1 .. Len(up) : up[i].t \in {"request", "release"} /\ up[i].n \in Names
  BY <1>0, CallNames DEF Calls
<1>11. \A m \in Names : claims[m].refs > 0 => claims'[m].refs > 0
  BY <1>4, <1>6
<1>12. claims'[n].refs > 0 /\ \A m \in Names : Outside(m)' <=> Outside(m)
  BY <1>4, <1>5, <1>6 DEF Outside
<1>13. Unblocked' /\ Watched' /\ Arming'
  BY <1>0, <1>5, <1>6 DEF Unblocked, Watched, Arming, PrimaryOwner, AlreadyOwner
<1>14. Records'
  BY <1>0, <1>1, <1>4, <1>6 DEF Records, Leaving
<1>15. Calls'
  <2>1. \A i \in 1 .. Len(up') : up'[i].t \in {"request", "release"}
    BY <1>8, <1>9, <1>10
  <2> QED BY <1>6, <2>1 DEF Calls
<1>16. Requests'
  <2>1. ASSUME NEW i \in 1 .. Len(up'), up'[i].t = "request"
        PROVE  /\ \/ Us \notin {broker'[up'[i].n].owner, broker'[up'[i].n].waiter}
                  \/ GivenBefore(up', up'[i].n, i)
               /\ claims'[up'[i].n].refs > 0 \/ GivenAfter(up', up'[i].n, i)
    <3>1. CASE i = Len(up) + 1
      <4>1. Giving(up, n) => GivenBefore(up', n, i)
        BY <1>5, <1>8, <3>1, SocketGrows
      <4> QED BY <1>1, <1>7, <1>8, <1>9, <1>12, <3>1, <4>1 DEF Outside
    <3>2. CASE i \in 1 .. Len(up)
      <4> PICK m \in Names : m = up[i].n
        BY <1>10, <3>2
      <4>1. /\ Outside(m) \/ GivenBefore(up, m, i)
            /\ claims[m].refs > 0 \/ GivenAfter(up, m, i)
        BY <1>0, <1>9, <2>1, <3>2 DEF Requests, Asks
      <4>2. /\ GivenBefore(up, m, i) => GivenBefore(up', m, i)
            /\ GivenAfter(up, m, i) => GivenAfter(up', m, i)
        BY <1>5, <1>8, <3>2, SocketGrows
      <4> QED BY <1>9, <1>11, <1>12, <3>2, <4>1, <4>2 DEF Outside
    <3> QED BY <1>9, <3>1, <3>2
  <2>2. \A i \in 1 .. Len(up) : up[i].t = "request" => up[i].token # token
    BY <1>0, <1>1, <1>10, CallNames DEF Tokens, CallSet
  <2>3. ASSUME NEW i \in 1 .. Len(up'), NEW j \in 1 .. Len(up'),
               up'[i].t = "request", up'[j].t = "request"
        PROVE  /\ up'[i].n = up'[j].n /\ i < j => Parted(i, j)'
               /\ up'[i].token = up'[j].token => i = j
    <3>1. CASE i \in 1 .. Len(up) /\ j \in 1 .. Len(up)
      <4>1. Parted(i, j) => Parted(i, j)'
        BY <1>5, <1>8, <3>1, SocketGrows
      <4> QED BY <1>0, <1>9, <2>3, <3>1, <4>1 DEF Requests, Asks
    <3>2. CASE i \in 1 .. Len(up) /\ j = Len(up) + 1
      <4>1. up[i].n = n => GivenAfter(up, n, i)
        BY <1>0, <1>7, <1>9, <2>3, <3>2 DEF Requests, Asks
      <4>2. GivenAfter(up, up[i].n, i) => Parted(i, j)'
        BY <1>5, <1>8, <3>2, SocketGrows
      <4> QED BY <1>8, <1>9, <2>2, <2>3, <3>2, <4>1, <4>2
    <3>3. CASE i = Len(up) + 1 /\ j \in 1 .. Len(up)
      <4>1. ~(i < j)
        BY <1>9, <3>3
      <4> QED BY <1>8, <1>9, <2>2, <2>3, <3>3, <4>1
    <3>4. CASE i = Len(up) + 1 /\ j = Len(up) + 1
      <4>1. i = j /\ ~(i < j)
        BY <1>9, <3>4
      <4> QED BY <4>1
    <3> QED BY <1>9, <3>1, <3>2, <3>3, <3>4
  <2> QED BY <2>1, <2>3 DEF Requests, Asks, Outside
<1>17. Seats'
  BY <1>0, <1>5, <1>9, <1>11, <1>12 DEF Seats, Wanted
<1>18. Fresh(mainQ, token) /\ Issued(mainQ, token) /\ Distinct(mainQ)
  <2>1. mainQ \in Seq(Event) /\ Len(mainQ) \in Nat
    BY LenProperties DEF TypeOK
  <2>2. \A i \in 1 .. Len(mainQ) : mainQ[i].t = "reply" => mainQ[i].token \in Nat
    <3> TAKE i \in 1 .. Len(mainQ)
    <3>1. mainQ[i] \in Event
      BY <2>1
    <3> QED BY <3>1 DEF Event, Wake, ConnectionLost
  <2> QED BY <1>0, <1>1, <2>2 DEF Tokens, Fresh, Issued
<1>19. FollowsAll'
  <2> SUFFICES ASSUME NEW m \in Names PROVE Follows(claims'[m], broker[m], mainQ, m, Giving(up, m))
    BY <1>5, <1>9 DEF FollowsAll, Follows
  <2>1. CASE m # n
    BY <1>0, <1>6, <2>1 DEF FollowsAll
  <2>2. CASE m = n
    <3>1. Current(mainQ, n, broker[n].owner)
      BY <1>0 DEF FollowsAll, Follows
    <3>2. Explained(mainQ, n, token, Noted(d))
      BY <1>18 DEF Explained, Fresh, Answers
    <3> QED BY <1>4, <1>6, <1>7, <2>2, <3>1, <3>2 DEF Follows, Noted
  <2> QED BY <2>1, <2>2
<1>20. Tokens'
  <2>1. \A i \in 1 .. Len(up') : up'[i].t = "request" =>
          /\ Fresh(mainQ, up'[i].token)
          /\ up'[i].token <= token
          /\ up'[i].token = token => up'[i].n = n
    <3> SUFFICES ASSUME NEW i \in 1 .. Len(up'), up'[i].t = "request"
                 PROVE  /\ Fresh(mainQ, up'[i].token)
                        /\ up'[i].token <= token
                        /\ up'[i].token = token => up'[i].n = n
      OBVIOUS
    <3>1. CASE i = Len(up) + 1
      BY <1>1, <1>8, <1>9, <1>18, <3>1
    <3>2. CASE i \in 1 .. Len(up)
      <4>1. up[i].token \in Nat /\ up[i].token <= nextToken /\ Fresh(mainQ, up[i].token)
        BY <1>0, <1>9, <1>10, <3>2, CallNames DEF Tokens, CallSet
      <4> QED BY <1>1, <1>9, <3>2, <4>1
    <3> QED BY <1>9, <3>1, <3>2
  <2> QED BY <1>1, <1>5, <1>6, <1>18, <2>1 DEF Tokens
<1> QED BY <1>13, <1>14, <1>15, <1>16, <1>17, <1>19, <1>20 DEF OwnInv

\* The reply watcher exists: the answer that came before it is posted now.
LEMMA OwnWatches == TypeOK /\ OwnInv /\ link = "up" /\ WatchReply => OwnInv'
<1> SUFFICES ASSUME TypeOK, OwnInv, link = "up", WatchReply PROVE OwnInv'
  OBVIOUS
<1>0. /\ Unblocked /\ Records /\ Calls /\ Requests /\ Seats
      /\ Arming /\ FollowsAll /\ Watched /\ Tokens
  BY DEF OwnInv
<1>1. /\ main.op = "watch" /\ main'.op = "idle"
      /\ UNCHANGED <<claims, nextToken, armed, up, broker, link>>
  BY DEF WatchReply, Idle, claimVars, busVars
<1> PICK e, q : e = Reply(main.n, main.code, main.token) /\ q = mainQ
  OBVIOUS
<1>2. mainQ' = IF main.code = 0 THEN q ELSE Append(q, e)
  BY DEF WatchReply
<1>3. /\ e.t = "reply" /\ e.n = main.n /\ e.code = main.code /\ e.token = main.token
      /\ q \in Seq(Event)
      /\ main.code # 0 => e \in Event
  BY DEF Reply, TypeOK, MainState, Event
<1>4. \A n \in Names : (Wanted(n)' <=> Wanted(n)) /\ (Outside(n)' <=> Outside(n))
                       /\ (Leaving(n)' <=> Leaving(n))
  BY <1>1 DEF Wanted, Outside, Leaving
<1>5. Records' /\ Seats'
  BY <1>0, <1>1, <1>4 DEF Records, Recorded, Seats
<1>6. Calls' /\ Requests' /\ Watched'
  <2>1. Requests'
    BY <1>0, <1>1, <1>4, SameRequests
  <2> QED BY <1>0, <1>1, <2>1 DEF Calls, Watched
<1>7. CASE main.code = 0
  <2>1. mainQ' = mainQ
    BY <1>2, <1>7
  <2>2. Unblocked' /\ Arming' /\ FollowsAll' /\ Tokens'
    BY <1>0, <1>1, <2>1 DEF Unblocked, Arming, FollowsAll, Tokens
  <2> QED BY <1>5, <1>6, <2>2 DEF OwnInv
<1>8. CASE main.code # 0
  <2>1. mainQ' = Append(q, e) /\ e \in Event
    BY <1>2, <1>3, <1>8
  <2>2. Unblocked' /\ Arming'
    <3>1. NoLoss(Append(q, e)) /\ \A n : Silent(q, n) => Silent(Append(q, e), n)
      BY <1>0, <1>3, <2>1, QueueAppends DEF Unblocked, Tells
    <3> QED BY <1>0, <1>1, <2>1, <3>1 DEF Unblocked, Arming
  <2>3. ASSUME NEW n \in Names PROVE Follows(claims[n], broker[n], Append(q, e), n, Giving(up, n))
    <3> PICK c, b, g : c = claims[n] /\ b = broker[n] /\ g = Giving(up, n)
      OBVIOUS
    <3>1. Follows(c, b, q, n, g) /\ ~Tells(e, n)
      BY <1>0, <1>3 DEF FollowsAll, Tells
    <3>2. Answers(e, n, c.requestToken) =>
              e.code # AlreadyOwner /\ (e.code = PrimaryOwner => GainWaits(q, n) \/ Noted(c))
      BY <1>0, <1>1, <1>3 DEF Watched, Answers
    <3>3. Follows(c, b, Append(q, e), n, g)
      BY <1>3, <2>1, <3>1, <3>2, FollowsGrows
    <3> QED BY <3>3
  <2>4. FollowsAll'
    BY <1>1, <2>1, <2>3 DEF FollowsAll
  <2>5. /\ Distinct(Append(q, e)) /\ Issued(Append(q, e), nextToken)
        /\ \A t : Fresh(q, t) /\ e.token # t => Fresh(Append(q, e), t)
    BY <1>0, <1>1, <1>3, <2>1, QueueAppends DEF Tokens
  <2>6. Tokens'
    BY <1>0, <1>1, <1>3, <1>8, <2>1, <2>5 DEF Tokens
  <2> QED BY <1>5, <1>6, <2>2, <2>4, <2>6 DEF OwnInv
<1> QED BY <1>7, <1>8

\* The last adaptor of a name leaves: its release goes behind the requests.
LEMMA OwnLast ==
    ASSUME TypeOK, OwnInv, link = "up", NEW a \in Adaptors, NEW n \in Names, NEW after,
           a \in claims[n].holders, DetachLast(a, n, after)
    PROVE  OwnInv'
<1>0. /\ Unblocked /\ Records /\ Calls /\ Requests /\ Seats
      /\ Arming /\ FollowsAll /\ Watched /\ Tokens
  BY DEF OwnInv
<1> PICK c, token, call : /\ c = claims[n] /\ token = nextToken + 1
                          /\ call = Call("release", n, Plain, token)
  OBVIOUS
<1>1. c \in Claim /\ main.op = "idle" /\ token \in Nat /\ nextToken \in Nat
  BY DEF TypeOK, DetachLast, Leave, UserMayRun
<1>2. Recorded(c, FALSE)
  BY <1>0, <1>1 DEF Records, Leaving
<1>3. c.refs > 0
  <2>1. c # NoClaim
    BY DEF NoClaim
  <2> QED BY <1>1, <1>2, <2>1 DEF Recorded, Claim
<1> PICK d : d = Tombstone(c, token)
  OBVIOUS
<1>4. Recorded(d, TRUE) /\ d.refs = 0 /\ needUnregister(c)
  BY <1>1, <1>2, <1>3, RecordedKept
<1>5. /\ claims' = [claims EXCEPT ![n] = d] /\ nextToken' = token
      /\ up' = Append(up, call) /\ main' = Inside("release", n, a, token)
      /\ UNCHANGED <<armed, mainQ, broker, link>>
  <2>1. /\ claims' = [claims EXCEPT ![n] = d] /\ nextToken' = token
        /\ up' = Sent(call) /\ main' = Inside("release", n, a, token)
    BY <1>4 DEF DetachLast
  <2> QED BY <2>1 DEF Sent, DetachLast, Leave
<1>6. /\ claims'[n] = d /\ \A m \in Names : m # n => claims'[m] = claims[m]
      /\ main'.op = "release" /\ main'.n = n
  BY <1>5 DEF TypeOK, Inside
<1>7. call.t = "release" /\ call.n = n /\ call \in CallSet
  BY <1>1, NullTypes DEF Call, CallSet
<1>8. /\ Len(up') = Len(up) + 1 /\ Len(up) \in Nat
      /\ \A i \in 1 .. Len(up) : up'[i] = up[i]
      /\ up'[Len(up) + 1] = call
      /\ \A i \in 1 .. Len(up') : i \in 1 .. Len(up) \/ i = Len(up) + 1
      /\ Len(up) + 1 \in 1 .. Len(up') /\ up' # <<>>
      /\ \A m : Giving(up', m) <=> Giving(up, m) \/ m = n
  BY <1>5, <1>7, SocketGrows DEF Gives
<1>9. \A i \in 1 .. Len(up) : up[i].t \in {"request", "release"} /\ up[i].n \in Names
  BY <1>0, CallNames DEF Calls
<1>10. \A m \in Names : (Wanted(m) => Wanted(m)') /\ (Outside(m)' <=> Outside(m))
  BY <1>5, <1>6, <1>8 DEF Wanted, Outside
<1>11. Unblocked' /\ Watched' /\ Seats'
  BY <1>0, <1>5, <1>6, <1>10 DEF Unblocked, Watched, Seats
<1>12. Records'
  BY <1>0, <1>1, <1>4, <1>6 DEF Records, Leaving
<1>13. Calls'
  <2>1. ASSUME NEW i \in 1 .. Len(up')
        PROVE  up'[i].t \in {"request", "release"}
    <3>1. CASE i \in 1 .. Len(up)
      BY <1>8, <1>9, <3>1
    <3>2. CASE i = Len(up) + 1
      BY <1>6, <1>7, <1>8, <3>2
    <3> QED BY <1>8, <3>1, <3>2
  <2>2. up' # <<>> /\ Gives(up'[Len(up')], n)
    BY <1>7, <1>8 DEF Gives
  <2> QED BY <1>6, <2>1, <2>2 DEF Calls
<1>14. Requests'
  <2>0. \A i \in 1 .. Len(up') : up'[i].t = "request" => i \in 1 .. Len(up) /\ up[i].t = "request" /\ up'[i] = up[i]
    BY <1>7, <1>8
  <2>1. ASSUME NEW i \in 1 .. Len(up'), up'[i].t = "request"
        PROVE  /\ \/ Us \notin {broker'[up'[i].n].owner, broker'[up'[i].n].waiter}
                  \/ GivenBefore(up', up'[i].n, i)
               /\ claims'[up'[i].n].refs > 0 \/ GivenAfter(up', up'[i].n, i)
    <3>1. i \in 1 .. Len(up) /\ up[i].t = "request" /\ up'[i] = up[i]
      BY <2>0, <2>1
    <3> PICK m \in Names : m = up[i].n
      BY <1>9, <3>1
    <3>2. /\ Outside(m) \/ GivenBefore(up, m, i)
          /\ claims[m].refs > 0 \/ GivenAfter(up, m, i)
      BY <1>0, <3>1 DEF Requests, Asks
    <3>3. /\ GivenBefore(up, m, i) => GivenBefore(up', m, i)
          /\ GivenAfter(up, m, i) \/ Gives(call, m) => GivenAfter(up', m, i)
      BY <1>5, <1>7, <3>1, SocketGrows
    <3>4. m = n => Gives(call, m)
      BY <1>7 DEF Gives
    <3> QED BY <1>6, <1>10, <3>1, <3>2, <3>3, <3>4 DEF Outside
  <2>2. ASSUME NEW i \in 1 .. Len(up'), NEW j \in 1 .. Len(up'),
               up'[i].t = "request", up'[j].t = "request"
        PROVE  /\ up'[i].n = up'[j].n /\ i < j => Parted(i, j)'
               /\ up'[i].token = up'[j].token => i = j
    <3>1. /\ i \in 1 .. Len(up) /\ up[i].t = "request" /\ up'[i] = up[i]
          /\ j \in 1 .. Len(up) /\ up[j].t = "request" /\ up'[j] = up[j]
      BY <2>0, <2>2
    <3>2. Parted(i, j) => Parted(i, j)'
      BY <1>5, <1>7, <3>1, SocketGrows
    <3> QED BY <1>0, <3>1, <3>2 DEF Requests, Asks
  <2> QED BY <2>1, <2>2 DEF Requests, Asks, Outside
<1>15. Arming'
  <2>1. armed
    BY <1>0, <1>3 DEF Arming
  <2> QED BY <1>5, <2>1 DEF Arming
<1>16. FollowsAll'
  <2> SUFFICES ASSUME NEW m \in Names PROVE Follows(claims'[m], broker[m], mainQ, m, Giving(up', m))
    BY <1>5 DEF FollowsAll
  <2>1. CASE m # n
    BY <1>0, <1>6, <1>8, <2>1 DEF FollowsAll, Follows
  <2>2. CASE m = n
    BY <1>0, <1>4, <1>6, <2>2 DEF FollowsAll, Follows
  <2> QED BY <2>1, <2>2
<1>17. Tokens'
  <2>1. \A i \in 1 .. Len(mainQ) : mainQ[i].t = "reply" => mainQ[i].token <= token
    <3> TAKE i \in 1 .. Len(mainQ)
    <3>1. mainQ[i] \in Event
      BY DEF TypeOK
    <3>2. mainQ[i].t = "reply" => mainQ[i].token \in Nat
      BY <3>1 DEF Event, Wake, ConnectionLost
    <3> QED BY <1>0, <1>1, <3>2 DEF Tokens, Issued
  <2>2. Issued(mainQ, token)
    BY <2>1 DEF Issued
  <2>3. \A i \in 1 .. Len(up) : up[i].t = "request" =>
           Fresh(mainQ, up[i].token) /\ up[i].token <= token
    <3> TAKE i \in 1 .. Len(up)
    <3>1. up[i].token \in Nat
      BY CallNames DEF CallSet
    <3> QED BY <1>0, <1>1, <1>9, <3>1 DEF Tokens
  <2> QED BY <1>0, <1>5, <1>6, <1>7, <1>8, <2>2, <2>3 DEF Tokens
<1> QED BY <1>11, <1>12, <1>13, <1>14, <1>15, <1>16, <1>17 DEF OwnInv

\* The release has been answered, or is not waited for: the record goes.
LEMMA OwnReleased ==
    ASSUME TypeOK, OwnInv, link = "up", ReleaseReturns
    PROVE  OwnInv'
<1>0. /\ Unblocked /\ Records /\ Calls /\ Requests /\ Seats
      /\ Arming /\ FollowsAll /\ Watched /\ Tokens
  BY DEF OwnInv
<1> PICK n : n = main.n
  OBVIOUS
<1>1. main.op \in {"release", "released"} /\ n \in Names
  BY DEF ReleaseReturns, CallFails, TypeOK, MainState
<1>2. claims[n].refs = 0 /\ claims[n].tearingDown
  BY <1>0, <1>1 DEF Records, Recorded, Leaving
<1>3. /\ claims' = [claims EXCEPT ![n] = NoClaim] /\ main'.op = "idle"
      /\ UNCHANGED <<nextToken, armed, mainQ, up, broker, link>>
  BY <1>2 DEF ReleaseReturns, Idle, busVars
<1>4. claims'[n] = NoClaim /\ (\A m \in Names : m # n => claims'[m] = claims[m]) /\ NoClaim.refs = 0
  <2>1. NoClaim.refs = 0
    BY DEF NoClaim
  <2> QED BY <1>1, <1>3, <2>1 DEF TypeOK
<1>5. \A m \in Names : (Wanted(m)' <=> Wanted(m)) /\ (Outside(m)' <=> Outside(m))
  BY <1>1, <1>2, <1>3, <1>4 DEF Wanted, Outside
<1>6. Unblocked' /\ Calls' /\ Requests' /\ Watched' /\ Tokens'
  <2>1. \A m \in Names : claims[m].refs > 0 => claims'[m].refs > 0
    BY <1>2, <1>4
  <2>2. Requests'
    BY <1>0, <1>3, <1>5, <2>1, SameRequests
  <2> QED BY <1>0, <1>1, <1>3, <2>2 DEF Unblocked, Calls, Watched, Tokens
<1>7. Seats'
  BY <1>0, <1>3, <1>5 DEF Seats
<1>8. Records'
  <2> SUFFICES ASSUME NEW m \in Names PROVE Recorded(claims'[m], FALSE)
    BY <1>3 DEF Records, Leaving
  <2>1. CASE m = n
    BY <1>4, <2>1 DEF Recorded, NoClaim
  <2>2. CASE m # n
    BY <1>0, <1>4, <2>2 DEF Records, Leaving
  <2> QED BY <2>1, <2>2
<1>9. Arming'
  BY <1>0, <1>3, <1>4 DEF Arming
<1>10. FollowsAll'
  <2> SUFFICES ASSUME NEW m \in Names PROVE Follows(claims'[m], broker[m], mainQ, m, Giving(up, m))
    BY <1>3 DEF FollowsAll
  <2>1. CASE m # n
    BY <1>0, <1>4, <2>1 DEF FollowsAll
  <2>2. CASE m = n
    BY <1>0, <1>4, <2>2 DEF FollowsAll, Follows
  <2> QED BY <2>1, <2>2
<1> QED BY <1>6, <1>7, <1>8, <1>9, <1>10 DEF OwnInv

-----------------------------------------------------------------------------
(* The daemon and the other peer.                                          *)

Seated(b) == b.owner = NoOne \/ b.owner # b.waiter

\* What a call does to whether the connection is seated at the name.
LEMMA SeatsKept ==
    ASSUME NEW b \in BrokerName, NEW f \in Flags, Seated(b)
    PROVE  /\ \A who \in Clients : Seated(AfterRequest(b, who, f)) /\ Seated(AfterRelease(b, who))
           /\ Us \notin {b.owner, b.waiter} =>
                 /\ Us \notin {AfterRequest(b, Peer, f).owner, AfterRequest(b, Peer, f).waiter}
                 /\ Us \notin {AfterRelease(b, Peer).owner, AfterRelease(b, Peer).waiter}
                 /\ ReplyCode(b, Us, f) # AlreadyOwner
                 /\ ReplyCode(b, Us, f) = PrimaryOwner => AfterRequest(b, Us, f).owner = Us
                 /\ ReplyCode(b, Us, f) # PrimaryOwner => AfterRequest(b, Us, f).owner = b.owner
           /\ Us \notin {AfterRelease(b, Us).owner, AfterRelease(b, Us).waiter}
<1> USE DEF PrimaryOwner, InQueue, Exists, AlreadyOwner
<1>0. Us # Peer /\ Us # NoOne /\ Peer # NoOne
  BY DEF Us, Peer, NoOne
<1>1. ASSUME NEW who \in Clients
      PROVE  /\ ReplyCode(b, who, f) \in {1, 2, 3, 4}
             /\ ReplyCode(b, who, f) = 4 <=> b.owner = who /\ b.owner # NoOne
             /\ ReplyCode(b, who, f) = 1 =>
                   /\ AfterRequest(b, who, f).owner = who
                   /\ AfterRequest(b, who, f).waiter \in {b.owner, NoOne}
             /\ ReplyCode(b, who, f) # 1 =>
                   /\ AfterRequest(b, who, f).owner = b.owner
                   /\ AfterRequest(b, who, f).waiter \in {b.waiter, NoOne, who}
             /\ ReplyCode(b, who, f) = 4 => AfterRequest(b, who, f).waiter = b.waiter
  <2> PICK code : code = ReplyCode(b, who, f)
    OBVIOUS
  <2>1. code \in {1, 2, 3, 4}
    BY DEF ReplyCode
  <2>2. code = 4 <=> b.owner = who /\ b.owner # NoOne
    BY <1>0 DEF ReplyCode
  <2>3. CASE code = 1
    BY <2>1, <2>2, <2>3 DEF AfterRequest, BrokerName
  <2>4. CASE code = 4
    BY <2>1, <2>2, <2>4 DEF AfterRequest, BrokerName
  <2>5. CASE code = 2
    <3>1. AfterRequest(b, who, f) = [b EXCEPT !.flags = [b.flags EXCEPT ![who] = f], !.waiter = who]
      BY <2>5 DEF AfterRequest
    <3>2. AfterRequest(b, who, f).owner = b.owner /\ AfterRequest(b, who, f).waiter = who
      BY <3>1 DEF BrokerName
    <3> QED BY <2>2, <2>5, <3>2
  <2>6. CASE code = 3
    BY <2>1, <2>2, <2>6 DEF AfterRequest, BrokerName
  <2> QED BY <2>1, <2>2, <2>3, <2>4, <2>5, <2>6
<1>2. ASSUME NEW who \in Clients PROVE Seated(AfterRequest(b, who, f))
  <2>1. who # NoOne
    BY <1>0 DEF Clients
  <2> QED BY <1>1, <2>1 DEF Seated
<1>3. ASSUME NEW who \in Clients
      PROVE  /\ Seated(AfterRelease(b, who))
             /\ who \notin {AfterRelease(b, who).owner, AfterRelease(b, who).waiter}
             /\ AfterRelease(b, who).owner \in {b.owner, b.waiter}
             /\ AfterRelease(b, who).waiter \in {b.waiter, NoOne}
  <2>1. who # NoOne
    BY <1>0 DEF Clients
  <2> QED BY <2>1 DEF AfterRelease, Seated, BrokerName
<1>4. Us \in Clients /\ Peer \in Clients
  BY DEF Clients
<1>5. ASSUME Us \notin {b.owner, b.waiter}
      PROVE  /\ Us \notin {AfterRequest(b, Peer, f).owner, AfterRequest(b, Peer, f).waiter}
             /\ Us \notin {AfterRelease(b, Peer).owner, AfterRelease(b, Peer).waiter}
             /\ ReplyCode(b, Us, f) # AlreadyOwner
             /\ ReplyCode(b, Us, f) = PrimaryOwner => AfterRequest(b, Us, f).owner = Us
             /\ ReplyCode(b, Us, f) # PrimaryOwner => AfterRequest(b, Us, f).owner = b.owner
  <2>1. Us \notin {AfterRequest(b, Peer, f).owner, AfterRequest(b, Peer, f).waiter}
    BY <1>0, <1>1, <1>4, <1>5
  <2>2. Us \notin {AfterRelease(b, Peer).owner, AfterRelease(b, Peer).waiter}
    BY <1>0, <1>3, <1>4, <1>5
  <2> QED BY <1>1, <1>4, <1>5, <2>1, <2>2
<1> QED BY <1>2, <1>3, <1>4, <1>5

\* A call of a name that the daemon answers, and the signal it sends first.
LEMMA BroadcastFollows ==
    ASSUME TypeOK, OwnInv, link = "up", NEW n \in Names, NEW b \in BrokerName,
           NEW q, q = Broadcast(mainQ, n, broker[n], b)
    PROVE  /\ q \in Seq(Event) /\ NoLoss(q)
           /\ ~armed => \A m \in Names : Silent(q, m)
           /\ \A m : GainWaits(mainQ, m) => GainWaits(q, m)
           /\ armed /\ b.owner = Us /\ broker[n].owner # Us => GainWaits(q, n)
           /\ \A t : Fresh(mainQ, t) => Fresh(q, t)
           /\ Distinct(q) /\ Issued(q, nextToken)
           /\ \A m \in Names : Follows(claims[m], IF m = n THEN b ELSE broker[m], q, m, Giving(up, m))
<1>0. Unblocked /\ Arming /\ FollowsAll /\ Tokens
  BY DEF OwnInv
<1> PICK e, p, old : e = OwnerChanged(n, b) /\ p = mainQ /\ old = broker[n]
  OBVIOUS
<1>1. /\ e \in Event /\ e.t = "ownerChanged" /\ e.n = n /\ e.owner = b.owner /\ p \in Seq(Event)
  BY DEF OwnerChanged, Event, BrokerName, TypeOK
<1>2. q = IF armed /\ old.owner # b.owner THEN Append(p, e) ELSE p
  BY DEF Broadcast
<1>3. CASE armed /\ old.owner # b.owner
  <2>0. q = Append(p, e)
    BY <1>2, <1>3
  <2>1. /\ q \in Seq(Event) /\ NoLoss(q)
        /\ \A m : GainWaits(p, m) => GainWaits(q, m)
        /\ b.owner = Us => GainWaits(q, n)
        /\ \A t : Fresh(p, t) => Fresh(q, t)
        /\ Distinct(q) /\ Issued(q, nextToken)
    BY <1>0, <1>1, <2>0, QueueAppends, QueueGrows DEF Unblocked, Tokens, Tells
  <2>2. ASSUME NEW m \in Names PROVE Follows(claims[m], IF m = n THEN b ELSE broker[m], q, m, Giving(up, m))
    <3> PICK c, d, f, g : /\ c = claims[m] /\ d = broker[m] /\ f = (IF m = n THEN b ELSE broker[m])
                          /\ g = Giving(up, m)
      OBVIOUS
    <3>1. Follows(c, d, p, m, g)
      BY <1>0 DEF FollowsAll
    <3>2. /\ f.owner = d.owner \/ (Tells(e, m) /\ e.owner = f.owner)
          /\ Tells(e, m) => e.owner = f.owner
          /\ ~Answers(e, m, c.requestToken)
      BY <1>1 DEF Tells, Answers
    <3>3. Follows(c, f, Append(p, e), m, g)
      BY <1>1, <3>1, <3>2, FollowsGrows
    <3> QED BY <2>0, <3>3
  <2> QED BY <1>3, <2>1, <2>2
<1>4. CASE ~(armed /\ old.owner # b.owner)
  <2>0. q = p
    BY <1>2, <1>4
  <2>1. ASSUME NEW m \in Names PROVE Follows(claims[m], IF m = n THEN b ELSE broker[m], q, m, Giving(up, m))
    <3> PICK c, d, f, g : /\ c = claims[m] /\ d = broker[m] /\ f = (IF m = n THEN b ELSE broker[m])
                          /\ g = Giving(up, m)
      OBVIOUS
    <3>1. Follows(c, d, p, m, g)
      BY <1>0 DEF FollowsAll
    <3>2. CASE armed
      <4>1. f.owner = d.owner
        BY <1>4, <3>2
      <4> QED BY <2>0, <3>1, <4>1 DEF Follows
    <3>3. CASE ~armed
      <4>1. c.refs = 0 /\ Silent(p, m)
        BY <1>0, <3>3 DEF Arming
      <4> QED BY <2>0, <4>1 DEF Follows, Current, Last, Silent
    <3> QED BY <3>2, <3>3
  <2> QED BY <1>0, <1>1, <1>4, <2>0, <2>1 DEF Unblocked, Arming, Tokens
<1> QED BY <1>3, <1>4

\* The daemon takes the first call of the socket.
LEMMA SocketTakes ==
    ASSUME TypeOK, up # <<>>
    PROVE  /\ Len(up) \in Nat \ {0} /\ Len(Tail(up)) = Len(up) - 1 /\ Head(up) = up[1]
           /\ \A i \in 1 .. Len(Tail(up)) : i + 1 \in 1 .. Len(up) /\ i + 1 # 1 /\ Tail(up)[i] = up[i + 1]
           /\ 1 \in 1 .. Len(up) /\ Head(up) \in CallSet /\ Head(up).n \in Names
           /\ Head(up).f \in Flags /\ Head(up).token \in Nat
           /\ Len(up) = 1 => Tail(up) = <<>>
           /\ Len(up) > 1 => Tail(up) # <<>>
           /\ \A m : Giving(Tail(up), m) \/ Gives(Head(up), m) <=> Giving(up, m)
           /\ \A m : \A i \in 1 .. Len(Tail(up)) :
                 /\ GivenBefore(up, m, i + 1) => GivenBefore(Tail(up), m, i) \/ Gives(Head(up), m)
                 /\ GivenAfter(up, m, i + 1) => GivenAfter(Tail(up), m, i)
           /\ \A m : ~GivenBefore(up, m, 1)
           /\ \A m : GivenAfter(up, m, 1) => Giving(Tail(up), m)
<1>1. up \in Seq(CallSet)
  BY DEF TypeOK
<1>2. /\ Len(up) \in Nat \ {0} /\ Len(Tail(up)) = Len(up) - 1 /\ Head(up) = up[1]
      /\ \A i \in 1 .. Len(Tail(up)) : Tail(up)[i] = up[i + 1]
      /\ Tail(up) \in Seq(CallSet)
  BY <1>1, HeadTailProperties, LenProperties
<1>3. Head(up) \in CallSet
  BY <1>1, HeadTailProperties
<1>4. /\ Len(up) = 1 => Tail(up) = <<>>
      /\ Len(up) > 1 => Tail(up) # <<>>
  <2>1. PICK s : s = Tail(up)
    OBVIOUS
  <2>2. Len(s) = Len(up) - 1 /\ s \in Seq(CallSet)
    BY <1>2, <2>1
  <2>3. Len(s) = 0 <=> s = <<>>
    BY <2>2, EmptySeq
  <2>4. Len(up) \in Nat /\ Len(s) = Len(up) - 1
    BY <1>2, <2>2
  <2>5. (Len(up) = 1 => Len(s) = 0) /\ (Len(up) > 1 => Len(s) # 0)
    BY ONLY <2>4
  <2> QED BY ONLY <2>1, <2>3, <2>5
<1>5. PICK s, h : s = Tail(up) /\ h = Head(up)
  OBVIOUS
<1>6. /\ Len(s) = Len(up) - 1 /\ h = up[1] /\ Len(up) \in Nat \ {0}
      /\ \A i \in 1 .. Len(s) : s[i] = up[i + 1] /\ i + 1 \in 1 .. Len(up)
      /\ \A i \in 1 .. Len(up) : i # 1 => i - 1 \in 1 .. Len(s) /\ s[i - 1] = up[i]
      /\ 1 \in 1 .. Len(up)
  <2>1. \A i \in 1 .. Len(s) : s[i] = up[i + 1]
    BY <1>2, <1>5
  <2>2. Len(s) = Len(up) - 1 /\ h = up[1] /\ Len(up) \in Nat \ {0}
    BY <1>2, <1>5
  <2>3. \A i \in 1 .. Len(up) : i # 1 => i - 1 \in 1 .. Len(s) /\ s[i - 1] = up[(i - 1) + 1] /\ (i - 1) + 1 = i
    BY <2>1, <2>2
  <2> QED BY <2>1, <2>2, <2>3
<1>7. \A m : Giving(s, m) \/ Gives(h, m) <=> Giving(up, m)
  BY <1>6 DEF Giving
<1>8. ASSUME NEW m, NEW i \in 1 .. Len(s)
      PROVE  /\ GivenBefore(up, m, i + 1) => GivenBefore(s, m, i) \/ Gives(h, m)
             /\ GivenAfter(up, m, i + 1) => GivenAfter(s, m, i)
  <2>1. ASSUME NEW j \in 1 .. Len(up), j < i + 1, Gives(up[j], m)
        PROVE  GivenBefore(s, m, i) \/ Gives(h, m)
    <3>1. j # 1 => j - 1 \in 1 .. Len(s) /\ s[j - 1] = up[j] /\ j - 1 < i
      BY <1>6, <2>1
    <3> QED BY <1>6, <2>1, <3>1 DEF GivenBefore
  <2>2. ASSUME NEW j \in 1 .. Len(up), j > i + 1, Gives(up[j], m)
        PROVE  GivenAfter(s, m, i)
    <3>1. j - 1 \in 1 .. Len(s) /\ s[j - 1] = up[j] /\ j - 1 > i
      BY <1>6, <2>2
    <3> QED BY <2>2, <3>1 DEF GivenAfter
  <2> QED BY <2>1, <2>2 DEF GivenBefore, GivenAfter
<1>9. \A m : ~GivenBefore(up, m, 1)
  BY <1>6 DEF GivenBefore
<1>10. \A m : GivenAfter(up, m, 1) => Giving(s, m)
  BY <1>6 DEF GivenAfter, Giving
<1> QED BY <1>2, <1>3, <1>4, <1>5, <1>7, <1>8, <1>9, <1>10 DEF CallSet

\* Requests behind the head have their releases where they were.
LEMMA PartedTail ==
    ASSUME TypeOK, up # <<>>, up' = Tail(up), NEW i \in 1 .. Len(up'), NEW j \in 1 .. Len(up'),
           Parted(i + 1, j + 1)
    PROVE  Parted(i, j)'
<1>1. /\ Len(up) \in Nat \ {0} /\ Len(up') = Len(up) - 1
      /\ \A k \in 1 .. Len(up') : up'[k] = up[k + 1]
  BY SocketTakes
<1>2. PICK k \in 1 .. Len(up) : i + 1 < k /\ k < j + 1 /\ Gives(up[k], up[i + 1].n)
  BY DEF Parted
<1>3. k - 1 \in 1 .. Len(up') /\ i < k - 1 /\ k - 1 < j /\ (k - 1) + 1 = k
  BY <1>1, <1>2
<1>4. up'[k - 1] = up[k] /\ up'[i] = up[i + 1]
  BY <1>1, <1>3
<1> QED BY <1>2, <1>3, <1>4 DEF Parted

LEMMA OwnServesRequest == TypeOK /\ OwnInv /\ link = "up" /\ ServeRequest => OwnInv'
<1> SUFFICES ASSUME TypeOK, OwnInv, link = "up", ServeRequest PROVE OwnInv'
  OBVIOUS
<1>0. /\ Unblocked /\ Records /\ Calls /\ Requests /\ Seats
      /\ Arming /\ FollowsAll /\ Watched /\ Tokens
  BY DEF OwnInv
<1> PICK r, n, old : r = Head(up) /\ n = r.n /\ old = broker[n]
  OBVIOUS
<1> PICK b, code, q : /\ b = AfterRequest(old, Us, r.f) /\ code = ReplyCode(old, Us, r.f)
                      /\ q = Broadcast(mainQ, n, old, b)
  OBVIOUS
<1>1. /\ up # <<>> /\ r.t = "request" /\ up' = Tail(up) /\ broker' = [broker EXCEPT ![n] = b]
      /\ UNCHANGED <<claims, nextToken, armed, link>>
  BY DEF ServeRequest, claimVars
<1>2. /\ Len(up) \in Nat \ {0} /\ Len(up') = Len(up) - 1 /\ r = up[1] /\ 1 \in 1 .. Len(up)
      /\ \A i \in 1 .. Len(up') : i + 1 \in 1 .. Len(up) /\ i + 1 # 1 /\ up'[i] = up[i + 1]
      /\ r.n \in Names /\ r.f \in Flags /\ r.token \in Nat
      /\ Len(up) > 1 => up' # <<>>
      /\ \A m : Giving(up', m) <=> Giving(up, m)
      /\ \A m : \A i \in 1 .. Len(up') :
            /\ GivenBefore(up, m, i + 1) => GivenBefore(up', m, i)
            /\ GivenAfter(up, m, i + 1) => GivenAfter(up', m, i)
      /\ ~GivenBefore(up, n, 1) /\ (GivenAfter(up, n, 1) => Giving(up', n))
  BY <1>1, SocketTakes DEF Gives
<1>3. old \in BrokerName /\ Us \in Clients
  BY <1>2 DEF TypeOK, Clients
<1>4. b \in BrokerName /\ code \in 1 .. 4
  BY <1>2, <1>3, BrokerOperators
<1>5. Wanted(n)' /\ Us \notin {old.owner, old.waiter} /\ Seated(old)
  <2>1. Outside(n) /\ (claims[n].refs > 0 \/ GivenAfter(up, n, 1))
    BY <1>0, <1>1, <1>2 DEF Requests, Asks
  <2> QED BY <1>0, <1>1, <1>2, <2>1 DEF Outside, Seats, Seated, Wanted
<1>6. /\ Seated(b) /\ code # AlreadyOwner
      /\ code = PrimaryOwner => b.owner = Us
  BY <1>2, <1>3, <1>5, SeatsKept
<1>7. armed
  BY <1>0, <1>1 DEF Arming
<1>8. /\ q \in Seq(Event) /\ NoLoss(q)
      /\ \A m : GainWaits(mainQ, m) => GainWaits(q, m)
      /\ code = PrimaryOwner => GainWaits(q, n)
      /\ \A t : Fresh(mainQ, t) => Fresh(q, t)
      /\ Distinct(q) /\ Issued(q, nextToken)
      /\ \A m \in Names : Follows(claims[m], IF m = n THEN b ELSE broker[m], q, m, Giving(up, m))
  BY <1>2, <1>4, <1>5, <1>6, <1>7, BroadcastFollows
<1>9. /\ broker'[n] = b /\ \A m \in Names : broker'[m] = IF m = n THEN b ELSE broker[m]
  BY <1>1, <1>2 DEF TypeOK
<1>10. /\ main'.op = main.op /\ main'.n = main.n /\ main'.token = main.token
       /\ \/ /\ main.op = "watch" /\ main.token = r.token /\ main'.code = code /\ mainQ' = q
          \/ /\ ~(main.op = "watch" /\ main.token = r.token)
             /\ main'.code = main.code /\ mainQ' = Append(q, Reply(n, code, r.token))
  <2>1. CASE main.op = "watch" /\ main.token = r.token
    <3>1. main' = [main EXCEPT !.code = code] /\ mainQ' = q
      BY <2>1 DEF ServeRequest
    <3> QED BY <2>1, <3>1 DEF TypeOK, MainState
  <2>2. CASE ~(main.op = "watch" /\ main.token = r.token)
    <3>1. main' = main /\ mainQ' = Append(q, Reply(n, code, r.token))
      BY <2>2 DEF ServeRequest
    <3> QED BY <2>2, <3>1
  <2> QED BY <2>1, <2>2
<1>11. \A m \in Names : (Wanted(m)' <=> Wanted(m)) /\ (m # n => (Outside(m)' <=> Outside(m)))
  BY <1>1, <1>2, <1>9 DEF Wanted, Outside
<1>12. Records'
  BY <1>0, <1>1, <1>10 DEF Records, Recorded, Leaving
<1>13. Calls'
  <2>1. ASSUME NEW i \in 1 .. Len(up')
        PROVE  up'[i].t \in {"request", "release"}
    BY <1>0, <1>2, <1>10 DEF Calls
  <2>2. ASSUME main'.op = "release" PROVE up' # <<>> /\ Gives(up'[Len(up')], main'.n)
    <3>1. Gives(up[Len(up)], main'.n) /\ Len(up) # 1
      BY <1>0, <1>1, <1>2, <1>10, <2>2 DEF Calls, Gives
    <3>2. Len(up') \in 1 .. Len(up') /\ Len(up') + 1 = Len(up) /\ Len(up) > 1
      BY <1>2, <3>1
    <3> QED BY <1>2, <3>1, <3>2
  <2>3. main'.op # "released"
    BY <1>0, <1>1, <1>10 DEF Calls
  <2> QED BY <2>1, <2>2, <2>3 DEF Calls
<1>14. Requests'
  <2>1. ASSUME NEW i \in 1 .. Len(up'), up'[i].t = "request"
        PROVE  /\ \/ Us \notin {broker'[up'[i].n].owner, broker'[up'[i].n].waiter}
                  \/ GivenBefore(up', up'[i].n, i)
               /\ claims'[up'[i].n].refs > 0 \/ GivenAfter(up', up'[i].n, i)
    <3>1. i + 1 \in 1 .. Len(up) /\ up'[i] = up[i + 1] /\ 1 < i + 1
      BY <1>2
    <3> PICK m \in Names : m = up[i + 1].n
      BY <3>1, CallNames
    <3>2. /\ Outside(m) \/ GivenBefore(up, m, i + 1)
          /\ claims[m].refs > 0 \/ GivenAfter(up, m, i + 1)
      BY <1>0, <2>1, <3>1 DEF Requests, Asks
    <3>3. m = n => GivenBefore(up, m, i + 1)
      <4>1. m = n => Parted(1, i + 1)
        BY <1>0, <1>1, <1>2, <2>1, <3>1 DEF Requests, Asks
      <4> QED BY <1>2, <4>1 DEF Parted, GivenBefore
    <3> QED BY <1>1, <1>2, <1>11, <3>1, <3>2, <3>3 DEF Outside
  <2>2. ASSUME NEW i \in 1 .. Len(up'), NEW j \in 1 .. Len(up'),
               up'[i].t = "request", up'[j].t = "request"
        PROVE  /\ up'[i].n = up'[j].n /\ i < j => Parted(i, j)'
               /\ up'[i].token = up'[j].token => i = j
    <3>0. /\ i + 1 \in 1 .. Len(up) /\ j + 1 \in 1 .. Len(up)
          /\ up'[i] = up[i + 1] /\ up'[j] = up[j + 1]
      BY <1>2
    <3>1. /\ up[i + 1].n = up[j + 1].n /\ i + 1 < j + 1 => Parted(i + 1, j + 1)
          /\ up[i + 1].token = up[j + 1].token => i + 1 = j + 1
      BY <1>0, <2>2, <3>0 DEF Requests, Asks
    <3>2. (i < j <=> i + 1 < j + 1) /\ (i = j <=> i + 1 = j + 1)
      OBVIOUS
    <3>3. Parted(i + 1, j + 1) => Parted(i, j)'
      BY <1>1, PartedTail
    <3> QED BY ONLY <3>0, <3>1, <3>2, <3>3
  <2> QED BY <2>1, <2>2 DEF Requests, Asks, Outside
<1>15. Seats'
  <2>1. ASSUME NEW m \in Names
        PROVE  /\ Wanted(m)' \/ Outside(m)'
               /\ broker'[m].owner = NoOne \/ broker'[m].owner # broker'[m].waiter
    <3>1. CASE m = n
      BY <1>5, <1>6, <1>9, <1>11, <3>1 DEF Seated
    <3>2. CASE m # n
      BY <1>0, <1>9, <1>11, <3>2 DEF Seats
    <3> QED BY <3>1, <3>2
  <2> QED BY <2>1 DEF Seats
<1>16. Arming'
  BY <1>1, <1>7 DEF Arming
<1>17. ASSUME NEW i \in 1 .. Len(up'), up'[i].t = "request"
       PROVE  /\ Fresh(q, up'[i].token) /\ up'[i].token <= nextToken /\ up'[i].token # r.token
              /\ main.op = "watch" /\ up'[i].token = main.token => up'[i].n = main.n /\ main.code = 0
  <2>1. up[i + 1].t = "request" /\ i + 1 \in 1 .. Len(up) /\ i + 1 # 1 /\ up'[i] = up[i + 1]
    BY <1>2, <1>17
  <2>2. up[i + 1].token # r.token
    BY <1>0, <1>1, <1>2, <2>1 DEF Requests, Asks
  <2> QED BY <1>0, <1>8, <2>1, <2>2 DEF Tokens
<1>18. CASE /\ main.op = "watch" /\ main.token = r.token /\ main'.code = code /\ mainQ' = q
  <2>1. main.n = n
    BY <1>0, <1>1, <1>2, <1>18 DEF Tokens
  <2>2. Watched'
    <3>1. code = PrimaryOwner => GainWaits(q, n)
      BY <1>8
    <3> QED BY <1>6, <1>10, <1>18, <2>1, <3>1 DEF Watched
  <2>3. FollowsAll'
    <3> SUFFICES ASSUME NEW m \in Names PROVE Follows(claims[m], broker'[m], q, m, Giving(up, m))
      BY <1>1, <1>2, <1>18 DEF FollowsAll, Follows
    <3>1. Follows(claims[m], IF m = n THEN b ELSE broker[m], q, m, Giving(up, m))
      BY <1>8
    <3>2. broker'[m] = IF m = n THEN b ELSE broker[m]
      BY <1>9
    <3> QED BY ONLY <3>1, <3>2
  <2>4. Tokens'
    <3>1. Fresh(q, main.token) /\ main.token <= nextToken
      BY <1>0, <1>8, <1>18 DEF Tokens
    <3> QED BY <1>1, <1>8, <1>10, <1>17, <1>18, <3>1 DEF Tokens
  <2>5. Unblocked'
    BY <1>0, <1>8, <1>10, <1>18 DEF Unblocked
  <2> QED BY <1>12, <1>13, <1>14, <1>15, <1>16, <2>2, <2>3, <2>4, <2>5 DEF OwnInv
<1>19. CASE /\ ~(main.op = "watch" /\ main.token = r.token)
            /\ main'.code = main.code /\ mainQ' = Append(q, Reply(n, code, r.token))
  <2> PICK e, z : e = Reply(n, code, r.token) /\ z = Append(q, e)
    OBVIOUS
  <2>1. /\ e \in Event /\ e.t = "reply" /\ e.n = n /\ e.code = code /\ e.token = r.token
        /\ mainQ' = z
    BY <1>2, <1>4, <1>19 DEF Reply, Event
  <2>2. Fresh(q, r.token) /\ r.token <= nextToken
    BY <1>0, <1>1, <1>2, <1>8 DEF Tokens
  <2>3. /\ NoLoss(z) /\ Distinct(z) /\ Issued(z, nextToken)
        /\ \A m : GainWaits(q, m) => GainWaits(z, m)
        /\ \A t : Fresh(q, t) /\ r.token # t => Fresh(z, t)
    <3>1. q \in Seq(Event) /\ NoLoss(q) /\ Distinct(q) /\ Issued(q, nextToken)
      BY <1>8
    <3>2. e.t # "lost" /\ e.token = r.token /\ e.token <= nextToken /\ Fresh(q, e.token)
      BY <2>1, <2>2
    <3> QED BY ONLY <2>1, <3>1, <3>2, QueueAppends, z = Append(q, e)
  <2>4. Watched'
    BY <1>0, <1>1, <1>8, <1>10, <1>19, <2>1, <2>3 DEF Watched
  <2>5. FollowsAll'
    <3> SUFFICES ASSUME NEW m \in Names PROVE Follows(claims[m], broker'[m], z, m, Giving(up, m))
      BY <1>1, <1>2, <2>1 DEF FollowsAll, Follows
    <3> PICK c, d, g : c = claims[m] /\ d = broker'[m] /\ g = Giving(up, m)
      OBVIOUS
    <3>1. Follows(c, d, q, m, g)
      BY <1>8, <1>9
    <3>2. ~Tells(e, m) /\ (Answers(e, m, c.requestToken) =>
              e.code # AlreadyOwner /\ (e.code = PrimaryOwner => GainWaits(q, m)))
      BY <1>6, <1>8, <2>1 DEF Tells, Answers
    <3>3. Follows(c, d, Append(q, e), m, g)
      BY <1>8, <2>1, <3>1, <3>2, FollowsGrows
    <3> QED BY <3>3
  <2>6. Tokens'
    <3>1. main.op = "watch" => Fresh(z, main.token) /\ main.token <= nextToken
      BY <1>0, <1>8, <1>19, <2>3 DEF Tokens
    <3>2. \A i \in 1 .. Len(up') : up'[i].t = "request" =>
             /\ Fresh(z, up'[i].token) /\ up'[i].token <= nextToken
             /\ main.op = "watch" /\ up'[i].token = main.token => up'[i].n = main.n /\ main.code = 0
      BY <1>17, <2>3
    <3>3. nextToken' = nextToken /\ main'.code = main.code
      BY <1>1, <1>19
    <3> QED BY <1>10, <2>1, <2>3, <3>1, <3>2, <3>3 DEF Tokens
  <2>7. Unblocked'
    BY <1>0, <1>10, <2>1, <2>3 DEF Unblocked
  <2> QED BY <1>12, <1>13, <1>14, <1>15, <1>16, <2>4, <2>5, <2>6, <2>7 DEF OwnInv
<1> QED BY <1>10, <1>18, <1>19

\* A release is answered: we are not seated at the name until a request behind it.
LEMMA OwnServesRelease == TypeOK /\ OwnInv /\ link = "up" /\ ServeRelease => OwnInv'
<1> SUFFICES ASSUME TypeOK, OwnInv, link = "up", ServeRelease PROVE OwnInv'
  OBVIOUS
<1>0. /\ Unblocked /\ Records /\ Calls /\ Requests /\ Seats
      /\ Arming /\ FollowsAll /\ Watched /\ Tokens
  BY DEF OwnInv
<1> PICK r, n, old : r = Head(up) /\ n = r.n /\ old = broker[n]
  OBVIOUS
<1> PICK b, q : b = AfterRelease(old, Us) /\ q = Broadcast(mainQ, n, old, b)
  OBVIOUS
<1>1. /\ up # <<>> /\ r.t = "release" /\ up' = Tail(up) /\ broker' = [broker EXCEPT ![n] = b]
      /\ UNCHANGED <<claims, nextToken, armed, link>> /\ mainQ' = q
  BY DEF ServeRelease, claimVars
<1>2. /\ Len(up) \in Nat \ {0} /\ Len(up') = Len(up) - 1 /\ r = up[1] /\ 1 \in 1 .. Len(up)
      /\ \A i \in 1 .. Len(up') : i + 1 \in 1 .. Len(up) /\ i + 1 # 1 /\ up'[i] = up[i + 1]
      /\ r.n \in Names /\ r.f \in Flags
      /\ Len(up) = 1 => up' = <<>>
      /\ Len(up) > 1 => up' # <<>>
      /\ \A m : Giving(up', m) => Giving(up, m)
      /\ \A m : m # n => (Giving(up', m) <=> Giving(up, m))
      /\ \A m : \A i \in 1 .. Len(up') :
            /\ GivenBefore(up, m, i + 1) => GivenBefore(up', m, i) \/ m = n
            /\ GivenAfter(up, m, i + 1) => GivenAfter(up', m, i)
  BY <1>1, SocketTakes DEF Gives
<1>3. /\ main'.n = main.n /\ main'.token = main.token /\ main'.code = main.code
      /\ \/ main.op = "release" /\ Len(up) = 1 /\ main'.op = "released"
         \/ ~(main.op = "release" /\ Len(up) = 1) /\ main'.op = main.op
  <2>1. main' = IF main.op = "release" /\ Len(up) = 1 THEN [main EXCEPT !.op = "released"] ELSE main
    BY DEF ServeRelease, Awaited
  <2> QED BY <2>1 DEF TypeOK, MainState
<1>4. \A m \in Names : Leaving(m)' <=> Leaving(m)
  BY <1>3 DEF Leaving
<1>5. main.op # "released"
  BY <1>0, <1>1 DEF Calls
<1>6. old \in BrokerName /\ Us \in Clients /\ Seated(old)
  BY <1>0, <1>2 DEF TypeOK, Clients, Seats, Seated
<1>7. b \in BrokerName /\ Seated(b) /\ Us \notin {b.owner, b.waiter}
  BY <1>2, <1>6, BrokerOperators, SeatsKept
<1>8. /\ q \in Seq(Event) /\ NoLoss(q) /\ (~armed => \A m \in Names : Silent(q, m))
      /\ Distinct(q) /\ Issued(q, nextToken)
      /\ \A m : GainWaits(mainQ, m) => GainWaits(q, m)
      /\ \A t : Fresh(mainQ, t) => Fresh(q, t)
      /\ \A m \in Names : Follows(claims[m], IF m = n THEN b ELSE broker[m], q, m, Giving(up, m))
  BY <1>2, <1>7, BroadcastFollows
<1>9. \A m \in Names : broker'[m] = IF m = n THEN b ELSE broker[m]
  BY <1>1, <1>2 DEF TypeOK
<1>10. \A m \in Names : m # n => (Wanted(m)' <=> Wanted(m)) /\ (Outside(m)' <=> Outside(m))
  BY <1>1, <1>2, <1>9 DEF Wanted, Outside
<1>11. Outside(n)'
  BY <1>2, <1>7, <1>9 DEF Outside
<1>12. Records'
  BY <1>0, <1>1, <1>4 DEF Records, Recorded
<1>13. Unblocked' /\ Watched' /\ Tokens'
  <2>1. Unblocked'
    BY <1>0, <1>1, <1>3, <1>8 DEF Unblocked
  <2>2. Watched'
    BY <1>0, <1>1, <1>3, <1>8 DEF Watched
  <2>3. \A i \in 1 .. Len(up') : up'[i].t = "request" =>
          /\ Fresh(q, up'[i].token)
          /\ up'[i].token <= nextToken
          /\ main'.op = "watch" /\ up'[i].token = main.token => up'[i].n = main.n /\ main.code = 0
    BY <1>0, <1>2, <1>3, <1>8 DEF Tokens
  <2>4. main'.op = "watch" => Fresh(q, main.token) /\ main.token <= nextToken
    BY <1>0, <1>3, <1>8 DEF Tokens
  <2> QED BY <1>1, <1>3, <1>8, <2>1, <2>2, <2>3, <2>4 DEF Tokens
<1>14. Seats'
  <2>1. ASSUME NEW m \in Names
        PROVE  /\ Wanted(m)' \/ Outside(m)'
               /\ broker'[m].owner = NoOne \/ broker'[m].owner # broker'[m].waiter
    <3>1. CASE m = n
      BY <1>7, <1>9, <1>11, <3>1 DEF Seated
    <3>2. CASE m # n
      BY <1>0, <1>9, <1>10, <3>2 DEF Seats
    <3> QED BY <3>1, <3>2
  <2> QED BY <2>1 DEF Seats
<1>15. Arming'
  <2>1. armed
    BY <1>0, <1>1 DEF Arming
  <2> QED BY <1>1, <2>1 DEF Arming
<1>16. FollowsAll'
  <2> SUFFICES ASSUME NEW m \in Names PROVE Follows(claims[m], broker'[m], q, m, Giving(up', m))
    BY <1>1 DEF FollowsAll
  <2> PICK c, d, g, h : c = claims[m] /\ d = broker'[m] /\ g = Giving(up, m) /\ h = Giving(up', m)
    OBVIOUS
  <2>1. Follows(c, d, q, m, g)
    BY <1>8, <1>9
  <2>2. d.owner = Us /\ g => h
    BY <1>2, <1>7, <1>9
  <2>3. Follows(c, d, q, m, h)
    BY <2>1, <2>2, FollowsLess
  <2> QED BY <2>3
<1>17. Calls'
  <2>1. ASSUME NEW i \in 1 .. Len(up') PROVE up'[i].t \in {"request", "release"}
    BY <1>0, <1>2 DEF Calls
  <2>2. ASSUME main'.op = "release" PROVE up' # <<>> /\ Gives(up'[Len(up')], main'.n)
    <3>1. main.op = "release" /\ Len(up) # 1
      BY <1>3, <2>2
    <3>2. Gives(up[Len(up)], main'.n)
      BY <1>0, <1>3, <3>1 DEF Calls
    <3>3. Len(up') \in 1 .. Len(up') /\ Len(up') + 1 = Len(up) /\ Len(up) > 1
      BY <1>2, <3>1
    <3> QED BY <1>2, <3>2, <3>3
  <2>3. main'.op = "released" => up' = <<>>
    BY <1>2, <1>3, <1>5
  <2> QED BY <2>1, <2>2, <2>3 DEF Calls
<1>18. Requests'
  <2>1. ASSUME NEW i \in 1 .. Len(up'), up'[i].t = "request"
        PROVE  /\ \/ Us \notin {broker'[up'[i].n].owner, broker'[up'[i].n].waiter}
                  \/ GivenBefore(up', up'[i].n, i)
               /\ claims'[up'[i].n].refs > 0 \/ GivenAfter(up', up'[i].n, i)
    <3>1. i + 1 \in 1 .. Len(up) /\ up'[i] = up[i + 1]
      BY <1>2
    <3> PICK m \in Names : m = up[i + 1].n
      BY <3>1, CallNames
    <3>2. /\ Outside(m) \/ GivenBefore(up, m, i + 1)
          /\ claims[m].refs > 0 \/ GivenAfter(up, m, i + 1)
      BY <1>0, <2>1, <3>1 DEF Requests, Asks
    <3> QED BY <1>1, <1>2, <1>10, <1>11, <3>1, <3>2 DEF Outside
  <2>2. ASSUME NEW i \in 1 .. Len(up'), NEW j \in 1 .. Len(up'),
               up'[i].t = "request", up'[j].t = "request"
        PROVE  /\ up'[i].n = up'[j].n /\ i < j => Parted(i, j)'
               /\ up'[i].token = up'[j].token => i = j
    <3>0. /\ i + 1 \in 1 .. Len(up) /\ j + 1 \in 1 .. Len(up)
          /\ up'[i] = up[i + 1] /\ up'[j] = up[j + 1]
      BY <1>2
    <3>1. /\ up[i + 1].n = up[j + 1].n /\ i + 1 < j + 1 => Parted(i + 1, j + 1)
          /\ up[i + 1].token = up[j + 1].token => i + 1 = j + 1
      BY <1>0, <2>2, <3>0 DEF Requests, Asks
    <3>2. (i < j <=> i + 1 < j + 1) /\ (i = j <=> i + 1 = j + 1)
      OBVIOUS
    <3>3. Parted(i + 1, j + 1) => Parted(i, j)'
      BY <1>1, PartedTail
    <3> QED BY ONLY <3>0, <3>1, <3>2, <3>3
  <2> QED BY <2>1, <2>2 DEF Requests, Asks, Outside
<1> QED BY <1>12, <1>13, <1>14, <1>15, <1>16, <1>17, <1>18 DEF OwnInv

\* The other peer takes, queues for and gives up names; it never seats us.
LEMMA OwnPeer == TypeOK /\ OwnInv /\ link = "up" /\ PeerActs => OwnInv'
<1> SUFFICES ASSUME TypeOK, OwnInv, link = "up", PeerActs PROVE OwnInv'
  OBVIOUS
<1>0. /\ Unblocked /\ Records /\ Calls /\ Requests /\ Seats
      /\ Arming /\ FollowsAll /\ Watched /\ Tokens
  BY DEF OwnInv
<1> PICK n \in Names : (\E f \in FlagSets : PeerRequests(n, f)) \/ PeerReleases(n)
  BY DEF PeerActs
<1> PICK old : old = broker[n]
  OBVIOUS
<1>1. old \in BrokerName /\ Peer \in Clients /\ Seated(old) /\ Plain \in Flags
  BY <1>0, NullTypes DEF TypeOK, Clients, Seats, Seated
<1>2. PICK b : /\ PeerStep(n, b)
               /\ b \in BrokerName /\ Seated(b)
               /\ Us \notin {old.owner, old.waiter} => Us \notin {b.owner, b.waiter}
  <2>1. ASSUME NEW f \in FlagSets, PeerRequests(n, f)
        PROVE  \E b : /\ PeerStep(n, b)
                      /\ b \in BrokerName /\ Seated(b)
                      /\ Us \notin {old.owner, old.waiter} => Us \notin {b.owner, b.waiter}
    <3>1. f \in Flags
      BY FlagsAssumption DEF Flags
    <3>2. /\ AfterRequest(old, Peer, f) \in BrokerName /\ Seated(AfterRequest(old, Peer, f))
          /\ Us \notin {old.owner, old.waiter} =>
                 Us \notin {AfterRequest(old, Peer, f).owner, AfterRequest(old, Peer, f).waiter}
      BY <1>1, <3>1, BrokerOperators, SeatsKept
    <3> QED BY <2>1, <3>2 DEF PeerRequests
  <2>2. ASSUME PeerReleases(n)
        PROVE  \E b : /\ PeerStep(n, b)
                      /\ b \in BrokerName /\ Seated(b)
                      /\ Us \notin {old.owner, old.waiter} => Us \notin {b.owner, b.waiter}
    <3>1. /\ AfterRelease(old, Peer) \in BrokerName /\ Seated(AfterRelease(old, Peer))
          /\ Us \notin {old.owner, old.waiter} =>
                 Us \notin {AfterRelease(old, Peer).owner, AfterRelease(old, Peer).waiter}
      BY <1>1, BrokerOperators, SeatsKept
    <3> QED BY <2>2, <3>1 DEF PeerReleases
  <2> QED BY <2>1, <2>2
<1> PICK q : q = Broadcast(mainQ, n, old, b)
  OBVIOUS
<1>3. /\ broker' = [broker EXCEPT ![n] = b] /\ mainQ' = q
      /\ UNCHANGED <<claims, nextToken, armed, main, up, link>>
  BY <1>2 DEF PeerStep, claimVars
<1>4. /\ NoLoss(q) /\ (~armed => \A m \in Names : Silent(q, m))
      /\ \A m : GainWaits(mainQ, m) => GainWaits(q, m)
      /\ \A t : Fresh(mainQ, t) => Fresh(q, t)
      /\ Distinct(q) /\ Issued(q, nextToken)
      /\ \A m \in Names : Follows(claims[m], IF m = n THEN b ELSE broker[m], q, m, Giving(up, m))
  BY <1>2, BroadcastFollows
<1>5. \A m \in Names : broker'[m] = IF m = n THEN b ELSE broker[m]
  BY <1>3 DEF TypeOK
<1>6. \A m \in Names : (Wanted(m)' <=> Wanted(m)) /\ (Outside(m) => Outside(m)')
  BY <1>2, <1>3, <1>5 DEF Wanted, Outside
<1>7. Records' /\ Calls' /\ Unblocked'
  BY <1>0, <1>3, <1>4 DEF Records, Recorded, Leaving, Calls, Unblocked
<1>8. Requests'
  BY <1>0, <1>3, <1>6, SameRequests
<1>9. Seats'
  BY <1>0, <1>2, <1>5, <1>6 DEF Seats, Seated
<1>10. Arming'
  BY <1>0, <1>3, <1>4 DEF Arming
<1>11. FollowsAll'
  BY <1>3, <1>4, <1>5 DEF FollowsAll
<1>12. Watched' /\ Tokens'
  BY <1>0, <1>3, <1>4 DEF Watched, Tokens
<1> QED BY <1>7, <1>8, <1>9, <1>10, <1>11, <1>12 DEF OwnInv

LEMMA OwnNext ==
    ASSUME AllFlagged
    PROVE  TypeOK /\ OwnInv /\ [Next]_vars => OwnInv'
<1> SUFFICES ASSUME TypeOK, OwnInv, [Next]_vars PROVE OwnInv'
  OBVIOUS
<1>1. CASE UNCHANGED vars
  <2>1. UNCHANGED <<claims, nextToken, armed, main, mainQ, up, broker, link>>
    BY <1>1 DEF vars
  <2>2. \A m \in Names : Alike(claims[m], claims'[m])
    BY <2>1 DEF Alike, Kept
  <2> QED BY <2>1, <2>2, OwnQuiet
<1>2. CASE link' # "up"
  BY <1>2 DEF OwnInv
<1>3. CASE Next /\ link' = "up"
  <2>1. ~LinkDrops /\ ~LossObserved
    BY <1>3 DEF LinkDrops, LossObserved
  <2>2. \/ Attach \/ Detach \/ \E a \in Adaptors : DestroyUnregistered(a)
        \/ MainStep \/ DaemonStep \/ PeerActs
    BY <1>3, <2>1, Zenon DEF Next
  <2>3. link = "up"
    <3>1. Attach => UNCHANGED link
      BY DEF Attach, AttachJoin, AttachPlain, AttachFlagged, busVars
    <3>2. Detach => UNCHANGED link
      BY DEF Detach, DetachOne, DetachLast, Leave
    <3>3. (\E a \in Adaptors : DestroyUnregistered(a)) => UNCHANGED link
      BY DEF DestroyUnregistered, busVars
    <3>4. MainStep => UNCHANGED link
      BY DEF MainStep, WatchReply, RegisterReturns, ReleaseReturns, HandleOwnerChange, HandleReply,
             HandleConnectionLost, TakeWake, RelayStep, RelayNote, RelayDeliver, RelayDone, busVars
    <3>5. DaemonStep \/ PeerActs => UNCHANGED link
      BY DEF DaemonStep, ServeRequest, ServeRegister, ServeRelease, PeerActs, PeerRequests,
             PeerReleases, PeerStep
    <3> QED BY <1>3, <2>2, <3>1, <3>2, <3>3, <3>4, <3>5
  <2>4. Unblocked /\ Calls
    BY <2>3 DEF OwnInv
  <2>5. ASSUME Attach PROVE OwnInv'
    <3>1. Plain \notin FlagSets
      BY DEF AllFlagged, flaggedForClaim, Plain
    <3>2. PICK a \in Adaptors, n \in Names : AttachJoin(a, n) \/ \E f \in FlagSets : AttachFlagged(a, n, f)
      BY <2>5, <3>1 DEF Attach, AttachPlain
    <3> QED BY <2>3, <3>2, OwnJoinsAndLeaves, OwnFirst
  <2>6. ASSUME Detach PROVE OwnInv'
    <3>1. PICK a \in Adaptors, n \in Names, after \in {"unregistered", "free"} :
             /\ a \in claims[n].holders
             /\ DetachOne(a, n, after) \/ DetachLast(a, n, after)
      BY <2>6 DEF Detach
    <3> QED BY <2>3, <3>1, OwnJoinsAndLeaves, OwnLast
  <2>7. ASSUME \E a \in Adaptors : DestroyUnregistered(a) PROVE OwnInv'
    BY <2>3, <2>7, OwnRelay
  <2>8. ASSUME MainStep PROVE OwnInv'
    <3>1. ~RegisterReturns
      BY <2>4 DEF RegisterReturns, CallFails, Unblocked
    <3>2. ~HandleConnectionLost
      <4>1. mainQ # <<>> => Head(mainQ) = mainQ[1] /\ 1 \in 1 .. Len(mainQ)
        BY QueueShrinks DEF TypeOK
      <4> QED BY <2>4, <4>1 DEF HandleConnectionLost, Dispatching, Unblocked, NoLoss
    <3>3. \/ WatchReply \/ ReleaseReturns \/ HandleOwnerChange \/ HandleReply
          \/ TakeWake \/ RelayStep
      BY <2>8, <3>1, <3>2, Zenon DEF MainStep
    <3> QED BY <2>3, <3>3, OwnWatches, OwnReleased, OwnHandlesChange, OwnHandlesReply, OwnRelay
  <2>9. ASSUME DaemonStep PROVE OwnInv'
    <3>1. ~ServeRegister
      <4>1. up # <<>> => Head(up) = up[1] /\ 1 \in 1 .. Len(up)
        BY SocketTakes
      <4> QED BY <2>4, <4>1 DEF ServeRegister, Calls
    <3> QED BY <2>3, <2>9, <3>1, OwnServesRequest, OwnServesRelease DEF DaemonStep
  <2>10. ASSUME PeerActs PROVE OwnInv'
    BY <2>3, <2>10, OwnPeer
  <2> QED BY <2>2, <2>5, <2>6, <2>7, <2>8, <2>9, <2>10
<1> QED BY <1>1, <1>2, <1>3

\* When everything is quiet the queues are empty and a claim is what the daemon records.
LEMMA OwnAtRest == TypeOK /\ OwnInv => OwnershipAgrees /\ NoGhostOwner
<1> SUFFICES ASSUME TypeOK, OwnInv, Settled, link = "up", NEW n \in Names
             PROVE  /\ claims[n].refs > 0 => (claims[n].owned <=> broker[n].owner = Us)
                    /\ claims[n].refs = 0 => Us \notin {broker[n].owner, broker[n].waiter}
  BY DEF OwnershipAgrees, NoGhostOwner
<1>1. Len(mainQ) = 0 /\ Len(up) = 0
  BY DEF Settled
<1>2. Silent(mainQ, n) /\ ~Giving(up, n)
  BY <1>1 DEF Silent, Giving
<1>3. claims[n].refs > 0 => (claims[n].owned <=> broker[n].owner = Us)
  BY <1>2 DEF OwnInv, FollowsAll, Follows
<1>4. claims[n].refs = 0 => Us \notin {broker[n].owner, broker[n].waiter}
  BY <1>2 DEF OwnInv, Seats, Wanted, Outside
<1> QED BY <1>3, <1>4

\* Once all is handled, the registry knows whether the connection owns the name
\* of every claim somebody holds (handleServiceOwnerChange, handleRequestNameReply):
\* for adaptors that all carry flags, with releases that may time out.
THEOREM RegistryKnowsOwner ==
    ASSUME AllFlagged PROVE Spec => []OwnershipAgrees
<1>1. OwnInv /\ TypeOK => OwnershipAgrees
  BY OwnAtRest
<1>2. TypeOK /\ OwnInv /\ [Next]_vars => OwnInv'
  BY OwnNext
<1> QED BY <1>1, <1>2, TypeCorrect, OwnInit, PTL DEF Spec

\* A1: no name stays owned or queued at the daemon that no adaptor holds
\* (detach's release), under the same hypothesis.
THEOREM NoNameLeftBehind ==
    ASSUME AllFlagged PROVE Spec => []NoGhostOwner
<1>1. OwnInv /\ TypeOK => NoGhostOwner
  BY OwnAtRest
<1>2. TypeOK /\ OwnInv /\ [Next]_vars => OwnInv'
  BY OwnNext
<1> QED BY <1>1, <1>2, TypeCorrect, OwnInit, PTL DEF Spec
=============================================================================
