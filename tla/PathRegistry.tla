---------------------------- MODULE PathRegistry ----------------------------
(***************************************************************************)
(* The path registry of one bus connection (src/dbuspathdispatcher.cpp):   *)
(* a dispatcher per served path, shared by the adaptors attached there; a  *)
(* dispatcher that captures its subtree is registered with QtDBus as       *)
(* SubPath and routes to the dispatchers beneath it from a table of its    *)
(* own; dispatchers appear at the first attach and go at the last detach.  *)
(*                                                                         *)
(* attach and detach run on one thread, so each is one action.  qt is      *)
(* QtDBus's tree of registered objects.  deleteLater() needs no state: a   *)
(* dispatcher leaves every table before it is called.                      *)
(*                                                                         *)
(* An operator named X_Y is a faulty variant of X that a run's mutant puts *)
(* in the place of X; no definition uses it.                               *)
(***************************************************************************)
EXTENDS Naturals, Sequences, FiniteSets, Functions

CONSTANTS Paths,     \* object paths
          Above,       \* the paths above each path, nearest first
          Adaptors,    \* adaptor slots: a destroyed one may be created again
          Iface,       \* the interface each adaptor serves
          LooksDeep,   \* does QtDBus look beneath the children of a path?
          NoPath       \* the place of an adaptor or a root that there is not

ASSUME PathsAssumption == NoPath \notin Paths /\ Above \in [Paths -> Seq(Paths)]
\* Paths are a tree: above an ancestor is what follows it in the list.
ASSUME AboveAssumption ==
    \A p \in Paths : \A i \in DOMAIN Above[p] :
        Above[Above[p][i]] = SubSeq(Above[p], i + 1, Len(Above[p]))
ASSUME IfaceAssumption == Iface \in [Adaptors -> STRING]
ASSUME LooksDeepAssumption == LooksDeep \in BOOLEAN

VARIABLES disp,      \* dispatchers(): the dispatcher of each path
          qt,        \* QtDBus's object tree
          at,        \* the path each adaptor is attached at
          refused    \* adaptors whose attach returned false

vars == <<disp, qt, at, refused>>

IsAbove(q, p) == q \in Range(Above[p])
Beneath(p) == {q \in Paths : IsAbove(p, q)}
Children(p) == {q \in Paths : Above[q] # <<>> /\ Above[q][1] = p}

\* The first in a list that satisfies a condition, by the indices that do.
FirstOf(hits) == CHOOSE i \in hits : \A j \in hits : i <= j

-----------------------------------------------------------------------------
(* Dispatchers.                                                            *)

Dispatcher == [exists : BOOLEAN, adaptors : Seq(Adaptors), captures : BOOLEAN,
               requestedCapture : BOOLEAN, capturedBy : Paths \cup {NoPath},
               children : SUBSET Paths]

NoDispatcher == [exists |-> FALSE, adaptors |-> <<>>, captures |-> FALSE,
                 requestedCapture |-> FALSE, capturedBy |-> NoPath, children |-> {}]

Capturing(q) == disp[q].exists /\ disp[q].captures

\* The nearest capturing dispatcher above p.
CapturingRoot(p) ==
    LET hits == {i \in DOMAIN Above[p] : Capturing(Above[p][i])}
    IN  IF hits = {} THEN NoPath ELSE Above[p][FirstOf(hits)]

-----------------------------------------------------------------------------
(* QtDBus's tree (external): registerVirtualObject refuses a path that is  *)
(* taken or lies beneath a SubPath object, and a SubPath above others.     *)

QtNode == {"free", "single", "subpath", "application"}

QtAccepts(p, capture) ==
    /\ qt[p] = "free"
    /\ \A q \in Range(Above[p]) : qt[q] # "subpath"
    /\ capture => \A q \in IF LooksDeep THEN Beneath(p) ELSE Children(p) : qt[q] = "free"

\* The registered path whose object gets a call to p: the first SubPath
\* object on the way down, or p itself.
Receiver(p) ==
    LET subpaths == {q \in Range(Above[p]) : qt[q] = "subpath"}
    IN  IF subpaths # {} THEN CHOOSE q \in subpaths : \A r \in subpaths : ~IsAbove(r, q)
        ELSE IF qt[p] # "free" THEN p ELSE NoPath

TypeOK ==
    /\ disp \in [Paths -> Dispatcher]
    /\ qt \in [Paths -> QtNode]
    /\ at \in [Adaptors -> Paths \cup {NoPath}]
    /\ refused \in SUBSET Adaptors

Init ==
    /\ disp = [p \in Paths |-> NoDispatcher]
    /\ qt = [p \in Paths |-> "free"]
    /\ at = [a \in Adaptors |-> NoPath]
    /\ refused = {}

-----------------------------------------------------------------------------
(* attach                                                                  *)

Unattached(a) == at[a] = NoPath /\ a \notin refused

Added(d, a) == [d EXCEPT !.adaptors = Append(@, a)]

NewDispatcher_RootAsFlag(capture, captures, root) ==
    [exists |-> TRUE, adaptors |-> <<>>, captures |-> captures,
     requestedCapture |-> root, capturedBy |-> root, children |-> {}]
NewDispatcher(capture, captures, root) ==
    [exists |-> TRUE, adaptors |-> <<>>, captures |-> captures,
     requestedCapture |-> capture, capturedBy |-> root, children |-> {}]

Refuse(a) ==
    /\ refused' = refused \cup {a}
    /\ UNCHANGED <<disp, qt, at>>

\* The path has a dispatcher: its adaptors must agree on captureSubtree.
AttachShared(a, p, capture) ==
    /\ Unattached(a)
    /\ disp[p].exists
    /\ capture = disp[p].requestedCapture
    /\ disp' = [disp EXCEPT ![p] = Added(@, a)]
    /\ at' = [at EXCEPT ![a] = p]
    /\ UNCHANGED <<qt, refused>>

AttachMismatched(a, p, capture) ==
    /\ Unattached(a)
    /\ disp[p].exists
    /\ capture # disp[p].requestedCapture
    /\ Refuse(a)

\* A capturing dispatcher above takes the new one; its own capture is ignored.
AttachCaptured_Unlisted(a, p, capture) ==
    LET root == CapturingRoot(p) IN
    /\ Unattached(a)
    /\ ~disp[p].exists
    /\ root # NoPath
    /\ disp' = [disp EXCEPT ![p] = Added(NewDispatcher(capture, FALSE, root), a)]
    /\ at' = [at EXCEPT ![a] = p]
    /\ UNCHANGED <<qt, refused>>
AttachCaptured(a, p, capture) ==
    LET root == CapturingRoot(p) IN
    /\ Unattached(a)
    /\ ~disp[p].exists
    /\ root # NoPath
    /\ disp' = [disp EXCEPT ![p] = Added(NewDispatcher(capture, FALSE, root), a),
                            ![root].children = @ \cup {p}]
    /\ at' = [at EXCEPT ![a] = p]
    /\ UNCHANGED <<qt, refused>>

AttachRoot(a, p, capture) ==
    /\ Unattached(a)
    /\ ~disp[p].exists
    /\ CapturingRoot(p) = NoPath
    /\ QtAccepts(p, capture)
    /\ disp' = [disp EXCEPT ![p] = Added(NewDispatcher(capture, capture, NoPath), a)]
    /\ qt' = [qt EXCEPT ![p] = IF capture THEN "subpath" ELSE "single"]
    /\ at' = [at EXCEPT ![a] = p]
    /\ UNCHANGED refused

AttachRejected(a, p, capture) ==
    /\ Unattached(a)
    /\ ~disp[p].exists
    /\ CapturingRoot(p) = NoPath
    /\ ~QtAccepts(p, capture)
    /\ Refuse(a)

-----------------------------------------------------------------------------
(* detach                                                                  *)

\* The list without the first entry of a.
Without(s, a) ==
    LET i == FirstOf({j \in DOMAIN s : s[j] = a})
    IN  [j \in 1 .. Len(s) - 1 |-> IF j < i THEN s[j] ELSE s[j + 1]]

\* The dispatchers that go with p's last adaptor: p, unless it still routes to
\* captured ones, and the root that captured p when nothing is left of it.
Dying_KeepsRoot(p) ==
    IF disp[p].capturedBy # NoPath THEN {p}
    ELSE IF disp[p].children # {} THEN {} ELSE {p}
Dying(p) ==
    LET root == disp[p].capturedBy IN
    IF root # NoPath
    THEN IF disp[root].adaptors = <<>> /\ disp[root].children = {p} THEN {p, root} ELSE {p}
    ELSE IF disp[p].children # {} THEN {} ELSE {p}

Detach(a) ==
    LET p == at[a]
        left == Without(disp[p].adaptors, a)
        dying == IF left = <<>> THEN Dying(p) ELSE {}
    IN
    /\ p # NoPath
    /\ disp' = [q \in Paths |->
                   IF q \in dying THEN NoDispatcher
                   ELSE IF q = p THEN [disp[q] EXCEPT !.adaptors = left]
                   ELSE IF q = disp[p].capturedBy THEN [disp[q] EXCEPT !.children = @ \ dying]
                   ELSE disp[q]]
    /\ qt' = [q \in Paths |->
                 IF q \in dying /\ disp[q].capturedBy = NoPath THEN "free" ELSE qt[q]]
    /\ at' = [at EXCEPT ![a] = NoPath]
    /\ UNCHANGED refused

DestroyRefused(a) ==
    /\ a \in refused
    /\ refused' = refused \ {a}
    /\ UNCHANGED <<disp, qt, at>>

\* The application registers objects of its own with QtDBus (external).
ApplicationRegisters(p) ==
    /\ QtAccepts(p, FALSE)
    /\ qt' = [qt EXCEPT ![p] = "application"]
    /\ UNCHANGED <<disp, at, refused>>

ApplicationUnregisters(p) ==
    /\ qt[p] = "application"
    /\ qt' = [qt EXCEPT ![p] = "free"]
    /\ UNCHANGED <<disp, at, refused>>

Attach == \E a \in Adaptors, p \in Paths, capture \in BOOLEAN :
             \/ AttachShared(a, p, capture)
             \/ AttachMismatched(a, p, capture)
             \/ AttachCaptured(a, p, capture)
             \/ AttachRoot(a, p, capture)
             \/ AttachRejected(a, p, capture)

Application == \E p \in Paths : ApplicationRegisters(p) \/ ApplicationUnregisters(p)

Next == \/ Attach
        \/ \E a \in Adaptors : Detach(a) \/ DestroyRefused(a)
        \/ Application

Spec == Init /\ [][Next]_vars

-----------------------------------------------------------------------------
(* Calls.  Every adaptor serves the member "call" of its interface.        *)

Introspectable == "org.freedesktop.DBus.Introspectable"
Properties == "org.freedesktop.DBus.Properties"
AnyIface == ""

\* about: the interface a call of Properties names as its first argument.
Calls == LET ifaces == {Iface[a] : a \in Adaptors} \cup {"unserved"} IN
         [iface : ifaces \cup {AnyIface}, member : {"call", "other"}, about : {AnyIface}]
         \cup [iface : {AnyIface}, member : {"Introspect", "Get"}, about : {AnyIface}]
         \cup [iface : {Introspectable}, member : {"Introspect", "other"}, about : {AnyIface}]
         \cup [iface : {Properties}, member : {"Get", "other"}, about : ifaces \cup {AnyIface}]

By(a, kind) == [by |-> a, kind |-> kind]
Error(name) == [by |-> "library", kind |-> name]
QtAnswers == [by |-> "QtDBus", kind |-> "reply"]
Declined == [by |-> "nobody", kind |-> "declined"]

\* DBusAdaptor::handleMessage, up to whether it answers.
AdaptorAnswer(a, m) ==
    IF m.iface = Introspectable THEN Declined
    ELSE IF m.iface = Properties
    THEN IF m.about \notin {AnyIface, Iface[a]} THEN By(a, "InvalidArgs")
         ELSE IF m.member = "Get" THEN By(a, "reply") ELSE Declined
    ELSE IF m.member = "call" THEN By(a, "reply") ELSE Declined

FirstServing(s, iface) == {i \in DOMAIN s : Iface[s[i]] = iface}

\* The adaptors in turn, until one answers.
InTurn(s, m) ==
    LET hits == {i \in DOMAIN s : AdaptorAnswer(s[i], m) # Declined}
    IN  IF hits = {} THEN Declined ELSE AdaptorAnswer(s[FirstOf(hits)], m)

\* routeToAdaptors
RouteToAdaptors_NoMiss(s, m) ==
    IF m.iface \in {Introspectable, AnyIface, Properties} THEN InTurn(s, m)
    ELSE IF FirstServing(s, m.iface) # {} THEN AdaptorAnswer(s[FirstOf(FirstServing(s, m.iface))], m)
    ELSE Declined
RouteToAdaptors(s, m) ==
    CASE m.iface = Introspectable -> Declined
      [] m.iface = Properties /\ m.about # AnyIface ->
            IF s = <<>> THEN Declined
            ELSE IF FirstServing(s, m.about) # {}
            THEN AdaptorAnswer(s[FirstOf(FirstServing(s, m.about))], m)
            ELSE AdaptorAnswer(s[1], m)
      [] m.iface \in {Properties, AnyIface} /\ m.about = AnyIface -> InTurn(s, m)
      [] OTHER ->
            IF FirstServing(s, m.iface) = {} THEN Declined
            ELSE LET answer == AdaptorAnswer(s[FirstOf(FirstServing(s, m.iface))], m)
                 IN  IF answer = Declined THEN Error("UnknownMethod") ELSE answer

qtInternalFiltersHandle(m) ==
    \/ m.iface \in {Introspectable, Properties}
    \/ m.iface = AnyIface /\ m.member \in {"Introspect", "Get"}

\* QtDBus, when the object at the exact path declines a call (external).
QtExactPath(m) ==
    IF qtInternalFiltersHandle(m) THEN QtAnswers
    ELSE IF m.iface = AnyIface THEN Error("UnknownMethod") ELSE Error("UnknownInterface")

\* A captured dispatcher that declined: QtDBus would take the path for absent.
ChildFallback_Declines(m) == Error("UnknownObject")
ChildFallback(m) ==
    IF qtInternalFiltersHandle(m) THEN QtAnswers
    ELSE IF m.iface = AnyIface THEN Error("UnknownMethod") ELSE Error("UnknownInterface")

\* handleMessage of the dispatcher at root, with what QtDBus adds.
DispatcherAnswer(root, p, m) ==
    IF p = root
    THEN LET answer == RouteToAdaptors(disp[root].adaptors, m)
         IN  IF answer = Declined THEN QtExactPath(m) ELSE answer
    ELSE IF p \in disp[root].children
    THEN LET answer == RouteToAdaptors(disp[p].adaptors, m)
         IN  IF answer = Declined THEN ChildFallback(m) ELSE answer
    ELSE IF m.iface = Introspectable THEN QtAnswers
    ELSE Error("UnknownObject")

Answer(p, m) ==
    LET r == Receiver(p) IN
    IF r = NoPath THEN Error("UnknownObject")
    ELSE IF qt[r] = "application" THEN [by |-> "application", kind |-> "reply"]
    ELSE DispatcherAnswer(r, p, m)

\* interfacesXml: each interface once, for its first adaptor.
Advertised(s) == {s[i] : i \in {j \in DOMAIN s : \A k \in 1 .. j - 1 : Iface[s[k]] # Iface[s[j]]}}

\* introspect: the nodes it names right beneath p.
NodesBeneath_Children(root, p) == Children(p) \cap disp[root].children
NodesBeneath(root, p) ==
    {q \in Children(p) : \E c \in disp[root].children : c = q \/ IsAbove(q, c)}

-----------------------------------------------------------------------------
(* Properties.                                                             *)

\* The two sides of a capture agree: a captured dispatcher's root is alive,
\* captures and lists it, and a root lists only what it captured.
CaptureAgrees ==
    \A p, r \in Paths :
        (disp[p].exists /\ disp[p].capturedBy = r) <=> (Capturing(r) /\ p \in disp[r].children)

\* A dispatcher lives exactly as long as somebody needs it, and QtDBus holds
\* exactly the live roots.
NothingLeaks ==
    \A p \in Paths :
        /\ disp[p].exists <=> (\E a \in Adaptors : at[a] = p) \/ disp[p].children # {}
        /\ qt[p] \in {"single", "subpath"} <=> disp[p].exists /\ disp[p].capturedBy = NoPath

\* What a call to a served path gets back depends on the adaptors attached
\* there alone, captured or not: a captured child answers as a plain adaptor.
AnswersAsPlain ==
    \A p \in Paths : (\E a \in Adaptors : at[a] = p) =>
        LET s == disp[p].adaptors IN
        /\ Range(s) = {a \in Adaptors : at[a] = p}
        /\ \A m \in Calls :
              Answer(p, m) = LET answer == RouteToAdaptors(s, m)
                             IN  IF answer = Declined THEN QtExactPath(m) ELSE answer

\* Every call of an advertised interface is the library's to answer, by the
\* adaptor introspection describes or for want of the member, never for want
\* of the interface.
AdvertisedIsServed ==
    \A p \in Paths, m \in Calls :
        LET s == disp[p].adaptors IN
        \A a \in Advertised(s) : Iface[a] = m.iface =>
            Answer(p, m) \in {By(a, "reply"), Error("UnknownMethod")}

\* From a capturing root, introspection leads to every path it captured.
Discoverable ==
    \A r \in Paths : Capturing(r) =>
        \A c \in disp[r].children : \A q \in {c} \cup {x \in Range(Above[c]) : IsAbove(r, x)} :
            q \in NodesBeneath(r, Above[q][1])
=============================================================================
