----------------------------- MODULE ServedNames -----------------------------
(***************************************************************************)
(* The names under which an adaptor serves its QML members                 *)
(* (src/dbusadaptor.cpp): what introspection advertises, what an incoming  *)
(* name resolves to, what a signal is emitted as, and which options rule   *)
(* a method.  Each is worked out anew from three tables that may change    *)
(* while the adaptor is served, but for the names of the signals, which    *)
(* are fixed when it is completed.                                         *)
(*                                                                         *)
(* A name is a sequence of letters.  A member says its kind, its name and, *)
(* if it is a method, whether it takes arguments.  Types and access are    *)
(* left out, and signals with more than five parameters.                   *)
(*                                                                         *)
(* An operator named X_Y is a faulty variant of X that a run's mutant puts *)
(* in the place of X; no definition uses it.                               *)
(***************************************************************************)
EXTENDS Naturals, Sequences, FiniteSets, SequencesExt

CONSTANTS Surfaces,    \* the members of an adaptor, in the order of their declaration
          WireNames,   \* the keys of the tables, in order
          AliasMaps,   \* what _members may be set to: wire name -> QML name
          SignalSpecs, \* what _signals may be set to: its keys
          OptionSpecs, \* what _options may be set to: its keys
          Catalogs,    \* what the catalog may say of the interface: names by kind
          Mechanisms   \* holdReply, unregister, emitSignal, callerService

UpperCase == [a |-> "A", b |-> "B", c |-> "C"]
LowerCase == [A |-> "a", B |-> "b", C |-> "c"]
IsUpper(c) == c \in DOMAIN LowerCase
IsText(name) == name \in Seq(ToSet(name))
IsName(name) == IsText(name) /\ name # <<>>

\* QML has no signal whose name begins with a capital.
ASSUME SurfacesAssumption ==
    \A members \in Surfaces :
        /\ DOMAIN members \subseteq Nat
        /\ \A i \in DOMAIN members :
              /\ IsName(members[i].name)
              /\ members[i].kind = "signal" => ~IsUpper(members[i].name[1])
ASSUME TablesAssumption ==
    /\ DOMAIN WireNames \subseteq Nat
    /\ \A wire \in ToSet(WireNames) : IsText(wire)
    /\ \A aliases \in AliasMaps : DOMAIN aliases \subseteq ToSet(WireNames)
    /\ \A signals \in SignalSpecs : signals \subseteq ToSet(WireNames)
    /\ \A catalog \in Catalogs : /\ DOMAIN catalog = {"method", "property", "signal"}
                                 /\ \A kind \in DOMAIN catalog : catalog[kind] \subseteq ToSet(WireNames)

VARIABLE served

-----------------------------------------------------------------------------
(* Letters and folds.                                                      *)

Upper(c) == IF c \in DOMAIN UpperCase THEN UpperCase[c] ELSE c
Lower(c) == IF IsUpper(c) THEN LowerCase[c] ELSE c

UpperRun(name) ==
    Cardinality({k \in DOMAIN name : \A i \in 1 .. k : IsUpper(name[i])})

\* dbusFoldName: the first letter, or, collapsing runs, all of the capitals
\* that it begins with but the one that begins the next word.
DbusFoldName(name, collapseRuns) ==
    LET run == UpperRun(name)
        folded == IF ~collapseRuns \/ run <= 1 THEN 1
                  ELSE IF run < Len(name) THEN run - 1 ELSE run
    IN [i \in DOMAIN name |-> IF i <= folded THEN Lower(name[i]) ELSE name[i]]
DbusMemberToQml(name) == DbusFoldName(name, FALSE)

WireCased(name) == [i \in DOMAIN name |-> IF i = 1 THEN Upper(name[i]) ELSE name[i]]
IsPrivateProperty(name) == name # <<>> /\ name[1] = "_"

-----------------------------------------------------------------------------
(* What is served.  A member is told by its place in the declaration.      *)

Name(i) == served.members[i].name
Of(kind) == {i \in DOMAIN served.members : served.members[i].kind = kind}

\* servedProperties, and the methods that generateXml and dispatch go through.
ServedProperties == {i \in Of("property") : ~IsPrivateProperty(Name(i))}
ServedMethods == {i \in Of("method") : Name(i) \notin Mechanisms}

FirstOf(names) == WireNames[Min({i \in DOMAIN WireNames : WireNames[i] \in names})]

\* advertisedName: the naming ladder.
AdvertisedName_NoSignals(name) ==
    LET aliases == {w \in DOMAIN served.aliases : served.aliases[w] = name}
        specs == {w \in served.signals : w = name \/ DbusMemberToQml(w) = name}
        declared(kind) == {w \in served.catalog[kind] : DbusMemberToQml(w) = name}
    IN
    CASE aliases # {} -> FirstOf(aliases)
      [] aliases = {} /\ specs # {} -> FirstOf(specs)
      [] aliases = {} /\ specs = {} ->
         CASE declared("method") # {} -> FirstOf(declared("method"))
           [] declared("method") = {} /\ declared("property") # {} -> FirstOf(declared("property"))
           [] OTHER -> WireCased(name)
AdvertisedName(name) ==
    LET aliases == {w \in DOMAIN served.aliases : served.aliases[w] = name}
        specs == {w \in served.signals : w = name \/ DbusMemberToQml(w) = name}
        declared(kind) == {w \in served.catalog[kind] : DbusMemberToQml(w) = name}
    IN
    CASE aliases # {} -> FirstOf(aliases)
      [] aliases = {} /\ specs # {} -> FirstOf(specs)
      [] aliases = {} /\ specs = {} ->
         CASE declared("method") # {} -> FirstOf(declared("method"))
           [] declared("method") = {} /\ declared("property") # {} -> FirstOf(declared("property"))
           [] declared("method") = {} /\ declared("property") = {} /\ declared("signal") # {} ->
                 FirstOf(declared("signal"))
           [] OTHER -> WireCased(name)

\* candidateQmlNames.
CandidateQmlNames(wire) ==
    {wire, DbusFoldName(wire, FALSE), DbusFoldName(wire, TRUE)}
        \cup {served.aliases[w] : w \in {wire} \cap DOMAIN served.aliases}

\* Does this member answer to that name?  resolveServedProperty looks at the
\* client's fold of its own name too.
Answers(i, wire) ==
    \/ Name(i) \in CandidateQmlNames(wire)
    \/ i \in Of("property") /\ DbusFoldName(Name(i), TRUE) = DbusFoldName(wire, TRUE)

\* resolveServedProperty, and the method that handleMessage finds: the first
\* one declared, if there is one.
Resolved(members, wire) ==
    LET found == {i \in members : Answers(i, wire)} IN
    IF found = {} THEN {} ELSE {Min(found)}

\* The signals in generateXml: of each fold, the first that is declared in one
\* of the tables or, last, in QML.
AdvertisedSignals ==
    LET own == {AdvertisedName(Name(i)) : i \in Of("signal")}
        folds(names) == {DbusMemberToQml(w) : w \in names}
        more(names, than) == than \cup {w \in names : DbusMemberToQml(w) \notin folds(than)}
    IN more(own, more(served.catalog["signal"], served.signals))

\* optionWhitelist: the key of the entry that rules a method, its own name first.
OptionWhitelist(i) ==
    IF Name(i) \in served.options THEN {Name(i)}
    ELSE served.options \cap {AdvertisedName(Name(i))}

-----------------------------------------------------------------------------
(* The tables change.                                                      *)

\* stripPrivateAliasTargets.
StripPrivateAliasTargets(aliases) ==
    [w \in {x \in DOMAIN aliases : ~IsPrivateProperty(aliases[x])} |-> aliases[w]]

\* validateOptionSpecs: an entry stays if the first method that it names takes
\* arguments.
ValidateOptionSpecs ==
    {key \in served.options :
        LET named == {i \in Of("method") : key \in {Name(i), AdvertisedName(Name(i))}}
        IN named # {} /\ served.members[Min(named)].takes}

\* renamed is not in the code: has a table changed since completion?
NotServed == [members |-> <<>>, complete |-> FALSE]
ServedInit ==
    \E members \in Surfaces, catalog \in Catalogs :
        served = [members |-> members, aliases |-> <<>>, signals |-> {}, options |-> {},
                  catalog |-> catalog, complete |-> FALSE, relays |-> <<>>, renamed |-> FALSE]

Changed(to) == served' = [to EXCEPT !.renamed = served.complete]

SetMemberAliases == \E aliases \in AliasMaps :
    Changed([served EXCEPT !.aliases = StripPrivateAliasTargets(aliases)])
SetSignalSpecs == \E signals \in SignalSpecs : Changed([served EXCEPT !.signals = signals])
SetOptionSpecs == \E options \in OptionSpecs : Changed([served EXCEPT !.options = options])
ReloadCatalog == \E catalog \in Catalogs : Changed([served EXCEPT !.catalog = catalog])

\* componentComplete: each QML signal has a relay, with its name as it is now.
ComponentCompletes ==
    /\ ~served.complete
    /\ served' = [served EXCEPT
          !.complete = TRUE,
          !.aliases = StripPrivateAliasTargets(@),
          !.options = ValidateOptionSpecs,
          !.relays = [i \in Of("signal") |-> AdvertisedName(Name(i))]]

ServedNext == SetMemberAliases \/ SetSignalSpecs \/ SetOptionSpecs \/ ReloadCatalog
                  \/ ComponentCompletes

ServedSpec == ServedInit /\ [][ServedNext]_served

-----------------------------------------------------------------------------
(* Properties.                                                             *)

\* All names of a member, and what they fold to.
Folds(i) == {DbusFoldName(n, runs) : runs \in BOOLEAN, n \in
                 {Name(i), AdvertisedName(Name(i))}
                     \cup {w \in DOMAIN served.aliases : served.aliases[w] = Name(i)}}
Apart(members) == \A i, j \in members : i # j => Folds(i) \cap Folds(j) = {}

\* Do the names in the tables differ in more than the case of the first letter?
OneSpelling ==
    LET names == DOMAIN served.aliases \cup served.signals
                     \cup UNION {served.catalog[kind] : kind \in DOMAIN served.catalog}
    IN \A v, w \in names : v # w => DbusMemberToQml(v) # DbusMemberToQml(w)

\* What is advertised is what answers, whatever the tables are set to and when.
\* A method or property answers to the name that introspection gives it, and is
\* the one that does unless names fold alike; and as long as nothing was renamed
\* since the adaptor was completed, no option is kept that rules nothing, and
\* signals go out under names that introspection lists, unless the tables spell
\* one name in two ways.
ServedAsAdvertised ==
    /\ \A members \in {ServedMethods, ServedProperties} : \A i \in members :
           LET wire == AdvertisedName(Name(i)) IN
           Answers(i, wire) /\ (Apart(members) => Resolved(members, wire) = {i})
    /\ served.complete /\ ~served.renamed =>
           /\ OneSpelling => \A i \in DOMAIN served.relays : served.relays[i] \in AdvertisedSignals
           /\ \A key \in served.options :
                  \E i \in Of("method") : /\ served.members[i].takes
                                          /\ {key, Name(i)} \cap OptionWhitelist(i) # {}
=============================================================================
