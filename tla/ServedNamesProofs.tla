-------------------------- MODULE ServedNamesProofs --------------------------
(***************************************************************************)
(* What introspection advertises is what answers (ServedNames), for every  *)
(* surface of an adaptor and all tables, in whatever order they are set.   *)
(***************************************************************************)
EXTENDS ServedNames, FiniteSetTheorems, WellFoundedInduction, TLAPS

Keys == ToSet(WireNames)
Tiers == {"method", "property", "signal"}

-----------------------------------------------------------------------------
(* The first of several, and the ladder of names.                          *)

LEMMA MinIsLeast ==
    ASSUME NEW hits \in SUBSET Nat, hits # {}
    PROVE  Min(hits) \in hits /\ \A j \in hits : Min(hits) <= j
<1>1. \E i \in hits : \A j \in hits : ~ (<<j, i>> \in OpToRel(<, Nat))
  BY NatLessThanWellFounded, WFMin
<1>2. \E i \in hits : \A j \in hits : i <= j
  <2>1. PICK i \in hits : \A j \in hits : ~ (<<j, i>> \in OpToRel(<, Nat))
    BY <1>1
  <2>2. ASSUME NEW j \in hits PROVE i <= j
    <3>1. ~(j < i)
      BY <2>1 DEF OpToRel
    <3> QED BY <3>1
  <2> QED BY <2>2
<1> QED BY <1>2 DEF Min

LEMMA FirstOfThem == ASSUME NEW names \in SUBSET Keys, names # {} PROVE FirstOf(names) \in names
<1> DEFINE hits == {i \in DOMAIN WireNames : WireNames[i] \in names}
<1>1. hits # {}
  BY DEF Keys, ToSet
<1>2. hits \in SUBSET Nat
  BY TablesAssumption
<1>3. Min(hits) \in hits
  BY <1>1, <1>2, MinIsLeast
<1> QED BY <1>3 DEF FirstOf

-----------------------------------------------------------------------------
(* Folds.                                                                  *)

LEMMA Letter == \A c : /\ Lower(Lower(c)) = Lower(c)
                       /\ ~IsUpper(c) => Lower(Upper(c)) = c
                       /\ IsUpper(c) => Upper(c) = c
                       /\ ~IsUpper(Lower(c))
                       /\ ~IsUpper(c) => Lower(c) = c
<1> SUFFICES ASSUME NEW c PROVE /\ Lower(Lower(c)) = Lower(c)
                                /\ ~IsUpper(c) => Lower(Upper(c)) = c
                                /\ IsUpper(c) => Upper(c) = c
                                /\ ~IsUpper(Lower(c))
                                /\ ~IsUpper(c) => Lower(c) = c
  OBVIOUS
<1>1. DOMAIN LowerCase = {"A", "B", "C"} /\ DOMAIN UpperCase = {"a", "b", "c"}
  BY DEF LowerCase, UpperCase
<1>2. CASE c \in {"A", "B", "C"}
  BY <1>1, <1>2 DEF LowerCase, UpperCase, Lower, Upper, IsUpper
<1>3. CASE c \in {"a", "b", "c"}
  BY <1>1, <1>3 DEF LowerCase, UpperCase, Lower, Upper, IsUpper
<1>4. CASE c \notin {"A", "B", "C"} \cup {"a", "b", "c"}
  BY <1>1, <1>4 DEF Lower, Upper, IsUpper
<1> QED BY <1>2, <1>3, <1>4

\* What has the places of a name is one.
LEMMA TextShape ==
    /\ \A name : IsText(name) => /\ Len(name) \in Nat /\ DOMAIN name = 1 .. Len(name)
                                 /\ name = [i \in DOMAIN name |-> name[i]]
    /\ \A n \in Nat : \A f : f = [i \in 1 .. n |-> f[i]] => IsText(f)
<1>1. \A n \in Nat : \A f : f = [i \in 1 .. n |-> f[i]] => IsText(f)
  <2> SUFFICES ASSUME NEW n \in Nat, NEW f, f = [i \in 1 .. n |-> f[i]] PROVE f \in Seq(ToSet(f))
    BY DEF IsText
  <2>1. DOMAIN f = 1 .. n
    OBVIOUS
  <2>2. \A i \in 1 .. n : f[i] \in ToSet(f)
    BY <2>1 DEF ToSet
  <2>3. f \in [1 .. n -> ToSet(f)]
    BY <2>2
  <2> QED BY <2>3
<1>2. \A name : IsText(name) => /\ Len(name) \in Nat /\ DOMAIN name = 1 .. Len(name)
                                /\ name = [i \in DOMAIN name |-> name[i]]
  BY DEF IsText
<1> QED BY <1>1, <1>2

\* Only the first letters are folded, the first in any case.
LEMMA FoldShape ==
    ASSUME NEW name, IsText(name), NEW runs \in BOOLEAN
    PROVE  \E n \in Nat : /\ n >= 1 /\ (~runs => n = 1)
                          /\ DbusFoldName(name, runs) =
                                [i \in DOMAIN name |-> IF i <= n THEN Lower(name[i]) ELSE name[i]]
<1>1. UpperRun(name) \in Nat
  <2>1. IsFiniteSet(DOMAIN name)
    <3>1. DOMAIN name = 1 .. Len(name) /\ Len(name) \in Nat
      BY TextShape
    <3> QED BY <3>1, FS_Interval
  <2>2. {k \in DOMAIN name : \A i \in 1 .. k : IsUpper(name[i])} \in SUBSET DOMAIN name
    OBVIOUS
  <2> QED BY <2>1, <2>2, FS_Subset, FS_CardinalityType DEF UpperRun
<1> PICK run \in Nat : run = UpperRun(name)
  BY <1>1
<1> DEFINE n == IF ~runs \/ run <= 1 THEN 1 ELSE IF run < Len(name) THEN run - 1 ELSE run
<1>2. n \in Nat /\ n >= 1 /\ (~runs => n = 1)
  OBVIOUS
<1>3. DbusFoldName(name, runs) = [i \in DOMAIN name |-> IF i <= n THEN Lower(name[i]) ELSE name[i]]
  BY DEF DbusFoldName
<1> HIDE DEF n
<1> QED BY <1>2, <1>3

LEMMA PlainFold ==
    ASSUME NEW name, IsText(name)
    PROVE  DbusFoldName(name, FALSE) = [i \in DOMAIN name |-> IF i <= 1 THEN Lower(name[i]) ELSE name[i]]
<1>1. PICK n \in Nat : /\ n >= 1 /\ (~FALSE => n = 1)
                       /\ DbusFoldName(name, FALSE) =
                             [i \in DOMAIN name |-> IF i <= n THEN Lower(name[i]) ELSE name[i]]
  BY FoldShape
<1>2. n = 1
  BY <1>1
<1> QED BY <1>1, <1>2

\* A fold of a name is its own plain fold.
LEMMA FoldedTwice ==
    ASSUME NEW name, IsText(name), NEW runs \in BOOLEAN
    PROVE  /\ IsText(DbusFoldName(name, runs))
           /\ DbusMemberToQml(DbusFoldName(name, runs)) = DbusFoldName(name, runs)
<1>1. PICK n \in Nat : /\ n >= 1 /\ (~runs => n = 1)
                       /\ DbusFoldName(name, runs) =
                             [i \in DOMAIN name |-> IF i <= n THEN Lower(name[i]) ELSE name[i]]
  BY FoldShape
<1> PICK f : f = DbusFoldName(name, runs)
  OBVIOUS
<1>2. DOMAIN name = 1 .. Len(name) /\ Len(name) \in Nat
  BY TextShape
<1>3. DOMAIN f = DOMAIN name /\ \A i \in DOMAIN name : f[i] = IF i <= n THEN Lower(name[i]) ELSE name[i]
  BY <1>1
<1>4. IsText(f)
  BY <1>1, <1>2, TextShape
<1>5. DbusFoldName(f, FALSE) = [i \in DOMAIN f |-> IF i <= 1 THEN Lower(f[i]) ELSE f[i]]
  BY <1>4, PlainFold
<1>6. \A i \in DOMAIN f : (IF i <= 1 THEN Lower(f[i]) ELSE f[i]) = f[i]
  <2> SUFFICES ASSUME NEW i \in DOMAIN f, i <= 1 PROVE Lower(f[i]) = f[i]
    OBVIOUS
  <2>1. f[i] = Lower(name[i])
    BY <1>1, <1>2, <1>3
  <2> QED BY <2>1, Letter
<1>7. f = [i \in DOMAIN f |-> f[i]]
  BY <1>1
<1> QED BY <1>4, <1>5, <1>6, <1>7 DEF DbusMemberToQml

\* The name on the wire that is a name with a capital folds back to it, or is
\* that name.
LEMMA CasedAndFolded ==
    ASSUME NEW name, IsName(name)
    PROVE  /\ IsText(WireCased(name))
           /\ WireCased(name) = name \/ DbusMemberToQml(WireCased(name)) = name
           /\ ~IsUpper(name[1]) => DbusMemberToQml(WireCased(name)) = name
<1> PICK w : w = WireCased(name)
  OBVIOUS
<1>1. /\ DOMAIN name = 1 .. Len(name) /\ Len(name) \in Nat
      /\ name = [i \in DOMAIN name |-> name[i]]
  BY TextShape DEF IsName
<1>2. w = [i \in DOMAIN name |-> IF i = 1 THEN Upper(name[i]) ELSE name[i]]
  BY DEF WireCased
<1>3. IsText(w)
  BY <1>1, <1>2, TextShape
<1>4. CASE IsUpper(name[1])
  <2>1. \A i \in DOMAIN name : (IF i = 1 THEN Upper(name[i]) ELSE name[i]) = name[i]
    BY <1>4, Letter
  <2>2. w = name
    BY <1>1, <1>2, <2>1
  <2> QED BY <1>3, <1>4, <2>2
<1>5. CASE ~IsUpper(name[1])
  <2>1. DbusFoldName(w, FALSE) = [i \in DOMAIN w |-> IF i <= 1 THEN Lower(w[i]) ELSE w[i]]
    BY <1>3, PlainFold
  <2>2. \A i \in DOMAIN name : (IF i <= 1 THEN Lower(w[i]) ELSE w[i]) = name[i]
    <3> SUFFICES ASSUME NEW i \in DOMAIN name PROVE (IF i <= 1 THEN Lower(w[i]) ELSE w[i]) = name[i]
      OBVIOUS
    <3>1. CASE i = 1
      BY <1>2, <1>5, <3>1, Letter
    <3>2. CASE i # 1
      BY <1>1, <1>2, <3>2
    <3> QED BY <3>1, <3>2
  <2>3. DOMAIN w = DOMAIN name
    BY <1>2
  <2>4. DbusFoldName(w, FALSE) = name
    BY <1>1, <2>1, <2>2, <2>3
  <2> QED BY <1>3, <2>4 DEF DbusMemberToQml
<1> QED BY <1>4, <1>5

-----------------------------------------------------------------------------
(* The invariant.                                                          *)

TypeInv ==
    /\ DOMAIN served = {"members", "aliases", "signals", "options", "catalog", "complete", "relays",
                        "renamed"}
    /\ served.members \in Surfaces
    /\ served.signals \in SUBSET Keys
    /\ served.catalog \in Catalogs
    /\ DOMAIN served.aliases \in SUBSET Keys
    /\ StripPrivateAliasTargets(served.aliases) = served.aliases

\* The relays have the names that introspection shows, and each option is one
\* for a method that takes arguments.  A name is spoken of as n, so that the
\* two can be said of the next state.
Emitted ==
    \A i \in DOMAIN served.relays :
        i \in Of("signal") /\ \A n \in {Name(i)} : served.relays[i] = AdvertisedName(n)
Ruled ==
    \A key \in served.options :
        \E i \in Of("method") : /\ served.members[i].takes
                                /\ \E n \in {Name(i)} : key \in {n, AdvertisedName(n)}

IInv == TypeInv /\ (served.complete /\ ~served.renamed => Emitted /\ Ruled)

LEMMA StrippedOnce ==
    ASSUME NEW a
    PROVE  LET b == StripPrivateAliasTargets(a)
           IN  /\ DOMAIN b \in SUBSET DOMAIN a
               /\ StripPrivateAliasTargets(b) = b
BY DEF StripPrivateAliasTargets

LEMMA MembersNamed ==
    ASSUME TypeInv, NEW i \in DOMAIN served.members
    PROVE  /\ i \in Nat /\ IsName(Name(i))
           /\ i \in Of("signal") => ~IsUpper(Name(i)[1])
BY SurfacesAssumption DEF TypeInv, Name, Of

\* Where each name comes from.
LEMMA Ladder ==
    ASSUME TypeInv, NEW name, IsName(name)
    PROVE  LET w == AdvertisedName(name) IN
           \/ w \in DOMAIN served.aliases /\ served.aliases[w] = name
           \/ w \in served.signals /\ (w = name \/ DbusMemberToQml(w) = name)
           \/ \E kind \in Tiers : w \in served.catalog[kind] /\ DbusMemberToQml(w) = name
           \/ /\ w = WireCased(name)
              /\ \A v \in served.signals \cup served.catalog["signal"] : DbusMemberToQml(v) # name
<1> DEFINE A == {w \in DOMAIN served.aliases : served.aliases[w] = name}
           S == {w \in served.signals : w = name \/ DbusMemberToQml(w) = name}
           D(kind) == {w \in served.catalog[kind] : DbusMemberToQml(w) = name}
<1>1. /\ A \in SUBSET Keys /\ S \in SUBSET Keys
      /\ \A kind \in Tiers : D(kind) \in SUBSET Keys
  BY TablesAssumption DEF TypeInv, Keys, Tiers
<1>2. AdvertisedName(name) =
        CASE A # {} -> FirstOf(A)
          [] A = {} /\ S # {} -> FirstOf(S)
          [] A = {} /\ S = {} ->
             CASE D("method") # {} -> FirstOf(D("method"))
               [] D("method") = {} /\ D("property") # {} -> FirstOf(D("property"))
               [] D("method") = {} /\ D("property") = {} /\ D("signal") # {} -> FirstOf(D("signal"))
               [] OTHER -> WireCased(name)
  BY DEF AdvertisedName
<1>3. CASE A # {}
  <2>1. AdvertisedName(name) = FirstOf(A)
    BY <1>2, <1>3
  <2> QED BY <1>1, <1>3, <2>1, FirstOfThem
<1>4. CASE A = {} /\ S # {}
  <2>1. AdvertisedName(name) = FirstOf(S)
    BY <1>2, <1>4
  <2> QED BY <1>1, <1>4, <2>1, FirstOfThem
<1>5. ASSUME A = {}, S = {}, NEW kind \in Tiers, D(kind) # {}, AdvertisedName(name) = FirstOf(D(kind))
      PROVE  AdvertisedName(name) \in served.catalog[kind] /\ DbusMemberToQml(AdvertisedName(name)) = name
  BY <1>1, <1>5, FirstOfThem
<1>6. CASE A = {} /\ S = {} /\ D("method") # {}
  <2>1. AdvertisedName(name) = FirstOf(D("method")) /\ "method" \in Tiers
    BY <1>2, <1>6 DEF Tiers
  <2> QED BY <1>5, <1>6, <2>1
<1>7. CASE A = {} /\ S = {} /\ D("method") = {} /\ D("property") # {}
  <2>1. AdvertisedName(name) = FirstOf(D("property")) /\ "property" \in Tiers
    BY <1>2, <1>7 DEF Tiers
  <2> QED BY <1>5, <1>7, <2>1
<1>8. CASE A = {} /\ S = {} /\ D("method") = {} /\ D("property") = {} /\ D("signal") # {}
  <2>1. AdvertisedName(name) = FirstOf(D("signal")) /\ "signal" \in Tiers
    BY <1>2, <1>8 DEF Tiers
  <2> QED BY <1>5, <1>8, <2>1
<1>9. CASE A = {} /\ S = {} /\ D("method") = {} /\ D("property") = {} /\ D("signal") = {}
  <2>1. AdvertisedName(name) = WireCased(name)
    BY <1>2, <1>9
  <2> QED BY <1>9, <2>1
<1> QED BY <1>3, <1>4, <1>6, <1>7, <1>8, <1>9

\* A member answers to the name it is advertised by.
LEMMA AnswersToIt ==
    ASSUME TypeInv, NEW i \in DOMAIN served.members
    PROVE  IsText(AdvertisedName(Name(i))) /\ Answers(i, AdvertisedName(Name(i)))
<1> PICK name, w : name = Name(i) /\ w = AdvertisedName(name)
  OBVIOUS
<1>1. IsName(name)
  BY MembersNamed
<1>2. \/ w \in DOMAIN served.aliases /\ served.aliases[w] = name
      \/ w \in served.signals /\ (w = name \/ DbusMemberToQml(w) = name)
      \/ \E kind \in Tiers : w \in served.catalog[kind] /\ DbusMemberToQml(w) = name
      \/ w = WireCased(name)
  BY <1>1, Ladder
<1>3. \A key \in Keys : IsText(key)
  BY TablesAssumption DEF Keys
<1>4. IsText(w)
  <2>1. \A kind \in Tiers : served.catalog[kind] \in SUBSET Keys
    BY TablesAssumption DEF TypeInv, Keys, Tiers
  <2> QED BY <1>1, <1>2, <1>3, <2>1, CasedAndFolded DEF TypeInv
<1>5. name \in CandidateQmlNames(w)
  BY <1>1, <1>2, CasedAndFolded DEF CandidateQmlNames, DbusMemberToQml
<1> QED BY <1>4, <1>5 DEF Answers

\* A member that answers to a name of another one has a fold in common with it.
LEMMA FoldsMeet ==
    ASSUME TypeInv, NEW i \in DOMAIN served.members, NEW j \in DOMAIN served.members,
           Answers(j, AdvertisedName(Name(i)))
    PROVE  Folds(i) \cap Folds(j) # {}
<1> PICK name, w, other : name = Name(i) /\ w = AdvertisedName(name) /\ other = Name(j)
  OBVIOUS
<1>1. IsText(w)
  BY AnswersToIt
<1>2. \A runs \in BOOLEAN : /\ DbusFoldName(w, runs) \in Folds(i)
                            /\ DbusFoldName(other, runs) \in Folds(j)
                            /\ w \in DOMAIN served.aliases /\ served.aliases[w] = other
                                   => DbusFoldName(w, runs) \in Folds(j)
  BY DEF Folds
<1>3. \/ other = w
      \/ \E runs \in BOOLEAN : other = DbusFoldName(w, runs)
      \/ w \in DOMAIN served.aliases /\ served.aliases[w] = other
      \/ DbusFoldName(other, TRUE) = DbusFoldName(w, TRUE)
  BY DEF Answers, CandidateQmlNames
<1>4. ASSUME NEW runs \in BOOLEAN, other = DbusFoldName(w, runs) PROVE Folds(i) \cap Folds(j) # {}
  <2>1. DbusFoldName(other, FALSE) = other
    BY <1>1, <1>4, FoldedTwice DEF DbusMemberToQml
  <2> QED BY <1>2, <1>4, <2>1
<1> QED BY <1>2, <1>3, <1>4

LEMMA SoleAnswer ==
    ASSUME TypeInv, NEW members \in SUBSET DOMAIN served.members, Apart(members), NEW i \in members
    PROVE  Resolved(members, AdvertisedName(Name(i))) = {i}
<1> PICK w : w = AdvertisedName(Name(i))
  OBVIOUS
<1> DEFINE found == {j \in members : Answers(j, w)}
<1>1. i \in found
  BY AnswersToIt
<1>2. \A j \in found : j = i
  BY FoldsMeet DEF Apart
<1>3. found = {i}
  BY <1>1, <1>2
<1>4. Min({i}) = i
  <2>1. i \in Nat
    BY MembersNamed
  <2> QED BY <2>1, MinIsLeast
<1> QED BY <1>3, <1>4 DEF Resolved

\* No relay emits under a name that introspection leaves out.
LEMMA RelaysShown ==
    ASSUME TypeInv, OneSpelling, NEW i \in Of("signal")
    PROVE  AdvertisedName(Name(i)) \in AdvertisedSignals
<1> PICK name, w : name = Name(i) /\ w = AdvertisedName(name)
  OBVIOUS
<1>1. i \in DOMAIN served.members /\ IsName(name) /\ ~IsUpper(name[1])
  BY MembersNamed DEF Of
<1>2. DOMAIN served.catalog = Tiers
  BY TablesAssumption DEF TypeInv, Tiers
<1> DEFINE Names == DOMAIN served.aliases \cup served.signals
                        \cup UNION {served.catalog[kind] : kind \in DOMAIN served.catalog}
           Own == {AdvertisedName(Name(x)) : x \in Of("signal")}
           Folded(names) == {DbusMemberToQml(v) : v \in names}
           More(names, than) == than \cup {v \in names : DbusMemberToQml(v) \notin Folded(than)}
           Tables == More(served.catalog["signal"], served.signals)
<1>3. AdvertisedSignals = More(Own, Tables)
  BY DEF AdvertisedSignals
<1>4. w \in Own
  OBVIOUS
<1>5. Tables \in SUBSET (served.signals \cup served.catalog["signal"]) /\ Tables \in SUBSET Names
  BY <1>2 DEF Tiers
<1>6. \A u, v \in Names : u # v => DbusMemberToQml(u) # DbusMemberToQml(v)
  BY DEF OneSpelling
<1>7. ASSUME NEW v \in Tables, DbusMemberToQml(v) = DbusMemberToQml(w) PROVE w \in Tables
  <2>1. CASE w \in Names
    BY <1>5, <1>6, <1>7, <2>1
  <2>2. CASE w = WireCased(name) /\ \A u \in served.signals \cup served.catalog["signal"] :
                DbusMemberToQml(u) # name
    <3>1. DbusMemberToQml(w) = name
      BY <1>1, <2>2, CasedAndFolded
    <3> QED BY <1>5, <1>7, <2>2, <3>1
  <2>3. \A kind \in Tiers : served.catalog[kind] \in SUBSET Names
    BY <1>2
  <2> QED BY <1>1, <2>1, <2>2, <2>3, Ladder
<1>8. w \in More(Own, Tables)
  <2>1. CASE \E v \in Tables : DbusMemberToQml(v) = DbusMemberToQml(w)
    BY <1>7, <2>1
  <2>2. CASE ~\E v \in Tables : DbusMemberToQml(v) = DbusMemberToQml(w)
    <3> HIDE DEF Tables, Own
    <3> QED BY <1>4, <2>2
  <2> QED BY <2>1, <2>2
<1> QED BY <1>3, <1>8

LEMMA ServedInside == ASSUME IInv PROVE ServedAsAdvertised
<1>1. TypeInv
  BY DEF IInv
<1>2. ASSUME NEW members \in {ServedMethods, ServedProperties}, NEW i \in members
      PROVE  /\ Answers(i, AdvertisedName(Name(i)))
             /\ Apart(members) => Resolved(members, AdvertisedName(Name(i))) = {i}
  <2>1. members \in SUBSET DOMAIN served.members
    BY DEF ServedMethods, ServedProperties, Of
  <2> QED BY <1>1, <2>1, AnswersToIt, SoleAnswer
<1>3. ASSUME served.complete, ~served.renamed, OneSpelling, NEW i \in DOMAIN served.relays
      PROVE  served.relays[i] \in AdvertisedSignals
  <2>1. i \in Of("signal") /\ served.relays[i] = AdvertisedName(Name(i))
    BY <1>3 DEF IInv, Emitted
  <2> QED BY <1>1, <1>3, <2>1, RelaysShown
<1>4. ASSUME served.complete, ~served.renamed, NEW key \in served.options
      PROVE  \E i \in Of("method") : /\ served.members[i].takes
                                     /\ {key, Name(i)} \cap OptionWhitelist(i) # {}
  <2>1. PICK i \in Of("method") : served.members[i].takes /\ key \in {Name(i), AdvertisedName(Name(i))}
    BY <1>4 DEF IInv, Ruled
  <2>2. {key, Name(i)} \cap OptionWhitelist(i) # {}
    BY <1>4, <2>1 DEF OptionWhitelist
  <2> QED BY <2>1, <2>2
<1> QED BY <1>2, <1>3, <1>4 DEF ServedAsAdvertised

-----------------------------------------------------------------------------
(* It is inductive.                                                        *)

\* What the names are worked out from is the same.
LEMMA SameNames ==
    ASSUME served'.members = served.members, served'.aliases = served.aliases,
           served'.signals = served.signals, served'.catalog = served.catalog
    PROVE  /\ \A i : Name(i)' = Name(i)
           /\ \A kind : Of(kind)' = Of(kind)
           /\ \A n : AdvertisedName(n)' = AdvertisedName(n)
<1> PICK m, a, s, c : m = served.members /\ a = served.aliases /\ s = served.signals /\ c = served.catalog
  OBVIOUS
<1>1. m = served'.members /\ a = served'.aliases /\ s = served'.signals /\ c = served'.catalog
  OBVIOUS
<1>2. \A i : Name(i)' = Name(i)
  BY DEF Name
<1>3. \A kind : Of(kind)' = Of(kind)
  BY DEF Of
<1>4. \A n : AdvertisedName(n)' = AdvertisedName(n)
  BY DEF AdvertisedName
<1> QED BY <1>2, <1>3, <1>4

LEMMA OptionsValid ==
    ASSUME TypeInv, NEW key \in ValidateOptionSpecs
    PROVE  \E i \in Of("method") : /\ served.members[i].takes
                                   /\ \E n \in {Name(i)} : key \in {n, AdvertisedName(n)}
<1> DEFINE named == {i \in Of("method") : key \in {Name(i), AdvertisedName(Name(i))}}
<1>1. named # {} /\ served.members[Min(named)].takes
  BY DEF ValidateOptionSpecs
<1>2. named \in SUBSET Nat
  BY MembersNamed DEF Of
<1>3. Min(named) \in named
  BY <1>1, <1>2, MinIsLeast
<1> QED BY <1>1, <1>3

LEMMA TablesStay ==
    ASSUME TypeInv, NEW to, Changed(to), to.complete = served.complete,
           DOMAIN to = DOMAIN served
    PROVE  ~(served'.complete /\ ~served'.renamed) /\ \A f \in DOMAIN served \ {"renamed"} : served'[f] = to[f]
           /\ DOMAIN served' = DOMAIN served
BY DEF Changed, TypeInv

LEMMA IInvNext == ASSUME IInv, [ServedNext]_served PROVE IInv'
<1>1. TypeInv
  BY DEF IInv
<1>2. CASE SetMemberAliases
  <2>1. PICK aliases \in AliasMaps : Changed([served EXCEPT !.aliases = StripPrivateAliasTargets(aliases)])
    BY <1>2 DEF SetMemberAliases
  <2> PICK b : b = StripPrivateAliasTargets(aliases)
    OBVIOUS
  <2>2. /\ ~(served'.complete /\ ~served'.renamed)
        /\ served' = [served EXCEPT !.aliases = b, !.renamed = served.complete]
    BY <1>1, <2>1 DEF Changed, TypeInv
  <2>3. DOMAIN b \in SUBSET Keys /\ StripPrivateAliasTargets(b) = b
    BY StrippedOnce, TablesAssumption DEF Keys
  <2> QED BY <1>1, <2>2, <2>3 DEF IInv, TypeInv
<1>3. CASE SetSignalSpecs
  <2>1. PICK signals \in SignalSpecs : Changed([served EXCEPT !.signals = signals])
    BY <1>3 DEF SetSignalSpecs
  <2>2. /\ ~(served'.complete /\ ~served'.renamed)
        /\ served' = [served EXCEPT !.signals = signals, !.renamed = served.complete]
    BY <1>1, <2>1 DEF Changed, TypeInv
  <2>3. signals \in SUBSET Keys
    BY TablesAssumption DEF Keys
  <2> QED BY <1>1, <2>2, <2>3 DEF IInv, TypeInv
<1>4. CASE SetOptionSpecs
  <2>1. PICK options \in OptionSpecs : Changed([served EXCEPT !.options = options])
    BY <1>4 DEF SetOptionSpecs
  <2>2. /\ ~(served'.complete /\ ~served'.renamed)
        /\ served' = [served EXCEPT !.options = options, !.renamed = served.complete]
    BY <1>1, <2>1 DEF Changed, TypeInv
  <2> QED BY <1>1, <2>2 DEF IInv, TypeInv
<1>5. CASE ReloadCatalog
  <2>1. PICK catalog \in Catalogs : Changed([served EXCEPT !.catalog = catalog])
    BY <1>5 DEF ReloadCatalog
  <2>2. /\ ~(served'.complete /\ ~served'.renamed)
        /\ served' = [served EXCEPT !.catalog = catalog, !.renamed = served.complete]
    BY <1>1, <2>1 DEF Changed, TypeInv
  <2> QED BY <1>1, <2>2 DEF IInv, TypeInv
<1>6. CASE ComponentCompletes
  <2>1. PICK rel, opts, a : /\ rel = [i \in Of("signal") |-> AdvertisedName(Name(i))]
                            /\ opts = ValidateOptionSpecs
                            /\ a = StripPrivateAliasTargets(served.aliases)
    OBVIOUS
  <2>2. served' = [served EXCEPT !.complete = TRUE, !.aliases = a, !.options = opts, !.relays = rel]
    BY <1>6, <2>1 DEF ComponentCompletes
  <2>3. a = served.aliases
    BY <1>1, <2>1 DEF TypeInv
  <2>4. /\ DOMAIN served' = DOMAIN served /\ served'.members = served.members
        /\ served'.aliases = served.aliases /\ served'.signals = served.signals
        /\ served'.catalog = served.catalog /\ served'.options = opts /\ served'.relays = rel
    BY <1>1, <2>2, <2>3 DEF TypeInv
  <2>5. TypeInv'
    BY <1>1, <2>4 DEF TypeInv
  <2>6. /\ \A i : Name(i)' = Name(i)
        /\ \A kind : Of(kind)' = Of(kind)
        /\ \A n : AdvertisedName(n)' = AdvertisedName(n)
    BY <2>4, SameNames
  <2>7. Emitted'
    <3> SUFFICES ASSUME NEW i \in DOMAIN served'.relays
                 PROVE  i \in Of("signal")' /\ \A n \in {Name(i)'} : served'.relays[i] = AdvertisedName(n)'
      BY DEF Emitted
    <3>1. i \in Of("signal") /\ \A n : n = Name(i) => served'.relays[i] = AdvertisedName(n)
      BY <2>1, <2>4
    <3> QED BY <2>6, <3>1
  <2>8. Ruled'
    <3> SUFFICES ASSUME NEW key \in served'.options
                 PROVE  \E i \in Of("method")' : /\ served'.members[i].takes
                                                 /\ \E n \in {Name(i)'} : key \in {n, AdvertisedName(n)'}
      BY DEF Ruled
    <3>1. PICK i \in Of("method") : /\ served.members[i].takes
                                    /\ \E n \in {Name(i)} : key \in {n, AdvertisedName(n)}
      BY <1>1, <2>1, <2>4, OptionsValid
    <3>2. PICK n \in {Name(i)} : key \in {n, AdvertisedName(n)}
      BY <3>1
    <3> QED BY <2>4, <2>6, <3>1, <3>2
  <2> QED BY <2>5, <2>7, <2>8 DEF IInv
<1>7. CASE UNCHANGED served
  <2>1. /\ \A i : Name(i)' = Name(i)
        /\ \A kind : Of(kind)' = Of(kind)
        /\ \A n : AdvertisedName(n)' = AdvertisedName(n)
    BY <1>7, SameNames
  <2> QED BY <1>7, <2>1 DEF IInv, TypeInv, Emitted, Ruled
<1> QED BY <1>2, <1>3, <1>4, <1>5, <1>6, <1>7 DEF ServedNext

LEMMA IInvAlways == ServedSpec => []IInv
<1>1. ServedInit => IInv
  <2> SUFFICES ASSUME ServedInit PROVE IInv
    OBVIOUS
  <2>1. PICK members \in Surfaces, catalog \in Catalogs :
            served = [members |-> members, aliases |-> <<>>, signals |-> {}, options |-> {},
                      catalog |-> catalog, complete |-> FALSE, relays |-> <<>>, renamed |-> FALSE]
    BY DEF ServedInit
  <2>2. DOMAIN served.aliases = {} /\ StripPrivateAliasTargets(served.aliases) = served.aliases
    BY <2>1 DEF StripPrivateAliasTargets
  <2> QED BY <2>1, <2>2 DEF IInv, TypeInv
<1> QED BY <1>1, IInvNext, PTL DEF ServedSpec

-----------------------------------------------------------------------------
(* The theorem.                                                            *)

\* Whatever _members, _signals, _options and the catalog are set to and when: a
\* method or property answers to the name introspection gives it, and is the
\* one that does unless names fold alike; and, if nothing was renamed since the
\* adaptor was completed, its signals go out under names that introspection
\* lists, unless the tables spell one name in two ways, and no option is kept
\* that rules nothing (advertisedName, candidateQmlNames, generateXml and
\* validateOptionSpecs in src/dbusadaptor.cpp).
THEOREM NamesAgree == ServedSpec => []ServedAsAdvertised
<1>1. IInv => ServedAsAdvertised
  BY ServedInside
<1> QED BY <1>1, IInvAlways, PTL
=============================================================================
