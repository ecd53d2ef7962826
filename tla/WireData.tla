------------------------------ MODULE WireData -------------------------------
(***************************************************************************)
(* What a delivery does with data, in the three places where a value of    *)
(* one side meets a signature of the other:                                *)
(*                                                                         *)
(*   decode   the arguments of a message, with the file descriptors in it  *)
(*            (src/dbusutils.cpp)                                          *)
(*   options  the trailing a{sv} of a call against the _options of its     *)
(*            handler (src/dbusadaptor.cpp)                                *)
(*   write    a value under a declared signature, into a message           *)
(*            (src/dbusconnection.cpp)                                     *)
(*                                                                         *)
(* A signature is a sequence of its characters.  Of a scalar only the C++  *)
(* type is kept, and of a text what it could be read as.  DBusQML.* typed  *)
(* wrappers, which are unwrapped first everywhere, are left out.           *)
(*                                                                         *)
(* An operator named X_Y is a faulty variant of X that a run's mutant puts *)
(* in the place of X; no definition uses it.                               *)
(***************************************************************************)
EXTENDS Naturals, Sequences, FiniteSets, SequencesExt

CONSTANTS MaxDepth,   \* nesting of a signature and of the walkers: 32
          MaxLength,  \* length of a signature: 255
          PoolSize,   \* signature slots in the process: 64
          FdLimit,    \* descriptors in one message
          QtTypes,    \* signatures Qt has a type for
          MapKeys,    \* the keys of maps, in order, each as a text
          Types,      \* the legal types, as trees, as long as the signatures parsed
          Jobs        \* what is decoded, filtered, written, parsed

ASSUME BoundsOfData == MaxDepth \in Nat /\ MaxLength \in Nat /\ PoolSize \in Nat /\ FdLimit \in Nat

VARIABLE job

-----------------------------------------------------------------------------
(* Values: a type, and the members of a container.  The value of a map     *)
(* under MapKeys[i] is its i-th member.                                    *)

Value(t, members) == [t |-> t, m |-> members]
Scalar(t) == Value(t, <<>>)
Null == Scalar("null")

Texts == {"word", "digits", "path", "signature", "empty"}
Numbers == {"int", "uint", "longlong", "ulonglong", "double"}

\* QVariant::toString, toList and toMap (external).
TextOf(v) == CASE v.t \in Texts -> v.t
               [] v.t \in Numbers -> "digits"
               [] v.t = "bool" -> "word"
               [] OTHER -> "empty"
ListOf(v) == IF v.t = "list" THEN v.m ELSE <<>>
MapOf(v) == IF v.t = "map" THEN v.m ELSE <<>>

-----------------------------------------------------------------------------
(* Signatures.                                                             *)

Fixed == {"y", "n", "q", "i", "u", "x", "t", "d"}
Basic == Fixed \cup {"b", "h", "s", "o", "g"}
Starts(sig, c) == sig # <<>> /\ sig[1] = c
IsDict(sig) == Len(sig) > 1 /\ sig[1] = "a" /\ sig[2] = "{"

\* The position that closes what opens at p, 0 if none does.
Count(sig, p, q, c) == Cardinality({i \in p .. q : sig[i] = c})
Closing(sig, p, open, close) ==
    LET closed == {q \in p .. Len(sig) : Count(sig, p, q, open) = Count(sig, p, q, close)} IN
    IF closed = {} THEN 0 ELSE CHOOSE q \in closed : \A r \in closed : q <= r

\* firstCompleteType: where the type that starts at p ends, 0 if it does not.
RECURSIVE CompleteType(_, _, _)
CompleteType(sig, p, depth) ==
    CASE p > Len(sig) \/ depth > MaxDepth -> 0
      [] p <= Len(sig) /\ depth <= MaxDepth ->
            CASE sig[p] \in Basic \cup {"v"} -> p
              [] sig[p] = "a" -> CompleteType(sig, p + 1, depth + 1)
              [] sig[p] = "(" -> Closing(sig, p, "(", ")")
              [] sig[p] = "{" -> Closing(sig, p, "{", "}")
              [] OTHER -> 0

\* The types in sig from p on; the last is empty when the rest is malformed.
RECURSIVE CompleteTypes(_, _)
CompleteTypes(sig, p) ==
    LET q == CompleteType(sig, p, 0) IN
    CASE p > Len(sig) -> <<>>
      [] p <= Len(sig) /\ q = 0 -> << <<>> >>
      [] OTHER -> <<SubSeq(sig, p, q)>> \o CompleteTypes(sig, q + 1)
Inner(sig) == SubSeq(sig, 2, Len(sig) - 1)
MemberTypes(sig) == CompleteTypes(Inner(sig), 1)
\* K and V of a{KV}; what may follow them is not looked at.
KeyAndValue(sig) ==
    LET q == CompleteType(sig, 3, 0)
        r == IF q = 0 THEN 0 ELSE CompleteType(sig, q + 1, 0)
    IN
    IF r = 0 THEN << <<>>, <<>> >> ELSE <<SubSeq(sig, 3, q), SubSeq(sig, q + 1, r)>>

\* validateTypeAt: the same with all the rules of the D-Bus specification.
RECURSIVE ValidTypeAt(_, _, _, _), ValidMembersAt(_, _, _, _)
ValidTypeAt(sig, p, arrays, structs) ==
    IF p > Len(sig) \/ arrays > MaxDepth \/ structs > MaxDepth THEN 0
    ELSE CASE sig[p] \in Basic \cup {"v"} -> p
           [] sig[p] = "a" /\ ~IsDict(SubSeq(sig, p, Len(sig))) ->
                 ValidTypeAt(sig, p + 1, arrays + 1, structs)
           [] sig[p] = "a" /\ IsDict(SubSeq(sig, p, Len(sig))) ->
                 LET r == IF p + 2 <= Len(sig) /\ sig[p + 2] \in Basic
                          THEN ValidTypeAt(sig, p + 3, arrays + 1, structs + 1) ELSE 0
                 IN IF r # 0 /\ r < Len(sig) /\ sig[r + 1] = "}" THEN r + 1 ELSE 0
           [] sig[p] = "(" /\ p < Len(sig) /\ sig[p + 1] # ")" ->
                 ValidMembersAt(sig, p + 1, arrays, structs + 1)
           [] OTHER -> 0
ValidMembersAt(sig, p, arrays, structs) ==
    IF p > Len(sig) THEN 0
    ELSE IF sig[p] = ")" THEN p
    ELSE LET q == ValidTypeAt(sig, p, arrays, structs) IN
         IF q = 0 THEN 0 ELSE ValidMembersAt(sig, q + 1, arrays, structs)

\* validateSignature, for one type.
ValidSignature(sig) ==
    /\ Len(sig) <= MaxLength
    /\ sig # <<>> /\ ValidTypeAt(sig, 1, 0, 0) = Len(sig)

-----------------------------------------------------------------------------
(* Options.                                                                *)

Accepted(v) == [ok |-> TRUE, v |-> v]
Rejected == [ok |-> FALSE, v |-> Null]

OptionSigKind(sig) ==
    CASE IsDict(sig) -> "map"
      [] ~IsDict(sig) /\ (Starts(sig, "a") \/ Starts(sig, "(")) -> "list"
      [] OTHER -> "scalar"
OptionValueKind(v) ==
    CASE v.t = "map" -> "map"
      [] v.t \in {"list", "bytes"} -> "list"
      [] OTHER -> "scalar"

\* What a number is delivered as; bytes and 16 bits are widened.
Widened(c) == CASE c \in {"y", "q", "u"} -> "uint"
                [] c \in {"n", "i"} -> "int"
                [] c = "x" -> "longlong"
                [] c = "t" -> "ulonglong"
                [] c = "d" -> "double"

CoerceScalarOption_Raw(sig, v) ==
    IF sig[1] \in Fixed /\ v.t # "digits" /\ v.t \notin Numbers THEN Rejected ELSE Accepted(v)
CoerceScalarOption(sig, v) ==
    CASE Len(sig) = 1 /\ sig[1] \in {"s", "o", "g"} -> Accepted(Scalar(TextOf(v)))
      [] sig = <<"b">> /\ v.t \in {"bool", "int", "uint"} \cup Texts -> Accepted(Scalar("bool"))
      [] sig = <<"h">> /\ v.t = "fd" -> Accepted(v)
      [] Len(sig) = 1 /\ sig[1] \in Fixed /\ v.t \in {"digits"} \cup Numbers ->
            Accepted(Scalar(Widened(sig[1])))
      [] OTHER -> Rejected

\* A wrong kind is refused before anything is coerced.
RECURSIVE CoerceOptionValue(_, _, _)
CoerceOptionValue(sig, v, depth) ==
    LET all(t, sigs, vs) ==
            LET rs == [i \in DOMAIN vs |-> CoerceOptionValue(sigs[i], vs[i], depth + 1)] IN
            IF \A i \in DOMAIN rs : rs[i].ok
            THEN Accepted(Value(t, [i \in DOMAIN rs |-> rs[i].v])) ELSE Rejected
        kv == KeyAndValue(sig)
        \* Keys are checked and stay text.
        keys == [i \in DOMAIN MapOf(v) |-> Scalar(MapKeys[i])]
    IN
    CASE depth > MaxDepth \/ v.t = "raw" -> Rejected
      [] depth <= MaxDepth /\ v.t = "variant" -> CoerceOptionValue(sig, v.m[1], depth)
      [] depth <= MaxDepth /\ v.t \notin {"raw", "variant"} ->
         CASE sig = <<"v">> -> Accepted(v)
           [] sig # <<"v">> /\ OptionValueKind(v) # OptionSigKind(sig) -> Rejected
           [] sig # <<"v">> /\ OptionValueKind(v) = OptionSigKind(sig) ->
              CASE OptionSigKind(sig) = "scalar" -> CoerceScalarOption(sig, v)
                [] IsDict(sig) ->
                      IF /\ kv[1] # <<>>
                         /\ \/ kv[1] = <<"s">>
                            \/ all("list", [i \in DOMAIN keys |-> kv[1]], keys).ok
                      THEN \* What is declared as variants is delivered untouched.
                           IF kv[2] = <<"v">> THEN Accepted(v)
                           ELSE all("map", [i \in DOMAIN v.m |-> kv[2]], v.m)
                      ELSE Rejected
                [] sig = <<"a", "y">> -> Accepted(Scalar("bytes"))
                [] Starts(sig, "(") ->
                      IF <<>> \notin ToSet(MemberTypes(sig)) /\ Len(MemberTypes(sig)) = Len(ListOf(v))
                      THEN all("list", MemberTypes(sig), ListOf(v)) ELSE Rejected
                [] OTHER -> all("list", [i \in DOMAIN ListOf(v) |-> Tail(sig)], ListOf(v))

\* The declared keys that are present, typed, or a refusal.
FilterOptions(whitelist, options) ==
    LET present == DOMAIN whitelist \cap DOMAIN options
        typed == [k \in present |-> CoerceOptionValue(whitelist[k], options[k], 0)]
    IN
    IF \A k \in present : typed[k].ok
    THEN [ok |-> TRUE, options |-> [k \in present |-> typed[k].v]]
    ELSE [ok |-> FALSE, options |-> <<>>]

-----------------------------------------------------------------------------
(* Writing.  First everything is made ready, then the message is touched.  *)

RECURSIVE HasClosedFd(_), WireMarshalable(_)
\* fdFailureIn.
HasClosedFd(v) == \/ v.t = "closedfd"
                  \/ v.t # "raw" /\ \E i \in DOMAIN v.m : HasClosedFd(v.m[i])
\* wireMarshalable, of what goes into a variant.
WireMarshalable(v) ==
    /\ v.t \notin {"closedfd", "object", "null"}
    /\ v.t # "raw" => \A i \in DOMAIN v.m : WireMarshalable(v.m[i])

\* produceBasic: can v be had as a value of that type?  Most can.
ProduceBasic(sig, v) ==
    /\ ~HasClosedFd(v)
    /\ sig = <<"o">> => TextOf(v) = "path"
    /\ sig = <<"g">> => TextOf(v) \in {"signature", "empty"}
    /\ sig = <<"h">> => v.t = "fd"

\* metaTypeForSignature and signatureSlotForSignature: pool is who has the
\* slots; a slot is for good.
MetaTypeKnown(sig, pool) == sig \in QtTypes \cup ToSet(pool)
MetaTypeForSignature(sig, pool) ==
    CASE MetaTypeKnown(sig, pool) -> [ok |-> TRUE, pool |-> pool]
      [] ~MetaTypeKnown(sig, pool) /\ ValidSignature(sig) /\ Len(pool) < PoolSize ->
            [ok |-> TRUE, pool |-> Append(pool, sig)]
      [] OTHER -> [ok |-> FALSE, pool |-> pool]

\* Staged: what is ready to be streamed, by member, and the slots by then.
Staged(ok, s, pool) == [ok |-> ok, s |-> s, pool |-> pool]
Unproducible(pool) == Staged(FALSE, <<>>, pool)

\* All the metatypes that a container is opened with.
MetaTypes(sigs, pool) ==
    FoldLeft(LAMBDA r, sig : IF r.ok THEN MetaTypeForSignature(sig, r.pool) ELSE r,
             [ok |-> TRUE, pool |-> pool], sigs)

RECURSIVE WriteProbe(_, _, _, _)
\* One after the other, until one cannot be produced.
ProbeAll(sigs, vs, depth, pool) ==
    FoldLeft(LAMBDA r, i :
                IF ~r.ok THEN r
                ELSE LET p == WriteProbe(sigs[i], vs[i], depth, r.pool) IN
                     Staged(p.ok, Append(r.s, p.s), p.pool),
             Staged(TRUE, <<>>, pool), [i \in DOMAIN sigs |-> i])
\* The entries of a map: the value is tried even when the key failed.
ProbeEntries(kv, vs, depth, pool) ==
    FoldLeft(LAMBDA r, i :
                IF ~r.ok THEN r
                ELSE LET key == WriteProbe(kv[1], Scalar(MapKeys[i]), depth, r.pool)
                         val == WriteProbe(kv[2], vs[i], depth, key.pool)
                     IN Staged(key.ok /\ val.ok, r.s \o <<key.s, val.s>>, val.pool),
             Staged(TRUE, <<>>, pool), [i \in DOMAIN vs |-> i])
WriteProbe(sig, v, depth, pool) ==
    LET members == [i \in DOMAIN MemberTypes(sig) |->
                       IF i \in DOMAIN ListOf(v) THEN ListOf(v)[i] ELSE Null]
        kv == KeyAndValue(sig)
        opened == IF IsDict(sig) THEN MetaTypes(kv, pool) ELSE MetaTypes(<<Tail(sig)>>, pool)
    IN
    CASE depth > MaxDepth -> Unproducible(pool)
      [] depth <= MaxDepth /\ Len(sig) = 1 /\ sig[1] \in Basic ->
            Staged(ProduceBasic(sig, v), <<>>, pool)
      [] depth <= MaxDepth /\ sig = <<"v">> -> Staged(WireMarshalable(v), <<>>, pool)
      [] depth <= MaxDepth /\ sig \in {<<"a", "y">>, <<"a", "s">>} -> Staged(TRUE, <<>>, pool)
      [] depth <= MaxDepth /\ Starts(sig, "(") ->
            \* Members that are missing are made up, surplus ones are dropped.
            IF MemberTypes(sig) = <<>> \/ <<>> \in ToSet(MemberTypes(sig))
            THEN Unproducible(pool)
            ELSE ProbeAll(MemberTypes(sig), members, depth + 1, pool)
      [] depth <= MaxDepth /\ Starts(sig, "a") /\ sig \notin {<<"a", "y">>, <<"a", "s">>} ->
            IF ~opened.ok THEN Unproducible(opened.pool)
            ELSE IF IsDict(sig)
            THEN ProbeEntries(kv, MapOf(v), depth + 1, opened.pool)
            ELSE ProbeAll([i \in DOMAIN ListOf(v) |-> Tail(sig)], ListOf(v), depth + 1, opened.pool)
      [] OTHER -> Unproducible(pool)

\* The stream: values, and containers opened with the metatypes of what is in them.
Put(sig) == [event |-> "put", of |-> <<sig>>]
Begin(sigs) == [event |-> "begin", of |-> sigs]
End == [event |-> "end", of |-> <<>>]
Opened(sigs, pool) ==
    Begin([i \in DOMAIN sigs |-> IF MetaTypeKnown(sigs[i], pool) THEN sigs[i] ELSE <<>>])

RECURSIVE AppendStaged(_, _, _)
AppendStaged(sig, s, pool) ==
    LET all(sigs) == FlattenSeq([i \in DOMAIN sigs |-> AppendStaged(sigs[i], s[i], pool)])
        kv == KeyAndValue(sig)
    IN
    CASE Len(sig) = 1 \/ sig \in {<<"a", "y">>, <<"a", "s">>} -> <<Put(sig)>>
      [] Starts(sig, "(") -> <<Begin(<<>>)>> \o all(MemberTypes(sig)) \o <<End>>
      [] IsDict(sig) ->
            <<Opened(kv, pool)>> \o all([i \in DOMAIN s |-> kv[2 - (i % 2)]]) \o <<End>>
      [] OTHER -> <<Opened(<<Tail(sig)>>, pool)>> \o all([i \in DOMAIN s |-> Tail(sig)]) \o <<End>>

\* writeBySignature.
WriteBySignature(sig, v, pool) ==
    LET r == WriteProbe(sig, v, 0, pool) IN
    IF ValidSignature(sig) /\ r.ok
    THEN [ok |-> TRUE, out |-> AppendStaged(sig, r.s, r.pool), pool |-> r.pool]
    ELSE [ok |-> FALSE, out |-> <<>>,
          pool |-> IF ValidSignature(sig) THEN r.pool ELSE pool]

-----------------------------------------------------------------------------
(* Decoding.  The arguments of a message are read one by one, each as a    *)
(* tree of what is on the wire:                                            *)
(*   plain              a basic value                                      *)
(*   bytes strings      ay and as, which Qt reads in one                   *)
(*   array dict struct  with their elements, values of entries, members    *)
(*   variant            with what is in it                                 *)
(*   fd nofd lostfd     a descriptor, a reference to none, one that cannot *)
(*                      be duplicated                                      *)
(*   broken             a value with a signature nobody reads              *)
(* A message that never was on the wire, a local call's, is decoded in the *)
(* same way.  receivedFds: is each open?  decoded holds the same ones.     *)

Decoding(message) ==
    [kind |-> "decode", message |-> message, rest |-> message, ok |-> TRUE,
     remainingFds |-> FdLimit, receivedFds |-> <<>>, liveFds |-> 0,
     decoded |-> <<>>, args |-> <<>>, state |-> "running"]

\* rollbackFds and failReceivedFd.
RollbackFds_LeavesOpen(d) == [d EXCEPT !.receivedFds = <<>>]
RollbackFds(d) ==
    [d EXCEPT !.receivedFds = <<>>,
              !.liveFds = @ - Cardinality({i \in DOMAIN d.receivedFds : d.receivedFds[i]})]
Fail(d) == [d EXCEPT !.ok = FALSE]

\* takeReceivedFd.
Received(d, open) ==
    [d EXCEPT !.remainingFds = @ - 1, !.receivedFds = Append(@, open),
              !.liveFds = IF open THEN @ + 1 ELSE @]

\* enterDecodeContainer: arrays and structs are counted anew in a variant,
\* everything together is not.
Outside == [arrays |-> 0, structs |-> 0, total |-> 0]
Entered(depth, c) ==
    [arrays |-> IF c = "v" THEN 0 ELSE IF c = "a" THEN depth.arrays + 1 ELSE depth.arrays,
     structs |-> IF c = "v" THEN 0 ELSE IF c = "(" THEN depth.structs + 1 ELSE depth.structs,
     total |-> depth.total + 1]
Allowed(depth) ==
    depth.arrays <= MaxDepth /\ depth.structs <= MaxDepth /\ depth.total <= 2 * MaxDepth

\* What a value opens.
Opens(w) == CASE w.t \in {"bytes", "strings", "array", "dict"} -> "a"
              [] w.t = "struct" -> "("
              [] w.t = "variant" -> "v"
              [] OTHER -> "-"

\* A value that was read, with the state of decoding by then.
Read(d, v) == [d |-> d, v |-> v]
Unread(d) == Read(d, Null)

\* readReceivedFd.
ReadReceivedFd(w, d) ==
    IF d.remainingFds = 0 \/ w.t = "lostfd" THEN Unread(Fail(RollbackFds(d)))
    ELSE Read(Received(d, w.t = "fd"), w)

\* readBySignature and unwrapDbus.
RECURSIVE ReadValue(_, _, _)
ReadAll(ws, d, depth) ==
    FoldLeft(LAMBDA r, w : IF ~r.d.ok THEN r
                           ELSE LET next == ReadValue(w, r.d, depth) IN
                                Read(next.d, Append(r.v, next.v)),
             Read(d, <<>>), ws)
ReadContainer(w, d, depth) ==
    LET entry == Entered(depth, "{")
        all == ReadAll(w.m, d, IF w.t = "dict" THEN entry ELSE depth)
    IN
    CASE w.t = "dict" /\ w.m # <<>> /\ ~Allowed(entry) -> Unread(Fail(d))
      [] w.t = "dict" /\ (w.m = <<>> \/ Allowed(entry)) -> Read(all.d, Value("map", all.v))
      [] w.t \in {"array", "struct"} -> Read(all.d, Value("list", all.v))
      [] w.t = "variant" -> ReadValue(w.m[1], d, depth)
      [] OTHER -> Read(d, w)
ReadValue(w, d, depth) ==
    CASE w.t = "plain" -> Read(d, w)
      [] w.t \in {"fd", "nofd", "lostfd"} -> ReadReceivedFd(w, d)
      [] w.t = "broken" -> Unread(Fail(d))
      [] OTHER -> LET inside == Entered(depth, Opens(w)) IN
                  IF Allowed(inside) THEN ReadContainer(w, d, inside) ELSE Unread(Fail(d))

\* decodeMessage, argument by argument.
DecodeArgument ==
    /\ job.kind = "decode" /\ job.state = "running" /\ job.rest # <<>>
    /\ LET r == ReadValue(Head(job.rest), job, Outside) IN
       \/ /\ r.d.ok
          /\ job' = [r.d EXCEPT !.rest = Tail(@), !.decoded = Append(@, r.v)]
       \/ /\ ~r.d.ok
          /\ job' = [RollbackFds(r.d) EXCEPT !.state = "failed"]

DecodeMessage ==
    /\ job.kind = "decode" /\ job.state = "running" /\ job.rest = <<>>
    /\ job' = [job EXCEPT !.state = "decoded", !.args = job.decoded]

-----------------------------------------------------------------------------
(* A job is decoded step by step, or is one of                             *)
(*   [kind |-> "parse", sig |-> a sequence of characters]                  *)
(*   [kind |-> "options", types |-> a type for each key, options |-> the   *)
(*    value of each key]                                                   *)
(*   [kind |-> "write", type |-> a type, v |-> a value, pool |-> slots]    *)
(* which the operators above answer in one.                                *)

Idle == [kind |-> "idle"]
JobInit == job \in Jobs \cup {Idle}
JobNext == DecodeArgument \/ DecodeMessage

-----------------------------------------------------------------------------
(* Reference: types as trees, apart from any parser.                       *)

Type(k, c, of) == [k |-> k, c |-> c, of |-> of]
One(c) == Type("one", c, <<>>)
ArrayOf(T) == Type("array", "-", <<T>>)
DictOf(K, V) == Type("dict", "-", <<K, V>>)
StructOf(Ts) == Type("struct", "-", Ts)

RECURSIVE Str(_), Nesting(_, _), Elements(_), Conforms(_, _), Carries(_, _), ReadsTo(_, _, _), RepeatsTo(_, _, _)
RECURSIVE Chains(_), Leaves(_), Mirrors(_, _)
Str(T) ==
    LET inner == FlattenSeq([i \in DOMAIN T.of |-> Str(T.of[i])]) IN
    CASE T.k = "one" -> <<T.c>>
      [] T.k = "array" -> <<"a">> \o inner
      [] T.k = "dict" -> <<"a", "{">> \o inner \o <<"}">>
      [] T.k = "struct" -> <<"(">> \o inner \o <<")">>

\* How deep containers of the kinds ks nest in T.
Nesting(T, ks) ==
    LET inner == {Nesting(T.of[i], ks) : i \in DOMAIN T.of} IN
    (IF T.k \in ks THEN 1 ELSE 0)
        + (IF inner = {} THEN 0 ELSE CHOOSE n \in inner : \A m \in inner : m <= n)
Depth(T) == Nesting(T, {"array", "dict", "struct"})

\* A type of the D-Bus specification.
Legal(T) == /\ Len(Str(T)) <= MaxLength
            /\ Nesting(T, {"array", "dict"}) <= MaxDepth
            /\ Nesting(T, {"struct", "dict"}) <= MaxDepth

\* The signatures that writing T may need a slot for.
Elements(T) ==
    LET own == CASE T.k = "array" -> {Str(T.of[1])}
                 [] T.k = "dict" -> {Str(T.of[1]), Str(T.of[2])}
                 [] OTHER -> {}
    IN own \cup UNION {Elements(T.of[i]) : i \in DOMAIN T.of}
HasRoom(T, pool) == Len(pool) + Cardinality(Elements(T) \ (QtTypes \cup ToSet(pool))) <= PoolSize

\* Is v, as it is, a value of T?
DeliveredAs(c) == CASE c \in {"s", "o", "g"} -> Texts
                    [] c = "b" -> {"bool"}
                    [] c = "h" -> {"fd"}
                    [] c \in Fixed -> {Widened(c)}
Conforms(T, v) ==
    CASE T = One("v") -> v.t \notin {"variant", "raw"}
      [] T.k = "one" /\ T.c # "v" -> v.t \in DeliveredAs(T.c)
      [] T = ArrayOf(One("y")) -> v.t = "bytes"
      [] T.k = "array" /\ T # ArrayOf(One("y")) ->
            v.t = "list" /\ \A i \in DOMAIN v.m : Conforms(T.of[1], v.m[i])
      [] T.k = "dict" ->
            v.t = "map" /\ \A i \in DOMAIN v.m :
                /\ T.of[1].c # "h" /\ (T.of[1].c \in Fixed => MapKeys[i] = "digits")
                /\ T.of[2] = One("v") \/ Conforms(T.of[2], v.m[i])
      [] T.k = "struct" ->
            /\ v.t = "list" /\ Len(v.m) = Len(T.of)
            /\ \A i \in DOMAIN v.m : Conforms(T.of[i], v.m[i])

\* Does v have what it takes: an open descriptor for each h, a path for each o?
Carries(T, v) ==
    CASE T.k = "one" -> /\ T.c = "h" => v.t = "fd"
                        /\ T.c = "o" => TextOf(v) = "path"
                        /\ ~HasClosedFd(v)
      [] Str(T) \in {<<"a", "y">>, <<"a", "s">>} -> TRUE
      [] T.k = "array" /\ Str(T) \notin {<<"a", "y">>, <<"a", "s">>} ->
            \A i \in DOMAIN ListOf(v) : Carries(T.of[1], ListOf(v)[i])
      [] T.k = "dict" -> \A i \in DOMAIN MapOf(v) : Carries(T.of[2], MapOf(v)[i])
      [] T.k = "struct" ->
            \A i \in DOMAIN T.of :
                Carries(T.of[i], IF i \in DOMAIN ListOf(v) THEN ListOf(v)[i] ELSE Null)

\* Where the value of T that starts at p in the stream ends, 0 if there is none.
ReadsTo(T, es, p) ==
    CASE p = 0 \/ p > Len(es) -> 0
      [] p \in DOMAIN es ->
         CASE T.k = "one" \/ Str(T) \in {<<"a", "y">>, <<"a", "s">>} ->
                 IF es[p] = Put(Str(T)) THEN p + 1 ELSE 0
           [] T.k = "struct" ->
                 LET q == IF es[p] = Begin(<<>>)
                          THEN FoldLeft(LAMBDA at, S : ReadsTo(S, es, at), p + 1, T.of) ELSE 0
                 IN IF q \in DOMAIN es /\ es[q] = End THEN q + 1 ELSE 0
           [] OTHER ->
                 IF es[p] = Begin([i \in DOMAIN T.of |-> Str(T.of[i])])
                 THEN RepeatsTo(T.of, es, p + 1) ELSE 0
RepeatsTo(Ts, es, p) ==
    CASE p = 0 \/ p > Len(es) -> 0
      [] p \in DOMAIN es ->
         IF es[p] = End THEN p + 1
         ELSE RepeatsTo(Ts, es, FoldLeft(LAMBDA at, S : ReadsTo(S, es, at), p, Ts))

\* The containers around each innermost part of what is on the wire.
Chains(w) ==
    LET open == IF Opens(w) = "-" THEN <<>> ELSE <<Opens(w)>> IN
    IF w.m = <<>> THEN {open}
    ELSE {open \o (IF w.t = "dict" THEN <<"{">> ELSE <<>>) \o c :
              c \in UNION {Chains(w.m[i]) : i \in DOMAIN w.m}}

\* A bus lets it through: no chain is too long, nor any part of it between variants.
Passes(w) ==
    \A c \in Chains(w) :
        /\ Len(c) <= 2 * MaxDepth
        /\ \A i, j \in DOMAIN c :
              (i <= j /\ Count(c, i, j, "v") = 0) =>
                  Count(c, i, j, "a") <= MaxDepth /\ Count(c, i, j, "(") <= MaxDepth

Leaves(w) == IF w.m = <<>> THEN <<w.t>> ELSE FlattenSeq([i \in DOMAIN w.m |-> Leaves(w.m[i])])
LeavesOf(ws) == FlattenSeq([i \in DOMAIN ws |-> Leaves(ws[i])])
Number(ws, ts) == Len(SelectSeq(LeavesOf(ws), LAMBDA t : t \in ts))

\* Is v what is in w, variants apart?
Mirrors(w, v) ==
    CASE w.t = "variant" -> Mirrors(w.m[1], v)
      [] w.t \in {"array", "struct", "dict"} ->
            /\ v.t = IF w.t = "dict" THEN "map" ELSE "list"
            /\ DOMAIN v.m = DOMAIN w.m
            /\ \A i \in DOMAIN w.m : Mirrors(w.m[i], v.m[i])
      [] OTHER -> v = w

-----------------------------------------------------------------------------
(* Properties.                                                             *)

\* The validator accepts what is the spelling of a type and nothing else, and
\* what it accepts the walkers take for one type.
Parsed(sig) ==
    /\ ValidSignature(sig) <=> \E T \in Types : Str(T) = sig /\ Legal(T)
    /\ ValidSignature(sig) => CompleteType(sig, 1, 0) = Len(sig)

\* Options that pass are typed as declared, key by key; what conforms passes
\* unchanged, so that a second pass changes nothing.
FilteredAsDeclared(types, options) ==
    LET whitelist == [k \in DOMAIN types |-> Str(types[k])]
        r == FilterOptions(whitelist, options)
        present == DOMAIN types \cap DOMAIN options
    IN
    /\ r.ok => /\ DOMAIN r.options = present
               /\ \A k \in present : Conforms(types[k], r.options[k])
               /\ FilterOptions(whitelist, r.options) = r
    /\ (\A k \in present : Conforms(types[k], options[k]) /\ Depth(types[k]) <= MaxDepth) =>
           r.ok /\ \A k \in present : r.options[k] = options[k]

\* A value is written whole, as its signature says, with every metatype in
\* place and every descriptor open, or not a byte of it; slots are never taken away or given twice.
WrittenAsDeclared(T, v, pool) ==
    LET r == WriteBySignature(Str(T), v, pool) IN
    /\ r.ok => Legal(T) /\ Carries(T, v) /\ ReadsTo(T, r.out, 1) = Len(r.out) + 1
    /\ ~r.ok => r.out = <<>>
    /\ IsPrefix(pool, r.pool) /\ Len(r.pool) <= PoolSize
    /\ \A i, j \in DOMAIN r.pool : r.pool[i] = r.pool[j] => i = j
    /\ (Conforms(T, v) /\ Depth(T) <= MaxDepth /\ HasRoom(T, pool)
          /\ \A c \in {"o", "g", "v"} : Count(Str(T), 1, Len(Str(T)), c) = 0) => r.ok

\* A message is decoded whole, if the bus lets it through and it is within its
\* budget of descriptors, or it is refused and leaves no descriptor open.
DecodedWhole(d) ==
    LET decodable == /\ \A i \in DOMAIN d.message : Passes(d.message[i])
                     /\ Number(d.message, {"broken", "lostfd"}) = 0
                     /\ Number(d.message, {"fd", "nofd"}) <= FdLimit
    IN
    /\ d.liveFds = Number(d.decoded, {"fd"}) * (IF d.state = "failed" THEN 0 ELSE 1)
    /\ d.state = "decoded" =>
          /\ decodable
          /\ Len(d.args) = Len(d.message)
          /\ \A i \in DOMAIN d.args : Mirrors(d.message[i], d.args[i])
    /\ d.state = "failed" => ~decodable /\ d.args = <<>>

\* What crosses between the bus and a handler is decoded, filtered and written
\* all or nothing, and as declared.
AllOrNothing ==
    CASE job.kind = "parse" -> Parsed(job.sig)
      [] job.kind = "options" -> FilteredAsDeclared(job.types, job.options)
      [] job.kind = "write" -> WrittenAsDeclared(job.type, job.v, job.pool)
      [] job.kind = "decode" -> DecodedWhole(job)
      [] OTHER -> TRUE
=============================================================================
