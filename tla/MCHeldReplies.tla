--------------------------- MODULE MCHeldReplies ----------------------------
(* Instances of Delivery for TLC.                                          *)
EXTENDS Delivery

\* Types of one letter, or of more.
TypesOf(cs) == {One(c) : c \in cs}

\* The types over "s" spelled with at most five characters, and some longer ones.
S == One("s")
T2 == {ArrayOf(S)}
T3 == {ArrayOf(T) : T \in T2} \cup {StructOf(<<S>>)}
T4 == {ArrayOf(T) : T \in T3} \cup {StructOf(<<S, S>>)} \cup {StructOf(<<T>>) : T \in T2}
T5 == {ArrayOf(T) : T \in T4} \cup {StructOf(<<T>>) : T \in T3} \cup {StructOf(<<S, S, S>>)}
          \cup {StructOf(<<S, T>>) : T \in T2} \cup {StructOf(<<T, S>>) : T \in T2}
          \cup {DictOf(S, S)}
Longer == {DictOf(One("i"), One("v")), DictOf(One("v"), S), DictOf(S, ArrayOf(S)),
           DictOf(ArrayOf(S), S), StructOf(<<StructOf(<<StructOf(<<S>>)>>)>>),
           ArrayOf(DictOf(S, S)), DictOf(S, DictOf(S, S)), StructOf(<<S, S, S, S, S, S>>)}
NoKeys == {DictOf(One("v"), S), DictOf(ArrayOf(S), S)}
MCTypes == {S} \cup T2 \cup T3 \cup T4 \cup T5 \cup (Longer \ NoKeys)

Letters == {"s", "a", "(", ")", "{", "}"}
Strings == UNION {[1 .. n -> Letters] : n \in 0 .. 5} \cup {Str(T) : T \in Longer}

Scalars == {Scalar(t) : t \in {"bool", "int", "word", "digits", "path", "fd", "closedfd",
                               "bytes", "raw", "object"}}
Some == {Scalar("int"), Scalar("word"), Scalar("fd"), Value("list", <<Scalar("word")>>)}
Few == {Scalar("digits"), Scalar("closedfd")}
Values == Scalars
    \cup {Value("variant", <<v>>) : v \in Some}
    \cup {Value(t, <<>>) : t \in {"list", "map"}}
    \cup {Value(t, <<v>>) : t \in {"list", "map"}, v \in Some \cup Few}
    \cup {Value(t, <<v, w>>) : t \in {"list", "map"}, v \in Some, w \in Some \cup Few}
    \cup {Value(t, <<Value(u, <<v>>)>>) :
              t \in {"list", "map"}, u \in {"list", "map"}, v \in Some}
    \cup {Value(t, <<v>>) : t \in {"list", "map"},
                           v \in {Scalar("raw"), Value("variant", <<Scalar("int")>>)}}
    \cup {Value("list", <<Value("list", <<Value("list", <<Scalar("word")>>)>>)>>)}

\* Types to filter and to write by.
Ones == TypesOf({"s", "b", "i", "h", "v", "o"})
Twos == {ArrayOf(T) : T \in Ones} \cup {ArrayOf(One("y"))}
            \cup {StructOf(<<T, U>>) : T \in TypesOf({"s", "h"}), U \in TypesOf({"i", "v"})}
            \cup {DictOf(K, T) : K \in TypesOf({"s", "i"}), T \in TypesOf({"i", "v"})}
Threes == {ArrayOf(T) : T \in Twos}
    \cup {DictOf(S, ArrayOf(T)) : T \in TypesOf({"s", "i"})}
    \cup {DictOf(S, DictOf(S, One("v"))), StructOf(<<ArrayOf(S), One("i")>>),
          ArrayOf(ArrayOf(ArrayOf(S))), StructOf(<<ArrayOf(ArrayOf(S)), ArrayOf(StructOf(<<S>>))>>)}

\* Two slots are left, or one, or none.
Pools == {<<>>, << <<"a", "b">> >>, << <<"a", "b">>, <<"a", "i">> >>, << <<"a", "b">>, <<"a", "h">> >>}

\* What is on the wire: nested, one in the other, up to one level too many;
\* side by side; and with descriptors.
Boxes == {"array", "dict", "struct", "variant"}
Leafs == {Scalar(t) : t \in {"plain", "bytes"}}
Within(ws) == {Value(k, <<w>>) : k \in Boxes, w \in ws}
W1 == Within(Leafs)
W2 == Within(W1)
W3 == Within(W2)
W4 == Within(W3)
W5 == Within({Value(k, <<w>>) : k \in {"dict", "variant"}, w \in W3})
Sided == {Value(k, <<v, w>>) : k \in Boxes \ {"variant"}, v \in W1 \cup W2, w \in W1 \cup W2}
Fds == {Scalar(t) : t \in {"plain", "fd", "nofd", "lostfd", "broken"}}
Shells == Fds \cup {Value(k, <<w>>) : k \in {"dict", "variant"}, w \in Fds}
              \cup {Value("array", <<v, w>>) : v \in Fds, w \in Fds}
Messages == {<<w>> : w \in Leafs \cup W1 \cup W2 \cup W3 \cup W4 \cup W5 \cup Sided}
                \cup {<<v, w>> : v \in Shells, w \in Shells}
                \cup {<<u, v, w>> : u \in Fds, v \in Fds, w \in Fds}
                \cup {<<>>} \cup {<<Value(k, <<>>)>> : k \in {"array", "dict"}}

MCJobs ==
    [kind : {"parse"}, sig : Strings]
    \cup [kind : {"options"}, types : [{1} -> Ones \cup Twos \cup Threes],
          options : [1 .. 1 -> Values]]
    \cup [kind : {"options"}, types : [{2} -> Ones] \cup [{1, 3} -> Ones] \cup [{1, 2} -> Ones],
          options : [1 .. 2 -> Some \cup Few]]
    \cup [kind : {"write"}, type : Ones \cup Twos \cup Threes, v : Values, pool : Pools]
    \cup {Decoding(message) : message \in Messages}

MCQtTypes == {<<c>> : c \in Basic \cup {"v"}}
                 \cup {<<"a", "s">>, <<"a", "y">>, <<"a", "{", "s", "v", "}">>}
MCMapKeys == <<"word", "digits">>

\* Names, and adaptors that serve some of them; "c" is a library mechanism.
ab == <<"a", "b">>
Ab == <<"A", "b">>
aB == <<"a", "B">>
AB == <<"A", "B">>
b == <<"b">>
Under == <<"_", "a">>
MCWireNames == <<AB, Ab, <<"B">>, aB, ab, b>>
MCMechanisms == {<<"c">>}

Method(name, takes) == [kind |-> "method", name |-> name, takes |-> takes]
Property(name) == [kind |-> "property", name |-> name]
Signal(name) == [kind |-> "signal", name |-> name]
MCSurfaces == {<<Method(ab, TRUE), Method(aB, TRUE), Property(b), Property(Under)>>,
               <<Method(AB, TRUE), Method(aB, FALSE), Method(<<"c">>, TRUE), Signal(ab)>>,
               <<Property(AB), Property(ab), Method(b, TRUE), Signal(aB)>>,
               <<Signal(aB), Signal(ab), Method(b, FALSE), Property(Under)>>}
MCAliasMaps == UNION {[W -> {ab, aB, Under}] : W \in {{}, {Ab}, {AB, <<"B">>}}}
MCSignalSpecs == {{}, {AB, <<"B">>}, {aB, ab}}
MCOptionSpecs == {{}, {ab, AB, b}}
MCCatalogs == {[method |-> ms, property |-> {}, signal |-> ss] :
                   ms \in {{}, {AB}}, ss \in {{}, {aB, ab}}}
=============================================================================
