----------------------------- MODULE MCCapability -----------------------------
(* Documents of two kinds: schemas that change from version to version, and *)
(* schemas whose types refer to each other in every way.                    *)
EXTENDS SchemaValidation, TLC

Concrete(type, min, max) == [Type |-> type, Ref |-> None, Min |-> min, Max |-> max, Values |-> {"on"}]
Small == Concrete("int", 1, 2)
Float == Concrete("float", None, 1)
Enum == Concrete("enum", None, None)
RefTo(n) == [Concrete("", None, None) EXCEPT !.Ref = n]

Version(a, b, zeros) == [nums |-> <<a, b, 0>>, zeros |-> zeros]
Document(name, version, definitions, properties, commands) ==
    [name |-> name, version |-> version, valid |-> TRUE, definitions |-> definitions,
     properties |-> properties, commands |-> commands]

Partial(S, T) == UNION {[D -> T] : D \in SUBSET S}

Evolving ==
    {Document("fan", v, <<>>, shape[1], shape[2]) :
        v \in {Version(1, 0, FALSE), Version(1, 1, FALSE), Version(1, 2, FALSE), Version(1, 1, TRUE),
               Version(2, 0, FALSE), Version(1, 8, FALSE)},
        shape \in {<<<<>>, <<>>>>, <<"p" :> Small, <<>>>>, <<"p" :> Float, "c" :> ("x" :> Small)>>,
                   <<"p" :> Float, "c" :> <<>>>>}}

Referring ==
    {Document("lamp", Version(2, 0, FALSE), defs, "p" :> RefTo("a"), <<>>) :
        defs \in Partial({"a", "b"}, {Enum, Float, RefTo("a"), RefTo("b"), RefTo("elsewhere")})}
    \cup {Document("lamp", Version(1, 0, FALSE), <<>>, "p" :> t, <<>>) :
            t \in {RefTo("elsewhere"), RefTo(None), Small, Concrete("int", -4, 4), Concrete("array", None, None), Concrete("bool", None, None)}}

MCDocuments == Evolving \cup Referring \cup {[valid |-> FALSE]}

MCValues == [kind : {"int"}, val : {-8, -5, -4, 0, 1, 2, 3, 4, 5, 6, 7}]
            \cup [kind : {"float"}, val : {-8, 0, 1, 2, 7, NaN}] \cup [kind : {"string"}, val : {"on", "off"}]
            \cup [kind : {"bool"}, val : BOOLEAN]

(* Two significant bits, ties to even.                                     *)
MCFloat64 == [n \in -8 .. 7 |-> IF n \in -4 .. 4 \/ n % 2 = 0 THEN n ELSE 4 * ((n + 2) \div 4)]

MCPublishers == {[Subject |-> r, Role |-> r, DeviceID |-> None] : r \in {"operator", "device"}}
==============================================================================
