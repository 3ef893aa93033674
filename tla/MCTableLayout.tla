---------------------------- MODULE MCTableLayout ----------------------------
(* Table entries for TLC: every sequence of up to three of the kinds of fields below, *)
(* with and without another message, and smaller ones for the other forms and types.  *)
EXTENDS TableLayout

F(cpp) == [name |-> "", kernel |-> FALSE, related |-> <<>>, repeated |-> FALSE,
           count |-> 0, cpp |-> cpp, ext |-> "", subs |-> <<>>]
Named(f, n) == [f EXCEPT !.name = n]
Repeated(f) == [f EXCEPT !.repeated = TRUE]
Times(f, n) == [f EXCEPT !.count = n]
Ext(f, e)   == [f EXCEPT !.ext = e]
Kernel(f)   == [f EXCEPT !.kernel = TRUE]
Key(t, p)   == [F("int64") EXCEPT !.related = <<t, p>>]
Tuple(s)    == [F("message") EXCEPT !.subs = s]

Int8   == Ext(F("int32"), "int8")
Pair   == Tuple(<<Named(Int8, "f1"), Named(Kernel(F("bool")), "x"), Named(Times(F("int64"), 2), "f2")>>)
Broken == Tuple(<<Named(F("bool"), "f1"), Named(F("int32"), "f2")>>)
Nested == Tuple(<<Named(Times(Pair, 2), "f1"), Named(Repeated(F("float")), "f2")>>)

Kinds == {F("int32"), Times(F("int64"), 2), Repeated(F("int32")), Int8,
          Ext(F("int32"), "other"), F("double"), F("string"), Ext(F("string"), "uniq_string"),
          Kernel(F("bool")), Pair, Times(Nested, 2), Broken, Repeated(Broken),
          Key("t1", <<"f1">>), Key("t2", <<"f2", "f1">>)}
Few   == {F("int32"), Pair, Repeated(Broken), Key("t1", <<"f1">>)}

Fields(K) == {<<>>} \cup {<<Named(a, "f1")>> : a \in K}
                   \cup {<<Named(a, "f1"), Named(b, "f2")>> : a, b \in K}
Fields3(K) == {Append(s, Named(c, "f3")) : s \in {t \in Fields(K) : Len(t) = 2}, c \in K}

Message(fs, named) == [named |-> named, fields |-> fs]
Other == Message(<<Named(F("float"), "f1"), Named(F("double"), "f4")>>, TRUE)
Base  == Message(<<Named(F("bool"), "f1")>>, FALSE)

Entry(form, type, attrs, proto, messages) ==
    [form |-> form, type |-> type, attrs |-> attrs, proto |-> proto, messages |-> messages]

StructureTables ==
    {Entry("json", "structure", [key |-> k], TRUE, ms) :
        k \in {"f1", "f3"},
        ms \in UNION {{<<Message(fs, TRUE)>>, <<Message(fs, TRUE), Base, Other>>} :
                         fs \in Fields(Kinds) \cup Fields3(Kinds)}}

OtherTables ==
    {Entry("json", type, attrs, proto, <<Message(fs, TRUE)>>) :
        type \in {"kv", "view", "graph", "structure"},
        attrs \in {<<>>, [key |-> "f1"]}, proto \in BOOLEAN, fs \in Fields(Few)}

XmlTables ==
    {Entry("xml", type, attrs, FALSE, <<Message(fs, TRUE)>>) :
        type \in {"kv", "kkv", "structure", "view", "graph"},
        attrs \in {<<>>, [key |-> "f1"], [key |-> "f1", value |-> "f2"],
                   [pkey |-> "f1", skey |-> "f2", value |-> "f3"]},
        fs \in Fields({F("int32")}) \cup Fields3({F("int32")})}

\* Single values, and arrays of up to three elements of one kind or of two.
ElemKinds == {"int", "int64", "real", "wide", "string", "object"}
Values ==
    {[array |-> FALSE, elems |-> <<e>>] : e \in ElemKinds}
    \cup {[array |-> TRUE, elems |-> s] :
             s \in {<<>>} \cup [1 .. 1 -> ElemKinds] \cup [1 .. 2 -> ElemKinds]
                  \cup {<<e, e, e>> : e \in ElemKinds}}

AllTables == StructureTables \cup OtherTables \cup XmlTables
=============================================================================
