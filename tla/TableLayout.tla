----------------------------- MODULE TableLayout -----------------------------
(***************************************************************************)
(* kernel/manager/table_info: from a table's entry in the data config and  *)
(* its proto file to the layout of its rows.                               *)
(*                                                                         *)
(* CreateTableInfo chooses the class of the table, ParseTableConfig goes   *)
(* over the fields of every message that carries a table name and gives    *)
(* each its place in the row (ParseFieldDesc, FieldInfo), and a structure  *)
(* table checks at the end that its key is one of the fields.  One action  *)
(* is one turn of the field loop.                                          *)
(*                                                                         *)
(* The older XML entries name more fields, by the type of the table; the   *)
(* parsing of their <descriptor> is declared and not defined in the        *)
(* repository, and here any outcome.                                       *)
(***************************************************************************)
EXTENDS Integers, Sequences, FiniteSets, Functions, SequencesExt

CONSTANTS Tables, \* table entries: [form, type, attrs, proto, messages]
          Jsons   \* JSON values that a row may bring for a field: [array, elems]

\* form is "json" or "xml", attrs the attributes of the entry that name fields.
\* A message: [named, fields].  A field: [name, kernel, related, repeated, count, cpp,
\* ext, subs]; related is <<>> or <<table, path of the key>>, subs the fields of the
\* message type when cpp is "message".
\* The elements of a JSON value (one, when it is not an array) are "int" for a number that
\* fits 32 bits, "int64", "real" for one that fits a float, "wide", "string" or "object".

VARIABLES table,    \* the entry that is parsed
          pc,       \* "create", "config", "fields", "check", "done"
          result,   \* "none", then "ok", "fail", or "abort" of rapidjson
          descs,    \* descriptor_
          m, i,     \* the loop variables, from 1
          total,    \* total_size
          fields,   \* field_desc_: field name -> its info
          related   \* related_field_map_: table -> path of the field

vars == <<table, pc, result, descs, m, i, total, fields, related>>

-----------------------------------------------------------------------------
(* FieldInfo *)

\* The string constants of field_info.cc; the proto option says "uniq_string".
TypeNames == {"int8", "int16", "int32", "int64", "float", "double", "string",
              "unig_string", "tuple"}
GetFieldType(name) == IF name \in TypeNames THEN name ELSE "unknown"

BasicSize == [int8 |-> 1, int16 |-> 2, int32 |-> 4, int64 |-> 8, float |-> 4,
              double |-> 8, string |-> 8, unig_string |-> 8, unknown |-> -1]

RECURSIVE GetFieldSize(_), GetFieldElementSize(_)

\* A repeated field is an 8-byte reference, whatever its elements are.
GetFieldSize(info) ==
    IF info.count = 0 THEN 8
    ELSE LET e == GetFieldElementSize(info) IN IF e < 0 THEN -1 ELSE e * info.count

GetFieldElementSize(info) ==
    IF info.type # "tuple" THEN BasicSize[info.type]
    ELSE LET sizes == [n \in DOMAIN info.subs |-> GetFieldSize(info.subs[n])]
         IN  IF -1 \in Range(sizes) THEN -1 ELSE FoldFunction(+, 0, sizes)

Failed == -1

\* What rapidjson's IsInt, IsInt64, IsFloat, IsDouble and IsString let through.
Accepts(type, e) ==
    CASE type \in {"int8", "int16", "int32"}   -> e = "int"
      [] type = "int64"                       -> e \in {"int", "int64"}
      [] type = "float"                       -> e = "real"
      [] type = "double"                      -> e \in {"real", "wide"}
      [] type \in {"string", "unig_string"}   -> e = "string"
      [] OTHER                                -> FALSE

\* The bytes that the conversions append or assign for one number.
Stored == [int8 |-> 1, int16 |-> 2, int32 |-> 4, int64 |-> 8, float |-> 4, double |-> 8]

\* Mutant: an array of another length than the field's count is converted.
ConvertAnyLength(info, json) ==
    LET single == info.count = 1 /\ ~json.array
        multi  == info.count # 1 /\ json.array
    IN  IF (single \/ multi) /\ \A e \in Range(json.elems) : Accepts(info.type, e)
        THEN Len(json.elems) * Stored[info.type] ELSE Failed

\* ConvertJsonFieldToString: how many bytes a field of numbers makes of a value.
ConvertJsonField(info, json) ==
    LET single   == info.count = 1 /\ ~json.array
        multiFix == info.count > 1 /\ json.array /\ Len(json.elems) = info.count
        multiVar == info.count = 0 /\ json.array
    IN  IF /\ single \/ multiFix \/ multiVar
           /\ \A e \in Range(json.elems) : Accepts(info.type, e)
        THEN Len(json.elems) * Stored[info.type] ELSE Failed

\* ConvertStoreFormat: the same of one number that is written in decimal digits.
ConvertStoreFormat(info) == Stored[info.type]

-----------------------------------------------------------------------------
(* TableInfo::ParseFieldDesc *)

CountOf(f) == IF f.count > 0 THEN f.count ELSE IF f.repeated THEN 0 ELSE 1

TypeOf(f) ==
    CASE f.cpp = "message" -> "tuple"
      [] f.cpp \in {"int32", "int64"} -> GetFieldType(IF f.ext # "" THEN f.ext ELSE f.cpp)
      [] f.cpp = "string" -> GetFieldType(IF f.ext = "uniq_string" THEN f.ext ELSE "string")
      [] f.cpp \in {"double", "float"} -> f.cpp
      [] OTHER -> "unknown"

RECURSIVE ParseFieldDesc(_)
\* The info of a field, its place in the row not yet set.  Sub-fields are laid out one
\* behind the other; the size of one that cannot be parsed, -1, is added like any other.
ParseFieldDesc(f) ==
    LET Place(acc, s) ==
            LET sub == ParseFieldDesc(s)
            IN  [subs  |-> [n \in DOMAIN acc.subs \cup {s.name} |->
                              IF n = s.name THEN [sub EXCEPT !.offset = acc.total]
                              ELSE acc.subs[n]],
                 total |-> acc.total + sub.size]
        subs == IF f.cpp = "message"
                THEN FoldLeft(Place, [subs |-> <<>>, total |-> 0],
                              SelectSeq(f.subs, LAMBDA s : ~s.kernel)).subs
                ELSE <<>>
        info == [type |-> TypeOf(f), count |-> CountOf(f), offset |-> -1, size |-> 0,
                 element |-> 0, table |-> "", clazz |-> 0, subs |-> subs]
    IN  [info EXCEPT !.size = GetFieldSize(info), !.element = GetFieldElementSize(info)]

RECURSIVE Resolves(_, _), Relate(_, _, _)

\* GetFieldInfoByUnionName finds the field of a dotted name.
Resolves(desc, path) ==
    path[1] \in DOMAIN desc /\ (Len(path) > 1 => Resolves(desc[path[1]].subs, Tail(path)))

\* ... which gets the name of its table, and becomes a single field.
Relate(desc, path, t) ==
    [desc EXCEPT ![path[1]] =
        IF Len(path) = 1 THEN [@ EXCEPT !.table = t, !.count = 1]
        ELSE [@ EXCEPT !.subs = Relate(@, Tail(path), t)]]

-----------------------------------------------------------------------------
(* TableInfoFactory::CreateTableInfo and ParseTableConfig *)

End(r) == pc' = "done" /\ result' = r

Create ==
    /\ pc = "create"
    /\ IF table.type \in {"kkv", "kv", "structure", "view"}
       THEN pc' = "config" /\ result' = result
       ELSE End("fail")
    /\ UNCHANGED <<table, descs, m, i, total, fields, related>>

\* TableInfo::ParseTableConfig: an entry without a key is only logged, and the missing
\* member then dereferenced.
Config ==
    /\ pc = "config" /\ table.form = "json"
    /\ IF "key" \notin DOMAIN table.attrs THEN End("abort") /\ UNCHANGED descs
       ELSE IF ~table.proto THEN End("fail") /\ UNCHANGED descs
       ELSE /\ descs' = SelectSeq(table.messages, LAMBDA d : d.named)
            /\ pc' = "fields" /\ result' = result
    /\ UNCHANGED <<table, m, i, total, fields, related>>

KvNames        == {"key", "value"}
KkvNames       == {"pkey", "skey", "value"}
StructureNames == {"key"}

\* The attributes of an XML entry that have to be there and to name fields.
Required == CASE table.type = "kv"        -> KvNames
              [] table.type = "kkv"       -> KkvNames
              [] table.type = "structure" -> StructureNames
              [] OTHER                    -> {}

ConfigXml ==
    /\ pc = "config" /\ table.form = "xml"
    /\ IF Required \subseteq DOMAIN table.attrs
       THEN pc' = "descriptor" /\ result' = result
       ELSE End("fail")
    /\ UNCHANGED <<table, descs, m, i, total, fields, related>>

\* The base class parses the descriptor or fails, then the table checks its fields.
DescriptorXml ==
    /\ pc = "descriptor"
    /\ \/ End("fail") /\ fields' = fields
       \/ /\ fields' = [n \in {f.name : f \in Range(table.messages[1].fields)} |->
                          [type |-> "unknown"]]
          /\ pc' = "check" /\ result' = result
    /\ UNCHANGED <<table, descs, m, i, total, related>>

Field == descs[m].fields[i]
AtField == pc = "fields" /\ m <= Len(descs) /\ i <= Len(descs[m].fields)

SkipKernel ==
    /\ AtField /\ Field.kernel
    /\ i' = i + 1
    /\ UNCHANGED <<table, pc, result, descs, m, total, fields, related>>

\* A field with a related table describes the key it names and has no place itself;
\* a key that is not declared before it is only logged.
RelateField ==
    /\ AtField /\ ~Field.kernel /\ Field.related # <<>>
    /\ LET t == Field.related[1]
           path == Field.related[2]
       IN  IF Resolves(fields, path)
           THEN /\ fields' = Relate(fields, path, t)
                /\ related' = [u \in DOMAIN related \cup {t} |->
                                 IF u = t THEN path ELSE related[u]]
           ELSE UNCHANGED <<fields, related>>
    /\ i' = i + 1
    /\ UNCHANGED <<table, pc, result, descs, m, total>>

\* Mutants: the last field of a name is kept; the repetitions of a field take no space.
LayoutOverwrites ==
    /\ AtField /\ ~Field.kernel /\ Field.related = <<>>
    /\ LET info == ParseFieldDesc(Field)
       IN  IF info.size = -1
           THEN End("fail") /\ UNCHANGED <<i, total, fields>>
           ELSE /\ total' = total + info.size
                /\ fields' = [n \in DOMAIN fields \cup {Field.name} |->
                                IF n = Field.name THEN [info EXCEPT !.offset = total, !.clazz = m]
                                ELSE fields[n]]
                /\ i' = i + 1
                /\ UNCHANGED <<pc, result>>
    /\ UNCHANGED <<table, descs, m, related>>

LayoutElement ==
    /\ AtField /\ ~Field.kernel /\ Field.related = <<>>
    /\ LET info == ParseFieldDesc(Field)
       IN  IF info.size = -1
           THEN End("fail") /\ UNCHANGED <<i, total, fields>>
           ELSE /\ total' = total + info.element
                /\ fields' = [n \in DOMAIN fields \cup {Field.name} |->
                                IF n \in DOMAIN fields THEN fields[n]
                                ELSE [info EXCEPT !.offset = total, !.clazz = m]]
                /\ i' = i + 1
                /\ UNCHANGED <<pc, result>>
    /\ UNCHANGED <<table, descs, m, related>>

\* The field gets the next place in the row.  insert keeps the first of two fields of
\* one name, but both have taken their space.
LayoutField ==
    /\ AtField /\ ~Field.kernel /\ Field.related = <<>>
    /\ LET info == ParseFieldDesc(Field)
       IN  IF info.size = -1
           THEN End("fail") /\ UNCHANGED <<i, total, fields>>
           ELSE /\ total' = total + info.size
                /\ fields' = [n \in DOMAIN fields \cup {Field.name} |->
                                IF n \in DOMAIN fields THEN fields[n]
                                ELSE [info EXCEPT !.offset = total, !.clazz = m]]
                /\ i' = i + 1
                /\ UNCHANGED <<pc, result>>
    /\ UNCHANGED <<table, descs, m, related>>

EndMessage ==
    /\ pc = "fields" /\ m <= Len(descs) /\ i > Len(descs[m].fields)
    /\ m' = m + 1 /\ i' = 1 /\ total' = 0
    /\ UNCHANGED <<table, pc, result, descs, fields, related>>

EndFields ==
    /\ pc = "fields" /\ m > Len(descs)
    /\ IF table.type = "structure" THEN pc' = "check" /\ result' = result ELSE End("ok")
    /\ UNCHANGED <<table, descs, m, i, total, fields, related>>

\* Mutant: any of the names will do.
CheckAny ==
    /\ pc = "check"
    /\ End(IF Required = {} \/ \E a \in DOMAIN table.attrs : table.attrs[a] \in DOMAIN fields
           THEN "ok" ELSE "fail")
    /\ UNCHANGED <<table, descs, m, i, total, fields, related>>

\* StructureTableInfo::ParseTableConfig, CheckKvFieldDesc, CheckKkvFieldDesc and
\* CheckStructureFieldDesc.
Check ==
    /\ pc = "check"
    /\ End(IF \A a \in Required : table.attrs[a] \in DOMAIN fields THEN "ok" ELSE "fail")
    /\ UNCHANGED <<table, descs, m, i, total, fields, related>>

-----------------------------------------------------------------------------
Init ==
    /\ table \in Tables
    /\ pc = "create" /\ result = "none"
    /\ descs = <<>> /\ m = 1 /\ i = 1 /\ total = 0
    /\ fields = <<>> /\ related = <<>>

Next == \/ Create \/ Config \/ ConfigXml \/ DescriptorXml
        \/ SkipKernel \/ RelateField \/ LayoutField \/ EndMessage \/ EndFields \/ Check

Spec == Init /\ [][Next]_vars

-----------------------------------------------------------------------------
(* Properties *)

\* The places of the fields of one row or tuple lie apart, inside its size.
Apart(infos, size) ==
    /\ \A n \in DOMAIN infos : infos[n].offset >= 0 /\ infos[n].offset + infos[n].size <= size
    /\ \A n, k \in DOMAIN infos :
          n # k => \/ infos[n].offset + infos[n].size <= infos[k].offset
                   \/ infos[k].offset + infos[k].size <= infos[n].offset

RECURSIVE TupleSound(_)
TupleSound(info) == info.element >= 0 =>
    Apart(info.subs, info.element) /\ \A n \in DOMAIN info.subs : TupleSound(info.subs[n])

\* No two fields of a row, and no two sub-fields of a tuple in it, share a byte, and none
\* reaches beyond its row or tuple (the offsets of ParseTableConfig and ParseFieldDesc
\* against the sizes of FieldInfo).  Exempt is a repeated tuple with a sub-field of
\* unknown type: it is accepted although its element size is -1.
LayoutSound == table.form = "json" =>
    LET row == {n \in DOMAIN fields : fields[n].clazz = m}
    IN  /\ Apart([n \in row |-> fields[n]], total)
        /\ \A n \in DOMAIN fields : TupleSound(fields[n])

\* Reference, by what the proto file declares: integers of the width of their extension,
\* floating-point numbers, strings (unique ones too) and tuples of these have a size, and
\* so has what is repeated without a count.
RECURSIVE Sized(_), Unique(_)
Reference(f) == f.count = 0 /\ f.repeated
Sized(f) == \/ Reference(f)
            \/ f.cpp \in {"int32", "int64"} /\ f.ext \in {"", "int8", "int16", "int32", "int64"}
            \/ f.cpp \in {"float", "double", "string"}
            \/ f.cpp = "message" /\ \A s \in Range(f.subs) : s.kernel \/ Sized(s)

\* A unique string, or a tuple with one: GetFieldType knows the type as "unig_string" only
\* (table_info.cc:318, field_info.cc:21).
Unique(f) == /\ ~Reference(f)
             /\ \/ f.cpp = "string" /\ f.ext = "uniq_string"
                \/ f.cpp = "message" /\ \E s \in Range(f.subs) : ~s.kernel /\ Unique(s)

Laid == {f \in UNION {Range(d.fields) : d \in {e \in Range(table.messages) : e.named}} :
            ~f.kernel /\ f.related = <<>>}

\* A JSON entry that is as it should be, apart from its key.
Proper == /\ table.type \in {"kkv", "kv", "structure", "view"} /\ table.proto
          /\ \A f \in Laid : Sized(f)

KeyIsField == "key" \in DOMAIN table.attrs /\ table.attrs["key"] \in {f.name : f \in Laid}

\* No table is accepted that should not be: its type is known, the fields its entry has to
\* name are among its own, and each of its fields has a size by its declaration.  And one
\* that should be is not turned away, whatever its related fields, the fields of the kernel
\* and the messages without a table.  Nothing is claimed of two kinds: a table with a unique
\* string, which has no size for the code, and an entry without a key, which ends in a failed
\* assertion although the comment at table_info.cc:150 would let it pass.
Accepted == pc = "done" =>
    IF table.form = "xml"
    THEN result = "ok" => \A a \in Required : table.attrs[a] \in DOMAIN fields
    ELSE /\ result = "ok" => Proper /\ (table.type = "structure" => KeyIsField)
         /\ /\ Proper /\ "key" \in DOMAIN table.attrs
            /\ table.type = "structure" => KeyIsField
            /\ ~ \E f \in Laid : Unique(f)
            => result = "ok"

\* What a row stores for a field of numbers fits the place of the field, and fills it
\* unless the field has become the single key of a related table after its place was
\* laid out (ParseFieldDesc, RelateField, the conversions of FieldInfo).  A repeated
\* field and a string are kept elsewhere, their place holds a reference.
Converts == table.form = "json" /\ result = "ok" =>
    \A n \in DOMAIN fields :
        LET info == fields[n] IN
        info.type \in DOMAIN Stored =>
            /\ ConvertStoreFormat(info) = info.element
            /\ \A j \in Jsons :
                  LET bytes == ConvertJsonField(info, j) IN
                  info.count # 0 /\ bytes # Failed =>
                      /\ bytes <= info.size
                      /\ info.table = "" => bytes = info.size

\* A field that has its place keeps it, and its size, whatever is declared later: a field
\* of the same name in another message, or the table it is the key of.
Stable ==
    [][\A n \in DOMAIN fields : /\ n \in DOMAIN fields'
                                /\ table.form = "json" =>
                                     /\ fields'[n].offset = fields[n].offset
                                     /\ fields'[n].size = fields[n].size]_vars

=============================================================================
