------------------------------- MODULE Preview -------------------------------
(***************************************************************************)
(* How the router shortens a long answer without breaking the schema it    *)
(* advertised for it: _coerce_structured_for_schema, _minimal_schema_value *)
(* and _schema_preserving_preview of server.py.                            *)
(*                                                                         *)
(* A JSON value is its type with what its length depends on: the digits of *)
(* a number, the characters of a string, the items of an array, the fields *)
(* of an object.  A schema is a list of alternatives (anyOf; one for a     *)
(* plain schema, none for {}), each a type with what belongs to it.        *)
(* Escaped characters, and additionalProperties that are schemas, are left *)
(* out.                                                                    *)
(***************************************************************************)
EXTENDS Integers, Sequences, SequencesExt, FiniteSetsExt, TLC

\* The names of fields, and the order an instance gives them in.
Key == <<"result", "id", "note", "n">>
KeySize == [result |-> 6, id |-> 2, note |-> 4, n |-> 1]
InOrder(keys) == SelectSeq(Key, LAMBDA k : k \in keys)

Null      == [t |-> "null"]
Bool(b)   == [t |-> "boolean", n |-> IF b THEN 4 ELSE 5]
Number(d) == [t |-> "integer", n |-> d]
Text(c)   == [t |-> "string", n |-> c]
Arr(s)    == [t |-> "array", items |-> s]
Obj(f)    == [t |-> "object", at |-> f]

AnySchema == <<>>
Plain(type)        == <<[t |-> type, items |-> AnySchema, props |-> << >>, required |-> {}, open |-> TRUE]>>
ArrayOf(s)         == <<[Plain("array")[1] EXCEPT !.items = s]>>
ObjectOf(p, r, o)  == <<[Plain("object")[1] EXCEPT !.props = p, !.required = r, !.open = o]>>
-----------------------------------------------------------------------------
Total(s) == FoldLeft(LAMBDA a, b : a + b, 0, s)
Commas(n) == IF n = 0 THEN 0 ELSE n - 1

\* The length of the compact JSON text, _json_text.
RECURSIVE Size(_)
Size(v) ==
    CASE v.t = "null"   -> 4
      [] v.t = "string" -> v.n + 2
      [] v.t = "array"  -> 2 + Commas(Len(v.items)) + Total([i \in DOMAIN v.items |-> Size(v.items[i])])
      [] v.t = "object" ->
            LET ks == InOrder(DOMAIN v.at)
            IN  2 + Commas(Len(ks)) + Total([i \in DOMAIN ks |-> KeySize[ks[i]] + 3 + Size(v.at[ks[i]])])
      [] OTHER -> v.n

\* Reference: v is an instance of schema s.
RECURSIVE Conforms(_, _)
Conforms(s, v) ==
    s # AnySchema =>
        \E i \in DOMAIN s :
            /\ s[i].t = v.t
            /\ v.t = "array" => \A j \in DOMAIN v.items : Conforms(s[i].items, v.items[j])
            /\ v.t = "object" =>
                  /\ s[i].required \subseteq DOMAIN v.at
                  /\ \A k \in DOMAIN v.at :
                        IF k \in DOMAIN s[i].props THEN Conforms(s[i].props[k], v.at[k]) ELSE s[i].open
-----------------------------------------------------------------------------
\* _is_result_wrapper_schema, for schemas and for values.
WrapsResult(s) == Len(s) = 1 /\ s[1].t = "object" /\ DOMAIN s[1].props = {"result"}
IsWrapped(v)   == v.t = "object" /\ DOMAIN v.at = {"result"}
Wrapped(v)     == Obj([result |-> v])

\* _coerce_structured_for_schema.
Coerce(s, v) ==
    CASE WrapsResult(s) /\ ~IsWrapped(v) -> Wrapped(v)
      [] ~WrapsResult(s) /\ IsWrapped(v) -> v.at["result"]
      [] OTHER -> v

\* _schema_for_value: the alternative of the value's type, or the schema
\* itself, which has no type and no properties when it is a list of them.
Untyped == [t |-> "any", items |-> AnySchema, props |-> << >>, required |-> {}, open |-> TRUE]

Resolved(s, v) ==
    LET fits == SelectSeq(s, LAMBDA a : a.t = v.t)
    IN  IF Len(s) = 1 THEN s[1] ELSE IF fits # <<>> THEN fits[1] ELSE Untyped

SchemaOf(alt, k) == IF k \in DOMAIN alt.props THEN alt.props[k] ELSE AnySchema

Shortest(vs) == vs[Min({i \in DOMAIN vs : \A j \in DOMAIN vs : Size(vs[i]) <= Size(vs[j])})]

\* _minimal_schema_value.
RECURSIVE Minimal(_, _)
Minimal(s, v) ==
    IF s = AnySchema THEN Number(1)
    ELSE IF Len(s) > 1 THEN Shortest([i \in DOMAIN s |-> Minimal(<<s[i]>>, Null)])
    ELSE CASE s[1].t = "object" ->
                 LET source == IF v.t = "object" THEN v.at ELSE << >>
                 IN  Obj([k \in s[1].required |->
                             Minimal(SchemaOf(s[1], k), IF k \in DOMAIN source THEN source[k] ELSE Null)])
           [] s[1].t = "array"   -> Arr(<<>>)
           [] s[1].t = "string"  -> Text(0)
           [] s[1].t = "boolean" -> Bool(FALSE)
           [] s[1].t = "integer" -> Number(1)
           [] OTHER              -> Null

\* The text cut where its JSON still fits, found by bisection.
Cut(v, max) == Text(Max({c \in 0..v.n : c = 0 \/ c + 2 <= max}))

\* The leading items that fit, each complete.
Leading(v, max) ==
    Arr(SubSeq(v.items, 1, Max({n \in 0..Len(v.items) : n = 0 \/ Size(Arr(SubSeq(v.items, 1, n))) <= max})))

\* Mutant: the name of a field is not counted.
CommaOnly(out, k) == IF out.at = << >> THEN 0 ELSE 1

\* What a field takes beside its value: a comma, its name and the colon.
Around(out, k) == (IF out.at = << >> THEN 0 ELSE 1) + KeySize[k] + 3

\* A field beside the required ones, if its preview fits.
Added(out, k, v, room) ==
    IF Size(v) <= room THEN Obj(out.at @@ (k :> v)) ELSE out

\* Mutant: a preview starts empty, without the required fields.
BareStart(alt, v) == Obj(<< >>)

\* The required fields, each as short as can be.
Start(alt, v) ==
    Obj([k \in alt.required |-> Minimal(SchemaOf(alt, k), IF k \in DOMAIN v.at THEN v.at[k] ELSE Null)])

\* Required fields first, then the others, as the value has them.
Ordered(alt, v) ==
    InOrder(alt.required \cap DOMAIN v.at) \o InOrder(DOMAIN v.at \ alt.required)

\* _schema_preserving_preview.
RECURSIVE Shortened(_, _, _)
Shortened(v, max, s) ==
    LET alt == Resolved(s, v)
        Field(out, k) ==
            LET room == max - Size(out)
                more == room - Around(out, k)
            IN  CASE ~alt.open /\ k \notin DOMAIN alt.props -> out
                  [] k \in DOMAIN out.at ->
                        LET trial == Obj([out.at EXCEPT ![k] =
                                          Shortened(v.at[k], room + Size(out.at[k]), SchemaOf(alt, k))])
                        IN  IF Size(trial) <= max THEN trial ELSE out
                  [] k \notin DOMAIN out.at /\ more > 0 ->
                        Added(out, k, Shortened(v.at[k], more, SchemaOf(alt, k)), more)
                  [] OTHER -> out
    IN  CASE Size(v) <= max    -> v
          [] Size(v) > max /\ v.t = "string" -> Cut(v, max)
          [] Size(v) > max /\ v.t = "array"  -> Leading(v, max)
          [] Size(v) > max /\ v.t = "object" ->
                LET first == Start(alt, v)
                IN  IF Size(first) > max THEN first ELSE FoldLeft(Field, first, Ordered(alt, v))
          [] OTHER -> Minimal(IF alt = Untyped THEN AnySchema ELSE <<alt>>, v)
=============================================================================
