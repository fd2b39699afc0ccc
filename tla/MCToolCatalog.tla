---------------------------- MODULE MCToolCatalog ----------------------------
(* ToolCatalog on a small instance: a tool that answers a list, one that     *)
(* answers an object with optional and required fields, one that answers a   *)
(* text, one without a schema, and another one that only newer instances have.*)
EXTENDS ToolCatalog

Row == ObjectOf([id |-> Plain("string"), note |-> Plain("string") \o Plain("null")], {"id"}, FALSE)
Report ==
    ObjectOf([id |-> Plain("string"), n |-> Plain("integer"), note |-> Row \o Plain("null")],
             {"id", "n"}, TRUE)

Bundled == [list_funcs |-> ArrayOf(Row), survey |-> Report, dbg_start |-> Plain("string"),
            dbg_exit |-> AnySchema]
OfNewer == [py_eval |-> AnySchema]

ARow(c)    == Obj([id |-> Text(c)])
FullRow(c) == Obj([id |-> Text(c), note |-> Null])

Answers ==
    [list_funcs |-> {Arr(<<>>), Arr(<<ARow(2), FullRow(1), ARow(3)>>)},
     survey     |-> {Obj([id |-> Text(6), n |-> Number(3)]),
                     Obj([id |-> Text(2), n |-> Number(1), note |-> FullRow(3),
                          result |-> Arr(<<Null, Text(4)>>)])},
     dbg_start  |-> {Text(9)},
     dbg_exit   |-> {Null},
     py_eval    |-> {Bool(FALSE), Text(3), Obj([result |-> Number(2), note |-> Text(3)])}]
=============================================================================
