----------------------------- MODULE JsonReader -----------------------------
(***************************************************************************)
(* json.c: the client library's parser.  A report is a function from the   *)
(* attributes it holds to the way each value is written, and a template    *)
(* (an array of json_attr_t) a function from attribute names to the types  *)
(* declared for them.  The attributes of the objects of an array are       *)
(* written "array.attribute" and stand for every element.                  *)
(*                                                                         *)
(* How a value is written:                                                 *)
(*   "int", "real"  a token of digits, without and with a decimal point    *)
(*   "bool"         the token true or false                                *)
(*   "nan"          any other token                                        *)
(*   "str", "chr"   a quoted value, "chr" of at most one character         *)
(*   "long"         a quoted value of more than JSON_VAL_MAX characters,   *)
(*                  or of more than the reader has room for                *)
(*   "arr", "none"  an array with elements, and an array without any       *)
(*   "garbled"      text that is no attribute, or has no comma before it   *)
(***************************************************************************)
EXTENDS Functions, Sequences, TLC

Attributes(names, written) == [n \in names |-> written]
Typed(names, type) == [n \in names |-> {type}]
Without(f, names) == Restrict(f, DOMAIN f \ names)
Named(prefix, names) == {prefix \o n : n \in names}

Ints(names) == Attributes(names, "int")
Reals(names) == Attributes(names, "real")
Bools(names) == Attributes(names, "bool")
Strs(names) == Attributes(names, "str")
Garbled == "garbled" :> "garbled"

\* json_stringify() and gpsd_hexdump() write a text whatever its length.
TextOf(shape, name) == name :> IF "long" \in shape THEN "long" ELSE "str"

\* The elements of an array are written only when it has some.
ArrayOf(shape, name, elements) ==
    IF "empty" \in shape THEN name :> "none" ELSE name :> "arr" @@ elements

Quoted == {"str", "chr", "long"}

\* json_internal_read_object() seeks among adjacent specs of one name for
\* the first that fits how the value is written.
Fits(type, written) ==
    \/ written \in Quoted /\ type \in {"string", "time"}
    \/ written = "bool" /\ type = "boolean"
    \/ written = "real" /\ type = "real"
    \/ written = "int" /\ type = "integer"

\* json_read_array(): the first thing read after the bracket is an element.
ArrayReadable(written) == written = "arr"

\* The checks made on the spec the search ended at: a quoted value needs a
\* textual type, a token a type that is not textual.
Readable(type, written) ==
    CASE written \in {"str", "chr"} ->
             /\ type \in {"string", "time", "check", "map", "character"}
             /\ type = "character" => written = "chr"
      [] written \in {"int", "real", "bool", "nan"} ->
             type \notin {"string", "time", "check", "map", "array"}
      [] type = "array" -> ArrayReadable(written)
      [] OTHER -> FALSE

\* The spec the search ends at: one that fits, else the last of the name.
\* No template declares two types of one name of which none fits and that
\* differ in what they accept, so any of them will do.
SpecFor(types, written) ==
    IF \E t \in types : Fits(t, written)
    THEN CHOOSE t \in types : Fits(t, written)
    ELSE CHOOSE t \in types : TRUE

\* Whether json_read_object() returns 0: an attribute the template does not
\* declare (JSON_ERR_BADATTR) or a value it cannot take ends the reading.
Accepts(template, report) ==
    \A n \in DOMAIN report :
        /\ n \in DOMAIN template
        /\ Readable(SpecFor(template[n], report[n]), report[n])

\* atoi() stops at a decimal point and at a text that is no number.
Exact(type, written) == ~(type = "integer" /\ written \in {"real", "nan", "bool"})

\* What an accepted report leaves in each field of the template: the value,
\* its integer part, or (for an attribute the report omits) the default.
\* Arrays and their elements are left alone when they are omitted.
ReadBack(template, report) ==
    [n \in DOMAIN template |->
        IF n \notin DOMAIN report THEN IF "array" \in template[n] THEN "kept" ELSE "default"
        ELSE IF Exact(SpecFor(template[n], report[n]), report[n]) THEN "value" ELSE "truncated"]
=============================================================================
