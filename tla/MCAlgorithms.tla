---------------------------- MODULE MCAlgorithms ----------------------------
(***************************************************************************)
(* An instance of Algorithms, with the algorithm that exports what was     *)
(* learned, Exporter, as one more subject.                                 *)
(***************************************************************************)
EXTENDS Algorithms, Sequences, MCContracts

VARIABLES declared, schema, applied, described, seen          \* Exporter

(* Intervals around the baseline 2 that end on and between integers, open  *)
(* and closed, with and without a missing integer.                         *)
Whole == 99000
Intervals ==
    [lo : {-3000, 1000}, hi : {2000, 3000, 5500, 40000},
     strict : BOOLEAN, integral : BOOLEAN, hole : {Whole, 4000}, coerces : BOOLEAN]
Number(n) == [text |-> FALSE, n |-> n]
Sampled == {Number(0), Number(4000), Number(-4000), [text |-> TRUE, n |-> 2000]}

(* Seven fields: chunks of four, two and one, a ragged last chunk, and a   *)
(* granularity that has to be capped.                                      *)
Seven == <<"a", "b", "c", "d", "e", "f", "g">>

(* Up to four fields of two and three values, orders one to three, one of  *)
(* them larger than the number of fields; and too many combinations.       *)
Arrays ==
    [sizes : [1 .. 4 -> {2, 3}], order : {2, 3}]
    \cup [sizes : [1 .. 3 -> {2, 3}], order : {1, 2}]
    \cup [sizes : {<<2, 2>>}, order : {2, 3}] \cup [sizes : {<<5, 5>>}, order : {2}]
    \cup [sizes : {<<2, 3, 5, 5>>}, order : {2}]

-----------------------------------------------------------------------------
(* Widgets and their parts.  A part's owner is named by the path, by a     *)
(* body field and by one link the document may have, from any operation to *)
(* any; patching widgets and deleting parts are polled.                    *)
Operations == {"postW", "getW", "patchW", "deleteW", "postP", "deleteP"}
Methods == [o \in Operations |->
    CASE o \in {"postW", "postP"} -> "POST" [] o = "getW" -> "GET"
      [] o = "patchW" -> "PATCH" [] OTHER -> "DELETE"]
Paths == [o \in Operations |->
    CASE o = "postW" -> <<"w">>
      [] o \in {"getW", "patchW", "deleteW"} -> <<"w", "{w}">>
      [] o = "postP" -> <<"w", "{w}", "p">>
      [] o = "deleteP" -> <<"w", "{w}", "p", "{p}">>]
Owners == {"{w}", "{p}"}
Fields == [o \in Operations |-> CASE o = "postW" -> {"template"}
                                  [] o = "patchW" -> {"partId"} [] OTHER -> {}]
Named == [x \in {"template", "partId"} |-> IF x = "partId" THEN {"postP"} ELSE {}]
Identifiers == [o \in Operations |-> CASE o = "postW" -> {"id"}
                                       [] o = "postP" -> {"id", "uuid"} [] OTHER -> {}]
Bindings == [k \in {<<"patchW", "partId">>} |->
                [consumer |-> "patchW", field |-> "partId",
                 producer |-> "postP", pointer |-> "configured"]]
Values == {<<"deleteP", "{w}">>, <<"getW", "{w}">>, <<"deleteW", "{w}">>}
Polls == [o \in {"patchW", "deleteP"} |-> "getW"]
Inspected == {"patchW", "deleteP"}

-----------------------------------------------------------------------------
(* Three fields of which one is nested, and two fields of two values.       *)
Language(fields, states, nested) ==
    [fields |-> fields, states |-> states, nested |-> nested, absent |-> "absent",
     null |-> "null", order |-> 2, independent |-> TRUE]
FlatAndValued ==
    [flat |-> Language({"a", "b", "c"}, {"absent", "v"}, {<<"c", "a">>}),
     valued |-> Language({"a", "b"}, {"absent", "v", "w"}, {})]

K == INSTANCE Exporter WITH
        Declared <- Declarations, Supported <- RulesSupported, MaxRules <- 2,
        Bodies <- RequestBodies, Fillers <- FieldValues,
        Answered <- ResponseShapes, Responses <- ResponseBodies

ASSUME AlgorithmsAssumption

-----------------------------------------------------------------------------
contractVars == <<declared, schema, applied, described, seen>>
allVars == <<vars, contractVars>>

NoContract ==
    /\ declared = Unused /\ schema = Unused /\ applied = Unused
    /\ described = Unused /\ seen = Unused

InitAll == Init /\ IF subject = "contract" THEN K!Init ELSE NoContract

NextContract == subject = "contract" /\ K!Next /\ UNCHANGED vars

NextAll == NextContract \/ (Next /\ UNCHANGED contractVars)

(* Algorithms, but for the contract's variables. *)
SpecAll == InitAll /\ [][NextAll]_allVars /\ Fairness

=============================================================================
