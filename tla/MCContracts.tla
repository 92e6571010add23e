---------------------------- MODULE MCContracts ----------------------------
(***************************************************************************)
(* Small contracts for Exporter: a body with a field, an object with a     *)
(* field of the same name and a list, two declarations of it, and rules of *)
(* every form the learner has.                                             *)
(***************************************************************************)
EXTENDS Naturals, Sequences, FiniteSets

Json(type, n) == [type |-> type, n |-> n, of |-> << >>]
NullJson == Json("null", 0)
OneJson == Json("number", 2)
HalvesJson == Json("number", 3)
TwoJson == Json("number", 4)
TextJson == Json("string", 1)
TextsJson == Json("string", 2)
ObjectJson(members) == [type |-> "object", n |-> 0, of |-> members]
ArrayJson(members) == [type |-> "array", n |-> 0, of |-> members]
With(name, v) == [x \in {name} |-> v]
WithOrWithout(name, vs) == {<< >>} \cup {With(name, v) : v \in vs}
Together(f, g) == [x \in DOMAIN f \cup DOMAIN g |-> IF x \in DOMAIN f THEN f[x] ELSE g[x]]

RequestBodies ==
    {NullJson, TextJson}
    \cup {ObjectJson(Together(Together(x, y), z)) :
            x \in WithOrWithout("a", {NullJson, OneJson, HalvesJson, TextJson}),
            y \in WithOrWithout("c", {NullJson, ObjectJson(<< >>)} \cup
                    {ObjectJson(With("a", v)) : v \in {OneJson, TextJson}}),
            z \in WithOrWithout("l", {ArrayJson(<< >>), ArrayJson(With("0", OneJson))})}

(* At least one of them fits each declaration of each field. *)
FieldValues ==
    {NullJson, OneJson, HalvesJson, TwoJson, TextJson, TextsJson}
    \cup {ObjectJson(With("a", v)) : v \in {TwoJson, TextsJson}}

-----------------------------------------------------------------------------
(* One declaration in one place, one scattered over branches and levels.   *)
WholeNumber == [type |-> {"integer"}, exclusiveMinimum |-> 2]
NumberOrText ==
    [type |-> {"string", "number"}, minimum |-> 3, maximum |-> 3, minLength |-> 2]

InOnePlace ==
    [type |-> {"object"}, required |-> {"a", "c"},
     properties |->
        [a |-> WholeNumber,
         c |-> [type |-> {"object"}, required |-> {"a"},
                properties |-> [a |-> WholeNumber]],
         l |-> [type |-> {"array"}, items |-> WholeNumber]]]

Scattered ==
    [allOf |-> <<
        [required |-> {"a"}, properties |-> [a |-> NumberOrText]],
        [required |-> {"a"},
         properties |-> [c |->
            [allOf |-> <<[required |-> {"a"}]>>,
             properties |-> [a |-> [allOf |-> <<NumberOrText>>]]]]]>>,
     properties |-> [a |-> [type |-> {"null", "number", "string"}]]]

Declarations == {InOnePlace, Scattered}

-----------------------------------------------------------------------------
FieldPaths == {<<"a">>, <<"c">>, <<"c", "a">>, <<"l", "0">>}
OnField(op, f) == [op |-> op, field |-> f]
OnValue(op, f, v) == [op |-> op, field |-> f, value |-> v]
Group(op, args) == [op |-> op, args |-> args]
If(when, assert) == [kind |-> "constraint", when |-> when, assert |-> assert]
Always(assert) == If([op |-> "true"], assert)
Present(f) == OnField("present", f)

UnaryConstraints ==
    {Always(OnField(op, f)) : op \in {"present", "absent"}, f \in FieldPaths \cup {<< >>}}
    \cup {Always(Group("not", <<OnField("null", f)>>)) : f \in FieldPaths \cup {<< >>}}
    \cup {Always(OnValue(op, f, {"integer"})) : op \in {"type", "notType"}, f \in FieldPaths}
    \cup {Always(OnValue(op, f, 3)) : op \in {"minimum", "minLength"}, f \in FieldPaths}
    \cup {Always(Group("any", <<OnValue("type", f, {"integer"}), OnField("null", f)>>)) :
            f \in FieldPaths}

GroupsOfFields ==
    {<<Present(<<"a">>), Present(<<"c">>)>>, <<Present(<<"a">>), Present(<<"c", "a">>)>>,
     <<Present(<<"a">>), Present(<<"c", "a">>), Present(<<"l", "0">>)>>}
GroupConstraints ==
    {Always(Group(op, g)) : op \in {"any", "one", "atMostOne", "allOrNone"}, g \in GroupsOfFields}

Conditions ==
    {OnField(op, f) : op \in {"present", "absent"}, f \in FieldPaths}
    \cup {OnValue("eq", f, OneJson) : f \in FieldPaths}
    \cup {Group("all", <<OnValue("eq", <<"c", "a">>, OneJson), Present(<<"l", "0">>)>>)}
ConditionalConstraints ==
    {If(when, OnField(op, f)) :
        when \in Conditions, op \in {"present", "absent"}, f \in {<<"a">>, <<"c">>, <<"c", "a">>}}

Weakenings ==
    {[kind |-> "fieldIsOptional", field |-> f] : f \in {<<"a">>, <<"c">>, <<"c", "a">>}}
    \cup {[kind |-> "fieldAcceptsValue", field |-> f, value |-> v] :
            f \in {<<"a">>, <<"c", "a">>, <<"l", "0">>}, v \in {NullJson, OneJson, TextJson}}
    \cup {[kind |-> "fieldAcceptsValue", field |-> <<"a">>, value |-> HalvesJson]}

RulesSupported ==
    UnaryConstraints \cup GroupConstraints \cup ConditionalConstraints \cup Weakenings

-----------------------------------------------------------------------------
ResponseShapes ==
    {<< >>, [type |-> {"object"}, required |-> {"a"}, properties |-> [a |-> WholeNumber]]}
ResponseBodies ==
    {b \in RequestBodies : DOMAIN b.of \notin {{"a", "c"}, {"a", "c", "l"}}}
    \cup {ArrayJson(Together(With("0", OneJson), With("1", TextJson))),
          ObjectJson(With("a", TwoJson))}
=============================================================================
