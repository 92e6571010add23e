------------------------------ MODULE Exporter ------------------------------
(***************************************************************************)
(* The contract exported for one operation.  Build starts from the         *)
(* declared request schema and takes the supported rules one at a time: a  *)
(* rule about a field's requiredness or an accepted value weakens what was *)
(* declared, any other becomes a JSON Schema constraint of its own.  The   *)
(* response schema is widened by what successful answers looked like.      *)
(*                                                                         *)
(* A JSON value is a record of its type, a number (of half units; of a     *)
(* string, its length) and its members; an array's members are named by    *)
(* their index.  A schema is a record with a field for every keyword.      *)
(* Minimum and minLength stand for the other bounds of a rule.  Formats,   *)
(* patterns, ranges of text and rules on parameters are left out.          *)
(***************************************************************************)
EXTENDS Integers, Sequences, FiniteSets, SequencesExt

CONSTANTS
    Declared,      \* request schemas of the document
    Supported,     \* rules that may be supported
    MaxRules,      \* bound: rules applied
    Bodies,        \* request bodies
    Fillers,       \* values a field may have
    Answered,      \* response schemas of the document
    Responses      \* responses that may be observed

VARIABLES
    declared, schema, applied,    \* the request schema and the rules in it
    described, seen               \* the response schema and what was answered

vars == <<declared, schema, applied, described, seen>>

Put(s, key, value) == [k \in DOMAIN s \cup {key} |-> IF k = key THEN value ELSE s[k]]
Drop(s, keys) == [k \in DOMAIN s \ keys |-> s[k]]

-----------------------------------------------------------------------------
(* JSON values: model.Type, TypeMatches, Get and Set. *)
Type(v) == IF v.type = "number" /\ v.n % 2 = 0 THEN "integer" ELSE v.type

TypeMatches(v, t) == Type(v) = t \/ (t = "number" /\ Type(v) = "integer")

Missing == [type |-> "missing", n |-> 0, of |-> << >>]

Get(v, path) ==
    LET Member(x, name) == IF name \in DOMAIN x.of THEN x.of[name] ELSE Missing
    IN  FoldLeft(Member, v, path)

RECURSIVE Set(_, _, _)
Set(v, path, value) ==
    IF path = << >> THEN value
    ELSE LET member == IF Head(path) \in DOMAIN v.of THEN v.of[Head(path)] ELSE Missing
         IN  [v EXCEPT !.of = Put(@, Head(path), Set(member, Tail(path), value))]

-----------------------------------------------------------------------------
(* JSON Schema, as far as the exporter writes it. *)
RECURSIVE Valid(_, _)
Valid(s, v) ==
    \A k \in DOMAIN s :
        CASE k = "type" -> \E t \in s.type : TypeMatches(v, t)
          [] k = "minimum" -> v.type = "number" => v.n >= s.minimum
          [] k = "maximum" -> v.type = "number" => v.n <= s.maximum
          [] k = "exclusiveMinimum" -> v.type = "number" => v.n > s.exclusiveMinimum
          [] k = "minLength" -> v.type = "string" => v.n >= s.minLength
          [] k = "minItems" -> v.type = "array" => Cardinality(DOMAIN v.of) >= s.minItems
          [] k = "const" -> v = s.const
          [] k = "required" -> v.type = "object" => s.required \subseteq DOMAIN v.of
          [] k = "dependentRequired" ->
                v.type = "object" => \A p \in DOMAIN s.dependentRequired \cap DOMAIN v.of :
                                        s.dependentRequired[p] \subseteq DOMAIN v.of
          [] k = "properties" ->
                v.type = "object" => \A p \in DOMAIN s.properties \cap DOMAIN v.of :
                                        Valid(s.properties[p], v.of[p])
          [] k = "prefixItems" ->
                v.type = "array" => \A p \in {"0"} \cap DOMAIN v.of :
                                        Valid(s.prefixItems[1], v.of[p])
          [] k = "items" -> v.type = "array" => \A p \in DOMAIN v.of : Valid(s.items, v.of[p])
          [] k = "not" -> ~Valid(s.not, v)
          [] k = "allOf" -> \A i \in DOMAIN s.allOf : Valid(s.allOf[i], v)
          [] k = "anyOf" -> \E i \in DOMAIN s.anyOf : Valid(s.anyOf[i], v)
          [] k = "oneOf" -> Cardinality({i \in DOMAIN s.oneOf : Valid(s.oneOf[i], v)}) = 1
          [] k = "if" -> Valid(s.if, v) => Valid(s.then, v)
          [] k = "then" -> TRUE

-----------------------------------------------------------------------------
(* Predicates and rules: what the learner means by them. *)
Groups == {"all", "any", "one", "atMostOne", "allOrNone"}

RECURSIVE Eval(_, _)
Eval(p, body) ==
    IF p.op = "true" THEN TRUE
    ELSE IF p.op = "not" THEN ~Eval(p.args[1], body)
    ELSE IF p.op \in Groups
    THEN LET n == Cardinality({i \in DOMAIN p.args : Eval(p.args[i], body)})
         IN  CASE p.op = "all" -> n = Len(p.args)
               [] p.op = "any" -> n > 0
               [] p.op = "one" -> n = 1
               [] p.op = "atMostOne" -> n <= 1
               [] p.op = "allOrNone" -> n \in {0, Len(p.args)}
    ELSE LET v == Get(body, p.field)
             present == v # Missing
         IN  CASE p.op = "present" -> present
               [] p.op = "absent" -> ~present
               [] p.op = "null" -> v.type = "null"
               [] p.op = "eq" -> present /\ v = p.value
               [] p.op = "neq" -> present /\ v # p.value
               [] p.op = "type" -> present => \E t \in p.value : TypeMatches(v, t)
               [] p.op = "notType" -> present => \A t \in p.value : ~TypeMatches(v, t)
               [] p.op = "minimum" -> (present /\ v.type = "number") => v.n >= p.value
               [] p.op = "minLength" -> (present /\ v.type = "string") => v.n >= p.value

Always == [op |-> "true"]
Holds(r, body) == Eval(r.when, body) => Eval(r.assert, body)

-----------------------------------------------------------------------------
(* The same as schemas, but for whether there is a body at all. *)
RECURSIVE Exportable(_)
Exportable(p) ==
    IF p.op \in Groups \cup {"not"}
    THEN \A i \in DOMAIN p.args : Exportable(p.args[i])
    ELSE p.op \in {"present", "absent"} => p.field # << >>

(* A leaf at the end of a path.  If the field must be there, so must be    *)
(* everything above it.                                                    *)
AtPath(path, leaf, presence) ==
    LET Step(name, s) ==
            IF name = "0"
            THEN IF presence
                 THEN [type |-> {"array"}, minItems |-> 1, prefixItems |-> <<s>>]
                 ELSE [prefixItems |-> <<s>>]
            ELSE IF presence
                 THEN [type |-> {"object"}, required |-> {name},
                       properties |-> Put(<< >>, name, s)]
                 ELSE [properties |-> Put(<< >>, name, s)]
    IN  FoldRight(Step, path, leaf)

RECURSIVE PredicateSchema(_)
PredicateSchema(p) ==
    IF p.op = "true" THEN << >>
    ELSE IF p.op = "not" THEN [not |-> PredicateSchema(p.args[1])]
    ELSE IF p.op \in Groups
    THEN LET parts == [i \in DOMAIN p.args |-> PredicateSchema(p.args[i])]
             none == [i \in DOMAIN parts |-> [not |-> parts[i]]]
             pairs == {e \in (DOMAIN parts) \X (DOMAIN parts) : e[1] < e[2]}
             Clash(e) == [not |-> [allOf |-> <<parts[e[1]], parts[e[2]]>>]]
         IN  CASE p.op = "all" -> [allOf |-> parts]
               [] p.op = "any" -> [anyOf |-> parts]
               [] p.op = "one" -> [oneOf |-> parts]
               [] p.op = "allOrNone" ->
                    [anyOf |-> <<[allOf |-> parts], [allOf |-> none]>>]
               [] p.op = "atMostOne" -> [allOf |-> SetToSeq({Clash(e) : e \in pairs})]
    ELSE CASE p.op = "present" -> AtPath(p.field, << >>, TRUE)
           [] p.op = "absent" -> [not |-> AtPath(p.field, << >>, TRUE)]
           [] p.op = "null" ->
                AtPath(p.field, [const |-> [type |-> "null", n |-> 0, of |-> << >>]], TRUE)
           [] p.op = "eq" -> AtPath(p.field, [const |-> p.value], TRUE)
           [] p.op = "neq" ->
                [allOf |-> <<AtPath(p.field, << >>, TRUE),
                             [not |-> AtPath(p.field, [const |-> p.value], TRUE)]>>]
           [] p.op = "notType" -> AtPath(p.field, [not |-> [type |-> p.value]], FALSE)
           [] OTHER -> AtPath(p.field, Put(<< >>, p.op, p.value), FALSE)

RuleSchema(r) ==
    IF /\ r.when.op = "present" /\ r.assert.op = "present"
       /\ Len(r.when.field) = 1 /\ Len(r.assert.field) = 1
    THEN [dependentRequired |-> Put(<< >>, r.when.field[1], {r.assert.field[1]})]
    ELSE IF r.when = Always THEN PredicateSchema(r.assert)
    ELSE [if |-> PredicateSchema(r.when), then |-> PredicateSchema(r.assert)]

-----------------------------------------------------------------------------
(* Weakening what was declared. *)

(* relaxRequired, at the object that names the field. *)
WithoutRequired(s, name) ==
    IF "required" \notin DOMAIN s THEN s
    ELSE IF s.required \subseteq {name} THEN Drop(s, {"required"})
    ELSE Put(s, "required", s.required \ {name})

(* RelaxValueSchema: the types, then every bound the value contradicts; an *)
(* exclusive bound becomes an inclusive one.                               *)
WithType(s, v) ==
    IF "type" \notin DOMAIN s \/ \E t \in s.type : TypeMatches(v, t) THEN s
    ELSE LET types == s.type \cup {Type(v)}
         IN  Put(s, "type", IF "number" \in types THEN types \ {"integer"} ELSE types)


WithBound(s, v, keyword) ==
    IF keyword \notin DOMAIN s \/ Valid(Put(<< >>, keyword, s[keyword]), v) THEN s
    ELSE IF keyword = "exclusiveMinimum"
         THEN Put(Drop(s, {keyword}), "minimum", v.n)
         ELSE Put(s, keyword, v.n)

RelaxValue(s, v) ==
    LET Relax(t, keyword) == WithBound(t, v, keyword)
    IN  FoldLeft(Relax, WithType(s, v),
                 <<"minimum", "maximum", "exclusiveMinimum", "minLength">>)

(* The edit of a rule at the end of a path, in all branches of an allOf.   *)
RECURSIVE Edited(_, _, _)
Edited(s, path, r) ==
    LET branches ==
            IF "allOf" \in DOMAIN s
            THEN Put(s, "allOf", [i \in DOMAIN s.allOf |-> Edited(s.allOf[i], path, r)])
            ELSE s
        name == Head(path)
    IN  IF path = << >> /\ r.kind = "fieldAcceptsValue" THEN RelaxValue(branches, r.value)
        ELSE IF Len(path) = 1 /\ r.kind = "fieldIsOptional"
        THEN WithoutRequired(branches, name)
        ELSE IF path # << >> /\ name = "0" /\ "items" \in DOMAIN s
        THEN Put(branches, "items", Edited(s.items, Tail(path), r))
        ELSE IF path # << >> /\ name # "0" /\ "properties" \in DOMAIN s
                /\ name \in DOMAIN s.properties
        THEN Put(branches, "properties",
                 Put(s.properties, name, Edited(s.properties[name], Tail(path), r)))
        ELSE branches

-----------------------------------------------------------------------------
(* InferResponse: types only, no requiredness and no closed sets. *)
RECURSIVE InferResponse(_)
InferResponse(v) ==
    LET members == [p \in DOMAIN v.of |-> InferResponse(v.of[p])]
    IN  CASE v.type = "object" -> [type |-> {"object"}, properties |-> members]
          [] v.type = "array" /\ DOMAIN v.of # {} ->
                [type |-> {"array"},
                 items |-> [anyOf |-> SetToSeq({members[p] : p \in DOMAIN v.of})]]
          [] OTHER -> [type |-> {Type(v)}]

(* responses: the declared shape, or one of the shapes it does not allow.  *)
(* Where none is declared, or an empty one (both << >>), every answer adds  *)
(* its shape, and the declaration is not among the alternatives.           *)
Inferred(original, answers) ==
    {v \in answers : original = << >> \/ ~Valid(original, v)}

Widened(original, answers) ==
    LET new == {InferResponse(v) : v \in Inferred(original, answers)}
        declaration == IF original = << >> THEN << >> ELSE <<original>>
    IN  IF new = {} THEN original ELSE [anyOf |-> declaration \o SetToSeq(new)]

-----------------------------------------------------------------------------
(* Evidence of a weakening: an accepted body without the field, perhaps    *)
(* without what it is a field of, or with the value.  Rules are supported  *)
(* together only if accepted bodies violate none of them.                  *)
Shows(b, r) ==
    Get(b, r.field) = IF r.kind = "fieldIsOptional" THEN Missing ELSE r.value

Together(rules) ==
    LET constraints == {r \in rules : r.kind = "constraint"}
    IN  \A w \in rules \ constraints :
            \E b \in Bodies : Shows(b, w) /\ \A r \in constraints : Holds(r, b)

(* The request schema and the response schema do not depend on each other. *)
Init ==
    /\ \/ declared \in Declared /\ described = << >>
       \/ declared = << >> /\ described \in Answered
    /\ schema = declared /\ applied = {} /\ seen = {}

(* One supported rule of the operation more; of constraints, which are     *)
(* branches of their own, at most one.                                     *)
Applying(r) ==
    /\ r \notin applied /\ Cardinality(applied) < MaxRules
    /\ applied' = applied \cup {r} /\ Together(applied')
    /\ declared \in Declared /\ UNCHANGED <<declared, described, seen>>

Weaken(r) ==
    /\ r.kind \in {"fieldIsOptional", "fieldAcceptsValue"}
    /\ schema' = Edited(schema, r.field, r)
    /\ Applying(r)

Constrain(r) ==
    /\ r.kind = "constraint" /\ \A q \in applied : q.kind # "constraint"
    /\ schema' = IF Exportable(r.when) /\ Exportable(r.assert)
                 THEN Put(schema, "allOf",
                          Append(IF "allOf" \in DOMAIN schema THEN schema.allOf
                                 ELSE << >>, RuleSchema(r)))
                 ELSE schema
    /\ Applying(r)

Answer ==
    \E v \in Responses \ seen :
        /\ Cardinality(seen) < MaxRules /\ declared \notin Declared
        /\ seen' = seen \cup {v}
        /\ UNCHANGED <<declared, schema, applied, described>>

Next ==
    \/ \E r \in Supported : Weaken(r) \/ Constrain(r)
    \/ Answer
Spec == Init /\ [][Next]_vars

-----------------------------------------------------------------------------
(* The bodies that differ from b in what r lets an API accept: the field   *)
(* given where it is left out, or another value at the accepted one (or,   *)
(* up to a bound or a type, at any).                                       *)
Variants(b, r, exactly) ==
    LET parent == Get(b, Front(r.field))
        at == Get(b, r.field)
    IN  IF \/ r.kind = "fieldIsOptional" /\ at = Missing /\ parent.type = "object"
           \/ r.kind = "fieldAcceptsValue" /\ at # Missing /\ (exactly => at = r.value)
        THEN {Set(b, r.field, v) : v \in Fillers}
        ELSE {}

Claims(b, exactly) ==
    LET More(r, bodies) == bodies \cup UNION {Variants(x, r, exactly) : x \in bodies}
        weakened == {r \in applied : r.kind # "constraint"}
    IN  \E x \in FoldLeft(LAMBDA bodies, r : More(r, bodies), {b}, SetToSeq(weakened)) :
            Valid(declared, x)


(* Every answer fits the widened response; a shape that was inferred asks  *)
(* for no member (an answer fits without any one of its own); and what a   *)
(* response schema with any keyword declared still fits.  A response       *)
(* without one allowed everything: it is described by the answers alone,   *)
(* and an answer of a type none of them had does not fit.                  *)
ResponsesFit ==
    LET widened == Widened(described, seen)
    IN  /\ \A v \in seen : Valid(widened, v)
        /\ \A v \in Inferred(described, seen) : v.type = "object" =>
              \A p \in DOMAIN v.of : Valid(widened, [v EXCEPT !.of = Drop(@, {p})])
        /\ described # << >> =>
              \A v \in Responses : Valid(described, v) => Valid(widened, v)
        /\ described = << >> /\ seen # {} =>
              \A v \in Responses : Valid(widened, v) =>
                    \E x \in seen : TypeMatches(v, Type(x))
=============================================================================
