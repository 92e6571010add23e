----------------------------- MODULE Candidates -----------------------------
(***************************************************************************)
(* The candidate language of the learner: the rules learn.Candidates makes *)
(* for one operation, and what each of them says of a request.             *)
(*                                                                         *)
(* A request gives every field of the interaction domains a state: Absent, *)
(* or one of the representative values.  The JSON behind a value matters   *)
(* to the rules only through presence, null and equality with a            *)
(* representative, so a value is a model value.  Rules about the type, the *)
(* text or the size of one value, field relations and configured rules add *)
(* other unary and binary claims of the same form and are left out; what   *)
(* stays is the part of the language that relates fields to each other.    *)
(***************************************************************************)
EXTENDS Naturals, FiniteSets

CONSTANTS
    Field,             \* fields with an interaction domain
    State,             \* Absent, Null and the other representatives
    Absent, Null,
    Nested,            \* <<child, ancestor>> pairs of body fields
    InteractionOrder   \* fields a rule may mention

ASSUME FieldAssumption == IsFiniteSet(Field)
ASSUME StateAssumption == Absent \in State /\ Null # Absent
ASSUME NestedAssumption ==
    Nested \subseteq Field \X Field /\ \A f \in Field : <<f, f>> \notin Nested
ASSUME OrderAssumption == InteractionOrder \in Nat \ {0}

(* Two body fields one of which lies under the other. *)
Related(f, g) == <<f, g>> \in Nested \/ <<g, f>> \in Nested

(* Requests that can be built: no child under an absent or null parent. *)
Requests ==
    {x \in [Field -> State] :
        \A p \in Nested : x[p[1]] # Absent => x[p[2]] \notin {Absent, Null}}

-----------------------------------------------------------------------------
(* Literals: what a condition may say of its controlling field. *)
Literals(f) ==
    {[op |-> o, field |-> f, value |-> Absent] : o \in {"present", "absent"}}
    \cup {[op |-> "eq", field |-> f, value |-> v] : v \in State \ {Absent, Null}}

LiteralHolds(l, x) ==
    \/ l.op = "present" /\ x[l.field] # Absent
    \/ l.op = "absent" /\ x[l.field] = Absent
    \/ l.op = "eq" /\ x[l.field] # Absent /\ x[l.field] = l.value

(* The assertion of a rule, over the fields it names. *)
AssertHolds(r, x) ==
    LET n == Cardinality({f \in r.fields : x[f] # Absent})
    IN  \/ r.op \in {"present", "one"} /\ n = 1
        \/ r.op = "absent" /\ n = 0
        \/ r.op = "notNull" /\ \A f \in r.fields : x[f] # Null
        \/ r.op = "any" /\ n > 0
        \/ r.op = "atMostOne" /\ n <= 1
        \/ r.op = "allOrNone" /\ n \in {0, Cardinality(r.fields)}

WhenHolds(r, x) == \A l \in r.when : LiteralHolds(l, x)

Holds(r, x) == ~WhenHolds(r, x) \/ AssertHolds(r, x)

-----------------------------------------------------------------------------
Rule(kind, when, op, fields) ==
    [kind |-> kind, when |-> when, op |-> op, fields |-> fields]

UnaryRules ==
    UNION {{Rule("fieldIsRequired", {}, "present", {f}),
            Rule("fieldIsForbidden", {}, "absent", {f}),
            Rule("fieldRejectsNull", {}, "notNull", {f})} : f \in Field}

(* One literal for each of 1 .. InteractionOrder-1 controllers that are    *)
(* neither the target nor nested with it.                                  *)
Controllers(target) == {f \in Field \ {target} : ~Related(target, f)}

Sizes(s, lo, hi) == {t \in SUBSET s : Cardinality(t) \in lo .. hi}

(* Deviation: the interaction order counts the antecedents only up to one  *)
(* less.                                                                   *)
ConditionsShort(target) ==
    UNION {{{choice[f] : f \in scope} :
                choice \in {c \in [scope -> UNION {Literals(f) : f \in scope}] :
                                \A f \in scope : c[f] \in Literals(f)}} :
           scope \in Sizes(Controllers(target), 1, InteractionOrder - 2)}

Conditions(target) ==
    UNION {{{choice[f] : f \in scope} :
                choice \in {c \in [scope -> UNION {Literals(f) : f \in scope}] :
                                \A f \in scope : c[f] \in Literals(f)}} :
           scope \in Sizes(Controllers(target), 1, InteractionOrder - 1)}

ConditionalRules ==
    UNION {UNION {{Rule(IF \A l \in when : l.op = "present"
                        THEN "fieldRequiredWith"
                        ELSE "fieldRequiredWhenFieldValueIs",
                        when, "present", {f}),
                   Rule("fieldBlockedWhen", when, "absent", {f})} :
                  when \in Conditions(f)} : f \in Field}

(* Groups of 2 .. InteractionOrder fields, no two of them nested. *)
GroupRules ==
    {Rule(kind, {}, kind, g) :
        kind \in {"any", "one", "atMostOne", "allOrNone"},
        g \in {s \in Sizes(Field, 2, InteractionOrder) :
                  \A f, h \in s : ~Related(f, h)}}

Language == UnaryRules \cup ConditionalRules \cup GroupRules

(* complexity: the order in which findings are confirmed. *)
Complexity(r) ==
    CASE r.when = {} -> 0
      [] Cardinality(r.when) > 1 -> 10 * Cardinality(r.when)
      [] \E l \in r.when : l.op = "present" -> 1
      [] OTHER -> 2

(* redundant: a supported rule with the same assertion already says it. *)
Implies(confirmed, candidate) ==
    /\ confirmed.op = candidate.op /\ confirmed.fields = candidate.fields
    /\ \/ confirmed.when \subseteq candidate.when
             /\ Cardinality(confirmed.when) <= 1
       \/ confirmed.when = candidate.when
       \/ /\ Cardinality(confirmed.when) = 1 /\ Cardinality(candidate.when) = 1
          /\ \E l \in confirmed.when, m \in candidate.when :
                l.op = "present" /\ m.op = "eq" /\ l.field = m.field

(* The requests a rule accepts. *)
Sat == [r \in Language |-> {x \in Requests : Holds(r, x)}]
=============================================================================
