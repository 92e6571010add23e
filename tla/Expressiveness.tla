------------------------------ MODULE Expressiveness ------------------------------
(***************************************************************************)
(* What the candidate language can say: an API's validation is built up    *)
(* one clause at a time, each a disjunction over at most InteractionOrder  *)
(* fields, and the language must keep a network that is exactly it.        *)
(*                                                                         *)
(* This is the reference for Candidates, written without rules, kinds or   *)
(* conditions: a clause is a set of literals of which one must hold.       *)
(***************************************************************************)
EXTENDS Candidates

CONSTANT Independent   \* a clause never relates a field and one nested in it

VARIABLE valid   \* the requests the API accepts

(* A literal of a clause: the field is present, is absent, or is not v. *)
ClauseLiterals ==
    [field : Field, is : {"present", "absent"}]
    \cup [field : Field, not : State \ {Absent, Null}]

LiteralTrue(l, x) ==
    IF "is" \in DOMAIN l
    THEN (x[l.field] # Absent) <=> (l.is = "present")
    ELSE x[l.field] # l.not

(* Clauses over distinct fields with a presence literal to conclude.       *)
RequestClauses ==
    {c \in Sizes(ClauseLiterals, 1, InteractionOrder) :
        /\ \A l, m \in c : l.field = m.field => l = m
        /\ \E l \in c : "is" \in DOMAIN l
        /\ Independent => \A l, m \in c : ~Related(l.field, m.field)}

Meaning(c) == {x \in Requests : \E l \in c : LiteralTrue(l, x)}

Init == valid = Requests
AddClause == \E c \in RequestClauses : valid' = valid \cap Meaning(c)
Next == AddClause
Spec == Init /\ [][Next]_valid

(* Validation made of clauses no wider than the interaction order has a    *)
(* network in the language: the largest one, all the rules that hold on    *)
(* every valid request, accepts nothing else.  An off-by-one in the arity  *)
(* of a condition or a group leaves such an API outside the model.         *)
Expressible ==
    {x \in Requests :
        \A r \in Language : valid \subseteq Sat[r] => x \in Sat[r]} = valid
=============================================================================
