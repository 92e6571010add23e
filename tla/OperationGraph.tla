--------------------------- MODULE OperationGraph ---------------------------
(***************************************************************************)
(* The plan of a run (graph.Build): which operation produces the value of  *)
(* which field of another one, and the order the operations are inspected  *)
(* in, producers first.                                                    *)
(*                                                                         *)
(* Paths are sequences of segments.  What the document says of links is    *)
(* any set of producers; configured bindings and values are given.  An     *)
(* edge names the pointer into the producer's response.                    *)
(***************************************************************************)
EXTENDS Integers, FiniteSets, FiniteSetsExt, Sequences, SequencesExt

CONSTANTS
    Op,
    Method,       \* [Op -> {"POST", "GET", "PATCH", "DELETE"}]
    Path,         \* [Op -> Seq(segment)]
    Param,        \* the segments that are path parameters
    Body,         \* [Op -> SUBSET body and query field]
    Resource,     \* [field -> operations whose resource the field names]
    Ids,          \* [Op -> identifier pointers of the response schema]
    Configured,   \* [<<op, field>> -> bound edge], for some fields
    Fixed,        \* <<op, field>> pairs with a configured value
    Poll,         \* [op -> polled operation], for some operations
    Selected,     \* operations to inspect
    MaxLinks      \* bound on links to one field

Role(op) == CASE Method[op] = "POST" -> "create"
              [] Method[op] \in {"PUT", "PATCH"} -> "update"
              [] Method[op] = "DELETE" -> "delete"
              [] OTHER -> "read"

PathFields(op) == ToSet(Path[op]) \cap Param
Fields == UNION {{<<op, f>> : f \in PathFields(op) \cup Body[op]} : op \in Op}

(* A document is finite, and what is configured names operations it has:   *)
(* Build refuses a binding to, or a selection of, any other.  Instances    *)
(* assume it.                                                              *)
Assumption ==
    /\ IsFiniteSet(Op) /\ IsFiniteSet(Fields) /\ Selected \subseteq Op
    /\ \A k \in DOMAIN Configured :
          /\ Configured[k].producer \in Op
          /\ <<Configured[k].consumer, Configured[k].field>> = k
    /\ \A o \in DOMAIN Poll : Poll[o] \in Op

VARIABLES
    unbound,    \* fields Build has not looked at yet
    edges,      \* [consumer, field, producer, pointer] records
    warned,     \* fields with a warning
    roots,      \* selected operations not visited yet
    stack,      \* operations being visited, innermost last
    order,      \* the plan's order so far
    state       \* "bind", "visit", "done" or "cycle"

vars == <<unbound, edges, warned, roots, stack, order, state>>

Edge(op, f, producer, pointer) ==
    [consumer |-> op, field |-> f, producer |-> producer, pointer |-> pointer]

-----------------------------------------------------------------------------
(* Producers a field's name and place suggest: for a path parameter the    *)
(* creation on the collection before it, for another field the creation of *)
(* the resource it names; by each identifier their responses hold.         *)
Suggested(op, f) ==
    LET index == CHOOSE i \in DOMAIN Path[op] : Path[op][i] = f
        Fits(p) == IF f \in PathFields(op)
                   THEN Path[p] = SubSeq(Path[op], 1, index - 1)
                   ELSE p \in Resource[f]
    IN  UNION {{Edge(op, f, p, pointer) : pointer \in Ids[p]} :
                  p \in {r \in Op \ {op} : Role(r) = "create" /\ Fits(r)}}

(* A configured binding outranks links, links outrank what names suggest. *)
CandidateEdges(op, f, links) ==
    IF <<op, f>> \in DOMAIN Configured THEN {Configured[<<op, f>>]}
    ELSE IF links # {} THEN links
    ELSE Suggested(op, f)

Links(op, f) ==
    UNION {kSubset(n, {Edge(op, f, p, "link") : p \in Op}) : n \in 0 .. MaxLinks}

Init ==
    /\ unbound = SetToSeq(Fields \ Fixed)
    /\ edges = {} /\ warned = {}
    /\ roots = SetToSeq(Selected) /\ stack = <<>> /\ order = <<>>
    /\ state = "bind"

(* A field with exactly one candidate is bound; several candidates, and a  *)
(* path parameter with none, are warned about.                             *)
Bind ==
    /\ state = "bind" /\ unbound # <<>>
    /\ LET op == Head(unbound)[1]
           f == Head(unbound)[2]
       IN  \E links \in Links(op, f) :
             LET found == CandidateEdges(op, f, links)
             IN  /\ edges' = IF Cardinality(found) = 1 THEN edges \cup found ELSE edges
                 /\ warned' = IF \/ Cardinality(found) > 1
                                 \/ found = {} /\ f \in PathFields(op)
                              THEN warned \cup {<<op, f>>} ELSE warned
    /\ unbound' = Tail(unbound)
    /\ UNCHANGED <<roots, stack, order, state>>

StartVisits ==
    /\ state = "bind" /\ unbound = <<>>
    /\ state' = "visit"
    /\ UNCHANGED <<unbound, edges, warned, roots, stack, order>>

-----------------------------------------------------------------------------
Bindings(op) == {e \in edges : e.consumer = op}
Producers(op) == {e.producer : e \in Bindings(op)}
Finished == ToSet(order)

VisitRoot ==
    /\ state = "visit" /\ stack = <<>> /\ roots # <<>>
    /\ roots' = Tail(roots)
    /\ stack' = IF Head(roots) \in Finished THEN <<>> ELSE <<Head(roots)>>
    /\ UNCHANGED <<unbound, edges, warned, order, state>>

(* Deviation: an operation stays marked as being visited once ordered. *)
DescendStale(p) ==
    /\ state = "visit" /\ stack # <<>>
    /\ p \in Producers(Last(stack))
    /\ IF p \in ToSet(stack) \cup Finished
       THEN state' = "cycle" /\ UNCHANGED stack
       ELSE stack' = Append(stack, p) /\ UNCHANGED state
    /\ UNCHANGED <<unbound, edges, warned, roots, order>>

(* Producers come first; one that is being visited closes a cycle. *)
Descend(p) ==
    /\ state = "visit" /\ stack # <<>>
    /\ p \in Producers(Last(stack)) \ Finished
    /\ IF p \in ToSet(stack)
       THEN state' = "cycle" /\ UNCHANGED stack
       ELSE stack' = Append(stack, p) /\ UNCHANGED state
    /\ UNCHANGED <<unbound, edges, warned, roots, order>>

Leave ==
    /\ state = "visit" /\ stack # <<>>
    /\ Producers(Last(stack)) \subseteq Finished
    /\ order' = Append(order, Last(stack))
    /\ stack' = Front(stack)
    /\ UNCHANGED <<unbound, edges, warned, roots, state>>

Finish ==
    /\ state = "visit" /\ stack = <<>> /\ roots = <<>>
    /\ state' = "done"
    /\ UNCHANGED <<unbound, edges, warned, roots, stack, order>>

Visit == VisitRoot \/ (\E p \in Op : Descend(p)) \/ Leave \/ Finish
Next == Bind \/ StartVisits \/ Visit
Spec == Init /\ [][Next]_vars /\ WF_vars(Next)

-----------------------------------------------------------------------------
(* Companion: the one operation of the method on the item an operation     *)
(* works on; for a creation, on the item just below its collection.        *)
Companion(op, method) ==
    {c \in Op :
        LET At(o) == IF Role(op) = "create"
                     THEN \E p \in Param : Path[o] = Append(Path[op], p)
                     ELSE Path[o] = Path[op]
        IN  /\ Method[c] = method /\ At(c)
            /\ \A o \in Op \ {c} : Method[o] = method => ~At(o)}

Polled(op) == {Poll[o] : o \in {op} \cap DOMAIN Poll}

ContextSteps(op) ==
    Producers(op) \cup Companion(op, "GET") \cup Companion(op, "DELETE")
    \cup Polled(op)

(* The smallest set with the given operations that is closed under a step. *)
Closure(from, steps) ==
    {p \in Op : \A s \in SUBSET Op :
        (from \subseteq s /\ \A q \in s : steps[q] \subseteq s) => p \in s}

(* dependencyContext: the operations whose documents the reuse of evidence *)
(* about op depends on.                                                    *)
dependencyContext(op) == Closure({op}, [o \in Op |-> ContextSteps(o)])

Needs == [o \in Op |-> Producers(o)]

Setup(op) == Closure(Producers(op), Needs)

(* The operations whose requests an experiment with op may send: fixtures, *)
(* the operation, reads before and after, polls, and the deletion of what  *)
(* was created.                                                            *)
Touched(op) ==
    LET sent == Setup(op) \cup {op}
        reads == Companion(op, "GET")
        deletes == UNION {Companion(o, "DELETE") :
                             o \in {q \in sent : Role(q) = "create"}}
        calls == sent \cup reads \cup deletes
    IN  calls \cup UNION {Polled(o) : o \in calls}

-----------------------------------------------------------------------------
TypeOK ==
    /\ \A e \in edges : <<e.consumer, e.field>> \in Fields \ Fixed /\ e.producer \in Op
    /\ ToSet(stack) \subseteq Op /\ IsInjective(stack)
    /\ state \in {"bind", "visit", "done", "cycle"}

(* An operation is planned after every producer of its fields, and once.   *)
ProducersFirst ==
    /\ IsInjective(order)
    /\ \A i \in DOMAIN order :
          Producers(order[i]) \subseteq ToSet(SubSeq(order, 1, i - 1))

(* The plan holds what is selected and what that needs, and nothing else.  *)
PlanIsClosure ==
    state = "done" => Finished = Closure(Selected, Needs)

(* A cycle is reported exactly when operations of the plan need each other. *)
CycleIsReal ==
    state \in {"done", "cycle"} =>
        (state = "cycle" <=> \E op \in Closure(Selected, Needs) : op \in Setup(op))

(* What the visits have come to: each operation being visited is needed by *)
(* those visited before it, and what is selected is ordered, being visited *)
(* or still to come.                                                       *)
Chained == \A i, j \in DOMAIN stack : i < j => stack[j] \in Setup(stack[i])
Reached == ToSet(stack) \cup Finished \subseteq Closure(Selected, Needs)
Accounted ==
    /\ ToSet(roots) \subseteq Selected
    /\ Selected \subseteq Finished \cup ToSet(roots) \cup
          (IF stack = <<>> THEN {} ELSE {stack[1]})
Shape ==
    /\ unbound \in Seq(Fields \ Fixed) /\ roots \in Seq(Op)
    /\ stack \in Seq(Op) /\ order \in Seq(Op)
    /\ ToSet(stack) \cap Finished = {}
    /\ state = "bind" => stack = <<>> /\ order = <<>>
    /\ state = "done" => stack = <<>> /\ roots = <<>>
    /\ state = "cycle" =>
          stack # <<>> /\ Producers(Last(stack)) \cap ToSet(stack) # {}

PlanInv ==
    TypeOK /\ Shape /\ ProducersFirst /\ Chained /\ Reached /\ Accounted

(* Evidence depends on every operation its experiment may send requests    *)
(* of: a change to any of them is noticed.                                 *)
ContextCovers ==
    state = "done" => \A op \in Finished : Touched(op) \subseteq dependencyContext(op)

(* Every step brings the plan nearer: a later state; a field less to bind; *)
(* an operation more in the plan, a root less to visit, or one more being  *)
(* visited, each at most once.                                             *)
Advances ==
    \/ <<state, state'>> \in {<<"bind", "visit">>, <<"visit", "done">>, <<"visit", "cycle">>}
    \/ /\ state' = state
       /\ \/ Len(unbound') < Len(unbound)
          \/ /\ unbound' = unbound
             /\ \/ Finished \subseteq Finished' /\ Finished # Finished'
                \/ /\ order' = order
                   /\ \/ Len(roots') < Len(roots)
                      \/ roots' = roots /\ Len(stack) < Len(stack')

(* Every document gets a plan or an error. *)
Ends == <>(state \in {"done", "cycle"})
=============================================================================
