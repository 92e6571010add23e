----------------------------- MODULE Algorithms -----------------------------
(***************************************************************************)
(* The algorithms that choose requests and order operations, in one        *)
(* specification: Bounds, Minimize, Cover, OperationGraph and              *)
(* Expressiveness.  They do not interact.  A behaviour is one of its       *)
(* subject's; the variables of the others stay at Unused, and an invariant *)
(* speaks of its subject only.                                             *)
(***************************************************************************)
EXTENDS Integers

CONSTANTS
    Start, Steps, APIs, Samples, MaxInterrupts,             \* Bounds
    Changed,                                                \* Minimize
    Problems, MaxTuples,                                    \* Cover
    Op, Method, Path, Param, Body, Resource, Ids,           \* OperationGraph
    Configured, Fixed, Poll, Selected, MaxLinks,
    Languages                                \* Expressiveness: [name -> constants]

VARIABLES
    subject,
    api, known, direction, phase, step, good, bad, rest, outside, rules,
    interrupts,                                          \* Bounds
    changed, granularity, start, rejects,                \* Minimize
    sizes, rows, f, open, grown,                         \* Cover
    unbound, edges, warned, roots, stack,                \* OperationGraph
    valid,                                               \* Expressiveness
    order, state   \* of Cover and OperationGraph, and of Minimize as well

Unused == 0

B == INSTANCE Bounds
M == INSTANCE Minimize
C == INSTANCE Cover
G == INSTANCE OperationGraph
E(L) == INSTANCE Expressiveness WITH
           Field <- L.fields, State <- L.states, Absent <- L.absent,
           Null <- L.null, Nested <- L.nested,
           InteractionOrder <- L.order, Independent <- L.independent

Subjects == {"bounds", "minimize", "cover", "graph", "contract"}

(* What each algorithm is given, and of a language that its fields are     *)
(* finitely many, absence is a state, and clauses relate no nested fields. *)
AlgorithmsAssumption ==
    /\ B!Assumption /\ M!Assumption /\ C!Assumption /\ G!Assumption
    /\ \A l \in DOMAIN Languages :
          /\ l \notin Subjects
          /\ LET L == Languages[l]
             IN  /\ E(L)!FieldAssumption /\ E(L)!StateAssumption
                 /\ E(L)!OrderAssumption /\ L.independent

-----------------------------------------------------------------------------
boundsVars == <<api, known, direction, phase, step, good, bad, rest, outside,
                rules, interrupts>>
minimizeVars == <<changed, granularity, start, rejects>>
coverVars == <<sizes, rows, f, open, grown>>
graphVars == <<unbound, edges, warned, roots, stack>>
vars == <<subject, boundsVars, minimizeVars, coverVars, graphVars, valid, order,
          state>>

NoBounds ==
    /\ api = Unused /\ known = Unused /\ direction = Unused /\ phase = Unused
    /\ step = Unused /\ good = Unused /\ bad = Unused /\ rest = Unused
    /\ outside = Unused /\ rules = Unused /\ interrupts = Unused
NoMinimize ==
    changed = Unused /\ granularity = Unused /\ start = Unused /\ rejects = Unused
NoCover ==
    sizes = Unused /\ rows = Unused /\ f = Unused /\ open = Unused /\ grown = Unused
NoGraph ==
    /\ unbound = Unused /\ edges = Unused /\ warned = Unused /\ roots = Unused
    /\ stack = Unused
NoValid == valid = Unused
NoPlan == order = Unused /\ state = "unused"

(* The contract's algorithm is Exporter; MCAlgorithms adds it. *)
Init ==
    \/ subject = "bounds" /\ B!Init
       /\ NoMinimize /\ NoCover /\ NoGraph /\ NoValid /\ NoPlan
    \/ subject = "minimize" /\ M!Init
       /\ NoBounds /\ NoCover /\ NoGraph /\ NoValid /\ order = Unused
    \/ subject = "cover" /\ C!Init
       /\ NoBounds /\ NoMinimize /\ NoGraph /\ NoValid
    \/ subject = "graph" /\ G!Init
       /\ NoBounds /\ NoMinimize /\ NoCover /\ NoValid
    \/ (\E l \in DOMAIN Languages : subject = l /\ E(Languages[l])!Init)
       /\ NoBounds /\ NoMinimize /\ NoCover /\ NoGraph /\ NoPlan
    \/ subject = "contract"
       /\ NoBounds /\ NoMinimize /\ NoCover /\ NoGraph /\ NoValid /\ NoPlan

NextBounds ==
    /\ subject = "bounds" /\ B!Next
    /\ UNCHANGED <<minimizeVars, coverVars, graphVars, valid, order, state>>
NextMinimize ==
    /\ subject = "minimize" /\ M!Next
    /\ UNCHANGED <<boundsVars, coverVars, graphVars, valid, order>>
NextCover ==
    /\ subject = "cover" /\ C!Next
    /\ UNCHANGED <<boundsVars, minimizeVars, graphVars, valid>>
NextGraph ==
    /\ subject = "graph" /\ G!Next
    /\ UNCHANGED <<boundsVars, minimizeVars, coverVars, valid>>
NextValid ==
    /\ \E l \in DOMAIN Languages : subject = l /\ E(Languages[l])!Next
    /\ UNCHANGED <<boundsVars, minimizeVars, coverVars, graphVars, order, state>>

Next ==
    /\ NextBounds \/ NextMinimize \/ NextCover \/ NextGraph \/ NextValid
    /\ UNCHANGED subject

(* Each algorithm's own fairness: a program that runs takes its next step. *)
Fairness ==
    /\ WF_boundsVars(subject = "bounds" /\ B!Search)
    /\ WF_<<minimizeVars, state>>(subject = "minimize" /\ M!Step)
    /\ WF_<<graphVars, order, state>>(subject = "graph" /\ G!Next)

Spec == Init /\ [][Next]_vars /\ Fairness

-----------------------------------------------------------------------------
(* Bounds: the bracket has an accepted and a rejected end in order, and a  *)
(* bound that is reported is the API's, as is a range of integer text.     *)
BoundsAreRight ==
    subject = "bounds" =>
        B!BInv /\ B!BoundIsRight /\ B!TextRangeIsRight

(* Minimize: what it has is rejected, after an error too, and no single    *)
(* field of a finished result can be spared.                               *)
RejectionIsMinimal == subject = "minimize" => M!RejectionIsMinimal /\ M!MInv

(* Cover: between two fields, every tuple of the fields so far is covered. *)
PrefixCovered == subject = "cover" => C!CoverInv

(* OperationGraph: the plan is the closure of what is selected, producers  *)
(* first; exactly the real cycles are errors; the context of an operation  *)
(* covers all an experiment with it may send.                              *)
PlanIsRight ==
    subject = "graph" =>
        /\ G!PlanInv /\ G!PlanIsClosure /\ G!CycleIsReal
        /\ G!ContextCovers

(* Expressiveness: the language can say what an API may validate. *)
Expressible ==
    \A l \in DOMAIN Languages : subject = l => E(Languages[l])!Expressible

(* Every algorithm comes nearer to its end with each step, and Cover adds  *)
(* no row that covers nothing new.                                         *)
AlgorithmsAdvance ==
    /\ subject = "bounds" => B!Advances
    /\ subject = "minimize" => M!Advances
    /\ subject = "cover" => C!Advances /\ C!NewRowTeaches
    /\ subject = "graph" => G!Advances

(* So every algorithm ends; Bounds, Minimize and OperationGraph take their *)
(* next step under their fairness.                                         *)
AlgorithmsEnd ==
    /\ subject = "bounds" => B!SearchEnds
    /\ subject = "minimize" => M!Ends
    /\ subject = "graph" => G!Ends
    /\ [][AlgorithmsAdvance]_vars
=============================================================================
