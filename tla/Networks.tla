------------------------------ MODULE Networks ------------------------------
(***************************************************************************)
(* Constraint acquisition over a finite candidate language: what the       *)
(* observations of an operation leave possible.                            *)
(*                                                                         *)
(* A network is a set of candidate rules that might be the API's           *)
(* validation.  The code keeps SAT clauses over one selector per rule and  *)
(* asks a solver for networks and requests; here a network is the set of   *)
(* selected rules itself, and a query is a quantifier over networks.       *)
(***************************************************************************)
EXTENDS FiniteSets

CONSTANTS
    Rules,      \* candidate rules
    Inputs,     \* realizable rows of the domains
    Satisfies   \* Satisfies[r]: the inputs on which rule r holds

ASSUME SatisfiesAssumption == Satisfies \in [Rules -> SUBSET Inputs]

Outcomes == {"accepted", "input-rejected", "inconclusive"}
Observation == [input : Inputs, outcome : Outcomes]

Violated(x) == {r \in Rules : x \notin Satisfies[r]}

(* An acceptance disables every rule it violates; a rejection asks for one *)
(* of the rules it violates; anything else says nothing.                   *)
(* Deviations: a rejection disables what it violates as well; an           *)
(* acceptance disables nothing.                                            *)
DisabledByAny(obs) ==
    UNION {Violated(o.input) : o \in {p \in obs : p.outcome # "inconclusive"}}
DisabledNever(obs) == {}

Disabled(obs) ==
    UNION {Violated(o.input) : o \in {p \in obs : p.outcome = "accepted"}}
Survivors(obs) == Rules \ Disabled(obs)

(* Deviation: a rejection is not remembered. *)
ClausesNone(obs) == {}

Clauses(obs) ==
    {Violated(o.input) : o \in {p \in obs : p.outcome = "input-rejected"}}

Consistent(obs) == \A c \in Clauses(obs) : c \cap Survivors(obs) # {}

(* The networks that explain every observation. *)
NetworksOf(obs) ==
    {n \in SUBSET Survivors(obs) : \A c \in Clauses(obs) : c \cap n # {}}

Accepts(n, x) == \A r \in n : x \in Satisfies[r]

(* Entailed: no consistent network accepts a request that violates r. *)
Entailed(obs, r) ==
    /\ r \in Survivors(obs)
    /\ \A n \in NetworksOf(obs) : \A x \in Inputs :
          Accepts(n, x) => x \in Satisfies[r]

(* Deviation: blocked rows are proposed again. *)
WitnessesUnblocked(obs, blocked) ==
    LET networks == NetworksOf(obs)
    IN  {x \in Inputs :
            /\ \E m \in networks : Accepts(m, x)
            /\ \E n \in networks : ~Accepts(n, x)}

(* Witness: a request on which two consistent networks disagree. *)
Witnesses(obs, blocked) ==
    LET networks == NetworksOf(obs)
    IN  {x \in Inputs \ blocked :
            /\ \E m \in networks : Accepts(m, x)
            /\ \E n \in networks : ~Accepts(n, x)}

(* Contrast: a request a consistent network accepts.                       *)
Acceptable(obs) == {x \in Inputs : \E n \in NetworksOf(obs) : Accepts(n, x)}

-----------------------------------------------------------------------------
(* The same questions without enumerating networks.  A network accepts x   *)
(* and explains every rejection iff the largest candidate does: all the    *)
(* survivors that hold on x.  LearnerProofs shows the two agree.           *)
CanAccept(obs, x) ==
    \A c \in Clauses(obs) :
        \E r \in c \cap Survivors(obs) : x \in Satisfies[r]
CanReject(obs, x) == \E r \in Survivors(obs) : x \notin Satisfies[r]

EntailedBy(obs, r) ==
    r \in Survivors(obs) /\ \A x \in Inputs \ Satisfies[r] : ~CanAccept(obs, x)
WitnessesBy(obs, blocked) ==
    {x \in Inputs \ blocked : CanAccept(obs, x) /\ CanReject(obs, x)}

(* All networks that explain the observations classify x alike. *)
Agreed(obs, x) == ~(CanAccept(obs, x) /\ CanReject(obs, x))
=============================================================================
