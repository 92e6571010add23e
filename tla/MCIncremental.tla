--------------------------- MODULE MCIncremental ---------------------------
(* A resource with a creation and a patch; the patch needs a created one,   *)
(* and both are read back.                                                  *)
EXTENDS IncrementalInv, TLC

CONSTANTS post, patch, get

MCOp == {post, patch, get}
MCOrder == <<post, patch>>
MCDepends == [o \in MCOp |-> CASE o = post -> {post, get} [] o = patch -> MCOp
                                [] o = get -> {get}]
MCRead == [o \in {post} |-> get]
MCTwin == [o \in {post, patch} |-> IF o = post THEN patch ELSE post]

Doc(changed) == [o \in MCOp |-> IF o \in changed THEN 2 ELSE 1]
Conf(hinted, selected, domains) ==
    [hints |-> [o \in MCOp |-> o \in hinted], selected |-> selected,
     domains |-> domains, scoped |-> [o \in MCOp |-> None]]
All == {"accepted", "input-rejected", "inconclusive"}
Clear == All \ {"inconclusive"}

(* Two operations, and one child or resumed session: the document of       *)
(* either changes, settings ask for another selection and more values.     *)
Pair ==
    [doc |-> Doc({}), documents |-> {Doc({}), Doc({patch})},
     conf |-> Conf({}, {post, patch}, {"x"}),
     configs |-> {Conf({}, {post, patch}, {"x"}), Conf({}, {patch}, {"x", "secret"})},
     outcomes |-> Clear, sessions |-> 2, candidates |-> 0]

(* Three sessions of one operation, whose dependency changes and changes   *)
(* back.                                                                   *)
Chain ==
    [doc |-> Doc({}), documents |-> {Doc({}), Doc({get})},
     conf |-> Conf({}, {patch}, {"x"}),
     configs |-> {Conf({}, {patch}, {"x"})}, outcomes |-> Clear, sessions |-> 3,
     candidates |-> 1]

(* An input that is not kept.                                              *)
Hidden ==
    [doc |-> Doc({}), documents |-> {Doc({})}, conf |-> Conf({}, {patch}, {"secret"}),
     configs |-> {Conf({}, {patch}, {"secret"})}, outcomes |-> All, sessions |-> 2,
     candidates |-> 1]

(* A creation that is read back, cut short between any two events, resumed, *)
(* and inherited.                                                           *)
Cut ==
    [doc |-> Doc({}), documents |-> {Doc({}), Doc({patch})},
     conf |-> Conf({}, {post}, {"x"}), configs |-> {Conf({}, {post}, {"x"})},
     outcomes |-> {"accepted"}, sessions |-> 3, candidates |-> 0]

MCHistories == [pair |-> Pair, chain |-> Chain, hidden |-> Hidden, cut |-> Cut]
=============================================================================
