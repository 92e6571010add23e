CONSTANTS
    post = post
    patch = patch
    get = get
    Op <- MCOp
    Order <- MCOrder
    Depends <- MCDepends
    Create = {post}
    Read <- MCRead
    Twin <- MCTwin
    Histories <- MCHistories
    Inputs = {"x", "y", "secret"}
    Base = "base"
    Redacted = {"secret"}
    None = None
SPECIFICATION Spec
INVARIANTS SInv EvidenceIsCurrent ReplayIsMemory CompletionIsEarned
CHECK_DEADLOCK FALSE
