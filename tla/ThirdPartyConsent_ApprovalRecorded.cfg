SPECIFICATION Spec
CONSTANTS
    Openid = Openid
    Agent = Agent
    Scopes = {Openid, Agent, s}
    None = None
    MaxEdits = 1
INVARIANTS
    ApprovalRecorded
CHECK_DEADLOCK FALSE
