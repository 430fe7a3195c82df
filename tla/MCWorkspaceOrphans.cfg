SPECIFICATION Spec
CONSTANTS
    draft = draft
    open0 = open0
    open1 = open1
    final = final
    Genesis = Genesis
    NoPayload = NoPayload
    Bodies <- MCBodies
    RankOf <- MCRankOf
    Stamps = {1, 2}
    MaxRevisions = 3
    MaxAppends = 4
    MaxInterrupts = 2
INVARIANT
    OrphansAreIgnored
CHECK_DEADLOCK FALSE
