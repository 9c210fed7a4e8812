SPECIFICATION Spec
CONSTANTS
    c1 = c1
    c2 = c2
    c3 = c3
    Arc = Arc
    Chains = {c1, c2, c3}
    Enabled = {c1, c2}
    Need = 3
    Fee = 1
    Scenes <- AllScenes
INVARIANTS OnItsChain SpendIsAccepted TopUpSuffices
PROPERTY PlanIsRight
