SPECIFICATION FairSpec
CONSTANTS
    t1 = t1
    t2 = t2
    Tabs = {t1, t2}
    Settings <- AllSettings
INVARIANTS TypeOK BurnIsShown LandedIsOnArc ClosedHoldsNothing WayForward
PROPERTY ScreenCatchesUp
