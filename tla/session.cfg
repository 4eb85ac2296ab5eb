SPECIFICATION FairWindowSpec
CONSTANTS
    Clicks = {c1, c2}
    Replicas = {r1}
    NoReplica = NoReplica
INVARIANTS WindowIInv NeverUndetermined DashboardHasClient
PROPERTIES PhasesAdvance ConfigurationSettles ConnectionIsShown HandlersReturn LatestErrorIsShown DialogFollowsChoice
CHECK_DEADLOCK FALSE
