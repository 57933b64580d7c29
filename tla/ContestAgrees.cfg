SPECIFICATION Spec
CONSTANTS
    Modes = {"cloud", "sweep", "matrix", "local", "plans"}
    Candidates = {70, 80}
    Currents <- MCCurrents
    Shards = 3
    Windows = {0}
    Seeds = {1, 2}
    Scores = {1, 2}
    Lo = 500
    Hi = 950
    Tol = 10
    Peaks <- MCPeaks
    Rough <- MCRough
    Slopes = {1, 3}
    Coarse = 5
    Books <- MCBooks
    Drafts = {"N"}
    Ends <- MCEnds
    Ceilings <- MCCeilings
    PlanStart = 480
    Slack = 3
INVARIANTS ContestsAgree TunerFinds ScoresHonest
PROPERTIES Finishes
