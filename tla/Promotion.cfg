\* One candidate from its archived windows to LIVE_ELIGIBLE.
SPECIFICATION FairSpec
CONSTANTS
    Genome = g1
    Family = "trend"
    MaxCode = 2
    Forward <- MCForward
    NoIncumbent <- MCNoIncumbent
    PaperPolicy <- MCPaperPolicy
    ChampionPolicy <- MCChampionPolicy
    Manifests <- MCManifests
    Environments <- MCEnvironments
    Rules <- MCRules
    Prices <- MCPrices
INVARIANTS PromotionTypeOK ChampionEarned SmokeHonest OrderWithinRules
PROPERTIES LiveEarned SmokeEnds
CHECK_DEADLOCK FALSE
