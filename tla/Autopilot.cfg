SPECIFICATION AutopilotSpec
CONSTANTS
    Absent = Absent
    cycle = cycle
    upkeep = upkeep
    w1 = w1
    w2 = w2
    Products <- MCProducts
    RecipeCount <- MCRecipeCount
    LongRecipes <- MCLongRecipes
    Verdicts = {"weak", "qualified"}
    Histories <- MCHistories
    MaxJobs = 3
    CycleProcesses = {cycle}
    MaintenanceProcesses = {upkeep}
    MaxRunningJobs = 1
    RecipesPerCycle = 1
    Pids = {w1}
    MaxCycles = 2
INVARIANTS
    AutopilotTypeOK
    FinalReceiptsTrue
    ResearchBounded
    EscalatedOnce
    PaperHasPortfolio
PROPERTIES
    StopEndsTrading
