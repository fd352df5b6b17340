SPECIFICATION AutopilotSpec
CONSTANTS
    Absent = Absent
    cycle = cycle
    upkeep = upkeep
    w1 = w1
    w2 = w2
    Products <- MCProducts
    RecipeCount <- MCRecipeCount
    LongRecipes <- MCLongRecipes
    Verdicts = {"weak", "qualified"}
    Histories <- MCTwoQualified
    MaxJobs = 3
    CycleProcesses = {cycle}
    MaintenanceProcesses = {upkeep}
    MaxRunningJobs = 2
    RecipesPerCycle = 1
    Pids = {w1, w2}
    MaxCycles = 2
INVARIANTS
    OneTradingWorker
