SPECIFICATION Spec
CONSTANTS
    NumTasks = 2
    MaxRepairCycles = 1
INVARIANTS
    RepairsBounded
