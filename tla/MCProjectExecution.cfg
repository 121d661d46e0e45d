SPECIFICATION Spec
CONSTANTS
    Projects = {p1, p2}
    Clients = {c1, c2, c3}
    Specialists = {a1, a2, a3}
    MaxParallel = 2
    PromptKinds = {"text", "blank"}
    PlannerOutputs = {"text", "blank"}
SYMMETRY Symmetry
INVARIANTS
    OneRunPerProject
    StatusTellsTheRun
    NoRepeatedWork
    ReviewerSeesEverySpecialist
    CompletedIsWhole
PROPERTIES
    ImplementsPromise
