SPECIFICATION FairSpec
CONSTANTS
    Projects = {p1, p2}
    Clients = {c1, c2}
    Specialists = {a1, a2}
    MaxParallel = 1
    PromptKinds = {"text"}
    PlannerOutputs = {"text"}
PROPERTIES
    RunsEnd
    RetriedProjectCompletes
