SPECIFICATION FairSpec
CONSTANTS
    Projects = {p1}
    Clients = {c1}
    Specialists = {a1, a2}
    MaxParallel = 1
    PromptKinds = {"text"}
    PlannerOutputs = {"text", "blank"}
PROPERTIES
    RetriedProjectCompletes
