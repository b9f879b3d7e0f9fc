SPECIFICATION PlanSpec
CONSTANTS
    s1 = s1  w1 = w1  w2 = w2  d1 = d1  v1 = v1  p1 = p1
    fa = fa  fb = fb
    NoTask = NoTask
    TaskId = {s1, w1, w2, d1, v1, p1}
    File = {fa, fb}
    Tasks <- PlanTasks
    MaxActive = 3
    RoleLimit <- PlanLimits
    MaxSpawns = 2
INVARIANTS SpawnsBalance OneOutcome ReviewAfterImplementation
PROPERTY ReadyTasksRun
CHECK_DEADLOCK FALSE
