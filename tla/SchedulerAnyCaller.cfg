SPECIFICATION Spec
CONSTANTS
    s1 = s1  w1 = w1  w2 = w2  d1 = d1  v1 = v1  p1 = p1
    fa = fa  fb = fb
    NoTask = NoTask
    TaskId = {s1, w1, w2, d1, v1, p1}
    File = {fa, fb}
    Tasks <- ReworkTasks
    MaxActive = 2
    RoleLimit <- ReworkLimits
    MaxSpawns = 2
INVARIANTS TypeOK SlotLimits ExclusiveOwnership BuiltOnFinishedWork SpawnsCoverWork ParallelismAgrees
           DeadEndsNeverRun
PROPERTY ImplementsLeases
CHECK_DEADLOCK FALSE
