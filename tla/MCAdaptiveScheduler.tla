------------------------ MODULE MCAdaptiveScheduler ------------------------
EXTENDS SchedulerRefinement

CONSTANTS s1, w1, w2, d1, v1, p1, fa, fb

Task(id, role, files, deps, impl) ==
    [ task_id |-> id, role |-> role, owned_files |-> files,
      dependencies |-> deps, implementer_task_id |-> impl ]

\* Two workers compete for fa and for the one worker slot, w2 and the deep
\* worker for fb; the deep worker needs w1's result, v1 reviews w1, p1 the
\* deep worker.
PlanTasks ==
    { Task(s1, "SCOUT", {}, {}, NoTask),
      Task(w1, "STANDARD_WORKER", {fa}, {}, NoTask),
      Task(w2, "STANDARD_WORKER", {fa, fb}, {s1}, NoTask),
      Task(d1, "DEEP_WORKER", {fb}, {w1}, NoTask),
      Task(v1, "VERIFIER", {}, {}, w1),
      Task(p1, "PREMIUM_SECOND_OPINION", {}, {v1}, d1) }

PlanLimits == [r \in CappedRole |-> 1]

\* w1 has a corrective attempt that owns another file, so that a second
\* submission of a running id gets past the overlap scan. w2 and its reviewer
\* p1 wait for each other.
ReworkTasks ==
    { Task(s1, "SCOUT", {}, {}, NoTask),
      Task(w1, "STANDARD_WORKER", {fa}, {}, NoTask),
      Task(w1, "STANDARD_WORKER", {fb}, {}, NoTask),
      Task(d1, "DEEP_WORKER", {fa, fb}, {w1}, NoTask),
      Task(v1, "VERIFIER", {}, {}, w1),
      Task(w2, "STANDARD_WORKER", {}, {p1}, NoTask),
      Task(p1, "PREMIUM_SECOND_OPINION", {}, {}, w2) }

ReworkLimits == [r \in CappedRole |-> IF r = "STANDARD_WORKER" THEN 2 ELSE 1]
=============================================================================
