---------------------------- MODULE MCScheduler ----------------------------
(* Workloads for Scheduler.  Suspensions are a few ticks long instead of    *)
(* hundreds: that of task3 outlasts those of task5 and task6.               *)
EXTENDS Scheduler

A(name, quantum, priority) ==
    [name |-> name, time_quantum |-> quantum, priority |-> priority]

MCMsec == [n \in TaskNames |-> IF n = "task3" THEN 3 ELSE 1]

\* Every task of task.c, at both quanta and all priorities.
MCAdds == {A("task1", "L", "L"), A("task2", "S", "H"), A("task4", "S", "H"),
           A("task4", "S", "other"), A("task5", "S", "L"), A("task6", "S", "L")}

User(adds, ctrlZWhileIdle, removeBetween) ==
    [adds |-> adds, ctrlZWhileIdle |-> ctrlZWhileIdle,
     removeBetween |-> removeBetween]

\* A task that creates another and one of each priority and quantum.
MCFew == {A("task2", "L", "L"), A("task4", "S", "H"), A("task5", "S", "H")}

\* Tasks of one priority: one that computes, an endless one, one that waits
\* and one that wakes it.
MCEqual == {A("task1", "S", "L"), A("task2", "S", "L"), A("task3", "S", "L"),
            A("task6", "S", "L")}

\* One who keeps off what breaks the scheduler, with every kind of task, and
\* those who do not, with fewer.
MCUsers == {User(MCAdds, FALSE, FALSE), User(MCFew, FALSE, TRUE),
            User(MCFew, TRUE, FALSE), User(MCFew, TRUE, TRUE)}

MCStops   == {User(MCFew, TRUE, FALSE)}
MCRemoves == {User(MCFew, FALSE, TRUE)}
MCWaits   == {User(MCEqual, FALSE, FALSE)}

=============================================================================
