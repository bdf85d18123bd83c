-------------------------------- MODULE Tasks --------------------------------
(***************************************************************************)
(* The cooperative tasks of kernel/task.c as the shell's command `tasks`   *)
(* uses them (shell.c), and the time slice of sched.c, which the timer     *)
(* interrupt counts and net_pump_run looks at.                             *)
(*                                                                         *)
(* A task is named by its id; the tasks of one command form a ring through *)
(* next.  context_switch is the change of cpu: whoever is switched to goes *)
(* on behind its own last switch.  What earlier runs leave on the heap is  *)
(* left out, and so are klog and the counters that are only printed.       *)
(***************************************************************************)
EXTENDS Integers, FiniteSetsExt

CONSTANTS
    MAX_TASKS,
    Spawned,    \* how many tasks the command creates
    Turns,      \* how often a task prints and yields
    Quantum     \* quantum_ticks

ASSUME TaskAssumption ==
    MAX_TASKS \in Nat \ {0} /\ Spawned \in Nat \ {0} /\ Turns \in Nat /\ Quantum \in Nat \ {0}

VARIABLES
    tstate,     \* the state of each task that was created, by id
    tnext,      \* its ring
    current, task_head, num_tasks,
    cpu,        \* who runs: a task, or 0 for the shell
    command,    \* the shell: "idle", "spawn" or "run"
    asked,      \* how many task_create calls it has made
    printed,    \* how often each task has printed
    used_ticks

taskVars == <<tstate, tnext, current, task_head, num_tasks, cpu, command, asked, printed, used_ticks>>

Made == DOMAIN tstate
Nothing == [t \in {} |-> 0]

\* tasking_init
TaskInit ==
    /\ tstate = Nothing /\ tnext = Nothing /\ printed = Nothing
    /\ current = 0 /\ task_head = 0 /\ num_tasks = 0
    /\ cpu = 0 /\ command = "idle" /\ asked = 0
    /\ used_ticks = 0

CmdTasks ==
    /\ command = "idle"
    /\ command' = "spawn" /\ asked' = 0
    /\ tstate' = Nothing /\ tnext' = Nothing /\ printed' = Nothing
    /\ current' = 0 /\ task_head' = 0 /\ num_tasks' = 0
    /\ UNCHANGED <<cpu, used_ticks>>

\* task_create links the new task behind the last one of the ring.
TaskCreate(t) ==
    LET last == CHOOSE x \in Made : tnext[x] = task_head
    IN  /\ command = "spawn" /\ asked < Spawned /\ num_tasks < MAX_TASKS
        /\ t = Cardinality(Made) + 1
        /\ asked' = asked + 1
        /\ tstate' = [x \in Made \cup {t} |-> IF x = t THEN "ready" ELSE tstate[x]]
        /\ printed' = [x \in Made \cup {t} |-> IF x = t THEN 0 ELSE printed[x]]
        /\ IF task_head = 0
           THEN task_head' = t /\ tnext' = [x \in {t} |-> t]
           ELSE /\ tnext' = [x \in Made \cup {t} |-> IF x = t THEN task_head
                                                    ELSE IF x = last THEN t ELSE tnext[x]]
                /\ UNCHANGED task_head
        /\ num_tasks' = num_tasks + 1
        /\ UNCHANGED <<current, cpu, command, used_ticks>>

\* The table is full, or there is no memory.
CreateFails ==
    /\ command = "spawn" /\ asked < Spawned
    /\ asked' = asked + 1
    /\ UNCHANGED <<tstate, tnext, current, task_head, num_tasks, cpu, command, printed, used_ticks>>

\* task_run_all up to its switch, and without a task.
RunAll ==
    /\ command = "spawn" /\ asked = Spawned
    /\ IF task_head = 0
       THEN command' = "idle" /\ UNCHANGED <<tstate, current, cpu>>
       ELSE /\ command' = "run"
            /\ current' = task_head /\ cpu' = task_head
            /\ tstate' = [tstate EXCEPT ![task_head] = "running"]
    /\ UNCHANGED <<tnext, task_head, num_tasks, asked, printed, used_ticks>>

\* ... and behind it.
RunAllReturns ==
    /\ command = "run" /\ cpu = 0
    /\ task_head' = 0 /\ num_tasks' = 0 /\ current' = 0
    /\ command' = "idle"
    /\ UNCHANGED <<tstate, tnext, cpu, asked, printed, used_ticks>>

Runnable(s) == s \in {"ready", "running"}

\* Mutant of PickNext: the search begins with the task itself.
PickNextSelf(st, from) == IF Runnable(st[from]) THEN from ELSE 0

\* pick_next: at most MAX_TASKS + 1 nodes of the ring; 0 for none.
PickNext(st, from) ==
    LET node[i \in 0..MAX_TASKS] == IF i = 0 THEN tnext[from] ELSE tnext[node[i - 1]]
        hits == {i \in 0..MAX_TASKS : Runnable(st[node[i]])}
    IN  IF hits = {} THEN 0 ELSE node[Min(hits)]

\* task_yield of a task that is alone goes on with it.
Yield(t) ==
    LET n == PickNext(tstate, t)
    IN  IF n \in {0, t} THEN UNCHANGED <<tstate, current, cpu>>
        ELSE /\ current' = n /\ cpu' = n
             /\ tstate' = [tstate EXCEPT ![n] = "running", ![t] = "ready"]

\* A turn of a demo task's loop.
PrintAndYield(t) ==
    /\ cpu = t /\ printed[t] < Turns
    /\ printed' = [printed EXCEPT ![t] = @ + 1]
    /\ Yield(t)
    /\ UNCHANGED <<tnext, task_head, num_tasks, command, asked, used_ticks>>

\* task_exit: to the next task, or back to task_run_all.
TaskExit(t) ==
    LET done == [tstate EXCEPT ![t] = "finished"]
        n    == PickNext(done, t)
    IN  /\ cpu = t /\ printed[t] = Turns
        /\ num_tasks' = num_tasks - 1
        /\ IF n \in {0, t}
           THEN current' = 0 /\ cpu' = 0 /\ tstate' = done
           ELSE current' = n /\ cpu' = n /\ tstate' = [done EXCEPT ![n] = "running"]
        /\ UNCHANGED <<tnext, task_head, command, asked, printed, used_ticks>>

\* timer_handler: sched_tick.
Tick ==
    /\ used_ticks < Quantum      \* more change nothing
    /\ used_ticks' = used_ticks + 1
    /\ UNCHANGED <<tstate, tnext, current, task_head, num_tasks, cpu, command, asked, printed>>

\* sched_check_preempt, which only net_pump_run calls, from a command of the shell:
\* then no ring is there to preempt.
CheckPreempt ==
    /\ command = "idle" /\ cpu = 0
    /\ used_ticks >= Quantum
    /\ used_ticks' = 0
    /\ UNCHANGED <<tstate, tnext, current, task_head, num_tasks, cpu, command, asked, printed>>

Works == \E t \in 1..Spawned : PrintAndYield(t) \/ TaskExit(t)

TaskNext ==
    \/ CmdTasks \/ CreateFails \/ RunAll \/ RunAllReturns
    \/ \E t \in 1..Spawned : TaskCreate(t)
    \/ Works
    \/ Tick \/ CheckPreempt

\* The processor goes on with whoever has it.
TaskFairness == WF_taskVars(RunAllReturns) /\ WF_taskVars(Works)

TaskSpec == TaskInit /\ [][TaskNext]_taskVars /\ TaskFairness

-----------------------------------------------------------------------------
\* One task has the processor, it is the current one, and the tasks take turns:
\* none is more than one turn ahead of another.
TurnsShared ==
    /\ {t \in Made : tstate[t] = "running"} = {cpu} \ {0}
    /\ command = "run" => current = cpu
    /\ \A t, u \in Made : printed[t] <= printed[u] + 1

\* task_run_all returns, and then every task has run to its end: "All tasks
\* finished." (shell.c) is true.
AllFinished == \A t \in Made : tstate[t] = "finished" /\ printed[t] = Turns
RunsToEnd ==
    /\ [](TurnsShared /\ (command = "run" /\ cpu = 0 => AllFinished))
    /\ command = "run" ~> command = "idle"
=============================================================================
