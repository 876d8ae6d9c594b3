------------------------------ MODULE Scheduler ------------------------------
(***************************************************************************)
(* The round-robin scheduler of the Gecko microkernel: scheduler.c, which  *)
(* the repository keeps in src/fusion_os/gecko/ipc.h after the IPC header. *)
(*                                                                         *)
(* State is the task table (state, task_id, time_remaining per slot), the  *)
(* task_list node of each slot with the three queues it can be linked on   *)
(* (IntrusiveList), current_task, next_task_id, task_count and             *)
(* scheduler_running.  Each public function is one action, with every      *)
(* function it calls (list operations, scheduler_schedule,                 *)
(* select_next_task) folded in as operators over the state record S.      *)
(*                                                                         *)
(* Left out: the priority and name fields (only set_priority and           *)
(* get_priority touch them, and nothing selects on them), the policy field *)
(* (both creation functions set SCHED_RR, so every policy test is true),   *)
(* the timing fields (system_uptime is never advanced, so they stay 0) and *)
(* the saved register state of context_switch.                             *)
(*                                                                         *)
(* select_next_task loops for ever when the ready queue is cyclic and      *)
(* holds no Ready task; the model records that the CPU is stuck there      *)
(* (hung) and takes no further step.                                       *)
(***************************************************************************)
EXTENDS Integers, Sequences, FiniteSets, FiniteSetsExt, IntrusiveList

CONSTANTS
  MaxTasks,       \* MAX_TASKS (256 in scheduler.h), scaled down
  TimeSlice,      \* DEFAULT_TIME_SLICE
  MaxTaskId,      \* bound: ids handed out by the creation functions
  MaxListCount,   \* bound: the count field of a queue
  MaxCountWrap    \* bound: how far task_count may fall below zero

\* scheduler.h task states
TASK_RUNNING    == 0
TASK_READY      == 1
TASK_BLOCKED    == 2
TASK_SLEEPING   == 3
TASK_TERMINATED == 4

TaskStates == {TASK_RUNNING, TASK_READY, TASK_BLOCKED, TASK_SLEEPING, TASK_TERMINATED}

Slots  == 0..(MaxTasks - 1)
Queues == {"ready", "blocked", "sleeping"}

\* What select_next_task yields when it never returns.
Hang == -1

VARIABLES
  state, task_id, time_remaining,  \* the task table
  next, prev,                      \* the task_list node of every slot
  lists,                           \* ready_queue, blocked_queue, sleeping_queue
  current_task, next_task_id, task_count, scheduler_running,
  hung                             \* the CPU spins in select_next_task

vars == <<state, task_id, time_remaining, next, prev, lists,
          current_task, next_task_id, task_count, scheduler_running, hung>>

S == [state |-> state, task_id |-> task_id, time_remaining |-> time_remaining,
      next |-> next, prev |-> prev, lists |-> lists, current_task |-> current_task,
      next_task_id |-> next_task_id, task_count |-> task_count,
      scheduler_running |-> scheduler_running, hung |-> hung]

\* task_count is a uint32: the model keeps it signed, a negative value v
\* standing for 2^32 + v, which is above every bound it is compared with.
TaskCountBelow(c, m) == c >= 0 /\ c < m

\* scheduler_init: memset(tasks, 0, ..) leaves every slot in state 0,
\* which is TASK_RUNNING, with task id 0.
Init ==
  /\ state             = [i \in Slots |-> TASK_RUNNING]
  /\ task_id           = [i \in Slots |-> 0]
  /\ time_remaining    = [i \in Slots |-> 0]
  /\ next              = [i \in Slots |-> Nil]
  /\ prev              = [i \in Slots |-> Nil]
  /\ lists             = [q \in Queues |-> EmptyList]
  /\ current_task      = Nil
  /\ next_task_id      = 1
  /\ task_count        = 0
  /\ scheduler_running = FALSE
  /\ hung              = FALSE

\* find_task_by_id: the first slot with that id that is not Terminated.
FindTaskById(s, id) ==
  LET found == {i \in Slots : s.task_id[i] = id /\ s.state[i] # TASK_TERMINATED}
  IN  IF found = {} THEN Nil ELSE Min(found)

(***************************************************************************)
(* select_next_task: the first Ready task met walking ready_queue from its *)
(* head; failing that current_task if it is Running; failing that NULL.    *)
(* A walk of MaxTasks nodes that has not reached NULL has entered a cycle. *)
(***************************************************************************)
SelectNextTask(s) ==
  LET walk  == WalkFrom(s, s.lists["ready"].head, MaxTasks)
      ready == SelectSeq(walk, LAMBDA t : s.state[t] = TASK_READY)
  IN  IF ready # <<>> THEN Head(ready)
      ELSE IF Len(walk) = MaxTasks /\ s.next[walk[MaxTasks]] # Nil THEN Hang
      ELSE IF s.current_task # Nil /\ s.state[s.current_task] = TASK_RUNNING
           THEN s.current_task
      ELSE Nil

\* list_remove followed by list_add_tail on the same queue.
MoveToTail(s, q, t) == ListAddTail(ListRemove(s, q, t), q, t)

(***************************************************************************)
(* scheduler_schedule: pick the next task; if it is NULL or the current    *)
(* one, return.  Otherwise a Running old task becomes Ready and, if it has *)
(* slice left, goes to the ready tail; the new task is made Running with a *)
(* fresh slice and becomes current_task.                                   *)
(***************************************************************************)
Schedule(s) ==
  LET old == s.current_task
      new == SelectNextTask(s)
      s1  == IF old # Nil /\ s.state[old] = TASK_RUNNING
             THEN LET d == [s EXCEPT !.state[old] = TASK_READY]
                  IN  IF s.time_remaining[old] > 0 THEN MoveToTail(d, "ready", old) ELSE d
             ELSE s
  IN  IF ~s.scheduler_running THEN s
      ELSE IF new = Hang THEN [s EXCEPT !.hung = TRUE]
      ELSE IF new = Nil \/ new = old THEN s
      ELSE [s1 EXCEPT !.current_task = new, !.state[new] = TASK_RUNNING,
                      !.time_remaining[new] = TimeSlice]

(***************************************************************************)
(* scheduler_create_task / scheduler_create_thread: refuse when task_count *)
(* has reached MAX_TASKS or no slot is Terminated; otherwise zero the      *)
(* first Terminated slot (its list node included), give it the next id,    *)
(* make it Ready with a full slice, and - if its stack was obtained - link *)
(* it at the ready tail and count it.  Returns <<state, succeeded>>.       *)
(***************************************************************************)
CreateTask(s, stackOk) ==
  LET free == {i \in Slots : s.state[i] = TASK_TERMINATED}
      i    == Min(free)
      s1   == [s EXCEPT !.task_id[i] = s.next_task_id, !.next_task_id = @ + 1,
                        !.state[i] = TASK_READY, !.time_remaining[i] = TimeSlice,
                        !.next[i] = Nil, !.prev[i] = Nil]
  IN  IF ~TaskCountBelow(s.task_count, MaxTasks) \/ free = {} THEN <<s, FALSE>>
      ELSE IF ~stackOk THEN <<s1, FALSE>>
      ELSE <<[ListAddTail(s1, "ready", i) EXCEPT !.task_count = @ + 1], TRUE>>

(***************************************************************************)
(* scheduler_start: when not yet running, create the idle task; on failure *)
(* return (keeping what the failed creation wrote).  Otherwise set         *)
(* scheduler_running and make the selected task current and Running.       *)
(***************************************************************************)
Start(s, stackOk) ==
  LET r     == CreateTask(s, stackOk)
      s1    == [r[1] EXCEPT !.scheduler_running = TRUE]
      first == SelectNextTask(s1)
  IN  IF s.scheduler_running THEN s
      ELSE IF ~r[2] THEN r[1]
      ELSE IF first = Hang THEN [s1 EXCEPT !.hung = TRUE]
      ELSE IF first = Nil THEN s1
      ELSE [s1 EXCEPT !.current_task = first, !.state[first] = TASK_RUNNING]

(***************************************************************************)
(* scheduler_yield: with slice left, the current task's slice is zeroed,   *)
(* it is made Ready, moved to the ready tail, and scheduler_schedule runs. *)
(***************************************************************************)
Yield(s) ==
  LET t == s.current_task
  IN  IF ~s.scheduler_running \/ t = Nil THEN s
      ELSE IF s.time_remaining[t] > 0
           THEN Schedule(MoveToTail([s EXCEPT !.time_remaining[t] = 0,
                                              !.state[t] = TASK_READY], "ready", t))
      ELSE s

(***************************************************************************)
(* scheduler_terminate_task: the task is marked Terminated and removed     *)
(* from all three queues, whichever it is on, and task_count drops.        *)
(* current_task is left as it is.                                          *)
(***************************************************************************)
Terminate(s, id) ==
  LET t  == FindTaskById(s, id)
      s1 == ListRemove(ListRemove(ListRemove([s EXCEPT !.state[t] = TASK_TERMINATED],
                                             "ready", t), "blocked", t), "sleeping", t)
  IN  IF t = Nil THEN s ELSE [s1 EXCEPT !.task_count = @ - 1]

(***************************************************************************)
(* scheduler_block_task(reason): the current task takes reason as its      *)
(* state, leaves the ready queue, joins the blocked queue, and             *)
(* scheduler_schedule runs.                                                *)
(***************************************************************************)
Block(s, reason) ==
  LET t == s.current_task
  IN  IF t = Nil THEN s
      ELSE Schedule(ListAddTail(ListRemove([s EXCEPT !.state[t] = reason], "ready", t),
                                "blocked", t))

\* scheduler_unblock_task: a Blocked task moves to the ready tail as Ready.
Unblock(s, id) ==
  LET t == FindTaskById(s, id)
  IN  IF t = Nil \/ s.state[t] # TASK_BLOCKED THEN s
      ELSE ListAddTail(ListRemove([s EXCEPT !.state[t] = TASK_READY], "blocked", t),
                       "ready", t)

-----------------------------------------------------------------------------
(***************************************************************************)
(* Actions.  Each takes the state a call leaves, provided it stays inside  *)
(* the model's bounds and the CPU is not spinning in select_next_task.    *)
(***************************************************************************)
WithinBounds(r) ==
  /\ r.next_task_id <= MaxTaskId + 1
  /\ \A q \in Queues : r.lists[q].count <= MaxListCount
  /\ r.task_count >= -MaxCountWrap

Apply(r) ==
  /\ ~hung
  /\ WithinBounds(r)
  /\ state' = r.state /\ task_id' = r.task_id /\ time_remaining' = r.time_remaining
  /\ next' = r.next /\ prev' = r.prev /\ lists' = r.lists
  /\ current_task' = r.current_task /\ next_task_id' = r.next_task_id
  /\ task_count' = r.task_count /\ scheduler_running' = r.scheduler_running
  /\ hung' = r.hung

\* The outcomes of vmm_alloc_kernel_memory for a task's stack.
StackOutcomes == BOOLEAN

\* Ids a caller may name: every id handed out, and ones never handed out.
Ids == 0..MaxTaskId

\* Reasons a caller may pass to scheduler_block_task.
BlockReasons == {TASK_BLOCKED, TASK_SLEEPING}

SchedulerStart       == \E ok \in StackOutcomes : Apply(Start(S, ok))
\* scheduler_create_thread is the stackOk case: the caller supplies the stack.
SchedulerCreateTask  == \E ok \in StackOutcomes : Apply(CreateTask(S, ok)[1])
SchedulerYield       == Apply(Yield(S))
SchedulerSchedule    == Apply(Schedule(S))
SchedulerTerminate   == \E id \in Ids : Apply(Terminate(S, id))
SchedulerBlock       == \E reason \in BlockReasons : Apply(Block(S, reason))
SchedulerUnblock     == \E id \in Ids : Apply(Unblock(S, id))

Next ==
  \/ SchedulerStart
  \/ SchedulerCreateTask
  \/ SchedulerYield
  \/ SchedulerSchedule
  \/ SchedulerTerminate
  \/ SchedulerBlock
  \/ SchedulerUnblock

Spec == Init /\ [][Next]_vars

-----------------------------------------------------------------------------
TypeOK ==
  /\ state \in [Slots -> TaskStates]
  /\ task_id \in [Slots -> 0..MaxTaskId]
  /\ time_remaining \in [Slots -> {0, TimeSlice}]
  /\ next \in [Slots -> Slots \cup {Nil}]
  /\ prev \in [Slots -> Slots \cup {Nil}]
  /\ lists \in [Queues -> [head : Slots \cup {Nil}, tail : Slots \cup {Nil},
                          count : 0..MaxListCount]]
  /\ current_task \in Slots \cup {Nil}
  /\ next_task_id \in 1..(MaxTaskId + 1)
  /\ task_count \in -MaxCountWrap..MaxTasks
  /\ scheduler_running \in BOOLEAN
  /\ hung \in BOOLEAN

\* At most one task is Running, and it is current_task: scheduler_schedule
\* must demote the old task before it promotes the new one, through
\* yields, blocks, terminations and slot reuse.
RunningIsCurrent ==
  \A t \in Slots : state[t] = TASK_RUNNING => t = current_task

\* The nodes met walking queue q from its head (MaxTasks + 1 steps show a
\* cycle).
QueueWalk(q) == WalkFrom(S, lists[q].head, MaxTasks + 1)

\* Spec 8.6 and 4.4: every queue is a well-formed doubly-linked list whose
\* count is its length, and no task is on two queues.  list_remove is
\* called by scheduler_terminate_task on all three queues and by
\* scheduler_block_task on the ready queue without knowing where the task
\* is linked.
QueuesWellFormed ==
  /\ \A q \in Queues :
       LET w == QueueWalk(q)
       IN  /\ Len(w) = lists[q].count
           /\ (lists[q].tail = IF w = <<>> THEN Nil ELSE w[Len(w)])
           /\ w # <<>> => next[w[Len(w)]] = Nil /\ prev[w[1]] = Nil
           /\ \A i \in 1..(Len(w) - 1) : prev[w[i + 1]] = w[i]
  /\ \A q1, q2 \in Queues :
       q1 # q2 => {QueueWalk(q1)[i] : i \in DOMAIN QueueWalk(q1)}
                   \cap {QueueWalk(q2)[i] : i \in DOMAIN QueueWalk(q2)} = {}

\* Spec 3: termination retires the id - a Terminated slot comes back only
\* as a new task, with a new id, through a creation.  current_task is not
\* cleared by scheduler_terminate_task, and scheduler_yield acts on it.
TerminationRetiresId ==
  [][\A t \in Slots :
       state[t] = TASK_TERMINATED /\ state'[t] # TASK_TERMINATED =>
         task_id'[t] # task_id[t]]_vars

=============================================================================
