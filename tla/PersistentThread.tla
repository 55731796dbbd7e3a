-------------------------- MODULE PersistentThread --------------------------
(***************************************************************************)
(* affix_base::threading::persistent_thread (persistent_thread.h/.cpp), a  *)
(* worker thread that polls a trigger and runs a function, and             *)
(* persistent_thread_group (persistent_thread_group.h/.cpp), a vector of   *)
(* them whose triggers are one; and the threads of the application that    *)
(* trigger workers, have them loop, stop them and wait for them, all       *)
(* through plain bools that everybody reads and writes without a lock.     *)
(*                                                                         *)
(* Each read and each write of a flag is a step, as in a build that does   *)
(* not keep them in registers.  `todo` holds the statements a thread has   *)
(* still to execute, each with the worker whose members it is about.  The  *)
(* std::function is assigned and called without a lock too; what happens   *)
(* when both are done at once is undefined.                                *)
(***************************************************************************)
EXTENDS Naturals, Sequences, FiniteSets, SequencesExt

CONSTANTS
    App,             \* threads of the application
    Worker,          \* m_thread of each persistent_thread
    m_execute_start, \* the trigger of the group
    Freed, Null,     \* what m_call points to when its bool was deleted; no address
    MaxOperations,   \* bound on the operations begun with a thread of its own
    MaxExecutions    \* bound on the operations begun with a group

ASSUME ThreadAssumption ==
    /\ Worker \cap App = {} /\ m_execute_start \notin Worker
    /\ IsFiniteSet(Worker) /\ Worker # {}
    /\ {Freed, Null} \cap (Worker \cup {m_execute_start}) = {}
ASSUME BoundAssumption == MaxOperations \in Nat /\ MaxExecutions \in Nat

Thread == App \cup Worker

VARIABLES
    m_call,          \* m_call[w]: the bool the ptr points to, w's own or the group's
                     \* (or Freed, or Null)
    trigger,         \* their values
    m_persist, m_loop, m_executing, m_function,      \* of each worker
    todo,            \* todo[t]: the statements t is about to execute
    group,           \* the workers that are elements of the group
    begun,           \* operations begun so far
    joined,          \* history, the app threads that know the worker to be joined
    looped,          \* history, the application has had a thread loop
    overlapped,      \* history, two app threads were at it, and one of them to trigger
    owed,            \* history, calls of the app threads that no run has answered
    broken,          \* history, the behaviour is undefined: the function was changed while
                     \* it ran or was not there, or a bool that is gone was used
    crossed,         \* history, an app thread triggered when the worker was not idle
    stopped,         \* history, a wait has ended, m_loop is not set and nobody called since
    late,            \* history, runs begun while stopped
    served           \* history, the workers that began a run since the last execute()

flags == <<m_call, trigger, m_persist, m_loop, m_executing>>
history == <<joined, looped, overlapped, owed, broken, crossed, stopped, late, served>>
vars == <<flags, m_function, todo, group, begun, history>>

\* One thread, or a group of all.
Init ==
    /\ m_call = [w \in Worker |-> w]
    /\ trigger = [b \in Worker \cup {m_execute_start} |-> FALSE]
    /\ m_persist = [w \in Worker |-> TRUE]
    /\ m_loop = [w \in Worker |-> FALSE] /\ m_executing = [w \in Worker |-> FALSE]
    /\ \/ group = {} /\ \E f \in BOOLEAN : m_function = [w \in Worker |-> f]
       \/ group = Worker /\ m_function = [w \in Worker |-> TRUE]
    /\ LET threads == IF group = {} THEN {CHOOSE w \in Worker : TRUE} ELSE group IN
          todo = [t \in Thread |-> IF t \in threads THEN <<<<"while", t>>>> ELSE << >>]
    /\ begun = 0
    /\ joined = App
    /\ owed = 0 /\ late = 0 /\ served = Worker
    /\ looped = FALSE /\ overlapped = FALSE
    /\ broken = FALSE /\ crossed = FALSE /\ stopped = FALSE

-----------------------------------------------------------------------------
(* The member functions, as sequences of statements *)

join_call(w) == <<<<"wait call", w>>>>

\* Bug: call() does not wait for the run before.
callAtOnce(w) == <<<<"trigger", w>>>>

call(w) == Append(join_call(w), <<"trigger", w>>)
loop(w) == Append(join_call(w), <<"set loop", w>>) \o call(w)
join_loop(w) == <<<<"wait loop", w>>>> \o join_call(w)
stop_loop(w) == <<<<"clear loop", w>>>> \o join_loop(w)

About(w, statements) == [i \in DOMAIN statements |-> <<statements[i], w>>]

\* Bug: the trigger is disabled before the execution is marked.
RunMarkedLate(w) == About(w, <<"disable", "enter", "run", "leave", "again">>)

\* Bug: the worker triggers itself without a look at m_loop.
RunAlwaysAgain(w) == About(w, <<"enter", "disable", "run", "leave">>) \o call(w)

\* Bug: the trigger stays enabled.
RunKeepsTrigger(w) == About(w, <<"enter", "run", "leave", "again">>)

\* Bug: the execution stays marked.
RunNeverLeaves(w) == About(w, <<"enter", "disable", "run", "again">>)

\* What a worker does when it finds the trigger.
Run(w) == About(w, <<"enter", "disable", "run", "leave", "again">>)

\* Bug: the function is reset before the thread has ended.
DestroyEagerly(w) == About(w, <<"stop", "forget", "wait end">>)

\* ~persistent_thread()
Destroy(w) == About(w, <<"stop", "wait end", "forget">>)

\* The operations on a thread.
Statements(w) == [
    join_call |-> join_call(w), call |-> call(w), loop |-> loop(w),
    join_loop |-> join_loop(w), stop_loop |-> stop_loop(w),
    assign |-> About(w, <<"assign">>),                  \* operator=
    call_with |-> About(w, <<"assign">>) \o call(w),    \* call(a_func)
    loop_with |-> About(w, <<"assign">>) \o loop(w),    \* loop(a_func)
    destroy |-> Destroy(w)]

Operation == {"join_call", "call", "loop", "join_loop", "stop_loop", "assign",
              "call_with", "loop_with", "destroy"}
Triggering == {"call", "call_with", "loop", "loop_with"}
Assigning == {"assign", "call_with", "loop_with"}
Looping == {"loop", "loop_with"}

\* The elements of the group in their order.
ForEach(Function(_)) == FlattenSeq([i \in 1 .. Cardinality(group) |->
                                        Function(SetToSeq(group)[i])])

\* Bug: join() looks at the first element only.
GroupJoinFirst == IF group = {} THEN << >> ELSE join_call(SetToSeq(group)[1])

\* The operations of the group.
GroupJoin == ForEach(join_call)

\* at(i).m_call.link(m_execute_start): unlink() deletes the bool of the worker, which
\* m_call alone owns, and clears the pointer; then the pointer is set.
LinkTrigger(w) == About(w, <<"delete", "clear", "acquire">>)

GroupStatements == [
    compile |-> ForEach(LinkTrigger),
    execute |-> <<<<"trigger group", m_execute_start>>>>,
    join |-> GroupJoin,
    destruct |-> ForEach(Destroy)]

-----------------------------------------------------------------------------
(* The application begins an operation *)

At(t, statement, w) == todo[t] # << >> /\ Head(todo[t]) = <<statement, w>>

Idle(c) == todo[c] = << >>
OthersIdle(c) == \A d \in App \ {c} : Idle(d)
BoundToTrigger(d) == \E i \in DOMAIN todo[d] : todo[d][i][1] = "trigger"

\* Thread c begins an operation on the only worker there is.  The application
\* does not run a function that is not there, nor replace one that it does not
\* know to be joined, nor use a destroyed object.
Begin(c, w, op) ==
    /\ group = {} /\ todo[w] # << >>
    /\ Idle(c)
    /\ m_persist[w] /\ \A d \in App : ~ At(d, "stop", w)
    /\ op = "destroy" => OthersIdle(c)
    /\ begun < MaxOperations
    /\ op \in Triggering \ Assigning => m_function[w]
    /\ op \in Assigning => c \in joined /\ OthersIdle(c)
    /\ todo' = [todo EXCEPT ![c] = Statements(w)[op]]
    /\ begun' = begun + 1
    /\ joined' = IF op = "join_call" THEN joined \cup {c} ELSE {}
    /\ looped' = (looped \/ op \in Looping)
    /\ overlapped' = (overlapped \/ \E d \in App \ {c} :
                         ~ Idle(d) /\ (op \in Triggering \/ BoundToTrigger(d)))
    /\ stopped' = (stopped /\ op \notin Triggering)
    /\ late' = IF op \in Triggering THEN 0 ELSE late
    /\ UNCHANGED <<flags, m_function, group, owed, broken, crossed, served>>

Compiled == \A w \in group : m_call[w] = m_execute_start

\* A group is compiled first; then one thread at a time executes and joins.
\* While a worker still runs nobody executes: execute() does not wait.
BeginGroup(c, op) ==
    /\ group # {} /\ \A d \in App : Idle(d)
    /\ begun < MaxExecutions
    /\ \A w \in group : m_persist[w]
    /\ op = "compile" <=> ~ Compiled
    /\ op = "execute" => c \in joined
    /\ todo' = [todo EXCEPT ![c] = GroupStatements[op]]
    /\ begun' = begun + 1
    /\ joined' = IF op = "join" THEN joined \cup {c} ELSE joined \ {c}
    /\ stopped' = (stopped /\ op # "execute")
    /\ late' = IF op = "execute" THEN 0 ELSE late
    /\ UNCHANGED <<flags, m_function, group, looped, overlapped, owed, broken, crossed,
                   served>>

-----------------------------------------------------------------------------
(* The statements *)

GoTo(t, statements) == todo' = [todo EXCEPT ![t] = statements]
Continue(t) == GoTo(t, Tail(todo[t]))

\* m_call.val(), read or written, while m_call points to a bool.
Readable(w) == m_call[w] \in Worker \cup {m_execute_start}
Triggered(w) == trigger[m_call[w]]
Reads(t, w) == \E s \in {"wait call", "trigger", "poll", "disable"} : At(t, s, w)

\* It does not: what a freed bool or a null pointer gives is undefined.
Misread(t, w) ==
    /\ Reads(t, w) /\ ~ Readable(w)
    /\ broken' = TRUE
    /\ UNCHANGED <<flags, m_function, todo, group, begun, joined, looped, overlapped, owed,
                   crossed, stopped, late, served>>

\* while (m_call.val() || m_executing.val()): two reads.
Wait(t, w) ==
    /\ \/ /\ At(t, "wait call", w) /\ Readable(w) /\ ~ Triggered(w)
          /\ GoTo(t, <<<<"wait executing", w>>>> \o Tail(todo[t]))
       \/ /\ At(t, "wait executing", w)
          /\ IF m_executing[w]
             THEN GoTo(t, join_call(w) \o Tail(todo[t])) ELSE Continue(t)
       \/ /\ At(t, "wait loop", w) /\ ~ m_loop[w]
          /\ Continue(t)
    /\ stopped' = (stopped \/ /\ t \in App /\ todo'[t] = << >> /\ ~ m_loop[w]
                              /\ ~ \E d \in App : BoundToTrigger(d))
    /\ UNCHANGED <<flags, m_function, group, begun, joined, looped, overlapped, owed,
                   broken, crossed, late, served>>

\* The worker polls, and there is nothing to find.
WorkerIdle(w) == ~ Triggered(w) /\ (At(w, "while", w) \/ At(w, "poll", w))

Trigger(t, w) ==
    /\ At(t, "trigger", w) /\ Readable(w)
    /\ trigger' = [trigger EXCEPT ![m_call[w]] = TRUE]
    /\ owed' = IF t = w THEN owed ELSE owed + 1
    /\ crossed' = (crossed \/ (t # w /\ ~ WorkerIdle(w)))
    /\ Continue(t)
    /\ UNCHANGED <<m_call, m_persist, m_loop, m_executing, m_function, group, begun,
                   joined, looped, overlapped, broken, stopped, late, served>>

\* execute()
TriggerGroup(t) ==
    /\ At(t, "trigger group", m_execute_start)
    /\ trigger' = [trigger EXCEPT ![m_execute_start] = TRUE]
    /\ served' = {}
    /\ Continue(t)
    /\ UNCHANGED <<m_call, m_persist, m_loop, m_executing, m_function, group, begun,
                   joined, looped, overlapped, owed, broken, crossed, stopped, late>>

\* link(), whose lock the workers do not take.  A thread about to read the bool may
\* have read the pointer to it already, so that it uses the bool after the deletion.
Link(t, w) ==
    /\ \/ /\ At(t, "delete", w)
          /\ m_call' = [m_call EXCEPT ![w] = Freed]
          /\ \E held \in BOOLEAN :
                broken' = (broken \/ (held /\ \E u \in Thread : Reads(u, w)))
       \/ /\ At(t, "clear", w)
          /\ m_call' = [m_call EXCEPT ![w] = Null]
          /\ UNCHANGED broken
       \/ /\ At(t, "acquire", w)
          /\ m_call' = [m_call EXCEPT ![w] = m_execute_start]
          /\ UNCHANGED broken
    /\ Continue(t)
    /\ UNCHANGED <<trigger, m_persist, m_loop, m_executing, m_function, group, begun, joined,
                   looped, overlapped, owed, crossed, stopped, late, served>>

\* The assignments to m_loop and m_persist.
SetFlag(t, w) ==
    /\ \/ /\ At(t, "set loop", w) /\ m_loop' = [m_loop EXCEPT ![w] = TRUE]
          /\ UNCHANGED m_persist
       \/ /\ At(t, "clear loop", w) /\ m_loop' = [m_loop EXCEPT ![w] = FALSE]
          /\ UNCHANGED m_persist
       \/ /\ At(t, "stop", w) /\ m_persist' = [m_persist EXCEPT ![w] = FALSE]
          /\ UNCHANGED m_loop
    /\ Continue(t)
    /\ UNCHANGED <<m_call, trigger, m_executing, m_function, group, begun, history>>

\* The assignments to m_function.
SetFunction(t, w) ==
    /\ At(t, "assign", w) \/ At(t, "forget", w)
    /\ m_function' = [m_function EXCEPT ![w] = At(t, "assign", w)]
    /\ broken' = (broken \/ At(w, "running", w))
    /\ Continue(t)
    /\ UNCHANGED <<flags, group, begun, joined, looped, overlapped, owed, crossed, stopped,
                   late, served>>

\* m_thread.join()
WaitEnd(t, w) ==
    /\ At(t, "wait end", w)
    /\ todo[w] = << >>
    /\ Continue(t)
    /\ UNCHANGED <<flags, m_function, group, begun, history>>

\* The loop of init(): while (m_persist.val()) if (m_call.val()).
Poll(w) ==
    /\ \/ At(w, "while", w) /\ GoTo(w, IF m_persist[w] THEN <<<<"poll", w>>>> ELSE << >>)
       \/ At(w, "poll", w) /\ Readable(w)
          /\ GoTo(w, (IF Triggered(w) THEN Run(w) ELSE << >>) \o <<<<"while", w>>>>)
    /\ UNCHANGED <<flags, m_function, group, begun, history>>

\* Its body.
RunStep(w) ==
    /\ \/ /\ At(w, "enter", w)
          /\ m_executing' = [m_executing EXCEPT ![w] = TRUE]
          /\ Continue(w)
          /\ UNCHANGED <<trigger, owed, broken, late, served>>
       \/ /\ At(w, "disable", w) /\ Readable(w)
          /\ trigger' = [trigger EXCEPT ![m_call[w]] = FALSE]
          /\ owed' = IF owed > 0 THEN owed - 1 ELSE 0
          /\ Continue(w)
          /\ UNCHANGED <<m_executing, broken, late, served>>
       \/ /\ At(w, "run", w)
          /\ broken' = (broken \/ ~ m_function[w])
          /\ late' = IF stopped THEN late + 1 ELSE late
          /\ served' = served \cup {w}
          /\ GoTo(w, <<<<"running", w>>>> \o Tail(todo[w]))
          /\ UNCHANGED <<trigger, m_executing, owed>>
       \/ /\ At(w, "running", w)
          /\ Continue(w)
          /\ UNCHANGED <<trigger, m_executing, owed, broken, late, served>>
       \/ /\ At(w, "leave", w)
          /\ m_executing' = [m_executing EXCEPT ![w] = FALSE]
          /\ Continue(w)
          /\ UNCHANGED <<trigger, owed, broken, late, served>>
       \/ /\ At(w, "again", w)
          /\ GoTo(w, (IF m_loop[w] THEN call(w) ELSE << >>) \o Tail(todo[w]))
          /\ UNCHANGED <<trigger, m_executing, owed, broken, late, served>>
    /\ UNCHANGED <<m_call, m_persist, m_loop, m_function, group, begun, joined, looped,
                   overlapped, crossed, stopped>>

Step(t) ==
    \/ \E w \in Worker :
          \/ Wait(t, w) \/ Trigger(t, w) \/ Link(t, w) \/ Misread(t, w)
          \/ SetFlag(t, w) \/ SetFunction(t, w) \/ WaitEnd(t, w)
          \/ t = w /\ (Poll(w) \/ RunStep(w))
    \/ TriggerGroup(t)

\* Undefined behaviour ends what the model says of an execution.
Next ==
    /\ ~ broken
    /\ \/ \E c \in App, w \in Worker, op \in Operation : Begin(c, w, op)
       \/ \E c \in App, op \in DOMAIN GroupStatements : BeginGroup(c, op)
       \/ \E t \in Thread : Step(t)

Spec == Init /\ [][Next]_vars

\* Every thread runs.
FairSpec == Spec /\ \A t \in Thread : WF_vars(~ broken /\ Step(t))

-----------------------------------------------------------------------------
(* Properties *)

Working(w) == \E i \in DOMAIN todo[w] : todo[w][i] = <<"leave", w>>

\* A worker waits in its own call() for a trigger that only it disables.
WaitsForItself(w) == At(w, "wait call", w) /\ Triggered(w)

\* The statements.
Name == {"while", "poll", "enter", "disable", "run", "running", "leave", "again",
         "wait call", "wait executing", "wait loop", "wait end", "trigger",
         "trigger group", "set loop", "clear loop", "assign", "delete", "clear",
         "acquire", "stop", "forget"}

TypeOK ==
    /\ m_call \in [Worker -> Worker \cup {m_execute_start, Freed, Null}]
    /\ trigger \in [Worker \cup {m_execute_start} -> BOOLEAN]
    /\ {m_persist, m_loop, m_executing, m_function} \subseteq [Worker -> BOOLEAN]
    /\ todo \in [Thread -> Seq(Name \X (Worker \cup {m_execute_start}))]
    /\ group \subseteq Worker /\ served \subseteq Worker /\ joined \subseteq App
    /\ {looped, overlapped, broken, crossed, stopped} \subseteq BOOLEAN
    /\ {begun, owed, late} \subseteq Nat

\* No call() is lost in the trigger of an earlier one, when nobody loops: the
\* trigger stands for all the calls that no run has answered yet, unless two
\* threads of the application have called at the same time.
NoCallLost ==
    ~ looped /\ ~ overlapped =>
        \A w \in Worker \ group : todo[w] # << >> => owed = IF Triggered(w) THEN 1 ELSE 0

\* When join_call() returns to a thread of the application, nobody loops and
\* no other thread calls, the runs it waited for have ended: between the two
\* reads nothing slips by.
JoinedMeansDone ==
    [][\A c \in App, w \in Worker \ group :
          ~ looped /\ ~ overlapped /\ Wait(c, w) /\ todo'[c] = << >>
              => ~ Triggered(w) /\ ~ Working(w)]_vars

\* When join() of a group returns, at least one of its workers has begun a run
\* since execute() and ended it: the trigger is cleared by a worker that goes
\* on to run, late from the execution before or not.  The others may have run,
\* may run later, or may have missed the trigger.  All this if no worker used its
\* trigger while compile() linked it, which leaves nothing defined (NeverBroken).
GroupJoinedMeansOneRan ==
    [][\A c \in App, w \in group :
          Wait(c, w) /\ todo'[c] = << >> => \E v \in served : ~ Working(v)]_vars

\* The worker polls, while compile() is inside the link() of its trigger.
LinkUnderWay(w) == \E c \in App : At(c, "clear", w) \/ At(c, "acquire", w)
PolledWhileLinked(w) == At(w, "poll", w) /\ LinkUnderWay(w)

\* A function is never replaced or destroyed while it runs, nor run without
\* being there, if it is assigned after join_call() only, nobody loops and no
\* two threads use it at once: a join may see a loop between two runs.  No thread
\* uses a trigger that is gone, but a worker that polls while compile() links it.
NeverBroken ==
    TypeOK /\ (broken => looped \/ overlapped \/ \E w \in group : PolledWhileLinked(w))

\* When stop_loop() has returned the function runs once more at the most: the
\* worker may have decided so before, and nobody sees it between m_executing
\* and m_call.  After the join() of a group it is each worker that saw the
\* trigger before another one cleared it.
OneLateRun == late <= IF group = {} THEN 1 ELSE Cardinality(group) - 1

\* The worker waits for itself only if the application has triggered it on the
\* strength of a join_call() that was out of date: the worker went on to loop.
WaitsForItselfOnlyWhenCrossed == \A w \in Worker : WaitsForItself(w) => crossed

\* Every operation returns, unless the worker waits for itself; those that wait
\* for a call may wait as long as the thread loops, but not the destructor.
EveryOperationReturns ==
    \A c \in App :
        todo[c] # << >> ~>
            \/ todo[c] = << >> \/ broken
            \/ \E w \in Worker : (m_loop[w] /\ m_persist[w]) \/ WaitsForItself(w)

=============================================================================
