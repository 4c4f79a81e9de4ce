------------------------------- MODULE CpuInfo -------------------------------
(*****************************************************************************)
(* The processor information of src/cpuinfo.cpp (Linux): a count of physical *)
(* cores and a list of one thread id per core, found by the first call of    *)
(* physical_concurrency() or physical_core_ids() and kept in two atomics and *)
(* a vector.  Threads that come first together all find out for themselves;  *)
(* one of them gets its vector published.                                    *)
(*                                                                           *)
(* A step is one access to an atomic.  A vector is named by the thread that  *)
(* filled it.                                                                *)
(*****************************************************************************)
EXTENDS CpuTopology

CONSTANTS
    Threads,        \* the threads that call
    Files,          \* what /proc/cpuinfo may say
    NULL            \* nullptr

ASSUME NullAssumption == NULL \notin Threads

\* The kernel describes no processor twice.
ASSUME FilesAssumption ==
    \A f \in Files :
        /\ f \in Seq([key : Keys, id : Nat])
        /\ \A i, j \in 1 .. Len(f) : f[i] = f[j] /\ f[i].key = "processor" => i = j
        /\ CoreThreadIds(f) # NULL

VARIABLES
    file,                   \* /proc/cpuinfo
    physical_concurrency,   \* the atomics of cpu_info_value
    core_thread_ids_ptr,
    heap,                   \* the elements of each vector; NULL when there is none
    pc,                     \* where each thread is
    query,                  \* what it has called
    count,                  \* its locals physicalConcurrency
    ptr,                    \* and coreThreadIdsPtr
    won,                    \* whether its compare-exchange succeeded
    counts,                 \* history: the counts that were returned
    spans                   \* and the lists

cpu_info_value == <<physical_concurrency, core_thread_ids_ptr, heap>>
locals == <<query, count, ptr, won>>
history == <<counts, spans>>
vars == <<file, cpu_info_value, pc, locals, history>>

Queries == {"physical_concurrency", "physical_core_ids"}

-----------------------------------------------------------------------------

Goto(t, label) == pc' = [pc EXCEPT ![t] = label]

Init ==
    /\ file \in Files
    /\ physical_concurrency = 0
    /\ core_thread_ids_ptr = NULL
    /\ heap = [t \in Threads |-> NULL]
    /\ pc = [t \in Threads |-> "idle"]
    /\ query = [t \in Threads |-> "physical_concurrency"]
    /\ count = [t \in Threads |-> 0]
    /\ ptr = [t \in Threads |-> NULL]
    /\ won = [t \in Threads |-> FALSE]
    /\ counts = {}
    /\ spans = {}

\* Definitions whose comment begins with "Fault" are not the code but mistakes it
\* does not make; the checks put them in place of the definition that follows.

\* The program calls one of the functions, which loads the count ...
Call(t, q) ==
    /\ pc[t] = "idle"
    /\ query' = [query EXCEPT ![t] = q]
    /\ count' = [count EXCEPT ![t] = physical_concurrency]
    /\ ptr' = [ptr EXCEPT ![t] = NULL]
    /\ Goto(t, CASE q = "physical_core_ids" -> "load_ptr"
                 [] physical_concurrency = 0 -> "guard"
                 [] OTHER -> "return")
    /\ UNCHANGED <<file, cpu_info_value, won, history>>

\* ... and then the pointer.
LoadPtr(t) ==
    /\ pc[t] = "load_ptr"
    /\ ptr' = [ptr EXCEPT ![t] = core_thread_ids_ptr]
    /\ Goto(t, IF count[t] = 0 \/ core_thread_ids_ptr = NULL THEN "guard" ELSE "return")
    /\ UNCHANGED <<file, cpu_info_value, query, count, won, history>>

\* init_cpu_info looks at the count only.
Guard(t) ==
    /\ pc[t] = "guard"
    /\ Goto(t, IF physical_concurrency = 0 THEN "read" ELSE "reload_count")
    /\ UNCHANGED <<file, cpu_info_value, locals, history>>

\* initFunc reads the file and stores the count.
StoreCount(t) ==
    /\ pc[t] = "read"
    /\ ~ReadFile(file).failed
    /\ heap' = [heap EXCEPT ![t] = CoreThreadIds(file)]
    /\ physical_concurrency' = Len(heap'[t])
    /\ Goto(t, "publish")
    /\ UNCHANGED <<file, core_thread_ids_ptr, locals, history>>

\* A file that cannot be understood: the exception leaves a noexcept function.
Terminate(t) ==
    /\ pc[t] = "read"
    /\ ReadFile(file).failed
    /\ pc' = [u \in Threads |-> "terminated"]
    /\ UNCHANGED <<file, cpu_info_value, locals, history>>

\* data() of the vector of thread t
Data(t) == IF heap[t] = << >> THEN NULL ELSE t

\* Fault: the pointer is stored whatever it was.
PublishAnyway(t) ==
    /\ pc[t] = "publish"
    /\ won' = [won EXCEPT ![t] = core_thread_ids_ptr = NULL]
    /\ core_thread_ids_ptr' = Data(t)
    /\ Goto(t, "leave")
    /\ UNCHANGED <<file, physical_concurrency, heap, query, count, ptr, history>>

\* The compare-exchange
Publish(t) ==
    /\ pc[t] = "publish"
    /\ won' = [won EXCEPT ![t] = core_thread_ids_ptr = NULL]
    /\ core_thread_ids_ptr' =
           IF core_thread_ids_ptr = NULL THEN Data(t) ELSE core_thread_ids_ptr
    /\ Goto(t, "leave")
    /\ UNCHANGED <<file, physical_concurrency, heap, query, count, ptr, history>>

\* Fault: the vector is a local variable, whoever won.
LeaveInitOnly(t) ==
    /\ pc[t] = "leave"
    /\ heap' = [heap EXCEPT ![t] = NULL]
    /\ Goto(t, "reload_count")
    /\ UNCHANGED <<file, physical_concurrency, core_thread_ids_ptr, locals, history>>

\* The winner moves its vector, whose elements stay where they are, to a variable
\* that lives as long as the program; that of a loser is destroyed.
LeaveInit(t) ==
    /\ pc[t] = "leave"
    /\ heap' = IF won[t] THEN heap ELSE [heap EXCEPT ![t] = NULL]
    /\ Goto(t, "reload_count")
    /\ UNCHANGED <<file, physical_concurrency, core_thread_ids_ptr, locals, history>>

ReloadCount(t) ==
    /\ pc[t] = "reload_count"
    /\ count' = [count EXCEPT ![t] = physical_concurrency]
    /\ Goto(t, IF query[t] = "physical_core_ids" THEN "reload_ptr" ELSE "return")
    /\ UNCHANGED <<file, cpu_info_value, query, ptr, won, history>>

ReloadPtr(t) ==
    /\ pc[t] = "reload_ptr"
    /\ ptr' = [ptr EXCEPT ![t] = core_thread_ids_ptr]
    /\ Goto(t, "return")
    /\ UNCHANGED <<file, cpu_info_value, query, count, won, history>>

ReturnCount(t) ==
    /\ pc[t] = "return"
    /\ query[t] = "physical_concurrency"
    /\ counts' = counts \cup {count[t]}
    /\ Goto(t, "idle")
    /\ UNCHANGED <<file, cpu_info_value, locals, spans>>

\* The list is a view, which the caller may keep.
ReturnSpan(t) ==
    /\ pc[t] = "return"
    /\ query[t] = "physical_core_ids"
    /\ spans' = spans \cup {[data |-> ptr[t], size |-> count[t]]}
    /\ Goto(t, "idle")
    /\ UNCHANGED <<file, cpu_info_value, locals, counts>>

Step(t) ==
    \/ \E q \in Queries : Call(t, q)
    \/ LoadPtr(t) \/ Guard(t) \/ StoreCount(t) \/ Terminate(t) \/ Publish(t)
    \/ LeaveInit(t) \/ ReloadCount(t) \/ ReloadPtr(t) \/ ReturnCount(t) \/ ReturnSpan(t)

\* Nothing happens any more.
Terminated ==
    /\ \A t \in Threads : pc[t] = "terminated"
    /\ UNCHANGED vars

Next == (\E t \in Threads : Step(t)) \/ Terminated

Spec == Init /\ [][Next]_vars

-----------------------------------------------------------------------------

Labels == {"idle", "load_ptr", "guard", "read", "publish", "leave", "reload_count",
           "reload_ptr", "return", "terminated"}

Pointers == Threads \cup {NULL}

Cores == CoreThreadIds(file)

TypeOK ==
    /\ file \in Files
    /\ physical_concurrency \in {0, Len(Cores)}
    /\ core_thread_ids_ptr \in Pointers
    /\ heap \in [Threads -> {NULL, Cores}]
    /\ pc \in [Threads -> Labels]
    /\ query \in [Threads -> Queries]
    /\ count \in [Threads -> {0, Len(Cores)}]
    /\ ptr \in [Threads -> Pointers]
    /\ won \in [Threads -> BOOLEAN]
    /\ counts \subseteq Nat
    /\ spans \subseteq [data : Pointers, size : Nat]

\* The elements of a list that was returned.
Elements(span) == SubSeq(heap[span.data], 1, span.size)

(* A list that was returned stays what it was: it refers to the vector that  *)
(* was kept and to all of it, and everyone has got the same one, whoever     *)
(* else was initialising at the time.                                        *)
SpansStayValid ==
    \A a, b \in {span \in spans : span.data # NULL} :
        /\ a.data = b.data
        /\ heap[a.data] # NULL
        /\ Len(heap[a.data]) = a.size

-----------------------------------------------------------------------------
(* The inductive invariant                                                   *)

\* The pointer comes after the count, so that whoever sees the pointer gets its length.
PublishedWithCount ==
    core_thread_ids_ptr # NULL =>
        /\ heap[core_thread_ids_ptr] = Cores
        /\ Cores # << >>
        /\ physical_concurrency = Len(Cores)

\* The count comes before everything else.
CountStored ==
    \A t \in Threads :
        /\ pc[t] \in {"publish", "leave"} => heap[t] = Cores
        /\ pc[t] \in {"publish", "leave", "reload_count"} =>
               physical_concurrency = Len(Cores)

\* A thread that has published its vector knows, and will not fill another one.
WinnerKnows ==
    \A t \in Threads :
        core_thread_ids_ptr = t =>
            /\ pc[t] \notin {"read", "publish"}
            /\ pc[t] = "leave" => won[t]

\* What a thread has loaded goes together, in spite of loading one after the other.
LoadedTogether ==
    \A t \in Threads :
        /\ ptr[t] # NULL => ptr[t] = core_thread_ids_ptr
        /\ pc[t] = "reload_ptr" => count[t] = Len(Cores)
        /\ pc[t] = "return" /\ query[t] = "physical_core_ids" /\ ptr[t] # NULL =>
               count[t] = Len(Cores)

\* A count that is returned is that of all cores ...
CountsOfCores ==
    /\ counts \subseteq {Len(Cores)}
    /\ \A t \in Threads :
           pc[t] = "return" /\ query[t] = "physical_concurrency" => count[t] = Len(Cores)

\* ... and so is the size of a list, unless it has no elements.
SpansOfCores ==
    \A span \in spans :
        span.data # NULL => span.data = core_thread_ids_ptr /\ span.size = Len(Cores)

(* Why lists stay valid, in every state: the count is stored before the      *)
(* pointer, the vector behind the pointer is the winner's, which nobody      *)
(* destroys, and a count and a pointer that were loaded one after the other  *)
(* go together if there is a pointer.                                        *)
IInv ==
    TypeOK /\ PublishedWithCount /\ CountStored /\ WinnerKnows /\ LoadedTogether
        /\ CountsOfCores /\ SpansOfCores

-----------------------------------------------------------------------------

(* Each physical core of the file is counted once, and the thread ids that   *)
(* are returned are on distinct cores.                                       *)
OneThreadPerCore ==
    LET ids == ReadFile(file).ids
        cores == {<<a["physical id"], a["core id"]>> : a \in ids}
        CoreOf(p) == CHOOSE core \in cores :
                        \E a \in ids : /\ a["processor"] = p
                                       /\ core = <<a["physical id"], a["core id"]>>
    IN  /\ \A n \in counts : n = Cardinality(cores)
        /\ \A span \in {s \in spans : s.data # NULL} :
               LET list == Elements(span)
               IN  {CoreOf(list[i]) : i \in DOMAIN list} = cores

(* "Returns a list of thread ids" (thread.hpp); test-thread.cpp expects it   *)
(* to have as many elements as there are cores: a list with a length has     *)
(* elements.                                                                 *)
ListsHaveElements == \A span \in spans : span.data = NULL => span.size = 0

=============================================================================
