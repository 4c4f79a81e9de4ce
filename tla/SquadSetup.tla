------------------------------ MODULE SquadSetup ------------------------------
(*****************************************************************************)
(* How a squad comes about: the constructor checks the parameters, create    *)
(* replaces those that are left open, the constructor of thread_squad_impl   *)
(* chooses the hardware thread of each thread and lays out the tree, and the *)
(* first task starts the threads, each where it is pinned.                   *)
(*                                                                           *)
(* The number of hardware threads and the start of a thread are external.    *)
(*****************************************************************************)
EXTENDS SquadTree, FiniteSets

CONSTANTS
    Params,         \* thread_squad::params, as given by clients
    HardwareCounts, \* what std::thread::hardware_concurrency() may return
    Anywhere        \* the affinity of a thread that is not pinned, std::size_t(-1)

\* Negative numbers are rejected where they are first used (check_params, and
\* narrow_failfast in get_hardware_thread_id).
ParamRecords ==
    [num_threads : Nat, pin_to_hardware_threads : BOOLEAN,
     max_num_hardware_threads : Nat, hardware_thread_mappings : Seq(Nat)]

ASSUME ParamsAssumption == Params \subseteq ParamRecords

ASSUME HardwareAssumption == HardwareCounts \subseteq Nat /\ Anywhere \notin Nat

VARIABLES
    given,          \* the parameters as they were given
    params,         \* the parameters
    hardware,       \* std::thread::hardware_concurrency()
    stage,          \* how far the setup has come
    affinity,       \* coreAffinity_ of each thread, in the order of indices
    forked,         \* the number of threads that have been started
    concurrency     \* the number of threads of a task

setupVars == <<given, params, hardware, stage, affinity, forked, concurrency>>

GreaterOf(a, b) == IF a >= b THEN a ELSE b

numThreads == params.num_threads

SetupInit ==
    /\ given \in Params
    /\ params = given
    /\ hardware \in HardwareCounts
    /\ stage = "create"
    /\ affinity = << >>
    /\ forked = 0
    /\ concurrency = 0

MaxNumHardwareThreads(p) ==
    GreaterOf(hardware,
        IF p.max_num_hardware_threads # 0 THEN p.max_num_hardware_threads
        ELSE IF p.hardware_thread_mappings # << >> THEN Len(p.hardware_thread_mappings)
        ELSE hardware)

\* check_params
ParamsAllowed ==
    LET size == Len(params.hardware_thread_mappings)
    IN  /\ params.num_threads # 0 =>
              params.max_num_hardware_threads <= params.num_threads
        /\ params.hardware_thread_mappings # << >> =>
              params.max_num_hardware_threads <= size /\ params.num_threads <= size

Create ==
    /\ stage = "create"
    /\ ParamsAllowed
    /\ params' = [params EXCEPT
                    !.num_threads = IF @ = 0 THEN hardware ELSE @,
                    !.max_num_hardware_threads = MaxNumHardwareThreads(params)]
    /\ stage' = "pin"
    /\ UNCHANGED <<given, hardware, affinity, forked, concurrency>>

\* The assertions in get_hardware_thread_id
MappingFits ==
    /\ params.max_num_hardware_threads > 0
    /\ params.hardware_thread_mappings = << >>
       \/ params.max_num_hardware_threads <= Len(params.hardware_thread_mappings)

\* The hardware thread that the parameters name at this index
MappedTo(subidx) ==
    IF params.hardware_thread_mappings = << >> THEN subidx
    ELSE params.hardware_thread_mappings[subidx + 1]

\* Fault: threads without a hardware thread of their own share the last one.
HardwareThreadLast(t) ==
    MappedTo(LesserOf(t, params.max_num_hardware_threads - 1))

\* get_hardware_thread_id
HardwareThread(t) == MappedTo(t % params.max_num_hardware_threads)

Pin ==
    /\ stage = "pin"
    /\ Len(affinity) < numThreads
    /\ params.pin_to_hardware_threads => MappingFits
    /\ affinity' = Append(affinity, IF params.pin_to_hardware_threads
                                      THEN HardwareThread(Len(affinity)) ELSE Anywhere)
    /\ UNCHANGED <<given, params, hardware, stage, forked, concurrency>>

\* init writes to the data of thread 0.
LayOut ==
    /\ stage = "pin"
    /\ Len(affinity) = numThreads /\ numThreads > 0
    /\ stage' = "fork"
    /\ UNCHANGED <<given, params, hardware, affinity, forked, concurrency>>

\* The assertion in cpu_set::set_cpu_flag
CpuExists(t) == affinity[t + 1] # Anywhere => affinity[t + 1] < hardware

Fork ==
    /\ stage = "fork"
    /\ forked < numThreads
    /\ CpuExists(forked)
    /\ forked' = forked + 1
    /\ UNCHANGED <<given, params, hardware, stage, affinity, concurrency>>

\* A contract violation terminates the program.
Fail ==
    /\ \/ stage = "create" /\ ~ParamsAllowed
       \/ /\ stage = "pin"
          /\ IF Len(affinity) < numThreads
               THEN params.pin_to_hardware_threads /\ ~MappingFits
               ELSE numThreads = 0
       \/ stage = "fork" /\ forked < numThreads /\ ~CpuExists(forked)
    /\ stage' = "failed"
    /\ UNCHANGED <<given, params, hardware, affinity, forked, concurrency>>

\* The squad is there; a client looks for the number of threads for its task.
NextConcurrency ==
    /\ stage = "fork" /\ forked = numThreads
    /\ concurrency < numThreads
    /\ concurrency' = concurrency + 1
    /\ UNCHANGED <<given, params, hardware, stage, affinity, forked>>

\* Nothing else is set up.
Ended ==
    /\ stage = "failed" \/ (stage = "fork" /\ concurrency = numThreads)
    /\ UNCHANGED setupVars

SetupNext == Create \/ Pin \/ LayOut \/ Fork \/ Fail \/ NextConcurrency \/ Ended

SetupSpec == SetupInit /\ [][SetupNext]_setupVars

-----------------------------------------------------------------------------

SetUp == stage = "fork" /\ forked = numThreads

(* Both walks of every thread visit exactly its subordinates below the       *)
(* concurrency, once each (to_subthreads and from_subthreads are two         *)
(* different loops over the same layout), whatever size create has chosen.   *)
SameThreadsBothWays == SetUp => WalksAgree(numThreads, concurrency)

(* "Wait sequence" in the diagram above thread_squad.cpp's run(): every      *)
(* thread but the first is awaited by exactly one other thread.              *)
OneSuperordinate == SetUp /\ concurrency = 0 => UniqueSuperordinate(numThreads)

(* The results of subordinates are merged in the order of thread indices.    *)
MergedInOrder == SetUp => BlocksInOrder(numThreads, concurrency)

\* The first hardware threads that the parameters name
Named(n) == {MappedTo(k) : k \in 0 .. n - 1}

\* They are all different.
NamesDiffer(n) == \A k, l \in 0 .. n - 1 : MappedTo(k) = MappedTo(l) => k = l

PinnedTo(h) == Cardinality({t \in 1 .. forked : affinity[t] = h})

(* The started threads use as many different hardware threads as they can,   *)
(* the first ones of the mapping, and all of these exist; where threads have *)
(* to share, they share evenly, unless the mapping itself favours one.       *)
SpreadOverHardware ==
    params.pin_to_hardware_threads /\ forked > 0 =>
        LET used == {affinity[t] : t \in 1 .. forked}
        IN  /\ used = Named(LesserOf(forked, params.max_num_hardware_threads))
            /\ used \subseteq 0 .. hardware - 1
            /\ NamesDiffer(LesserOf(forked, params.max_num_hardware_threads)) =>
                  \A h, k \in used : PinnedTo(h) <= PinnedTo(k) + 1

-----------------------------------------------------------------------------
\* What the proofs of SpreadOverHardware rest on

SetupTypeOK ==
    /\ {given, params} \subseteq ParamRecords
    /\ hardware \in HardwareCounts
    /\ stage \in {"create", "pin", "fork", "failed"}
    /\ affinity \in Seq(Nat \cup {Anywhere})
    /\ {forked, concurrency} \subseteq Nat

\* Threads are pinned before they are started, and not before create is through.
InStages ==
    /\ stage = "create" => affinity = << >>
    /\ stage = "fork" => Len(affinity) = numThreads
    /\ forked <= Len(affinity)

PinnedAsMapped ==
    params.pin_to_hardware_threads =>
        \A t \in 0 .. Len(affinity) - 1 :
            MappingFits /\ affinity[t + 1] = HardwareThread(t)

StartedWhereItExists == \A t \in 0 .. forked - 1 : CpuExists(t)

SetupInv == SetupTypeOK /\ InStages /\ PinnedAsMapped /\ StartedWhereItExists

-----------------------------------------------------------------------------

(* "Maximal number of hardware threads to pin threads to": what the comment  *)
(* on max_num_hardware_threads promises, and create undoes by taking the     *)
(* larger one of the maximum and the number of hardware threads.             *)
PinnedWithinMaximum ==
    SetUp /\ params.pin_to_hardware_threads /\ given.max_num_hardware_threads # 0 =>
        Cardinality({affinity[t] : t \in 1 .. numThreads}) <= given.max_num_hardware_threads

=============================================================================
