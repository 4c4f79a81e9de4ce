----------------------------- MODULE CpuTopology -----------------------------
(*****************************************************************************)
(* How init_cpu_info (src/cpuinfo.cpp) finds the physical cores in           *)
(* /proc/cpuinfo.  A file is the sequence of those of its lines that name a  *)
(* processor, a physical id (a socket) or a core id (within its socket).     *)
(*****************************************************************************)
EXTENDS Integers, Sequences, FiniteSets

Keys == {"processor", "physical id", "core id"}

Unset == -1

\* What has been read so far: the fields of the processor that is being described,
\* the complete descriptions, and whether a field came twice.
NothingRead == [last |-> [key \in Keys |-> Unset], ids |-> {}, failed |-> FALSE]

\* Definitions whose comment begins with "Fault" are not the code but mistakes it
\* does not make; the checks put them in place of the definition that follows.

\* One turn of the loop: the exception leaves it, so that later lines count for nothing.
ReadLine(read, line) ==
    LET last == [read.last EXCEPT ![line.key] = line.id]
    IN  IF read.failed \/ read.last[line.key] # Unset
          THEN [read EXCEPT !.failed = TRUE]
        ELSE IF \A key \in Keys : last[key] # Unset
          THEN [NothingRead EXCEPT !.ids = read.ids \cup {last}]
        ELSE [read EXCEPT !.last = last]

ReadFile(file) ==
    LET read[n \in 0 .. Len(file)] ==
            IF n = 0 THEN NothingRead ELSE ReadLine(read[n - 1], file[n])
    IN  read[Len(file)]

\* Fault: cores of different sockets with the same number are the same core.
SameCoreNumber(a, b) == a["core id"] = b["core id"]

\* operator == of physical_core_id
SameCore(a, b) == a["core id"] = b["core id"] /\ a["physical id"] = b["physical id"]

\* std::unique leaves the first of each run of equal ids, which the order of
\* physical_core_id makes the one with the lowest processor.
UniqueIds(ids) ==
    {a \in ids : \A b \in ids : SameCore(a, b) => a["processor"] <= b["processor"]}

\* coreThreadIds at the end of init_cpu_info, sorted
CoreThreadIds(file) ==
    LET processors == {a["processor"] : a \in UniqueIds(ReadFile(file).ids)}
    IN  CHOOSE list \in [1 .. Cardinality(processors) -> processors] :
            \A i, j \in DOMAIN list : i < j => list[i] < list[j]

=============================================================================
