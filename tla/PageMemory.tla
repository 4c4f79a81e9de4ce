------------------------------ MODULE PageMemory ------------------------------
(*****************************************************************************)
(* page_alloc, page_free, large_page_alloc and large_page_free of            *)
(* src/memory.cpp on Linux, called by several threads: two system calls per  *)
(* allocation, either of which may fail, and guard bytes behind the block    *)
(* that are checked when it is freed.                                        *)
(*                                                                           *)
(* mmap, madvise, munmap and errno are external.  A block is named by where  *)
(* it is mapped; FailedMap is MAP_FAILED.  The pages of a block are unmapped *)
(* from the front, in whole pages of the machine.                            *)
(*****************************************************************************)
EXTENDS HardwareSizes, FiniteSets

CONSTANTS
    Blocks,         \* where something may be mapped
    FailedMap,      \* MAP_FAILED
    Requests,       \* the sizes that clients ask for
    TrapSize,       \* sizeof(std::uint32_t)
    MaxTrapCount    \* maxTrapCount

ASSUME FailedMapAssumption == FailedMap \notin Blocks

ASSUME RequestsAssumption == Requests \subseteq Sizes

ASSUME TrapAssumption == TrapSize \in Nat \ {0} /\ MaxTrapCount \in Nat \ {0}

VARIABLES
    block,      \* what is mapped, by where: the blocks
    pc,         \* where each thread is
    call,       \* what it was asked to do: kind and size of a block
    data,       \* its local data
    errno,      \* its errno, as far as this call has set it
    ec          \* its local ec

vars == <<sizeVars, failed, block, pc, call, data, errno, ec>>

Kinds == {"page", "large"}

NoCall == [kind |-> "none", size |-> 0]

-----------------------------------------------------------------------------

Goto(t, label) == pc' = [pc EXCEPT ![t] = label]

Init ==
    /\ InitSizes
    /\ failed = "none"
    /\ block = [b \in {} |-> << >>]
    /\ pc = [t \in Threads |-> "idle"]
    /\ call = [t \in Threads |-> NoCall]
    /\ data = [t \in Threads |-> FailedMap]
    /\ errno = [t \in Threads |-> "none"]
    /\ ec = [t \in Threads |-> "none"]

\* Fault: the size is rounded up to pages, large or not.
InPages(t) == try_ceili(call[t].size, machine.page)

\* Fault: it is rounded down.
RoundedDown(t) == Exactly(call[t].size - (call[t].size % size[t]))

\* The size of the mapping, when it is made and again when it is freed; size[t] is
\* what the query has returned.
FullSize(t) == try_ceili(call[t].size, size[t])
FreedSize(t) == try_ceili(call[t].size, size[t])

\* Fault: as many guard words as there is room for.
TrapCountUncapped(bytes, allocSize) == (allocSize - bytes) \div TrapSize

\* How many guard words there are behind size bytes.
TrapCount(bytes, allocSize) ==
    LET fit == (allocSize - bytes) \div TrapSize
    IN  IF fit < MaxTrapCount THEN fit ELSE MaxTrapCount

\* The call ends, with a value or an exception; its locals are gone.
EndCall(t) ==
    /\ Goto(t, "idle")
    /\ call' = [call EXCEPT ![t] = NoCall]
    /\ data' = [data EXCEPT ![t] = FailedMap]
    /\ errno' = [errno EXCEPT ![t] = "none"]
    /\ ec' = [ec EXCEPT ![t] = "none"]
    /\ ForgetSize(t)

-----------------------------------------------------------------------------
(* Allocation                                                                *)

CallAlloc(t, kind, bytes) ==
    /\ pc[t] = "idle"
    /\ call' = [call EXCEPT ![t] = [kind |-> kind, size |-> bytes]]
    /\ Ask(t, kind)
    /\ Goto(t, "map")
    /\ UNCHANGED <<failed, block, data, errno, ec>>

\* No large pages (not_supported), or no room for rounding up (bad_alloc)
Refuse(t) ==
    /\ pc[t] = "map"
    /\ Answered(t, call[t].kind)
    /\ size[t] # 0 => FullSize(t).tooLarge
    /\ EndCall(t)
    /\ UNCHANGED <<failed, block>>

\* mmap ...
Map(t, b) ==
    /\ pc[t] = "map"
    /\ Answered(t, call[t].kind)
    /\ size[t] # 0
    /\ ~FullSize(t).tooLarge /\ FullSize(t).value # 0
    /\ b \notin DOMAIN block
    /\ block' = [c \in DOMAIN block \cup {b} |->
                   IF c = b THEN [kind |-> call[t].kind, size |-> call[t].size,
                                  mapped |-> FullSize(t).value, traps |-> 0,
                                  damaged |-> FALSE, owner |-> "call"]
                   ELSE block[c]]
    /\ data' = [data EXCEPT ![t] = b]
    /\ Goto(t, "advise")
    /\ UNCHANGED <<sizeVars, failed, call, errno, ec>>

\* ... or its failure, which the test for nullptr that follows does not notice.
MapFails(t) ==
    /\ pc[t] = "map"
    /\ Answered(t, call[t].kind)
    /\ size[t] # 0
    /\ ~FullSize(t).tooLarge
    /\ data' = [data EXCEPT ![t] = FailedMap]
    /\ errno' = [errno EXCEPT ![t] = "mmap"]
    /\ Goto(t, "advise")
    /\ UNCHANGED <<sizeVars, failed, block, call, ec>>

\* madvise; the traps are set and the block is handed out.
Advise(t) ==
    /\ pc[t] = "advise"
    /\ data[t] # FailedMap
    /\ block' = [block EXCEPT ![data[t]].owner = "client",
                              ![data[t]].traps = TrapCount(call[t].size, FullSize(t).value)]
    /\ EndCall(t)
    /\ UNCHANGED failed

\* madvise fails, always if there is no mapping; errno is saved.
AdviseFails(t) ==
    /\ pc[t] = "advise"
    /\ errno' = [errno EXCEPT ![t] = "madvise"]
    /\ ec' = [ec EXCEPT ![t] = errno'[t]]
    /\ Goto(t, "unmap")
    /\ UNCHANGED <<sizeVars, failed, block, call, data>>

\* Fault: the exception is thrown with the mapping in place.
UnmapNothing(t) ==
    /\ pc[t] = "unmap"
    /\ Goto(t, "raise")
    /\ UNCHANGED <<sizeVars, failed, block, call, data, errno, ec>>

\* The mapping is removed, with its full size; munmap may set errno ...
UnmapFull(t) ==
    /\ pc[t] = "unmap"
    /\ block' = [c \in DOMAIN block \ {data[t]} |-> block[c]]
    /\ errno' = [errno EXCEPT ![t] = IF data[t] = FailedMap THEN "munmap" ELSE @]
    /\ Goto(t, "raise")
    /\ UNCHANGED <<sizeVars, failed, call, data, ec>>

\* ... before posix_raise throws.
Raise(t) ==
    /\ pc[t] = "raise"
    /\ EndCall(t)
    /\ UNCHANGED <<failed, block>>

-----------------------------------------------------------------------------
(* Use and release                                                           *)

\* A write just behind the end of a block
WriteBehind(b) ==
    /\ block[b].owner = "client"
    /\ block[b].traps > 0
    /\ block' = [block EXCEPT ![b].damaged = TRUE]
    /\ UNCHANGED <<sizeVars, failed, pc, call, data, errno, ec>>

\* A client gives back what it has, with the size it asked for.
CallFree(t, b) ==
    /\ pc[t] = "idle"
    /\ block[b].owner = "client"
    /\ block' = [block EXCEPT ![b].owner = "call"]
    /\ call' = [call EXCEPT ![t] = [kind |-> block[b].kind, size |-> block[b].size]]
    /\ data' = [data EXCEPT ![t] = b]
    /\ Ask(t, block[b].kind)
    /\ Goto(t, "check")
    /\ UNCHANGED <<failed, errno, ec>>

\* check_out_of_bounds_write_trap: all the words looked at hold the trap value.
TrapsIntact(t) ==
    LET looked == TrapCount(call[t].size, FreedSize(t).value)
    IN  /\ looked <= block[data[t]].traps
        /\ looked > 0 => ~block[data[t]].damaged

FindDamage(t) ==
    /\ pc[t] = "check"
    /\ Answered(t, call[t].kind)
    /\ ~TrapsIntact(t)
    /\ failed' = "damage"
    /\ UNCHANGED <<sizeVars, block, pc, call, data, errno, ec>>

\* munmap with the size of the request, which the kernel rounds up to whole pages
Unmap(t) ==
    /\ pc[t] = "check"
    /\ Answered(t, call[t].kind)
    /\ TrapsIntact(t)
    /\ LET left == block[data[t]].mapped - CeilingOf(call[t].size, machine.page)
       IN  block' = IF left <= 0
                      THEN [c \in DOMAIN block \ {data[t]} |-> block[c]]
                      ELSE [block EXCEPT ![data[t]].mapped = left,
                                         ![data[t]].owner = "nobody"]
    /\ EndCall(t)
    /\ UNCHANGED failed

\* munmap may fail as well: the exception leaves a noexcept function.
UnmapFails(t) ==
    /\ pc[t] = "check"
    /\ Answered(t, call[t].kind)
    /\ TrapsIntact(t)
    /\ failed' = "terminated"
    /\ UNCHANGED <<sizeVars, block, pc, call, data, errno, ec>>

-----------------------------------------------------------------------------

Step(t) ==
    \/ SizeStep(t) /\ UNCHANGED <<block, pc, call, data, errno, ec>>
    \/ \E kind \in Kinds, bytes \in Requests : CallAlloc(t, kind, bytes)
    \/ Refuse(t) \/ (\E b \in Blocks : Map(t, b)) \/ MapFails(t)
    \/ Advise(t) \/ AdviseFails(t) \/ UnmapFull(t) \/ Raise(t)
    \/ \E b \in DOMAIN block : CallFree(t, b)
    \/ FindDamage(t) \/ Unmap(t) \/ UnmapFails(t)

\* The program has ended.
Stopped == failed # "none" /\ UNCHANGED vars

Next ==
    \/ /\ failed = "none"
       /\ \/ \E t \in Threads : Step(t)
          \/ \E b \in DOMAIN block : WriteBehind(b)
    \/ Stopped

Spec == Init /\ [][Next]_vars

-----------------------------------------------------------------------------

Failures == {"none", "terminated", "inconsistent sizes", "damage"}

TypeOK ==
    /\ SizesTypeOK
    /\ failed \in Failures
    /\ DOMAIN block \subseteq Blocks
    /\ \A b \in DOMAIN block :
          block[b] \in [kind : Kinds, size : Requests, mapped : Sizes \ {0},
                        traps : 0 .. MaxTrapCount, damaged : BOOLEAN,
                        owner : {"call", "client", "nobody"}]
    /\ pc \in [Threads -> {"idle", "map", "advise", "unmap", "raise", "check"}]
    /\ call \in [Threads -> [kind : Kinds, size : Requests] \cup {NoCall}]
    /\ data \in [Threads -> Blocks \cup {FailedMap}]
    /\ errno \in [Threads -> {"none", "mmap", "madvise", "munmap"}]
    /\ ec \in [Threads -> {"none", "madvise"}]

(* What a client holds is as large as it asked for, in whole pages, and no   *)
(* call that is in progress has hold of it: rounding up did not wrap, and    *)
(* no other free or roll-back takes pages of it.                             *)
BlocksComplete ==
    \A b \in DOMAIN block :
        block[b].owner = "client" =>
            /\ block[b].mapped >= block[b].size
            /\ block[b].mapped % machine.page = 0
            /\ \A t \in Threads : pc[t] \in {"advise", "unmap", "check"} => data[t] # b

(* Whoever is told of an error is told the first one, that of madvise and    *)
(* not one of the cleaning up, and has left nothing mapped: each block       *)
(* belongs to a client or to exactly one call that is in progress, unless it *)
(* is what large_page_free left of it (see NothingLeft).                     *)
FailureLeavesNothing ==
    /\ \A t \in Threads : pc[t] = "raise" => ec[t] = "madvise"
    /\ \A b \in DOMAIN block :
          block[b].owner = "call" =>
              Cardinality({t \in Threads :
                  pc[t] \in {"advise", "unmap", "check"} /\ data[t] = b}) = 1

(* The guard bytes tell: a block is found damaged only if it is, and a       *)
(* damaged one is never unmapped.  Allocation and release, on different      *)
(* threads, have to agree on how many there are.                             *)
OnlyDamageFound ==
    failed = "damage" =>
        \E t \in Threads : pc[t] = "check" /\ data[t] \in DOMAIN block
                           /\ block[data[t]].damaged

DamageFound ==
    [][\A b \in DOMAIN block :
          block[b].damaged =>
              b \in DOMAIN block' /\ block'[b].mapped = block[b].mapped]_vars

(* What is freed is unmapped: "large_page_free" undoes "large_page_alloc".   *)
NothingLeft == \A b \in DOMAIN block : block[b].owner # "nobody"

-----------------------------------------------------------------------------
(* The inductive invariant.  A call that has hold of a block knows its kind  *)
(* and size; what it will compute from them, once the query has returned, is *)
(* what is mapped and how many guard words there are.                        *)

Holds(t, b) == pc[t] \in {"advise", "unmap", "check"} /\ data[t] = b

CallAt(t) ==
    /\ pc[t] # "idle" => call[t] # NoCall /\ asked[t] = call[t].kind
    /\ pc[t] = "advise" => Answered(t, call[t].kind)
    /\ pc[t] \in {"unmap", "raise"} => ec[t] = "madvise"
    /\ pc[t] = "check" => data[t] # FailedMap

HeldBy(t, b) ==
    /\ b \in DOMAIN block
    /\ block[b].owner = "call"
    /\ block[b].kind = call[t].kind /\ block[b].size = call[t].size
    /\ IF pc[t] = "check"
         THEN block[b].traps = TrapCount(block[b].size, block[b].mapped)
         ELSE ~block[b].damaged

CallInv ==
    \A t \in Threads :
        CallAt(t) /\ \A b \in Blocks : Holds(t, b) => HeldBy(t, b)

HeldOnce ==
    \A b \in Blocks : \A t, u \in Threads : Holds(t, b) /\ Holds(u, b) => t = u

BlockAt(b) ==
    /\ known[block[b].kind] # Unknown
    /\ machine[block[b].kind] # 0
    /\ block[b].mapped = CeilingOf(block[b].size, machine[block[b].kind])
    /\ block[b].damaged => block[b].traps > 0
    /\ block[b].owner = "client" =>
          block[b].traps = TrapCount(block[b].size, block[b].mapped)
    /\ block[b].owner = "call" => \E t \in Threads : Holds(t, b)

BlockInv == \A b \in DOMAIN block : block[b].owner # "nobody" => BlockAt(b)

IInv ==
    /\ TypeOK /\ SizesInv
    /\ CallInv /\ HeldOnce /\ BlockInv /\ OnlyDamageFound

=============================================================================
