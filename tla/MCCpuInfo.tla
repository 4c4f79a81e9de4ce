------------------------------ MODULE MCCpuInfo ------------------------------
(*****************************************************************************)
(* Machines for model checking the processor information.                    *)
(*****************************************************************************)
EXTENDS CpuInfo, TLC

CONSTANTS t1, t2, t3

Line(key, id) == [key |-> key, id |-> id]

\* The lines for one processor.
Processor(p, socket, core) ==
    <<Line("processor", p), Line("physical id", socket), Line("core id", core)>>

\* Two sockets of two cores, of which one has two threads, listed last.
TwoSockets ==
    Processor(0, 0, 0) \o Processor(1, 0, 1) \o Processor(2, 1, 0) \o Processor(3, 0, 0)

\* One processor that does not say which core it is.
NoTopology == <<Line("processor", 0)>>

\* Two such processors.
Unreadable == NoTopology \o <<Line("processor", 1)>>

AnyFile == {TwoSockets, NoTopology, Unreadable}

AnyOrder == Permutations(Threads)

=============================================================================
