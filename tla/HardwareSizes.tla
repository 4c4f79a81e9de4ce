---------------------------- MODULE HardwareSizes ----------------------------
(*****************************************************************************)
(* hardware_large_page_size, hardware_page_size and hardware_cache_line_size *)
(* of src/new.cpp: each is found out by the first call and kept in an atomic *)
(* (detail/lazy-init.hpp).  To check its result, the initialisation of each  *)
(* asks for the next smaller one.  Threads may initialise at the same time.  *)
(*                                                                           *)
(* A query goes down the chain until it finds a known size, and then up      *)
(* again, storing what it has found; a step is one access to an atomic.      *)
(*****************************************************************************)
EXTENDS CheckedArithmetic, Sequences

CONSTANTS
    Threads,        \* the threads that ask
    Machines,       \* what the operating system may report
    Unknown         \* the initial value, std::size_t(-1)

\* The sizes, each before the one that its initialisation asks for
Chain == <<"large", "page", "line">>

Asked == {"large", "page", "line"}

\* A machine reports its sizes; large pages may be unsupported (0).
ASSUME MachinesAssumption ==
    \A m \in Machines : m.large \in Sizes /\ {m.page, m.line} \subseteq Sizes \ {0}

ASSUME UnknownAssumption == Unknown \notin Sizes

VARIABLES
    machine,        \* what the system reports
    known,          \* the three atomics
    asked,          \* the size each thread asks for, "none" if it does not
    at,             \* the size whose initialisation it has reached, by position in Chain
    rising,         \* whether it is on its way up
    size,           \* the last size that it got
    failed          \* what ended the program

sizeVars == <<machine, known, asked, at, rising, size>>

-----------------------------------------------------------------------------

Position(s) == CHOOSE i \in DOMAIN Chain : Chain[i] = s

InitSizes ==
    /\ machine \in Machines
    /\ known = [s \in Asked |-> Unknown]
    /\ asked = [t \in Threads |-> "none"]
    /\ at = [t \in Threads |-> 1]
    /\ rising = [t \in Threads |-> FALSE]
    /\ size = [t \in Threads |-> 0]

\* Thread t calls the function for s.
Ask(t, s) ==
    /\ asked' = [asked EXCEPT ![t] = s]
    /\ at' = [at EXCEPT ![t] = Position(s)]
    /\ rising' = [rising EXCEPT ![t] = FALSE]
    /\ UNCHANGED <<machine, known, size>>

\* The caller goes on without the size.
ForgetSize(t) ==
    /\ asked' = [asked EXCEPT ![t] = "none"]
    /\ at' = [at EXCEPT ![t] = 1]
    /\ rising' = [rising EXCEPT ![t] = FALSE]
    /\ size' = [size EXCEPT ![t] = 0]
    /\ UNCHANGED <<machine, known>>

Asking(t) == asked[t] # "none" /\ at[t] >= Position(asked[t])

\* The call of thread t for s has returned.
Answered(t, s) == asked[t] = s /\ at[t] < Position(s)

\* lazy_init finds the size stored ...
LoadKnown(t) ==
    /\ Asking(t) /\ ~rising[t]
    /\ known[Chain[at[t]]] # Unknown
    /\ size' = [size EXCEPT ![t] = known[Chain[at[t]]]]
    /\ at' = [at EXCEPT ![t] = @ - 1]
    /\ rising' = [rising EXCEPT ![t] = TRUE]
    /\ UNCHANGED <<machine, known, asked, failed>>

\* ... or calls initFunc, which gets it from the system and asks for the next one.
LoadUnknown(t) ==
    /\ Asking(t) /\ ~rising[t]
    /\ known[Chain[at[t]]] = Unknown
    /\ IF Chain[at[t]] = "line"
         THEN rising' = [rising EXCEPT ![t] = TRUE] /\ UNCHANGED at
         ELSE at' = [at EXCEPT ![t] = @ + 1] /\ UNCHANGED rising
    /\ UNCHANGED <<machine, known, asked, size, failed>>

\* The checks at the end of initFunc; size[t] is what the inner call returned.
Consistent(t) ==
    Chain[at[t]] # "line" => machine[Chain[at[t]]] % size[t] = 0

\* Fault: the size is stored, and looked at when it is used.
StoreUnchecked(t) ==
    /\ Asking(t) /\ rising[t]
    /\ known' = [known EXCEPT ![Chain[at[t]]] = machine[Chain[at[t]]]]
    /\ size' = [size EXCEPT ![t] = machine[Chain[at[t]]]]
    /\ at' = [at EXCEPT ![t] = @ - 1]
    /\ UNCHANGED <<machine, asked, rising, failed>>

\* initFunc returns; lazy_init stores the result and returns it.
Store(t) ==
    /\ Asking(t) /\ rising[t]
    /\ Consistent(t)
    /\ known' = [known EXCEPT ![Chain[at[t]]] = machine[Chain[at[t]]]]
    /\ size' = [size EXCEPT ![t] = machine[Chain[at[t]]]]
    /\ at' = [at EXCEPT ![t] = @ - 1]
    /\ UNCHANGED <<machine, asked, rising, failed>>

\* gsl_FailFast: the library cannot deal with such a machine.
RefuseMachine(t) ==
    /\ Asking(t) /\ rising[t]
    /\ ~Consistent(t)
    /\ failed' = "inconsistent sizes"
    /\ UNCHANGED sizeVars

\* A file of the system that cannot be read or understood: initFunc throws, and the
\* exception leaves a noexcept function.
InitThrows(t) ==
    /\ Asking(t) /\ ~rising[t]
    /\ known[Chain[at[t]]] = Unknown
    /\ Chain[at[t]] \in {"large", "line"}
    /\ failed' = "terminated"
    /\ UNCHANGED sizeVars

SizeStep(t) ==
    LoadKnown(t) \/ LoadUnknown(t) \/ Store(t) \/ RefuseMachine(t) \/ InitThrows(t)

-----------------------------------------------------------------------------

SizesTypeOK ==
    /\ machine \in Machines
    /\ known \in [Asked -> Sizes \cup {Unknown}]
    /\ asked \in [Threads -> Asked \cup {"none"}]
    /\ at \in [Threads -> 0 .. 3]
    /\ rising \in [Threads -> BOOLEAN]
    /\ size \in [Threads -> Sizes]

(* A size that is known is that of the machine, and so are the smaller ones, *)
(* of which it is a multiple: whoever sees it need not check anything,       *)
(* although other threads may still be storing it once more.                 *)
KnownFromBelow ==
    /\ known["large"] # Unknown =>
          known["large"] = machine.large /\ known["page"] # Unknown
          /\ machine.large % machine.page = 0
    /\ known["page"] # Unknown =>
          known["page"] = machine.page /\ known["line"] # Unknown
          /\ machine.page % machine.line = 0
    /\ known["line"] # Unknown => known["line"] = machine.line

-----------------------------------------------------------------------------
(* The inductive invariant: a query never comes below the size it was asked  *)
(* for until it has the answer, and on its way up it has the size that the   *)
(* check needs, which is known by then.                                      *)

QueryAt(t) ==
    /\ at[t] >= Position(asked[t]) - 1
    /\ ~rising[t] => at[t] >= Position(asked[t])
    /\ rising[t] /\ at[t] < Len(Chain) =>
          LET found == Chain[at[t] + 1]
          IN  known[found] # Unknown /\ size[t] = machine[found]

QueryInv == \A t \in Threads : asked[t] # "none" => QueryAt(t)

SizesInv == SizesTypeOK /\ KnownFromBelow /\ QueryInv

=============================================================================
