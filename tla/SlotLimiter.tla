---------------------------- MODULE SlotLimiter ----------------------------
(***************************************************************************)
(* The supervisor's shared launch limiter, internal/project/limiter.go.    *)
(*                                                                         *)
(* One SlotLimiter is shared by the orchestrators of all projects.  Every  *)
(* method runs under l.mu, so every method is one action.  TryAcquireFor   *)
(* never blocks: a denied project is put in line and has to ask again on a *)
(* later poll.                                                             *)
(*                                                                         *)
(* The callers are part of the model: "leases" is the ledger of the slots  *)
(* that running entries hold (RunningEntry.SupervisorSlotAcquired).  An    *)
(* orchestrator clears that flag when it gives the slot back, so a slot is *)
(* released at most once.                                                  *)
(***************************************************************************)
EXTENDS Integers, FiniteSets, SequencesExt

CONSTANTS Owners,     \* project ids, the owners TryAcquireFor is called with
          Anonymous,  \* the caller without a project id: owner = ""
          Sessions,   \* names for the sessions that one caller can have
          Capacity    \* NewSlotLimiter's limit

\* NewSlotLimiter refuses a limit that is not positive.
ASSUME CapacityAssumption == Capacity \in Nat \ {0}
ASSUME OwnersAssumption == Anonymous \notin Owners

VARIABLES used,    \* l.used
          queue,   \* l.queue, the projects in line, first denied first
          queued,  \* l.queued, the same projects as a set
          leases   \* the slots that callers hold, as <<caller, session>>

vars == <<used, queue, queued, leases>>

Callers == Owners \cup {Anonymous}
Leases  == Callers \X Sessions

TypeOK ==
    /\ used \in 0..Capacity
    /\ queue \in Seq(Owners)
    /\ queued \in SUBSET Owners
    /\ leases \in SUBSET Leases

Init ==
    /\ used = 0
    /\ queue = <<>>
    /\ queued = {}
    /\ leases = {}
-----------------------------------------------------------------------------
\* Mutant: the comparison is off by one.
HasFreeSlotOffByOne == used <= Capacity

HasFreeSlot == used < Capacity

\* l.used++ and the caller remembers that it has a slot.
Grant(c, s) ==
    /\ <<c, s>> \notin leases
    /\ used' = used + 1
    /\ leases' = leases \cup {<<c, s>>}

\* enqueueOwner: a project that is already in line keeps its place.
EnqueueOwner(o) ==
    /\ queue' = IF o \in queued THEN queue ELSE Append(queue, o)
    /\ queued' = queued \cup {o}

\* Mutant: the index entry of the popped project is left behind.
PopKeepsIndex ==
    /\ queue' = Tail(queue)
    /\ UNCHANGED queued

\* popQueuedOwner.
PopQueuedOwner ==
    /\ queue' = Tail(queue)
    /\ queued' = queued \ {Head(queue)}

\* tryAcquire("") that succeeds.  A denied one changes nothing.
TryAcquire(s) ==
    /\ HasFreeSlot
    /\ queue = <<>>
    /\ Grant(Anonymous, s)
    /\ UNCHANGED <<queue, queued>>

\* tryAcquire(owner) while projects are in line: only the head is served.
TryAcquireHead(o, s) ==
    /\ queue # <<>>
    /\ Head(queue) = o
    /\ HasFreeSlot
    /\ PopQueuedOwner
    /\ Grant(o, s)

\* Mutant: a free slot is handed out without looking at the line.
TryAcquireFreeIgnoresLine(o, s) ==
    /\ HasFreeSlot
    /\ Grant(o, s)
    /\ UNCHANGED <<queue, queued>>

\* tryAcquire(owner) with nobody in line.
TryAcquireFree(o, s) ==
    /\ queue = <<>>
    /\ HasFreeSlot
    /\ Grant(o, s)
    /\ UNCHANGED <<queue, queued>>

\* tryAcquire(owner) that returns false.
TryAcquireDenied(o) ==
    /\ HasFreeSlot => queue # <<>> /\ Head(queue) # o
    /\ EnqueueOwner(o)
    /\ UNCHANGED <<used, leases>>

TryAcquireFor(o) ==
    \/ \E s \in Sessions : TryAcquireHead(o, s) \/ TryAcquireFree(o, s)
    \/ TryAcquireDenied(o)

\* Mutant: a slot is given back and the counter is not.
ReleaseKeepsCount(l) ==
    /\ l \in leases
    /\ leases' = leases \ {l}
    /\ UNCHANGED <<used, queue, queued>>

\* Release, called once for a slot that was acquired.
Release(l) ==
    /\ l \in leases
    /\ leases' = leases \ {l}
    /\ used' = IF used > 0 THEN used - 1 ELSE used
    /\ UNCHANGED <<queue, queued>>

Position(o) == CHOOSE k \in DOMAIN queue : queue[k] = o

\* Mutant: the hole is filled with the last project in line.
ForgetOwnerSwaps(o) ==
    /\ o \in queued
    /\ queued' = queued \ {o}
    /\ queue' = Front([queue EXCEPT ![Position(o)] = Last(queue)])
    /\ UNCHANGED <<used, leases>>

\* ForgetOwner.  The code filters every occurrence of the owner out of the
\* line; LineMatchesIndex says that there is exactly one.
ForgetOwner(o) ==
    /\ o \in queued
    /\ queued' = queued \ {o}
    /\ queue' = RemoveAt(queue, Position(o))
    /\ UNCHANGED <<used, leases>>

Next ==
    \/ \E s \in Sessions : TryAcquire(s)
    \/ \E o \in Owners : TryAcquireFor(o)
    \/ \E l \in leases : Release(l)
    \/ \E o \in Owners : ForgetOwner(o)

Spec == Init /\ [][Next]_vars
-----------------------------------------------------------------------------
(* Correctness.                                                            *)

\* The counter is exactly the number of slots that callers hold, and the
\* capacity is never exceeded: "ten total running agents across all projects"
\* rests on this.
SlotsAccounted ==
    /\ used = Cardinality(leases)
    /\ used <= Capacity

\* The line and its index agree: nobody is in line twice, and a project that
\* the index says is waiting really is in line.  If a pop forgot the index the
\* project could never line up again.
LineMatchesIndex ==
    /\ queued = {queue[k] : k \in DOMAIN queue}
    /\ \A j, k \in DOMAIN queue : queue[j] = queue[k] => j = k

\* Nobody overtakes: while projects are in line, only the first one gets a
\* slot, whoever asks and whenever a slot becomes free.
NoOvertaking ==
    [][\A l \in Leases :
          l \in leases' \ leases /\ queue # <<>> => l[1] = Head(queue)]_vars

\* First denied, first served: two projects that stay in line keep their order
\* whatever happens to the others.
OrderKept ==
    [][\A j, k \in DOMAIN queue : \A m, n \in DOMAIN queue' :
          /\ j < k
          /\ queue'[m] = queue[j]
          /\ queue'[n] = queue[k]
          => m < n]_vars
=============================================================================
