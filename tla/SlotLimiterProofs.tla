------------------------- MODULE SlotLimiterProofs -------------------------
(***************************************************************************)
(* Proofs about SlotLimiter, for any number of projects and any capacity.  *)
(***************************************************************************)
EXTENDS SlotLimiter, SequenceTheorems, FiniteSetTheorems, TLAPS

(* The shape of a line after one project was taken out of it: everybody    *)
(* behind moves up by one place (ForgetOwner's filter).                    *)
LEMMA RemoveAtProperties ==
  ASSUME NEW S, NEW s \in Seq(S), NEW k \in 1..Len(s)
  PROVE  /\ RemoveAt(s, k) \in Seq(S)
         /\ Len(RemoveAt(s, k)) = Len(s) - 1
         /\ \A i \in 1..Len(s) - 1 :
               RemoveAt(s, k)[i] = IF i < k THEN s[i] ELSE s[i + 1]
<1> DEFINE front == SubSeq(s, 1, k - 1)
           back  == SubSeq(s, k + 1, Len(s))
<1>1. Len(s) \in Nat /\ \A i \in 1..Len(s) : s[i] \in S
  BY LenProperties
<1>2. /\ front \in Seq(S)
      /\ Len(front) = k - 1
      /\ \A i \in 1..k - 1 : front[i] = s[i]
  <2>1. \A i \in 1..k - 1 : s[i] \in S
    BY <1>1
  <2>2. /\ SubSeq(s, 1, k - 1) \in Seq(S)
        /\ Len(SubSeq(s, 1, k - 1)) = IF 1 <= k - 1 THEN (k - 1) - 1 + 1 ELSE 0
        /\ \A i \in 1..(k - 1) - 1 + 1 : SubSeq(s, 1, k - 1)[i] = s[1 + i - 1]
    BY <1>1, <2>1, SubSeqProperties
  <2> QED
    BY <1>1, <2>2
<1>3. /\ back \in Seq(S)
      /\ Len(back) = Len(s) - k
      /\ \A i \in 1..Len(s) - k : back[i] = s[k + i]
  <2>1. \A i \in k + 1..Len(s) : s[i] \in S
    BY <1>1
  <2>2. /\ SubSeq(s, k + 1, Len(s)) \in Seq(S)
        /\ Len(SubSeq(s, k + 1, Len(s)))
             = IF k + 1 <= Len(s) THEN Len(s) - (k + 1) + 1 ELSE 0
        /\ \A i \in 1..Len(s) - (k + 1) + 1 :
              SubSeq(s, k + 1, Len(s))[i] = s[(k + 1) + i - 1]
    BY <1>1, <2>1, SubSeqProperties
  <2> QED
    BY <1>1, <2>2
<1>4. /\ front \o back \in Seq(S)
      /\ Len(front \o back) = Len(front) + Len(back)
      /\ \A i \in 1..Len(front) + Len(back) :
            (front \o back)[i]
              = IF i <= Len(front) THEN front[i] ELSE back[i - Len(front)]
  BY <1>2, <1>3, ConcatProperties
<1>5. RemoveAt(s, k) = front \o back
  BY DEF RemoveAt
<1> HIDE DEF front, back
<1>6. Len(front) + Len(back) = Len(s) - 1
  BY <1>1, <1>2, <1>3
<1>7. ASSUME NEW i \in 1..Len(s) - 1
      PROVE  RemoveAt(s, k)[i] = IF i < k THEN s[i] ELSE s[i + 1]
  <2>1. (front \o back)[i] = IF i <= k - 1 THEN front[i] ELSE back[i - (k - 1)]
    BY <1>2, <1>4, <1>6
  <2>2. CASE i < k
    BY <2>1, <2>2, <1>1, <1>2, <1>5
  <2>3. CASE ~(i < k)
    <3>1. i - (k - 1) \in 1..Len(s) - k /\ k + (i - (k - 1)) = i + 1
      BY <2>3, <1>1
    <3>2. back[i - (k - 1)] = s[i + 1]
      BY <3>1, <1>3
    <3>3. ~(i <= k - 1)
      BY <2>3, <1>1
    <3> QED
      BY <2>1, <2>3, <3>2, <3>3, <1>5
  <2> QED
    BY <2>2, <2>3
<1> QED
  BY <1>4, <1>5, <1>6, <1>7
-----------------------------------------------------------------------------
(* The inductive invariant: typing alone does not exclude that the counter *)
(* goes beyond the capacity or that a project is in line twice.            *)
IInv ==
    /\ TypeOK
    /\ IsFiniteSet(leases)
    /\ SlotsAccounted
    /\ LineMatchesIndex

LEMMA InitIInv == Init => IInv
<1> SUFFICES ASSUME Init PROVE IInv
  OBVIOUS
<1>1. TypeOK
  BY CapacityAssumption, EmptySeq DEF Init, TypeOK
<1>2. IsFiniteSet(leases) /\ SlotsAccounted
  BY FS_EmptySet, CapacityAssumption DEF Init, SlotsAccounted
<1>3. LineMatchesIndex
  BY EmptySeq, LenProperties DEF Init, LineMatchesIndex
<1> QED
  BY <1>1, <1>2, <1>3 DEF IInv

(* A grant takes one slot that is free and is remembered by its holder.    *)
LEMMA GrantKeepsAccount ==
  ASSUME IInv, NEW c \in Callers, NEW s \in Sessions, HasFreeSlot, Grant(c, s)
  PROVE  /\ used' \in 0..Capacity
         /\ leases' \in SUBSET Leases
         /\ IsFiniteSet(leases')
         /\ SlotsAccounted'
<1>1. used' \in 0..Capacity
  BY CapacityAssumption DEF IInv, TypeOK, HasFreeSlot, Grant
<1>2. leases' \in SUBSET Leases
  BY DEF IInv, TypeOK, Grant, Leases
<1>3. IsFiniteSet(leases') /\ Cardinality(leases') = Cardinality(leases) + 1
  BY FS_AddElement DEF IInv, Grant
<1> QED
  BY <1>1, <1>2, <1>3 DEF IInv, SlotsAccounted, Grant

(* Taking the head out of the line.                                        *)
LEMMA PopKeepsLine ==
  ASSUME TypeOK, LineMatchesIndex, queue # <<>>, PopQueuedOwner
  PROVE  /\ queue' \in Seq(Owners)
         /\ queued' \in SUBSET Owners
         /\ LineMatchesIndex'
<1>1. /\ Len(queue) \in Nat /\ DOMAIN queue = 1..Len(queue)
      /\ Len(queue) > 0
  BY LenProperties, EmptySeq DEF TypeOK
<1>2. /\ queue' \in Seq(Owners)
      /\ Len(queue') = Len(queue) - 1
      /\ \A i \in 1..Len(queue') : queue'[i] = queue[i + 1]
  BY HeadTailProperties DEF TypeOK, PopQueuedOwner
<1>3. DOMAIN queue' = 1..Len(queue) - 1
  BY <1>2, LenProperties
<1>4. Head(queue) = queue[1]
  OBVIOUS
<1>5. queued' = {queue'[k] : k \in DOMAIN queue'}
  <2>1. ASSUME NEW o \in queued'
        PROVE  \E k \in DOMAIN queue' : o = queue'[k]
    <3>1. PICK j \in 1..Len(queue) : o = queue[j] /\ j # 1
      BY <2>1, <1>1, <1>4 DEF LineMatchesIndex, PopQueuedOwner
    <3>2. j - 1 \in DOMAIN queue' /\ queue'[j - 1] = queue[j]
      BY <3>1, <1>1, <1>2, <1>3
    <3> QED
      BY <3>1, <3>2
  <2>2. ASSUME NEW k \in DOMAIN queue'
        PROVE  queue'[k] \in queued'
    <3>1. queue'[k] = queue[k + 1] /\ k + 1 \in DOMAIN queue /\ k + 1 # 1
      BY <1>1, <1>2, <1>3
    <3>2. queue[k + 1] # queue[1]
      BY <3>1, <1>1 DEF LineMatchesIndex
    <3> QED
      BY <3>1, <3>2, <1>4 DEF LineMatchesIndex, PopQueuedOwner
  <2> QED
    BY <2>1, <2>2
<1>6. \A j, k \in DOMAIN queue' : queue'[j] = queue'[k] => j = k
  <2> SUFFICES ASSUME NEW j \in DOMAIN queue', NEW k \in DOMAIN queue',
                      queue'[j] = queue'[k]
               PROVE  j = k
    OBVIOUS
  <2>1. queue[j + 1] = queue[k + 1] /\ j + 1 \in DOMAIN queue /\ k + 1 \in DOMAIN queue
    BY <1>1, <1>2, <1>3
  <2>2. j + 1 = k + 1
    BY <2>1 DEF LineMatchesIndex
  <2> QED
    BY <2>2, <1>1, <1>3
<1> QED
  BY <1>2, <1>5, <1>6 DEF LineMatchesIndex, TypeOK, PopQueuedOwner

(* A denied project lines up at the end, or keeps the place it has.        *)
LEMMA EnqueueKeepsLine ==
  ASSUME TypeOK, LineMatchesIndex, NEW o \in Owners, EnqueueOwner(o)
  PROVE  /\ queue' \in Seq(Owners)
         /\ queued' \in SUBSET Owners
         /\ LineMatchesIndex'
<1>1. Len(queue) \in Nat /\ DOMAIN queue = 1..Len(queue)
  BY LenProperties DEF TypeOK
<1>2. CASE o \in queued
  <2>1. queue' = queue /\ queued' = queued
    BY <1>2 DEF EnqueueOwner
  <2> QED
    BY <2>1 DEF TypeOK, LineMatchesIndex
<1>3. CASE o \notin queued
  <2>1. /\ queue' \in Seq(Owners)
        /\ Len(queue') = Len(queue) + 1
        /\ \A i \in 1..Len(queue) : queue'[i] = queue[i]
        /\ queue'[Len(queue) + 1] = o
    BY <1>3, AppendProperties DEF TypeOK, EnqueueOwner
  <2>2. DOMAIN queue' = 1..Len(queue) + 1
    BY <2>1, LenProperties
  <2>3. queued' = {queue'[k] : k \in DOMAIN queue'}
    <3>1. ASSUME NEW p \in queued'
          PROVE  \E k \in DOMAIN queue' : p = queue'[k]
      <4>1. CASE p = o
        BY <4>1, <2>1, <2>2, <1>1
      <4>2. CASE p \in queued
        BY <4>2, <2>1, <2>2, <1>1 DEF LineMatchesIndex
      <4> QED
        BY <4>1, <4>2, <3>1 DEF EnqueueOwner
    <3>2. ASSUME NEW k \in DOMAIN queue'
          PROVE  queue'[k] \in queued'
      <4>1. CASE k = Len(queue) + 1
        BY <4>1, <2>1 DEF EnqueueOwner
      <4>2. CASE k \in 1..Len(queue)
        BY <4>2, <2>1, <1>1 DEF LineMatchesIndex, EnqueueOwner
      <4> QED
        BY <4>1, <4>2, <2>2, <1>1
    <3> QED
      BY <3>1, <3>2
  <2>4. \A j, k \in DOMAIN queue' : queue'[j] = queue'[k] => j = k
    <3>1. \A k \in 1..Len(queue) : queue[k] # o
      BY <1>1, <1>3 DEF LineMatchesIndex
    <3> QED
      BY <3>1, <1>1, <2>1, <2>2 DEF LineMatchesIndex
  <2> QED
    BY <2>1, <2>3, <2>4 DEF LineMatchesIndex, TypeOK, EnqueueOwner
<1> QED
  BY <1>2, <1>3

(* A project that gives up its wait leaves the others in line.             *)
LEMMA ForgetKeepsLine ==
  ASSUME TypeOK, LineMatchesIndex, NEW o \in Owners, ForgetOwner(o)
  PROVE  /\ queue' \in Seq(Owners)
         /\ queued' \in SUBSET Owners
         /\ LineMatchesIndex'
<1> DEFINE n == Position(o)
<1>1. Len(queue) \in Nat /\ DOMAIN queue = 1..Len(queue)
  BY LenProperties DEF TypeOK
<1>2. n \in 1..Len(queue) /\ queue[n] = o
  BY <1>1 DEF ForgetOwner, LineMatchesIndex, Position
<1>3. /\ queue' \in Seq(Owners)
      /\ Len(queue') = Len(queue) - 1
      /\ \A i \in 1..Len(queue) - 1 :
            queue'[i] = IF i < n THEN queue[i] ELSE queue[i + 1]
  BY <1>2, RemoveAtProperties DEF TypeOK, ForgetOwner
<1>4. DOMAIN queue' = 1..Len(queue) - 1
  BY <1>3, LenProperties
<1> HIDE DEF n
<1>5. queued' = {queue'[k] : k \in DOMAIN queue'}
  <2>1. ASSUME NEW p \in queued'
        PROVE  \E k \in DOMAIN queue' : p = queue'[k]
    <3>1. PICK j \in 1..Len(queue) : p = queue[j] /\ j # n
      BY <2>1, <1>1, <1>2 DEF LineMatchesIndex, ForgetOwner
    <3>2. CASE j < n
      BY <3>1, <3>2, <1>1, <1>2, <1>3, <1>4
    <3>3. CASE j > n
      <4>1. j - 1 \in DOMAIN queue' /\ ~(j - 1 < n) /\ (j - 1) + 1 = j
        BY <3>1, <3>3, <1>1, <1>2, <1>4
      <4>2. queue'[j - 1] = queue[j]
        BY <4>1, <1>3, <1>4
      <4> QED
        BY <3>1, <4>1, <4>2
    <3> QED
      BY <3>1, <3>2, <3>3, <1>1, <1>2
  <2>2. ASSUME NEW k \in DOMAIN queue'
        PROVE  queue'[k] \in queued'
    <3>1. PICK j \in 1..Len(queue) : queue'[k] = queue[j] /\ j # n
      BY <1>1, <1>2, <1>3, <1>4
    <3>2. queue[j] # o /\ queue[j] \in queued
      BY <3>1, <1>1, <1>2 DEF LineMatchesIndex
    <3> QED
      BY <3>1, <3>2 DEF ForgetOwner
  <2> QED
    BY <2>1, <2>2
<1>6. \A j, k \in DOMAIN queue' : queue'[j] = queue'[k] => j = k
  <2> SUFFICES ASSUME NEW j \in 1..Len(queue) - 1, NEW k \in 1..Len(queue) - 1,
                      queue'[j] = queue'[k]
               PROVE  j = k
    BY <1>4
  <2> DEFINE old(i) == IF i < n THEN i ELSE i + 1
  <2>1. queue[old(j)] = queue[old(k)] /\ old(j) \in DOMAIN queue /\ old(k) \in DOMAIN queue
    BY <1>1, <1>2, <1>3
  <2>2. old(j) = old(k)
    BY <2>1 DEF LineMatchesIndex
  <2> QED
    BY <2>2, <1>1, <1>2
<1> QED
  BY <1>3, <1>5, <1>6 DEF LineMatchesIndex, TypeOK, ForgetOwner
-----------------------------------------------------------------------------
LEMMA NextIInv == IInv /\ [Next]_vars => IInv'
<1> SUFFICES ASSUME IInv, [Next]_vars PROVE IInv'
  OBVIOUS
<1> USE DEF IInv
<1>1. ASSUME NEW s \in Sessions, TryAcquire(s) PROVE IInv'
  <2>1. /\ used' \in 0..Capacity /\ leases' \in SUBSET Leases
        /\ IsFiniteSet(leases') /\ SlotsAccounted'
    BY <1>1, GrantKeepsAccount DEF TryAcquire, Callers
  <2>2. UNCHANGED <<queue, queued>>
    BY <1>1 DEF TryAcquire
  <2> QED
    BY <2>1, <2>2 DEF TypeOK, LineMatchesIndex
<1>2. ASSUME NEW o \in Owners, NEW s \in Sessions, TryAcquireHead(o, s) PROVE IInv'
  <2>1. /\ used' \in 0..Capacity /\ leases' \in SUBSET Leases
        /\ IsFiniteSet(leases') /\ SlotsAccounted'
    BY <1>2, GrantKeepsAccount DEF TryAcquireHead, Callers
  <2>2. queue' \in Seq(Owners) /\ queued' \in SUBSET Owners /\ LineMatchesIndex'
    BY <1>2, PopKeepsLine DEF TryAcquireHead
  <2> QED
    BY <2>1, <2>2 DEF TypeOK
<1>3. ASSUME NEW o \in Owners, NEW s \in Sessions, TryAcquireFree(o, s) PROVE IInv'
  <2>1. /\ used' \in 0..Capacity /\ leases' \in SUBSET Leases
        /\ IsFiniteSet(leases') /\ SlotsAccounted'
    BY <1>3, GrantKeepsAccount DEF TryAcquireFree, Callers
  <2>2. UNCHANGED <<queue, queued>>
    BY <1>3 DEF TryAcquireFree
  <2> QED
    BY <2>1, <2>2 DEF TypeOK, LineMatchesIndex
<1>4. ASSUME NEW o \in Owners, TryAcquireDenied(o) PROVE IInv'
  <2>1. queue' \in Seq(Owners) /\ queued' \in SUBSET Owners /\ LineMatchesIndex'
    BY <1>4, EnqueueKeepsLine DEF TryAcquireDenied
  <2>2. UNCHANGED <<used, leases>>
    BY <1>4 DEF TryAcquireDenied
  <2> QED
    BY <2>1, <2>2 DEF TypeOK, SlotsAccounted
<1>5. ASSUME NEW l \in leases, Release(l) PROVE IInv'
  <2>1. /\ IsFiniteSet(leases') /\ Cardinality(leases') = Cardinality(leases) - 1
        /\ Cardinality(leases') \in Nat
    BY <1>5, FS_RemoveElement, FS_CardinalityType DEF Release
  <2>2. used' = Cardinality(leases')
    BY <1>5, <2>1, CapacityAssumption DEF Release, SlotsAccounted, TypeOK
  <2>3. used' \in 0..Capacity
    BY <2>1, <2>2, CapacityAssumption DEF SlotsAccounted, TypeOK
  <2>4. leases' \in SUBSET Leases /\ UNCHANGED <<queue, queued>>
    BY <1>5 DEF Release, TypeOK
  <2> QED
    BY <2>1, <2>2, <2>3, <2>4, CapacityAssumption DEF TypeOK, SlotsAccounted, LineMatchesIndex
<1>6. ASSUME NEW o \in Owners, ForgetOwner(o) PROVE IInv'
  <2>1. queue' \in Seq(Owners) /\ queued' \in SUBSET Owners /\ LineMatchesIndex'
    BY <1>6, ForgetKeepsLine
  <2>2. UNCHANGED <<used, leases>>
    BY <1>6 DEF ForgetOwner
  <2> QED
    BY <2>1, <2>2 DEF TypeOK, SlotsAccounted
<1>7. CASE UNCHANGED vars
  BY <1>7 DEF vars, TypeOK, SlotsAccounted, LineMatchesIndex
<1> QED
  BY <1>1, <1>2, <1>3, <1>4, <1>5, <1>6, <1>7 DEF Next, TryAcquireFor

(* The state of the limiter always has its types.                          *)
THEOREM SlotLimiterTypeOK == Spec => []TypeOK
<1>1. IInv => TypeOK
  BY DEF IInv
<1> QED
  BY <1>1, InitIInv, NextIInv, PTL DEF Spec

(* However many projects share the limiter, the slots in use are the slots *)
(* that running entries hold and never more than the capacity: tryAcquire  *)
(* and Release keep the two in step.                                       *)
THEOREM SlotLimiterAccounted == Spec => []SlotsAccounted
<1>1. IInv => SlotsAccounted
  BY DEF IInv
<1> QED
  BY <1>1, InitIInv, NextIInv, PTL DEF Spec

(* The line and its index agree for any number of projects: enqueueOwner,  *)
(* popQueuedOwner and ForgetOwner change both or none.                     *)
THEOREM SlotLimiterLineMatchesIndex == Spec => []LineMatchesIndex
<1>1. IInv => LineMatchesIndex
  BY DEF IInv
<1> QED
  BY <1>1, InitIInv, NextIInv, PTL DEF Spec
-----------------------------------------------------------------------------
(* Nobody overtakes the line, for any number of projects: a slot that is   *)
(* granted while projects wait goes to the first of them.                  *)
THEOREM SlotLimiterNoOvertaking == Spec => NoOvertaking
<1> DEFINE OnlyHead ==
      \A l \in Leases : l \in leases' \ leases /\ queue # <<>> => l[1] = Head(queue)
<1>1. [Next]_vars => [OnlyHead]_vars
  <2> SUFFICES ASSUME Next PROVE OnlyHead
    OBVIOUS
  <2>1. ASSUME NEW s \in Sessions, TryAcquire(s) PROVE OnlyHead
    BY <2>1 DEF TryAcquire
  <2>2. ASSUME NEW o \in Owners, NEW s \in Sessions, TryAcquireHead(o, s) PROVE OnlyHead
    BY <2>2 DEF TryAcquireHead, Grant
  <2>3. ASSUME NEW o \in Owners, NEW s \in Sessions, TryAcquireFree(o, s) PROVE OnlyHead
    BY <2>3 DEF TryAcquireFree
  <2>4. ASSUME NEW o \in Owners, TryAcquireDenied(o) PROVE OnlyHead
    BY <2>4 DEF TryAcquireDenied
  <2>5. ASSUME NEW l \in leases, Release(l) PROVE OnlyHead
    BY <2>5 DEF Release
  <2>6. ASSUME NEW o \in Owners, ForgetOwner(o) PROVE OnlyHead
    BY <2>6 DEF ForgetOwner
  <2> QED
    BY <2>1, <2>2, <2>3, <2>4, <2>5, <2>6 DEF Next, TryAcquireFor
<1> QED
  BY <1>1, PTL DEF Spec, NoOvertaking

(* Every step of the limiter maps the places of the projects that stay    *)
(* in line to new places in the same order.                                *)
LEMMA PlacesMove ==
  ASSUME IInv, Next
  PROVE  \A j, k \in DOMAIN queue : \A m, n \in DOMAIN queue' :
            j < k /\ queue'[m] = queue[j] /\ queue'[n] = queue[k] => m < n
<1> DEFINE Ordered ==
      \A j, k \in DOMAIN queue : \A m, n \in DOMAIN queue' :
         j < k /\ queue'[m] = queue[j] /\ queue'[n] = queue[k] => m < n
<1> USE DEF IInv
<1>1. /\ Len(queue) \in Nat /\ DOMAIN queue = 1..Len(queue)
      /\ \A j, k \in 1..Len(queue) : queue[j] = queue[k] => j = k
  BY LenProperties DEF TypeOK, LineMatchesIndex
<1>2. CASE queue' = queue
  BY <1>1, <1>2
<1>3. CASE queue # <<>> /\ queue' = Tail(queue)
  <2>1. /\ queue' \in Seq(Owners)
        /\ Len(queue') = Len(queue) - 1
        /\ \A i \in 1..Len(queue') : queue'[i] = queue[i + 1]
    BY <1>3, HeadTailProperties DEF TypeOK
  <2>2. DOMAIN queue' = 1..Len(queue) - 1
    BY <2>1, LenProperties
  <2>3. \A m \in DOMAIN queue', j \in DOMAIN queue : queue'[m] = queue[j] => j = m + 1
    BY <1>1, <2>1, <2>2
  <2> QED
    BY <1>1, <2>2, <2>3
<1>4. ASSUME NEW o \in Owners, o \notin queued, queue' = Append(queue, o)
      PROVE  Ordered
  <2>1. /\ queue' \in Seq(Owners)
        /\ Len(queue') = Len(queue) + 1
        /\ \A i \in 1..Len(queue) : queue'[i] = queue[i]
        /\ queue'[Len(queue) + 1] = o
    BY <1>4, AppendProperties DEF TypeOK
  <2>2. DOMAIN queue' = 1..Len(queue) + 1
    BY <2>1, LenProperties
  <2>3. \A j \in DOMAIN queue : queue[j] # o
    BY <1>4 DEF LineMatchesIndex
  <2>4. \A m \in DOMAIN queue', j \in DOMAIN queue : queue'[m] = queue[j] => j = m
    BY <1>1, <2>1, <2>2, <2>3
  <2> QED
    BY <1>1, <2>2, <2>4
<1>5. ASSUME NEW o \in Owners, ForgetOwner(o)
      PROVE  Ordered
  <2> DEFINE gap == Position(o)
  <2>1. gap \in 1..Len(queue)
    BY <1>1, <1>5 DEF ForgetOwner, LineMatchesIndex, Position
  <2>2. /\ queue' \in Seq(Owners)
        /\ Len(queue') = Len(queue) - 1
        /\ \A i \in 1..Len(queue) - 1 :
              queue'[i] = IF i < gap THEN queue[i] ELSE queue[i + 1]
    BY <1>5, <2>1, RemoveAtProperties DEF TypeOK, ForgetOwner
  <2>3. DOMAIN queue' = 1..Len(queue) - 1
    BY <2>2, LenProperties
  <2> HIDE DEF gap
  <2>4. ASSUME NEW m \in 1..Len(queue) - 1, NEW j \in 1..Len(queue), queue'[m] = queue[j]
        PROVE  j = IF m < gap THEN m ELSE m + 1
    <3>1. CASE m < gap
      BY <1>1, <2>1, <2>2, <2>4, <3>1
    <3>2. CASE ~(m < gap)
      <4>1. queue[m + 1] = queue[j] /\ m + 1 \in 1..Len(queue)
        BY <1>1, <2>2, <2>4, <3>2
      <4> QED
        BY <1>1, <4>1, <3>2
    <3> QED
      BY <3>1, <3>2
  <2> QED
    BY <1>1, <2>1, <2>3, <2>4
<1>6. \/ queue' = queue
      \/ queue # <<>> /\ queue' = Tail(queue)
      \/ \E o \in Owners : o \notin queued /\ queue' = Append(queue, o)
      \/ \E o \in Owners : ForgetOwner(o)
  BY DEF Next, TryAcquire, TryAcquireFor, TryAcquireHead, TryAcquireFree,
         TryAcquireDenied, PopQueuedOwner, EnqueueOwner, Release
<1> QED
  BY <1>2, <1>3, <1>4, <1>5, <1>6

(* First denied, first served: projects that stay in line keep their order,*)
(* whatever tryAcquire, Release and ForgetOwner do to the line.            *)
THEOREM SlotLimiterOrderKept == Spec => OrderKept
<1>1. IInv /\ [Next]_vars =>
        [\A j, k \in DOMAIN queue : \A m, n \in DOMAIN queue' :
            /\ j < k
            /\ queue'[m] = queue[j]
            /\ queue'[n] = queue[k]
            => m < n]_vars
  BY PlacesMove
<1> QED
  BY <1>1, InitIInv, NextIInv, PTL DEF Spec, OrderKept
=============================================================================
