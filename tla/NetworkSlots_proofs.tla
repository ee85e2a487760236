------------------------ MODULE NetworkSlots_proofs -------------------------
(***************************************************************************)
(* Proofs about NetworkSlots: for every size of the pool, every number of  *)
(* launches and of restore attempts, no two launches have the use of one   *)
(* slot and no slot leaks, as long as no monitor runs while a launch is in *)
(* flight (Monitor = FALSE).  With one both fail: the run slots_shared.    *)
(***************************************************************************)
EXTENDS NetworkSlots, ListLemmas

(***************************************************************************)
(* The inductive invariant                                                 *)
(***************************************************************************)
Reserving == {"prelaunch", "restoring", "verifying", "handing", "warm", "up"}

\* The launches whose VM is being destroyed.
Dying == {d.owner : d \in destroys}

\* Those that have the use of their slot (Holds, below): it must be reserved.
Reserved == {l \in Launch : pc[l] \in Reserving} \cup Dying

\* ... or have just taken it from the list, to check it or have it rebuilt.
Checking == {l \in Launch : pc[l] = "checking"}
Joining == {l \in Launch : pc[l] = "joining"}
Busy == Checking \cup Joining \cup Reserved

\* Without a monitor no probe is sent, and #sessions has each VM until its
\* launch fails or its session ends.
Unmonitored ==
    \A l \in Launch :
        /\ ~probing[l]
        /\ pc[l] \in Reserving \ {"prelaunch"} => tracked[l]

\* A VM is destroyed once, after its launch has let go of it.
DestroyedOnce ==
    /\ \A d \in destroys :
          /\ d.for # "keepalive"
          /\ d.slot = slot[d.owner]
          /\ pc[d.owner] \in {"catching", "failed", "closed"}
          /\ d.for = "retry" <=> pc[d.owner] = "catching"
    /\ \A d, e \in destroys : d.owner = e.owner => d = e

\* The state of a slot says who has it.
OwnersAgree ==
    /\ \A l \in Busy : slot[l] \in Slot \ ToSet(free)
    /\ \A l \in Checking : state[slot[l]] = "free" /\ ~replaced[l]
    /\ \A l \in Joining : slot[l] \in rebuilds
    /\ \A l \in Reserved : state[slot[l]] = "reserved"

OneOwner ==
    \A k, l \in Busy : slot[k] = slot[l] => k = l

StatesAgree ==
    /\ \A s \in Slot : state[s] = "reserved" => \E l \in Reserved : slot[l] = s
    /\ \A s \in Slot : state[s] = "free" =>
          s \in ToSet(free) \/ \E l \in Checking : slot[l] = s
    /\ \A s \in ToSet(free) : state[s] = "free"
    /\ \A s \in rebuilds : state[s] = "rebuilding"
    /\ IsInjective(free)

\* A launch at one of these has a slot: without a monitor or with one.
Placed == {"checking", "joining", "prelaunch", "restoring", "catching",
           "verifying", "handing", "warm", "up"}

Typed == /\ TypeOK
         /\ \A l \in Launch : pc[l] \in Placed \/ probing[l] => slot[l] \in Slot

SlotsInv == /\ Typed
            /\ Unmonitored
            /\ DestroyedOnce
            /\ OwnersAgree
            /\ OneOwner
            /\ StatesAgree

(***************************************************************************)
(* The list of free slots                                                  *)
(***************************************************************************)
\* Some of the slots have a last one.
LEMMA LastSlot ==
    ASSUME NEW S, S \subseteq Slot, S # {}
    PROVE  \E m \in S : \A s \in S : s <= m
<1> DEFINE T == {NSlots - s : s \in S}
<1>1. T \subseteq Nat /\ T # {}
  <2>1. PICK m \in S : TRUE
    OBVIOUS
  <2>2. NSlots - m \in T
    OBVIOUS
  <2>3. ASSUME NEW s \in S PROVE NSlots - s \in Nat
    BY PoolAssumption DEF Slot
  <2> QED BY <2>2, <2>3
<1>2. PICK x \in T : \A y \in T : x <= y
  BY <1>1, LeastNumber
<1>3. PICK m \in S : x = NSlots - m
  OBVIOUS
<1>4. ASSUME NEW s \in S PROVE s <= m
  <2>1. x <= NSlots - s
    BY <1>2
  <2> QED BY <2>1, <1>3, PoolAssumption DEF Slot
<1> QED BY <1>4

\* seq lists the elements of S in ascending order.
Ascending(seq, S) ==
    /\ seq \in [1..Cardinality(S) -> S]
    /\ ToSet(seq) = S
    /\ \A i, j \in 1..Cardinality(S) : i < j => seq[i] < seq[j]

\* Any slots can be listed so: a smallest set without such a list would have
\* one without its last slot, and that slot goes at the end of it.
LEMMA AscendingExists ==
    ASSUME NEW S, S \subseteq Slot
    PROVE  IsFiniteSet(S) /\ Cardinality(S) \in Nat /\ \E seq : Ascending(seq, S)
<1> DEFINE Unlisted == {X \in SUBSET Slot : ~ \E seq : Ascending(seq, X)}
           Sizes == {Cardinality(X) : X \in Unlisted}
<1>1. ASSUME NEW X \in SUBSET Slot PROVE IsFiniteSet(X) /\ Cardinality(X) \in Nat
  <2>1. IsFiniteSet(Slot)
    BY FS_Interval, PoolAssumption DEF Slot
  <2>2. IsFiniteSet(X)
    BY <2>1, FS_Subset
  <2> QED BY <2>2, FS_CardinalityType
<1>2. Unlisted = {}
  <2>1. SUFFICES ASSUME Unlisted # {} PROVE FALSE
    OBVIOUS
  <2>2. Sizes \subseteq Nat /\ Sizes # {}
    BY <1>1, <2>1
  <2>3. PICK n \in Sizes : \A k \in Sizes : n <= k
    BY <2>2, LeastNumber
  <2>4. PICK X \in Unlisted : n = Cardinality(X)
    OBVIOUS
  <2>5. X # {}
    <3>1. SUFFICES ASSUME X = {} PROVE FALSE
      OBVIOUS
    <3>2. Cardinality(X) = 0
      BY <3>1, FS_EmptySet
    <3>3. Ascending(<<>>, X)
      BY <3>1, <3>2 DEF Ascending, ToSet
    <3> QED BY <3>3
  <2>6. PICK m \in X : \A s \in X : s <= m
    BY <2>5, LastSlot
  <2> DEFINE Y == X \ {m}
  <2>7. IsFiniteSet(Y) /\ Cardinality(Y) = n - 1 /\ n - 1 \in Nat
    BY <1>1, <2>4, <2>6, FS_RemoveElement, FS_CardinalityType
  <2>8. Y \notin Unlisted
    <3>1. SUFFICES ASSUME Y \in Unlisted PROVE FALSE
      OBVIOUS
    <3>2. Cardinality(Y) \in Sizes
      BY <3>1
    <3>3. n <= Cardinality(Y)
      BY <2>3, <3>2
    <3>4. n \in Nat
      BY <2>2
    <3> HIDE DEF Y, Sizes
    <3> QED BY <2>7, <3>3, <3>4
  <2>9. PICK seq : Ascending(seq, Y)
    BY <2>8
  <2> DEFINE longer == [i \in 1..n |-> IF i = n THEN m ELSE seq[i]]
  <2>10. n \in Nat /\ n >= 1
    BY <1>1, <2>7, <2>4
  <2>11. \A i \in 1..n : i # n => i \in 1..(n - 1) /\ seq[i] \in Y
    <3>1. \A i \in 1..(n - 1) : seq[i] \in Y
      <4>1. Cardinality(Y) = n - 1
        BY <2>7
      <4>2. seq \in [1..Cardinality(Y) -> Y]
        BY <2>9 DEF Ascending
      <4> HIDE DEF Y, Sizes, Unlisted
      <4> QED BY <4>1, <4>2
    <3> QED BY <2>10, <3>1
  <2>12. longer \in [1..n -> X]
    BY <2>11
  <2>13. ToSet(longer) = X
    <3>1. ASSUME NEW s \in Y PROVE \E i \in 1..(n - 1) : s = seq[i]
      BY <2>7, <2>9 DEF Ascending, ToSet
    <3>2. ASSUME NEW s \in Y PROVE \E i \in 1..n : s = longer[i]
      <4>1. PICK i \in 1..(n - 1) : s = seq[i]
        BY <3>1
      <4>2. i \in 1..n /\ i # n
        BY <2>10
      <4> QED BY <4>1, <4>2
    <3>3. longer[n] = m /\ n \in 1..n
      BY <2>10
    <3>4. \A s \in X : \E i \in 1..n : s = longer[i]
      BY <3>2, <3>3
    <3>5. DOMAIN longer = 1..n
      OBVIOUS
    <3> HIDE DEF longer
    <3> QED BY <2>12, <3>4, <3>5 DEF ToSet
  <2>14. ASSUME NEW i \in 1..n, NEW j \in 1..n, i < j
         PROVE  longer[i] < longer[j]
    <3>1. i \in 1..(n - 1) /\ longer[i] = seq[i] /\ seq[i] \in Y
      BY <2>10, <2>11, <2>14
    <3>2. CASE j = n
      <4>1. longer[j] = m
        BY <3>2
      <4>2. seq[i] <= m /\ seq[i] # m /\ seq[i] \in Nat /\ m \in Nat
        <5>1. X \subseteq Nat
          BY PoolAssumption DEF Slot
        <5>2. seq[i] \in X /\ seq[i] # m
          BY <3>1
        <5> HIDE DEF Sizes, Unlisted
        <5> QED BY <5>1, <5>2, <2>6
      <4> QED BY <3>1, <4>1, <4>2
    <3>3. CASE j # n
      <4>1. j \in 1..(n - 1) /\ longer[j] = seq[j]
        BY <2>11, <3>3
      <4>2. \A a, b \in 1..(n - 1) : a < b => seq[a] < seq[b]
        <5> HIDE DEF Y
        <5> QED BY <2>7, <2>9 DEF Ascending
      <4> QED BY <3>1, <4>1, <4>2, <2>14
    <3> QED BY <3>2, <3>3
  <2>15. Ascending(longer, X)
    <3> HIDE DEF longer
    <3> QED BY <2>4, <2>12, <2>13, <2>14 DEF Ascending
  <2> QED BY <2>15
<1> QED BY <1>1, <1>2

\* What the sorted list of a rebuild holds: each slot once.
LEMMA SortedList ==
    ASSUME NEW S, S \subseteq Slot
    PROVE  /\ Sorted(S) \in Seq(Slot)
           /\ ToSet(Sorted(S)) = S
           /\ IsInjective(Sorted(S))
<1>1. PICK seq : Ascending(seq, S)
  BY AscendingExists
<1>2. Ascending(Sorted(S), S)
  BY <1>1 DEF Sorted, Ascending
<1>3. Cardinality(S) \in Nat
  BY AscendingExists
<1> DEFINE q == Sorted(S)
<1>4. q \in Seq(Slot)
  BY <1>2, <1>3 DEF Ascending
<1>5. ASSUME NEW i \in DOMAIN q, NEW j \in DOMAIN q, q[i] = q[j]
      PROVE  i = j
  <2>1. i \in 1..Cardinality(S) /\ j \in 1..Cardinality(S)
    BY <1>2 DEF Ascending
  <2>2. q[i] \in Slot /\ q[j] \in Slot
    BY <1>2, <2>1 DEF Ascending
  <2>3. ~ (i < j) /\ ~ (j < i)
    BY <1>2, <1>5, <2>1, <2>2, PoolAssumption DEF Ascending, Slot
  <2> QED BY <1>3, <2>1, <2>3
<1> QED BY <1>2, <1>4, <1>5 DEF Ascending, IsInjective

\* Every entry is a free slot, so #claimNetworkSlot takes the first.
LEMMA FirstEntry ==
    ASSUME free \in Seq(Slot), \A s \in ToSet(free) : state[s] = "free"
    PROVE  FirstFree(free) = IF free = <<>> THEN 0 ELSE 1
<1> DEFINE n == Len(free)
           I == {i \in 1..n : state[free[i]] = "free"}
           least == CHOOSE x \in I : \A y \in I : x <= y
<1>1. n \in Nat /\ DOMAIN free = 1..n
  OBVIOUS
<1>2. I = 1..n
  BY <1>1 DEF ToSet
<1>3. FirstFree(free) = IF I # {} THEN least ELSE 0
  BY DEF FirstFree, SelectInSeq, Min
<1>4. CASE free = <<>>
  BY <1>2, <1>3, <1>4
<1>5. CASE free # <<>>
  <2>1. 1 \in I /\ \A y \in I : 1 <= y
    BY <1>1, <1>2, <1>5
  <2>2. least \in I /\ \A y \in I : least <= y
    BY <2>1
  <2>3. least <= 1 /\ 1 <= least /\ least \in Nat
    BY <1>1, <1>2, <2>1, <2>2
  <2> QED BY <1>3, <1>5, <2>1, <2>3
<1> QED BY <1>4, <1>5

LEMMA FirstFreePlace ==
    ASSUME free \in Seq(Slot), FirstFree(free) # 0
    PROVE  FirstFree(free) \in 1..Len(free)
<1> DEFINE I == {i \in 1..Len(free) : state[free[i]] = "free"}
<1>1. FirstFree(free) = IF I # {} THEN Min(I) ELSE 0
  BY DEF FirstFree, SelectInSeq
<1>2. I # {} /\ I \subseteq 1..Len(free) /\ Len(free) \in Nat
  BY <1>1
<1>3. Min(I) \in 1..Len(free)
  <2> HIDE DEF I
  <2> QED BY <1>2, FoundPlace
<1> QED BY <1>1, <1>2, <1>3

(***************************************************************************)
(* Types                                                                   *)
(***************************************************************************)
LEMMA TypedInitially == ASSUME Init PROVE Typed
<1>1. free \in Seq(Slot)
  BY PoolAssumption DEF Init, Slot
<1>2. state \in [Slot -> {"free"}] /\ unchecked \in [Slot -> BOOLEAN]
  BY DEF Init
<1>3. /\ pc \in [Launch -> {"idle"}] /\ attempt \in [Launch -> {1}]
      /\ slot \in [Launch -> {None}] /\ replaced \in [Launch -> {FALSE}]
      /\ awaited \in [Launch -> {{}}] /\ tracked \in [Launch -> {FALSE}]
      /\ vm \in [Launch -> {FALSE}] /\ probing \in [Launch -> {FALSE}]
  BY DEF Init
<1>4. TypeOK
  BY <1>1, <1>2, <1>3, PoolAssumption DEF Init, TypeOK, InFlight, Ended, None
<1> QED BY <1>3, <1>4 DEF Typed, Placed

\* What the parts of a step write has its type.
LEMMA MarkTypes ==
    ASSUME Typed, NEW s \in Slot, MarkUnhealthy(s)
    PROVE  /\ state' \in [Slot -> {"free", "reserved", "unhealthy", "rebuilding"}]
           /\ unchecked' \in [Slot -> BOOLEAN]
           /\ free' \in Seq(Slot)
           /\ rebuilds' \subseteq Slot
           /\ background' \subseteq rebuilds'
BY ShorterList DEF Typed, TypeOK, MarkUnhealthy

LEMMA ReleaseTypes ==
    ASSUME Typed, NEW s \in Slot, ReleaseSlot(s)
    PROVE  /\ state' \in [Slot -> {"free", "reserved", "unhealthy", "rebuilding"}]
           /\ unchecked' \in [Slot -> BOOLEAN]
           /\ free' \in Seq(Slot)
           /\ rebuilds' \subseteq Slot
           /\ background' \subseteq rebuilds'
<1>1. Append(free, s) \in Seq(Slot)
  BY DEF Typed, TypeOK
<1>2. CASE UNCHANGED slots
  BY <1>2 DEF Typed, TypeOK, slots
<1>3. CASE CanRelease(state[s])
  BY <1>1, <1>3 DEF Typed, TypeOK, ReleaseSlot
<1> QED BY <1>2, <1>3 DEF ReleaseSlot

LEMMA DestroyTypes ==
    ASSUME Typed, NEW l \in Launch, slot[l] \in Slot,
           NEW why \in {"retry", "dead", "terminate", "evict", "keepalive"},
           Destroying(l, why)
    PROVE  destroys' \subseteq Destroy
<1>1. attempt[l] \in 1..MaxAttempts
  BY DEF Typed, TypeOK
<1>2. [owner |-> l, attempt |-> attempt[l], slot |-> slot[l], for |-> why,
       step |-> "killing"] \in Destroy
  BY <1>1 DEF Destroy
<1> QED BY <1>2 DEF Typed, TypeOK, Destroying

LEMMA TypedAfterLaunch ==
    ASSUME Typed, NEW l \in Launch, BeginLaunch(l) \/ LaunchStep(l)
    PROVE  Typed'
<1> USE DEF Typed, TypeOK, slots, launches, machines, Goto, Placed, InFlight, Ended
<1>1. CASE BeginLaunch(l)
  BY <1>1 DEF BeginLaunch
<1>2. CASE TakeSlot(l)
  <2>1. FirstFree(free) \in 1..Len(free)
    BY <1>2, FirstFreePlace DEF TakeSlot
  <2>2. /\ free[FirstFree(free)] \in Slot
        /\ SubSeq(free, FirstFree(free) + 1, Len(free)) \in Seq(Slot)
    BY <2>1
  <2>3. PICK s \in Slot :
          /\ free' \in Seq(Slot)
          /\ slot' = [slot EXCEPT ![l] = s]
          /\ replaced' = [replaced EXCEPT ![l] = FALSE]
          /\ \/ /\ pc' = [pc EXCEPT ![l] = "checking"]
                /\ UNCHANGED <<state, unchecked>>
             \/ /\ pc' = [pc EXCEPT ![l] = "prelaunch"]
                /\ state' = [state EXCEPT ![s] = "reserved"]
                /\ unchecked' = [unchecked EXCEPT ![s] = FALSE]
    BY <1>2, <2>2 DEF TakeSlot, ReserveSlot
  <2>4. UNCHANGED <<rebuilds, background, attempt, awaited, machines, destroys, running>>
    BY <1>2 DEF TakeSlot
  <2>5. /\ state' \in [Slot -> {"free", "reserved", "unhealthy", "rebuilding"}]
        /\ unchecked' \in [Slot -> BOOLEAN]
    BY <2>3
  <2>6. /\ pc' \in [Launch -> InFlight \cup Ended]
        /\ slot' \in [Launch -> Slot \cup {None}]
        /\ replaced' \in [Launch -> BOOLEAN]
    BY <2>3
  <2>7. \A k \in Launch : pc'[k] \in Placed \/ probing[k] => slot'[k] \in Slot
    BY <2>3
  <2> QED BY <2>3, <2>4, <2>5, <2>6, <2>7
<1>3. CASE AwaitRebuilds(l)
  BY <1>3 DEF AwaitRebuilds
<1>4. CASE NoSlot(l)
  BY <1>4 DEF NoSlot
<1>5. CASE CheckPasses(l)
  BY <1>5 DEF CheckPasses, ReserveSlot
<1>6. CASE CheckFails(l)
  BY <1>6 DEF CheckFails
<1>7. CASE Spawn(l)
  BY <1>7 DEF Spawn
<1>8. CASE SpawnFails(l)
  <2>1. MarkUnhealthy(slot[l]) /\ slot[l] \in Slot
    BY <1>8 DEF SpawnFails
  <2> QED BY <1>8, <2>1, MarkTypes DEF SpawnFails, KillIn
<1>9. CASE Restored(l)
  BY <1>9 DEF Restored
<1>10. CASE RestoreFails(l)
  <2>1. destroys' \subseteq Destroy
    BY <1>10, DestroyTypes DEF RestoreFails
  <2> QED BY <1>10, <2>1 DEF RestoreFails, Untrack
<1>11. CASE VerifyPasses(l)
  BY <1>11 DEF VerifyPasses
<1>12. CASE VerifyFails(l)
  <2>1. destroys' \subseteq Destroy
    BY <1>12, DestroyTypes DEF VerifyFails
  <2> QED BY <1>12, <2>1 DEF VerifyFails, Untrack
<1> QED BY <1>1, <1>2, <1>3, <1>4, <1>5, <1>6, <1>7, <1>8, <1>9, <1>10, <1>11,
           <1>12 DEF LaunchStep

LEMMA TypedAfterUse ==
    ASSUME Typed, NEW l \in Launch,
           ClaimWarm(l) \/ Probe(l) \/ ProbeAnswered(l) \/ ProbeFails(l)
             \/ Terminate(l) \/ Exit(l)
    PROVE  Typed'
<1> USE DEF Typed, TypeOK, slots, launches, machines, Goto, Placed, InFlight, Ended
<1>1. CASE ClaimWarm(l)
  <2>1. destroys' \subseteq Destroy
    BY <1>1, DestroyTypes DEF ClaimWarm
  <2> QED BY <1>1, <2>1 DEF ClaimWarm, Untrack
<1>2. CASE Probe(l)
  BY <1>2 DEF Probe
<1>3. CASE ProbeAnswered(l)
  BY <1>3 DEF ProbeAnswered
<1>4. CASE ProbeFails(l)
  <2>1. destroys' \subseteq Destroy
    BY <1>4, DestroyTypes DEF ProbeFails
  <2> QED BY <1>4, <2>1 DEF ProbeFails, Untrack
<1>5. CASE Terminate(l)
  <2>1. destroys' \subseteq Destroy
    BY <1>5, DestroyTypes DEF Terminate
  <2> QED BY <1>5, <2>1 DEF Terminate, Untrack
<1>6. CASE Exit(l)
  BY <1>6 DEF Exit
<1> QED BY <1>1, <1>2, <1>3, <1>4, <1>5, <1>6

LEMMA TypedAfterDestroy ==
    ASSUME Typed, NEW d \in destroys, Kill(d) \/ Finish(d)
    PROVE  Typed'
<1> USE DEF Typed, TypeOK, slots, launches, machines, Goto, Placed, InFlight, Ended
<1>1. d \in Destroy /\ d.slot \in Slot /\ d.owner \in Launch
  BY DEF Destroy
<1>2. CASE Kill(d)
  <2>1. [d EXCEPT !.step = "finishing"] \in Destroy
    BY <1>1 DEF Destroy
  <2> QED BY <1>2, <2>1 DEF Kill, KillIn
<1>3. CASE Finish(d)
  <2>1. ReleaseSlot(d.slot) \/ MarkUnhealthy(d.slot)
    BY <1>1, <1>3 DEF Finish, Destroy
  <2>2. /\ state' \in [Slot -> {"free", "reserved", "unhealthy", "rebuilding"}]
        /\ unchecked' \in [Slot -> BOOLEAN]
        /\ free' \in Seq(Slot)
        /\ rebuilds' \subseteq Slot
        /\ background' \subseteq rebuilds'
    BY <1>1, <2>1, MarkTypes, ReleaseTypes
  <2>3. /\ pc' \in [Launch -> InFlight \cup Ended]
        /\ attempt' \in [Launch -> 1..MaxAttempts]
        /\ \A l \in Launch : pc'[l] \in Placed => pc[l] \in Placed
    <3>1. Resume(d)
      BY <1>3 DEF Finish
    <3>2. CASE UNCHANGED <<pc, attempt>>
      BY <3>2
    <3>3. CASE Goto(d.owner, "failed") /\ UNCHANGED attempt
      BY <1>1, <3>3
    <3>4. CASE /\ attempt[d.owner] < MaxAttempts
               /\ Goto(d.owner, "claiming")
               /\ attempt' = [attempt EXCEPT ![d.owner] = @ + 1]
      <4>1. attempt[d.owner] + 1 \in 1..MaxAttempts
        BY <1>1, <3>4, PoolAssumption
      <4> QED BY <1>1, <3>4, <4>1
    <3> QED BY <3>1, <3>2, <3>3, <3>4 DEF Resume
  <2> QED BY <1>3, <2>2, <2>3 DEF Finish
<1> QED BY <1>2, <1>3

LEMMA TypedAfterRebuild ==
    ASSUME Typed, NEW s \in Slot, RebuildStep(s)
    PROVE  Typed'
<1> USE DEF Typed, TypeOK, slots, launches, machines, Placed, InFlight, Ended
<1>1. CASE RebuildSucceeds(s)
  <2>1. Sorted((ToSet(free) \ {s}) \cup (IF Joined(s) = {} THEN {s} ELSE {}))
          \in Seq(Slot)
    <3>1. (ToSet(free) \ {s}) \cup (IF Joined(s) = {} THEN {s} ELSE {})
            \subseteq Slot
      BY DEF ToSet
    <3> QED BY <3>1, SortedList
  <2>2. \A l \in Joined(s) : pc[l] = "joining"
    BY DEF Joined
  <2> QED BY <1>1, <2>1, <2>2 DEF RebuildSucceeds, SettleRebuild, KillIn
<1>2. CASE RebuildFails(s)
  BY <1>2 DEF RebuildFails, SettleRebuild, KillIn
<1> QED BY <1>1, <1>2 DEF RebuildStep

LEMMA TypedAfterStep ==
    ASSUME Typed, [Next]_vars
    PROVE  Typed'
<1>1. CASE Next
  BY <1>1, TypedAfterLaunch, TypedAfterUse, TypedAfterDestroy, TypedAfterRebuild
     DEF Next, DestroyStep
<1>2. CASE UNCHANGED vars
  BY <1>2 DEF vars, slots, launches, machines, Typed, TypeOK
<1> QED BY <1>1, <1>2

\* The variables keep their types, with a monitor or without.
THEOREM SlotTypesKept == Spec => []TypeOK
<1>1. Init => Typed
  BY TypedInitially
<1>2. Typed /\ [Next]_vars => Typed'
  BY TypedAfterStep
<1>3. Typed => TypeOK
  BY DEF Typed
<1> QED BY <1>1, <1>2, <1>3, PTL DEF Spec

(***************************************************************************)
(* The steps keep the invariant                                            *)
(***************************************************************************)
LEMMA SlotsInvInitially == ASSUME Init PROVE SlotsInv
<1>1. free \in Seq(Slot) /\ DOMAIN free = Slot /\ \A s \in Slot : free[s] = s
  BY PoolAssumption DEF Init, Slot
<1>2. Typed
  BY TypedInitially
<1>3. Unmonitored
  BY DEF Init, Unmonitored, Reserving
<1>4. DestroyedOnce
  BY DEF Init, DestroyedOnce
<1>5. Busy = {}
  BY DEF Init, Busy, Checking, Joining, Reserved, Dying, Reserving
<1>6. StatesAgree
  <2>1. ToSet(free) = Slot /\ IsInjective(free)
    BY <1>1 DEF ToSet, IsInjective
  <2>2. \A s \in Slot : state[s] = "free"
    BY DEF Init
  <2>3. rebuilds = {}
    BY DEF Init
  <2> QED BY <2>1, <2>2, <2>3 DEF StatesAgree
<1>7. OwnersAgree /\ OneOwner
  BY <1>5 DEF OwnersAgree, OneOwner, Busy
<1> QED BY <1>2, <1>3, <1>4, <1>6, <1>7 DEF SlotsInv

\* What is known of the destroys under way.
LEMMA DyingLaunches ==
    ASSUME SlotsInv
    PROVE  /\ \A d \in destroys : d.owner \in Launch
           /\ Dying \subseteq Launch
           /\ \A l \in Launch : pc[l] \notin {"catching", "failed", "closed"}
                                => l \notin Dying
<1>1. ASSUME NEW d \in destroys
      PROVE  d.owner \in Launch /\ pc[d.owner] \in {"catching", "failed", "closed"}
  <2>1. d \in Destroy
    BY DEF SlotsInv, Typed, TypeOK
  <2>2. d.owner \in Launch
    BY <2>1 DEF Destroy
  <2> QED BY <2>2 DEF SlotsInv, DestroyedOnce
<1> QED BY <1>1 DEF Dying

\* A step of l that leaves the slots alone and lets it keep the use of its
\* slot, or do without one.
Moves(l) ==
    /\ UNCHANGED <<state, free, rebuilds, slot, replaced, destroys>>
    /\ pc \in [Launch -> InFlight \cup Ended]
    /\ \A k \in Launch \ {l} : pc'[k] = pc[k] /\ tracked'[k] = tracked[k]
    /\ \A k \in Launch : ~probing'[k]
    /\ \/ /\ pc[l] \in Reserving
          /\ pc'[l] \in Reserving
          /\ pc'[l] # "prelaunch" => tracked'[l]
       \/ /\ pc[l] \in {"idle", "claiming"}
          /\ pc'[l] \in {"claiming", "waiting", "failed"}

LEMMA Moving ==
    ASSUME SlotsInv, Typed', NEW l \in Launch, Moves(l)
    PROVE  SlotsInv'
<1> USE DEF SlotsInv, Moves
<1>1. Unmonitored'
  BY DEF Unmonitored, Reserving
<1>2. l \notin Dying /\ Dying \subseteq Launch
  BY DyingLaunches DEF Reserving
<1>3. DestroyedOnce'
  <2>1. \A d \in destroys : d.owner \in Launch \ {l}
    BY <1>2 DEF Dying
  <2> QED BY <2>1 DEF DestroyedOnce
<1>4. Reserved' = Reserved
  BY <1>2 DEF Reserved, Dying, Reserving
<1>5. Checking' = Checking /\ Joining' = Joining
  BY DEF Checking, Joining, Reserving
<1>6. Busy' = Busy
  BY <1>4, <1>5 DEF Busy
<1>7. OwnersAgree' /\ OneOwner'
  BY <1>4, <1>5, <1>6 DEF OwnersAgree, OneOwner
<1>8. StatesAgree'
  BY <1>4, <1>5 DEF StatesAgree
<1> QED BY <1>1, <1>3, <1>7, <1>8

\* A step that hands the VM of l to #destroyMachine.
Ends(l, why) ==
    /\ UNCHANGED <<state, free, rebuilds, slot, replaced>>
    /\ pc[l] \in Reserving
    /\ pc'[l] \in {"catching", "failed", "closed"}
    /\ why # "keepalive"
    /\ why = "retry" <=> pc'[l] = "catching"
    /\ Destroying(l, why)
    /\ \A k \in Launch \ {l} : pc'[k] = pc[k] /\ tracked'[k] = tracked[k]
    /\ \A k \in Launch : ~probing'[k]

LEMMA Ending ==
    ASSUME SlotsInv, Typed', NEW l \in Launch, NEW why, Ends(l, why)
    PROVE  SlotsInv'
<1> USE DEF SlotsInv
<1>1. Unmonitored'
  BY DEF Unmonitored, Reserving, Ends
<1>2. /\ l \notin Dying /\ Dying \subseteq Launch
      /\ \A d \in destroys : d.owner \in Launch \ {l}
  BY DyingLaunches DEF Reserving, Dying, Ends
<1>3. PICK new : /\ destroys' = destroys \cup {new}
                 /\ new.owner = l /\ new.slot = slot[l] /\ new.for = why
  <2> DEFINE gone == [owner |-> l, attempt |-> attempt[l], slot |-> slot[l],
                      for |-> why, step |-> "killing"]
  <2>1. gone.owner = l /\ gone.slot = slot[l] /\ gone.for = why
    OBVIOUS
  <2>2. destroys' = destroys \cup {gone}
    BY DEF Ends, Destroying
  <2> HIDE DEF gone
  <2> QED BY <2>1, <2>2
<1>4. DestroyedOnce'
  <2>1. \A d \in destroys : pc'[d.owner] = pc[d.owner] /\ slot'[d.owner] = slot[d.owner]
    BY <1>2 DEF Ends
  <2>2. slot'[l] = slot[l]
    BY DEF Ends
  <2> QED BY <1>2, <1>3, <2>1, <2>2 DEF DestroyedOnce, Ends
<1>5. Dying' = Dying \cup {l}
  BY <1>3 DEF Dying
<1>6. Reserved' = Reserved
  BY <1>5 DEF Reserved, Reserving, Ends
<1>7. Checking' = Checking /\ Joining' = Joining
  BY DEF Checking, Joining, Reserving, Ends
<1>8. Busy' = Busy
  BY <1>6, <1>7 DEF Busy
<1>9. OwnersAgree' /\ OneOwner'
  BY <1>6, <1>7, <1>8 DEF OwnersAgree, OneOwner, Ends
<1>10. StatesAgree'
  BY <1>6, <1>7 DEF StatesAgree, Ends
<1> QED BY <1>1, <1>4, <1>9, <1>10

\* The use of the slot of l ends: it is free again, or to be rebuilt.
LEMMA Leaving ==
    ASSUME SlotsInv, Typed', NEW l \in Reserved,
           Reserved' = Reserved \ {l}, Checking' = Checking, Joining' = Joining,
           UNCHANGED <<slot, replaced>>,
           ReleaseSlot(slot[l]) \/ MarkUnhealthy(slot[l])
    PROVE  OwnersAgree' /\ OneOwner' /\ StatesAgree'
<1> USE DEF SlotsInv
<1> DEFINE s == slot[l]
<1>1. /\ s \in Slot \ ToSet(free) /\ state[s] = "reserved" /\ s \notin rebuilds
      /\ free \in Seq(Slot) /\ IsInjective(free)
      /\ state \in [Slot -> {"free", "reserved", "unhealthy", "rebuilding"}]
  BY DEF OwnersAgree, StatesAgree, Busy, Typed, TypeOK
<1>2. Busy' \subseteq Busy /\ Busy' = Checking \cup Joining \cup Reserved'
  BY DEF Busy
<1>3. l \notin Checking /\ l \notin Joining
  BY <1>1 DEF OwnersAgree, StatesAgree
<1>4. \A k \in Busy' : k # l /\ slot[k] # s
  BY <1>2, <1>3 DEF OneOwner, Busy
<1>5. \A k \in Busy' : slot[k] \in Slot /\ slot[k] \notin ToSet(free)
  BY <1>2 DEF OwnersAgree
<1>6. CASE ReleaseSlot(s)
  <2>1. /\ state' = [state EXCEPT ![s] = "free"]
        /\ free' = Append(free, s)
        /\ rebuilds' = rebuilds
    BY <1>1, <1>6 DEF ReleaseSlot, CanRelease
  <2>2. ToSet(free') = ToSet(free) \cup {s} /\ IsInjective(free')
    BY <1>1, <2>1, LongerList
  <2>3. OwnersAgree' /\ OneOwner'
    BY <1>1, <1>2, <1>4, <1>5, <2>1, <2>2 DEF OwnersAgree, OneOwner
  <2>4. StatesAgree'
    BY <1>1, <2>1, <2>2 DEF StatesAgree
  <2> QED BY <2>3, <2>4
<1>7. CASE MarkUnhealthy(s)
  <2>1. /\ state' = [state EXCEPT ![s] = "rebuilding"]
        /\ free' = free
        /\ rebuilds' = rebuilds \cup {s}
    BY <1>1, <1>7, NotListed DEF MarkUnhealthy
  <2>2. OwnersAgree' /\ OneOwner'
    BY <1>1, <1>2, <1>4, <1>5, <2>1 DEF OwnersAgree, OneOwner
  <2>3. StatesAgree'
    BY <1>1, <2>1 DEF StatesAgree
  <2> QED BY <2>2, <2>3
<1> QED BY <1>6, <1>7

\* A launch takes the first entry of the list, to use the slot or check it.
LEMMA Taking ==
    ASSUME SlotsInv, Typed', NEW l \in Launch, TakeSlot(l)
    PROVE  SlotsInv'
<1> USE DEF SlotsInv
<1>0. PICK s : s = free[1]
  OBVIOUS
<1>1. free \in Seq(Slot) /\ IsInjective(free) /\ free # <<>> /\ FirstFree(free) = 1
  BY FirstEntry DEF Typed, TypeOK, StatesAgree, TakeSlot
<1>2. /\ s \in ToSet(free) /\ s \in Slot
      /\ ToSet(free') = ToSet(free) \ {s} /\ IsInjective(free')
  <2>1. free' = SubSeq(free, 2, Len(free))
    BY <1>1 DEF TakeSlot
  <2>2. s \in Slot
    BY <1>0, <1>1
  <2> QED BY <1>0, <1>1, <2>1, <2>2, RestOfList
<1>3. /\ pc[l] = "claiming" /\ slot' = [slot EXCEPT ![l] = s]
      /\ replaced' = [replaced EXCEPT ![l] = FALSE]
      /\ UNCHANGED <<rebuilds, destroys, tracked, probing>>
      /\ \/ Goto(l, "checking") /\ UNCHANGED state
         \/ state' = [state EXCEPT ![s] = "reserved"] /\ Goto(l, "prelaunch")
  BY <1>0, <1>1 DEF TakeSlot, ReserveSlot, machines
<1>4. /\ state[s] = "free" /\ s \notin rebuilds
      /\ state \in [Slot -> {"free", "reserved", "unhealthy", "rebuilding"}]
      /\ pc \in [Launch -> InFlight \cup Ended]
      /\ slot \in [Launch -> Slot \cup {None}]
      /\ replaced \in [Launch -> BOOLEAN]
  BY <1>2 DEF StatesAgree, Typed, TypeOK
<1>5. l \notin Dying /\ Dying \subseteq Launch /\ Dying' = Dying
      /\ \A d \in destroys : d.owner \in Launch \ {l}
  BY <1>3, DyingLaunches DEF Dying
<1>6. Unmonitored'
  BY <1>3, <1>4 DEF Unmonitored, Reserving, Goto
<1>7. DestroyedOnce'
  <2>1. \A d \in destroys : pc'[d.owner] = pc[d.owner] /\ slot'[d.owner] = slot[d.owner]
    BY <1>3, <1>4, <1>5 DEF Goto
  <2> QED BY <1>3, <2>1 DEF DestroyedOnce
<1>8. Busy \subseteq Launch \ {l}
  BY <1>3, <1>5 DEF Busy, Checking, Joining, Reserved, Reserving
<1>9. /\ \A k \in Busy : slot'[k] = slot[k] /\ replaced'[k] = replaced[k]
      /\ slot'[l] = s /\ ~replaced'[l]
  BY <1>3, <1>4, <1>8
<1>10. \A k \in Busy : slot[k] \in Slot \ ToSet(free) /\ slot[k] # s
  BY <1>2 DEF OwnersAgree
<1>11. Joining' = Joining
  BY <1>3, <1>4 DEF Joining, Goto
<1>12. Checking \subseteq Busy /\ Reserved \subseteq Busy /\ Joining \subseteq Busy
  BY DEF Busy
<1>13. ASSUME Busy' = Busy \cup {l}
       PROVE  /\ OneOwner'
              /\ \A k \in Busy' : slot'[k] \in Slot \ ToSet(free')
              /\ \A k \in Joining' : slot'[k] \in rebuilds'
  <2>1. OneOwner'
    BY <1>9, <1>10, <1>13 DEF OneOwner
  <2>2. \A k \in Busy' : slot'[k] \in Slot \ ToSet(free')
    BY <1>2, <1>9, <1>10, <1>13
  <2>3. \A k \in Joining' : slot'[k] \in rebuilds'
    <3>1. rebuilds' = rebuilds
      BY <1>3
    <3>2. \A k \in Joining : slot[k] \in rebuilds
      BY DEF OwnersAgree
    <3> QED BY <1>9, <1>11, <1>12, <3>1, <3>2
  <2> QED BY <2>1, <2>2, <2>3
<1>14. CASE Goto(l, "checking") /\ UNCHANGED state
  <2>1. Checking' = Checking \cup {l}
    BY <1>3, <1>4, <1>14 DEF Checking, Goto
  <2>2. Reserved' = Reserved
    BY <1>3, <1>4, <1>5, <1>14 DEF Reserved, Reserving, Goto
  <2>3. Busy' = Busy \cup {l}
    BY <1>11, <2>1, <2>2 DEF Busy
  <2>4. \A k \in Checking' : state'[slot'[k]] = "free" /\ ~replaced'[k]
    BY <1>4, <1>9, <1>12, <1>14, <2>1 DEF OwnersAgree
  <2>5. \A k \in Reserved' : state'[slot'[k]] = "reserved"
    BY <1>9, <1>12, <1>14, <2>2 DEF OwnersAgree
  <2>6. OwnersAgree'
    BY <1>13, <2>3, <2>4, <2>5 DEF OwnersAgree
  <2>7. StatesAgree'
    <3>1. \A t \in Slot : state[t] = "reserved" => \E k \in Reserved' : slot'[k] = t
      BY <1>9, <1>12, <2>2 DEF StatesAgree
    <3>2. \A t \in Slot : state[t] = "free" =>
             t \in ToSet(free') \/ \E k \in Checking' : slot'[k] = t
      BY <1>2, <1>9, <1>12, <2>1 DEF StatesAgree
    <3>3. \A t \in ToSet(free') : state[t] = "free"
      BY <1>2 DEF StatesAgree
    <3>4. \A t \in rebuilds : state[t] = "rebuilding"
      BY DEF StatesAgree
    <3> QED BY <1>2, <1>3, <1>14, <3>1, <3>2, <3>3, <3>4 DEF StatesAgree
  <2> QED BY <1>6, <1>7, <1>13, <2>3, <2>6, <2>7
<1>15. CASE state' = [state EXCEPT ![s] = "reserved"] /\ Goto(l, "prelaunch")
  <2>1. Checking' = Checking
    BY <1>3, <1>4, <1>15 DEF Checking, Goto
  <2>2. Reserved' = Reserved \cup {l}
    BY <1>3, <1>4, <1>5, <1>15 DEF Reserved, Reserving, Goto
  <2>3. Busy' = Busy \cup {l}
    BY <1>11, <2>1, <2>2 DEF Busy
  <2>4. state'[s] = "reserved" /\ \A t \in Slot \ {s} : state'[t] = state[t]
    BY <1>2, <1>4, <1>15
  <2>5. \A k \in Checking' : state'[slot'[k]] = "free" /\ ~replaced'[k]
    BY <1>9, <1>10, <1>12, <2>1, <2>4 DEF OwnersAgree
  <2>6. \A k \in Reserved' : state'[slot'[k]] = "reserved"
    BY <1>9, <1>10, <1>12, <2>2, <2>4 DEF OwnersAgree
  <2>7. OwnersAgree'
    BY <1>13, <2>3, <2>5, <2>6 DEF OwnersAgree
  <2>8. StatesAgree'
    <3>1. \A t \in Slot : state'[t] = "reserved" => \E k \in Reserved' : slot'[k] = t
      BY <1>9, <1>12, <2>2, <2>4 DEF StatesAgree
    <3>2. \A t \in Slot : state'[t] = "free" =>
             t \in ToSet(free') \/ \E k \in Checking' : slot'[k] = t
      BY <1>2, <1>9, <1>12, <2>1, <2>4 DEF StatesAgree
    <3>3. \A t \in ToSet(free') : state'[t] = "free"
      <4>1. ToSet(free) \subseteq Slot
        BY <1>1 DEF ToSet
      <4> QED BY <1>2, <2>4, <4>1 DEF StatesAgree
    <3>4. \A t \in rebuilds' : state'[t] = "rebuilding"
      BY <1>3, <1>4, <1>15 DEF StatesAgree, Typed, TypeOK
    <3> QED BY <1>2, <3>1, <3>2, <3>3, <3>4 DEF StatesAgree
  <2> QED BY <1>6, <1>7, <1>13, <2>3, <2>7, <2>8
<1> QED BY <1>3, <1>14, <1>15

\* The check of a slot ends: it is reserved, or to be rebuilt for l.
LEMMA CheckEnds ==
    ASSUME SlotsInv, Typed', NEW l \in Launch, CheckPasses(l) \/ CheckFails(l)
    PROVE  SlotsInv'
<1> USE DEF SlotsInv
<1> DEFINE s == slot[l]
<1>1. l \in Checking /\ l \in Busy
  BY DEF CheckPasses, CheckFails, Checking, Busy
<1>2. /\ state[s] = "free" /\ ~replaced[l] /\ pc[l] = "checking" /\ s \in Slot \ ToSet(free)
      /\ s \notin rebuilds
      /\ state \in [Slot -> {"free", "reserved", "unhealthy", "rebuilding"}]
      /\ pc \in [Launch -> InFlight \cup Ended]
  BY <1>1 DEF OwnersAgree, StatesAgree, Typed, TypeOK, Checking
<1>3. UNCHANGED <<free, slot, replaced, destroys, tracked, probing>>
  BY DEF CheckPasses, CheckFails, machines
<1>4. \/ /\ Goto(l, "prelaunch") /\ rebuilds' = rebuilds
         /\ state' = [state EXCEPT ![s] = "reserved"]
      \/ /\ Goto(l, "joining") /\ rebuilds' = rebuilds \cup {s}
         /\ state' = [state EXCEPT ![s] = "rebuilding"]
  BY <1>2 DEF CheckPasses, CheckFails, ReserveSlot
<1>5. l \notin Dying /\ Dying \subseteq Launch /\ Dying' = Dying
      /\ \A d \in destroys : d.owner \in Launch \ {l}
  BY <1>1, <1>3, DyingLaunches DEF Dying, Checking
<1>6. Unmonitored'
  BY <1>2, <1>3, <1>4 DEF Unmonitored, Reserving, Goto
<1>7. DestroyedOnce'
  <2>1. \A d \in destroys : pc'[d.owner] = pc[d.owner]
    BY <1>2, <1>4, <1>5 DEF Goto
  <2> QED BY <1>3, <2>1 DEF DestroyedOnce
<1>8. \A k \in Busy \ {l} : slot[k] # s
  BY <1>1 DEF OneOwner
<1>9. Checking' = Checking \ {l} /\ Checking \subseteq Busy
      /\ Joining \subseteq Busy /\ Reserved \subseteq Busy
      /\ l \notin Joining /\ l \notin Reserved
  <2>1. Checking' = Checking \ {l}
    BY <1>2, <1>4 DEF Checking, Goto
  <2> QED BY <1>1, <1>5, <2>1 DEF Checking, Joining, Reserved, Reserving, Busy
<1>10. CASE Goto(l, "prelaunch") /\ state' = [state EXCEPT ![s] = "reserved"]
            /\ rebuilds' = rebuilds
  <2>1. Joining' = Joining /\ Reserved' = Reserved \cup {l}
    BY <1>2, <1>5, <1>10 DEF Joining, Reserved, Reserving, Goto
  <2>2. Busy' = Busy
    BY <1>1, <1>9, <2>1 DEF Busy
  <2>3. OwnersAgree' /\ OneOwner'
    BY <1>2, <1>3, <1>8, <1>9, <1>10, <2>1, <2>2 DEF OwnersAgree, OneOwner
  <2>4. StatesAgree'
    BY <1>2, <1>3, <1>8, <1>9, <1>10, <2>1 DEF StatesAgree
  <2> QED BY <1>6, <1>7, <2>3, <2>4
<1>11. CASE Goto(l, "joining") /\ state' = [state EXCEPT ![s] = "rebuilding"]
            /\ rebuilds' = rebuilds \cup {s}
  <2>1. Joining' = Joining \cup {l} /\ Reserved' = Reserved
    BY <1>2, <1>5, <1>11 DEF Joining, Reserved, Reserving, Goto
  <2>2. Busy' = Busy
    BY <1>1, <1>9, <2>1 DEF Busy
  <2>3. OwnersAgree' /\ OneOwner'
    BY <1>2, <1>3, <1>8, <1>9, <1>11, <2>1, <2>2 DEF OwnersAgree, OneOwner
  <2>4. StatesAgree'
    BY <1>2, <1>3, <1>8, <1>9, <1>11, <2>1 DEF StatesAgree
  <2> QED BY <1>6, <1>7, <2>3, <2>4
<1> QED BY <1>4, <1>10, <1>11

\* The catch of #spawnMachine.
LEMMA SpawnFailing ==
    ASSUME SlotsInv, Typed', NEW l \in Launch, SpawnFails(l)
    PROVE  SlotsInv'
<1> USE DEF SlotsInv
<1>1. /\ pc[l] = "prelaunch" /\ pc' = [pc EXCEPT ![l] = "failed"]
      /\ MarkUnhealthy(slot[l])
      /\ UNCHANGED <<slot, replaced, destroys, tracked, probing>>
      /\ pc \in [Launch -> InFlight \cup Ended]
  BY DEF SpawnFails, Goto, Typed, TypeOK
<1>2. l \notin Dying /\ Dying \subseteq Launch /\ Dying' = Dying
      /\ \A d \in destroys : d.owner \in Launch \ {l}
  BY <1>1, DyingLaunches DEF Dying
<1>3. Unmonitored'
  BY <1>1 DEF Unmonitored, Reserving
<1>4. DestroyedOnce'
  <2>1. \A d \in destroys : pc'[d.owner] = pc[d.owner]
    BY <1>1, <1>2
  <2> QED BY <1>1, <2>1 DEF DestroyedOnce
<1>5. l \in Reserved /\ Reserved' = Reserved \ {l}
  BY <1>1, <1>2 DEF Reserved, Reserving
<1>6. Checking' = Checking /\ Joining' = Joining
  BY <1>1 DEF Checking, Joining
<1> QED BY <1>1, <1>3, <1>4, <1>5, <1>6, Leaving

\* #destroyMachine: its kills change nothing here, its end gives the slot back.
LEMMA MachineKilled ==
    ASSUME SlotsInv, Typed', NEW d \in destroys, Kill(d)
    PROVE  SlotsInv'
<1> USE DEF SlotsInv
<1>1. UNCHANGED <<state, free, rebuilds, pc, slot, replaced, tracked, probing>>
  BY DEF Kill, slots, launches
<1>2. PICK e : /\ destroys' = (destroys \ {d}) \cup {e}
               /\ e.owner = d.owner /\ e.slot = d.slot /\ e.for = d.for
  <2> DEFINE killed == [d EXCEPT !.step = "finishing"]
  <2>1. d \in Destroy
    BY DEF Typed, TypeOK
  <2>2. killed.owner = d.owner /\ killed.slot = d.slot /\ killed.for = d.for
    BY <2>1 DEF Destroy
  <2>3. destroys' = (destroys \ {d}) \cup {killed}
    BY DEF Kill
  <2> HIDE DEF killed
  <2> QED BY <2>2, <2>3
<1>3. DestroyedOnce'
  BY <1>1, <1>2 DEF DestroyedOnce
<1>4. Dying' = Dying
  BY <1>2 DEF Dying
<1>5. Reserved' = Reserved /\ Checking' = Checking /\ Joining' = Joining
  BY <1>1, <1>4 DEF Reserved, Checking, Joining
<1>6. Busy' = Busy
  BY <1>5 DEF Busy
<1>7. Unmonitored'
  BY <1>1 DEF Unmonitored
<1>8. OwnersAgree' /\ OneOwner' /\ StatesAgree'
  BY <1>1, <1>5, <1>6 DEF OwnersAgree, OneOwner, StatesAgree
<1> QED BY <1>3, <1>7, <1>8

LEMMA Finishing ==
    ASSUME SlotsInv, Typed', NEW d \in destroys, Finish(d)
    PROVE  SlotsInv'
<1> USE DEF SlotsInv
<1> DEFINE l == d.owner
<1>1. /\ d \in Destroy /\ l \in Launch /\ l \in Dying /\ l \in Reserved
      /\ d.slot = slot[l] /\ pc[l] \in {"catching", "failed", "closed"}
      /\ d.for = "retry" <=> pc[l] = "catching"
  BY DyingLaunches DEF Typed, TypeOK, DestroyedOnce, Dying, Reserved
<1>2. /\ destroys' = destroys \ {d}
      /\ ReleaseSlot(slot[l]) \/ MarkUnhealthy(slot[l])
      /\ UNCHANGED <<slot, replaced, tracked, probing>>
      /\ pc \in [Launch -> InFlight \cup Ended]
  BY <1>1 DEF Finish, Destroy, machines, Typed, TypeOK
<1>3. /\ pc'[l] \in {"claiming", "failed", "closed"}
      /\ \A k \in Launch \ {l} : pc'[k] = pc[k]
  BY <1>1, <1>2 DEF Finish, Resume, Goto
<1>4. \A e \in destroys' : e \in destroys /\ e.owner \in Launch \ {l}
  BY <1>2, DyingLaunches DEF DestroyedOnce
<1>5. DestroyedOnce'
  BY <1>2, <1>3, <1>4 DEF DestroyedOnce
<1>6. Dying' = Dying \ {l}
  BY <1>2, <1>4 DEF Dying
<1>7. Reserved' = Reserved \ {l}
  BY <1>1, <1>3, <1>6 DEF Reserved, Reserving
<1>8. Checking' = Checking /\ Joining' = Joining
  BY <1>1, <1>3 DEF Checking, Joining
<1>9. Unmonitored'
  BY <1>2, <1>3 DEF Unmonitored, Reserving
<1>10. OwnersAgree' /\ OneOwner' /\ StatesAgree'
  BY <1>1, <1>2, <1>7, <1>8, Leaving
<1> QED BY <1>5, <1>9, <1>10

\* A rebuild comes to its end: the launches at other places do not notice.
LEMMA Settling ==
    ASSUME SlotsInv, Typed', NEW s \in rebuilds,
           NEW next \in {"prelaunch", "failed"}, SettleRebuild(s, next),
           UNCHANGED <<slot, tracked, probing, destroys>>
    PROVE  /\ Unmonitored' /\ DestroyedOnce'
           /\ Joined(s) \subseteq Joining
           /\ Checking' = Checking /\ Joining' = Joining \ Joined(s)
           /\ Reserved' = IF next = "failed" THEN Reserved
                                            ELSE Reserved \cup Joined(s)
           /\ \A l \in Busy : slot[l] = s <=> l \in Joined(s)
<1> USE DEF SlotsInv
<1>1. Joined(s) = {l \in Joining : slot[l] = s}
  BY DEF Joined, Joining
<1>2. /\ \A l \in Joined(s) : pc[l] = "joining" /\ pc'[l] = next
      /\ \A l \in Launch \ Joined(s) :
            \/ pc'[l] = pc[l]
            \/ pc[l] = "waiting" /\ pc'[l] = "claiming"
  <2>1. \A l \in Joined(s) : l \in Launch /\ pc[l] = "joining"
    BY DEF Joined
  <2>2. \A l \in Awaiting(s) : pc[l] = "waiting"
    BY DEF Awaiting
  <2> QED BY <2>1, <2>2 DEF SettleRebuild
<1>3. Joined(s) \subseteq Launch
  BY DEF Joined
<1>4. Unmonitored'
  BY <1>2, <1>3 DEF Unmonitored, Reserving
<1>5. \A d \in destroys : d.owner \in Launch /\ pc'[d.owner] = pc[d.owner]
  <2>1. \A d \in destroys : /\ d.owner \in Launch
                           /\ pc[d.owner] \in {"catching", "failed", "closed"}
    BY DyingLaunches DEF DestroyedOnce
  <2> QED BY <1>2, <2>1
<1>6. DestroyedOnce'
  BY <1>5 DEF DestroyedOnce
<1>7. Dying' = Dying
  BY DEF Dying
<1>8. Checking' = Checking /\ Joining' = Joining \ Joined(s)
  BY <1>2, <1>3 DEF Checking, Joining
<1>9. Reserved' = IF next = "failed" THEN Reserved ELSE Reserved \cup Joined(s)
  BY <1>2, <1>3, <1>7 DEF Reserved, Reserving
<1>10. ASSUME NEW l \in Busy, slot[l] = s PROVE l \in Joined(s)
  <2>1. state[s] = "rebuilding"
    BY DEF StatesAgree
  <2>2. l \notin Checking /\ l \notin Reserved
    BY <1>10, <2>1 DEF OwnersAgree
  <2> QED BY <1>1, <1>10, <2>2 DEF Busy
<1> QED BY <1>1, <1>4, <1>6, <1>8, <1>9, <1>10

LEMMA RebuildFailing ==
    ASSUME SlotsInv, Typed', NEW s \in Slot, RebuildFails(s)
    PROVE  SlotsInv'
<1> USE DEF SlotsInv
<1>1. /\ s \in rebuilds /\ SettleRebuild(s, "failed") /\ rebuilds' = rebuilds \ {s}
      /\ UNCHANGED <<state, free, slot, replaced, tracked, probing, destroys>>
  BY DEF RebuildFails, SettleRebuild
<1>2. /\ Unmonitored' /\ DestroyedOnce'
      /\ Checking' = Checking /\ Joining' = Joining \ Joined(s)
      /\ Reserved' = Reserved
      /\ \A l \in Busy : slot[l] = s <=> l \in Joined(s)
  BY <1>1, Settling
<1>3. Busy' \subseteq Busy /\ Joining \subseteq Busy
  BY <1>2 DEF Busy
<1>4. OneOwner'
  BY <1>1, <1>3 DEF OneOwner
<1>5. \A l \in Joining' : slot'[l] \in rebuilds'
  BY <1>1, <1>2, <1>3 DEF OwnersAgree
<1>6. OwnersAgree'
  BY <1>1, <1>2, <1>3, <1>5 DEF OwnersAgree
<1>7. StatesAgree'
  BY <1>1, <1>2 DEF StatesAgree
<1> QED BY <1>2, <1>4, <1>6, <1>7

LEMMA RebuildSucceeding ==
    ASSUME SlotsInv, Typed', NEW s \in Slot, RebuildSucceeds(s)
    PROVE  SlotsInv'
<1> USE DEF SlotsInv
<1> DEFINE joined == Joined(s)
<1>1. /\ s \in rebuilds /\ SettleRebuild(s, "prelaunch") /\ rebuilds' = rebuilds \ {s}
      /\ UNCHANGED <<slot, tracked, probing, destroys>>
  BY DEF RebuildSucceeds, SettleRebuild
<1>2. /\ Unmonitored' /\ DestroyedOnce' /\ joined \subseteq Joining
      /\ Checking' = Checking /\ Joining' = Joining \ joined
      /\ Reserved' = Reserved \cup joined
      /\ \A l \in Busy : slot[l] = s <=> l \in joined
  BY <1>1, Settling
<1>3. /\ Busy' = Busy /\ Joining \subseteq Busy /\ Checking \subseteq Busy
      /\ Reserved \subseteq Busy
  BY <1>2 DEF Busy
<1>4. /\ state[s] = "rebuilding" /\ s \notin ToSet(free) /\ ToSet(free) \subseteq Slot
      /\ state \in [Slot -> {"free", "reserved", "unhealthy", "rebuilding"}]
  <2>1. ToSet(free) \subseteq Slot
    BY DEF Typed, TypeOK, ToSet
  <2>2. state[s] = "rebuilding" /\ s \notin ToSet(free)
    BY <1>1 DEF StatesAgree
  <2> QED BY <2>1, <2>2 DEF Typed, TypeOK
<1>5. state'[s] = (IF joined = {} THEN "free" ELSE "reserved")
      /\ \A t \in Slot \ {s} : state'[t] = state[t]
  BY <1>4 DEF RebuildSucceeds
<1>6. ToSet(free') = ToSet(free) \cup (IF joined = {} THEN {s} ELSE {})
      /\ IsInjective(free')
  <2> DEFINE listed == (ToSet(free) \ {s}) \cup (IF joined = {} THEN {s} ELSE {})
  <2>1. free' = Sorted(listed) /\ listed \subseteq Slot
    BY <1>4 DEF RebuildSucceeds
  <2>2. listed = ToSet(free) \cup (IF joined = {} THEN {s} ELSE {})
    BY <1>4
  <2> HIDE DEF listed
  <2> QED BY <2>1, <2>2, SortedList
<1>7. ASSUME NEW l \in Checking PROVE ~replaced'[l]
  <2>1. l \in Launch /\ slot[l] # s /\ ~replaced[l]
    BY <1>4 DEF OwnersAgree, Checking
  <2>2. replaced'[l] = (replaced[l] \/ (pc[l] = "checking" /\ slot[l] = s))
    BY <2>1 DEF RebuildSucceeds
  <2> QED BY <2>1, <2>2
<1>8. OneOwner'
  BY <1>1, <1>3 DEF OneOwner
<1>9. OwnersAgree'
  <2>1. \A l \in Busy' : slot'[l] \in Slot \ ToSet(free')
    BY <1>1, <1>2, <1>3, <1>6 DEF OwnersAgree
  <2>2. \A l \in Checking' : state'[slot'[l]] = "free" /\ ~replaced'[l]
    BY <1>1, <1>2, <1>3, <1>4, <1>5, <1>7 DEF OwnersAgree
  <2>3. \A l \in Joining' : slot'[l] \in rebuilds'
    BY <1>1, <1>2, <1>3 DEF OwnersAgree
  <2>4. \A l \in Reserved' : state'[slot'[l]] = "reserved"
    <3>1. \A l \in joined : slot[l] = s
      BY <1>2, <1>3
    <3>2. \A l \in Reserved : slot[l] \in Slot \ {s}
      BY <1>3, <1>4 DEF OwnersAgree
    <3> QED BY <1>1, <1>2, <1>5, <3>1, <3>2 DEF OwnersAgree
  <2> QED BY <2>1, <2>2, <2>3, <2>4 DEF OwnersAgree
<1>10. StatesAgree'
  <2>1. \A t \in Slot : state'[t] = "reserved" => \E l \in Reserved' : slot'[l] = t
    <3>1. \A l \in joined : slot[l] = s
      BY <1>2, <1>3
    <3> QED BY <1>1, <1>2, <1>5, <3>1 DEF StatesAgree
  <2>2. \A t \in Slot : state'[t] = "free" =>
           t \in ToSet(free') \/ \E l \in Checking' : slot'[l] = t
    BY <1>1, <1>2, <1>5, <1>6 DEF StatesAgree
  <2>3. \A t \in ToSet(free') : state'[t] = "free"
    BY <1>4, <1>5, <1>6 DEF StatesAgree
  <2>4. \A t \in rebuilds' : state'[t] = "rebuilding"
    <3>1. rebuilds \subseteq Slot
      BY DEF Typed, TypeOK
    <3> QED BY <1>1, <1>5, <3>1 DEF StatesAgree
  <2> QED BY <1>6, <2>1, <2>2, <2>3, <2>4 DEF StatesAgree
<1> QED BY <1>2, <1>8, <1>9, <1>10

\* The steps of a launch that keep its slot or do without one ...
LEMMA MovingSteps ==
    ASSUME ~Monitor, SlotsInv, NEW l \in Launch,
           \/ BeginLaunch(l) \/ AwaitRebuilds(l) \/ NoSlot(l) \/ Spawn(l) \/ Restored(l)
           \/ VerifyPasses(l) \/ (ClaimWarm(l) /\ vm[l]) \/ Exit(l)
    PROVE  Moves(l)
<1> USE DEF SlotsInv, Moves, Reserving, slots, launches, machines, Goto
<1>1. /\ pc \in [Launch -> InFlight \cup Ended] /\ tracked \in [Launch -> BOOLEAN]
      /\ \A k \in Launch : ~probing[k]
      /\ pc[l] \in Reserving \ {"prelaunch"} => tracked[l]
  BY DEF Typed, TypeOK, Unmonitored
<1>2. CASE BeginLaunch(l)
  BY <1>1, <1>2 DEF BeginLaunch
<1>3. CASE AwaitRebuilds(l) \/ NoSlot(l)
  <2>1. free = <<>>
    BY <1>3, FirstEntry DEF AwaitRebuilds, NoSlot, StatesAgree, Typed, TypeOK
  <2> QED BY <1>1, <1>3, <2>1 DEF AwaitRebuilds, NoSlot
<1>4. CASE Spawn(l)
  BY <1>1, <1>4 DEF Spawn
<1>5. CASE Restored(l)
  BY <1>1, <1>5 DEF Restored
<1>6. CASE VerifyPasses(l)
  BY <1>1, <1>6 DEF VerifyPasses
<1>7. CASE ClaimWarm(l) /\ vm[l]
  BY <1>1, <1>7 DEF ClaimWarm
<1>8. CASE Exit(l)
  BY <1>1, <1>8 DEF Exit
<1> QED BY <1>2, <1>3, <1>4, <1>5, <1>6, <1>7, <1>8

\* ... and those that have its VM destroyed.
LEMMA EndingSteps ==
    ASSUME ~Monitor, SlotsInv, NEW l \in Launch,
           \/ RestoreFails(l) \/ VerifyFails(l) \/ (ClaimWarm(l) /\ ~vm[l]) \/ Terminate(l)
    PROVE  \E why : Ends(l, why)
<1> USE DEF SlotsInv, Reserving, slots, launches, machines, Goto, Untrack
<1>1. /\ pc \in [Launch -> InFlight \cup Ended] /\ tracked \in [Launch -> BOOLEAN]
      /\ \A k \in Launch : ~probing[k]
  BY DEF Typed, TypeOK, Unmonitored
<1>2. CASE RestoreFails(l)
  <2>1. Ends(l, "retry")
    BY <1>1, <1>2 DEF RestoreFails, Ends
  <2> QED BY <2>1
<1>3. CASE VerifyFails(l)
  <2>1. Ends(l, "evict")
    BY <1>1, <1>3 DEF VerifyFails, Ends
  <2> QED BY <2>1
<1>4. CASE ClaimWarm(l) /\ ~vm[l]
  <2>1. Ends(l, "dead")
    BY <1>1, <1>4 DEF ClaimWarm, Ends
  <2> QED BY <2>1
<1>5. CASE Terminate(l)
  <2>1. Ends(l, "terminate")
    BY <1>1, <1>5 DEF Terminate, Ends
  <2> QED BY <2>1
<1> QED BY <1>2, <1>3, <1>4, <1>5

LEMMA SlotsInvAfterStep ==
    ASSUME ~Monitor, SlotsInv, [Next]_vars
    PROVE  SlotsInv'
<1>1. Typed'
  BY TypedAfterStep DEF SlotsInv
<1>2. ASSUME NEW l \in Launch, BeginLaunch(l) \/ LaunchStep(l) PROVE SlotsInv'
  <2>1. CASE \/ BeginLaunch(l) \/ AwaitRebuilds(l) \/ NoSlot(l) \/ Spawn(l)
             \/ Restored(l) \/ VerifyPasses(l)
    <3>1. Moves(l)
      BY <1>2, <2>1, MovingSteps
    <3> QED BY <1>1, <1>2, <3>1, Moving
  <2>2. CASE RestoreFails(l) \/ VerifyFails(l)
    <3>1. PICK why : Ends(l, why)
      BY <1>2, <2>2, EndingSteps
    <3> QED BY <1>1, <1>2, <3>1, Ending
  <2>3. CASE TakeSlot(l)
    BY <1>1, <1>2, <2>3, Taking
  <2>4. CASE CheckPasses(l) \/ CheckFails(l)
    BY <1>1, <1>2, <2>4, CheckEnds
  <2>5. CASE SpawnFails(l)
    BY <1>1, <1>2, <2>5, SpawnFailing
  <2> QED BY <1>2, <2>1, <2>2, <2>3, <2>4, <2>5 DEF LaunchStep
<1>3. ASSUME NEW l \in Launch, ClaimWarm(l) \/ Terminate(l) \/ Exit(l)
      PROVE  SlotsInv'
  BY <1>1, <1>3, MovingSteps, Moving, EndingSteps, Ending
<1>4. ASSUME NEW l \in Launch PROVE ~Probe(l) /\ ~ProbeAnswered(l) /\ ~ProbeFails(l)
  BY DEF Probe, ProbeAnswered, ProbeFails, SlotsInv, Unmonitored
<1>5. ASSUME NEW l \in Launch, DestroyStep(l) PROVE SlotsInv'
  BY <1>1, <1>5, MachineKilled, Finishing DEF DestroyStep
<1>6. ASSUME NEW s \in Slot, RebuildStep(s) PROVE SlotsInv'
  BY <1>1, <1>6, RebuildSucceeding, RebuildFailing DEF RebuildStep
<1>7. CASE Next
  BY <1>2, <1>3, <1>4, <1>5, <1>6, <1>7 DEF Next
<1>8. CASE UNCHANGED vars
  <2>1. UNCHANGED <<state, free, rebuilds, pc, slot, replaced, tracked, probing,
                    destroys>>
    BY <1>8 DEF vars, slots, launches, machines
  <2>2. /\ Dying' = Dying /\ Reserved' = Reserved /\ Checking' = Checking
        /\ Joining' = Joining
    BY <2>1 DEF Dying, Reserved, Checking, Joining
  <2>3. Busy' = Busy
    BY <2>2 DEF Busy
  <2>4. Unmonitored' /\ DestroyedOnce'
    BY <2>1 DEF SlotsInv, Unmonitored, DestroyedOnce
  <2>5. OwnersAgree' /\ OneOwner' /\ StatesAgree'
    BY <2>1, <2>2, <2>3 DEF SlotsInv, OwnersAgree, OneOwner, StatesAgree
  <2> QED BY <1>1, <2>4, <2>5 DEF SlotsInv
<1> QED BY <1>7, <1>8

(***************************************************************************)
(* Who has the use of which slot                                           *)
(***************************************************************************)
\* The launches of Reserved are those that hold a slot.
LEMMA Holders ==
    ASSUME SlotsInv, NEW l \in Launch, NEW s \in Slot
    PROVE  Holds(l, s) <=> l \in Reserved /\ slot[l] = s
<1> USE DEF SlotsInv
<1>1. (\E d \in destroys : d.owner = l /\ d.slot = s) <=> l \in Dying /\ slot[l] = s
  BY DEF DestroyedOnce, Dying
<1>2. pc[l] = "up" => tracked[l]
  BY DEF Unmonitored, Reserving
<1> QED BY <1>1, <1>2 DEF Holds, Reserved, Reserving

LEMMA SlotsInvImpliesExclusive ==
    ASSUME SlotsInv
    PROVE  SlotsAreExclusive
BY Holders DEF SlotsInv, SlotsAreExclusive, OneOwner, Busy

LEMMA SlotsInvImpliesAccounted ==
    ASSUME SlotsInv
    PROVE  SlotsAreAccounted
<1> USE DEF SlotsInv
<1>1. Reserved \subseteq Launch
  BY DyingLaunches DEF Reserved
<1>2. ASSUME NEW s \in Slot
      PROVE  state[s] = "reserved" <=> \E l \in Launch : Holds(l, s)
  BY <1>1, Holders DEF OwnersAgree, StatesAgree
<1>3. ASSUME NEW s \in Slot, state[s] = "free", s \notin ToSet(free)
      PROVE  Cardinality({l \in Launch : pc[l] = "checking" /\ slot[l] = s}) = 1
  <2>1. PICK k \in Checking : slot[k] = s
    BY <1>3 DEF StatesAgree
  <2>2. {l \in Launch : pc[l] = "checking" /\ slot[l] = s} = {k}
    BY <2>1 DEF OneOwner, Busy, Checking
  <2> QED BY <2>2, FS_Singleton
<1>4. IsInjective(free) /\ \A s \in ToSet(free) : state[s] = "free"
  BY DEF StatesAgree
<1> QED BY <1>2, <1>3, <1>4 DEF SlotsAreAccounted

\* No two launches ever have the use of one network slot, for any number of
\* slots, launches and retries, as long as no monitor runs.
THEOREM SlotsStayExclusive == ~Monitor => (Spec => []SlotsAreExclusive)
<1> SUFFICES ASSUME ~Monitor PROVE Spec => []SlotsAreExclusive
  OBVIOUS
<1>1. Init => SlotsInv
  BY SlotsInvInitially
<1>2. SlotsInv /\ [Next]_vars => SlotsInv'
  BY SlotsInvAfterStep
<1>3. SlotsInv => SlotsAreExclusive
  BY SlotsInvImpliesExclusive
<1> QED BY <1>1, <1>2, <1>3, PTL DEF Spec

\* No network slot leaks and none is given back early, on any path of a launch:
\* a slot is reserved exactly while a launch has the use of it.
THEOREM SlotsStayAccounted == ~Monitor => (Spec => []SlotsAreAccounted)
<1> SUFFICES ASSUME ~Monitor PROVE Spec => []SlotsAreAccounted
  OBVIOUS
<1>1. Init => SlotsInv
  BY SlotsInvInitially
<1>2. SlotsInv /\ [Next]_vars => SlotsInv'
  BY SlotsInvAfterStep
<1>3. SlotsInv => SlotsAreAccounted
  BY SlotsInvImpliesAccounted
<1> QED BY <1>1, <1>2, <1>3, PTL DEF Spec

-------------------------------------------------------------------------------
(***************************************************************************)
(* Refinement: what the slots promise to the launches.  A VM runs only in  *)
(* a slot that its launch has the use of, and when #destroyMachine is past *)
(* its kills it does not run; so a step that clears a namespace, whether   *)
(* to start a VM, to destroy one or to rebuild the slot, meets no VM but   *)
(* that of the launch whose step it is.                                    *)
(***************************************************************************)
Killing == {d.owner : d \in {e \in destroys : e.step = "killing"}}

VMInPlace(l) ==
    vm[l] => l \in Reserved /\ pc[l] # "prelaunch" /\ (l \in Dying => l \in Killing)

VMInv == SlotsInv /\ \A l \in Launch : VMInPlace(l)

\* The abstract state, and what the invariant says of it.
places == [l \in Launch |-> Place(l)]
lives == [l \in Launch |-> Life(l)]
repairing == {s \in Slot : state[s] \in {"unhealthy", "rebuilding"}}

Where(l) == IF l \in Reserved THEN slot[l] ELSE None

HowFar(l) == IF l \in Killing THEN "clearing"
             ELSE IF vm[l] THEN "alive"
             ELSE IF l \in Dying THEN "cleared"
             ELSE IF l \notin Reserved THEN "out"
             ELSE IF pc[l] = "prelaunch" THEN "placed" ELSE "exited"

Mapped == /\ places = [l \in Launch |-> Where(l)]
          /\ lives = [l \in Launch |-> HowFar(l)]

\* A destroy that is no longer killing is at its end.
LEMMA DestroySteps ==
    ASSUME SlotsInv, NEW l \in Launch
    PROVE  /\ DestroyIs(l, "killing") <=> l \in Killing
           /\ l \notin Killing => (DestroyIs(l, "finishing") <=> l \in Dying)
<1>1. \A d \in destroys : d.step \in {"killing", "finishing"}
  BY DEF SlotsInv, Typed, TypeOK, Destroy
<1> QED BY <1>1 DEF DestroyIs, Killing, Dying

LEMMA Mapping == SlotsInv => Mapped
<1> SUFFICES ASSUME SlotsInv PROVE Mapped
  OBVIOUS
<1>1. ASSUME NEW l \in Launch PROVE Place(l) = Where(l)
  <2>1. CASE l \in Reserved
    <3>1. slot[l] \in Slot
      BY <2>1 DEF SlotsInv, OwnersAgree, Busy
    <3>2. \A s \in Slot : Holds(l, s) <=> s = slot[l]
      BY <2>1, Holders
    <3> QED BY <2>1, <3>1, <3>2 DEF Place, Where
  <2>2. CASE l \notin Reserved
    BY <2>2, Holders DEF Place, Where
  <2> QED BY <2>1, <2>2
<1>2. ASSUME NEW l \in Launch PROVE Where(l) = None <=> l \notin Reserved
  <2>1. l \in Reserved => slot[l] \in Slot
    BY DEF SlotsInv, OwnersAgree, Busy
  <2> QED BY <2>1, PoolAssumption DEF Where, None, Slot
<1>3. ASSUME NEW l \in Launch PROVE Life(l) = HowFar(l)
  BY <1>1, <1>2, DestroySteps DEF Life, HowFar
<1> QED BY <1>1, <1>3 DEF Mapped, places, lives

LEMMA MappingNext == SlotsInv' => Mapped'
BY Mapping, PTL

\* Nothing that the mapping looks at changes for k.
Still(k) == /\ slot'[k] = slot[k]
            /\ vm'[k] = vm[k]
            /\ k \in Reserved' <=> k \in Reserved
            /\ k \in Dying' <=> k \in Dying
            /\ k \in Killing' <=> k \in Killing
            /\ pc'[k] = "prelaunch" <=> pc[k] = "prelaunch"

\* A step of one launch, seen from the abstract state ...
LEMMA OneMoves ==
    ASSUME VMInv, SlotsInv', NEW l \in Launch, \A k \in Launch \ {l} : Still(k),
           VMInPlace(l)'
    PROVE  /\ VMInv'
           /\ places' = [places EXCEPT ![l] = Where(l)']
           /\ lives' = [lives EXCEPT ![l] = HowFar(l)']
           /\ places[l] = Where(l) /\ lives[l] = HowFar(l)
<1>1. Mapped /\ Mapped'
  BY Mapping, MappingNext DEF VMInv
<1>2. \A k \in Launch \ {l} : Where(k)' = Where(k) /\ HowFar(k)' = HowFar(k)
  BY DEF Still, Where, HowFar
<1>3. \A k \in Launch \ {l} : VMInPlace(k)'
  BY DEF Still, VMInPlace, VMInv
<1> QED BY <1>1, <1>2, <1>3 DEF Mapped, VMInv

\* ... and one of none.
LEMMA NoneMoves ==
    ASSUME VMInv, SlotsInv', \A k \in Launch : Still(k)
    PROVE  VMInv' /\ UNCHANGED <<places, lives>>
<1>1. Mapped /\ Mapped'
  BY Mapping, MappingNext DEF VMInv
<1>2. \A k \in Launch : Where(k)' = Where(k) /\ HowFar(k)' = HowFar(k)
  BY DEF Still, Where, HowFar
<1>3. \A k \in Launch : VMInPlace(k)'
  BY DEF Still, VMInPlace, VMInv
<1> QED BY <1>1, <1>2, <1>3 DEF Mapped, VMInv

\* Clearing the namespace of a slot kills no VM of a launch that has another
\* slot or none.
LEMMA KillsItsOwn ==
    ASSUME VMInv, NEW s, NEW l \in Launch \cup {None},
           \A k \in Reserved : slot[k] = s => k = l,
           NEW k \in Launch, k # l
    PROVE  (vm[k] /\ slot[k] # s) = vm[k]
<1>1. vm[k] \in BOOLEAN
  BY DEF VMInv, SlotsInv, Typed, TypeOK
<1>2. vm[k] => slot[k] # s
  BY DEF VMInv, VMInPlace
<1> QED BY <1>1, <1>2

LEMMA SlotOfOne ==
    ASSUME SlotsInv, NEW l \in Reserved
    PROVE  \A k \in Reserved : slot[k] = slot[l] => k = l
BY DEF SlotsInv, OneOwner, Busy

\* A slot that is not reserved is nobody's.
LEMMA VacantSlot ==
    ASSUME SlotsInv, NEW s \in Slot, state[s] # "reserved"
    PROVE  /\ \A k \in Reserved : slot[k] # s
           /\ \A k \in Launch : places[k] # s
<1>1. \A k \in Reserved : slot[k] # s
  BY DEF SlotsInv, OwnersAgree
<1>2. \A k \in Launch : Where(k) # s
  BY <1>1, PoolAssumption DEF Where, None, Slot
<1> QED BY <1>1, <1>2, Mapping DEF Mapped

\* A step in which only l moves, and no destroy begins or ends.
LEMMA MovesAlone ==
    ASSUME VMInv, NEW l \in Launch, NEW where, Goto(l, where), destroys' = destroys,
           \A k \in Launch \ {l} : slot'[k] = slot[k] /\ vm'[k] = vm[k]
    PROVE  /\ \A k \in Launch \ {l} : Still(k)
           /\ Dying' = Dying /\ Killing' = Killing
           /\ pc'[l] = where
           /\ l \in Reserved' <=> where \in Reserving \/ l \in Dying
<1>1. pc'[l] = where /\ \A k \in Launch \ {l} : pc'[k] = pc[k]
  BY DEF Goto, VMInv, SlotsInv, Typed, TypeOK
<1>2. Dying' = Dying /\ Killing' = Killing
  BY DEF Dying, Killing
<1>3. \A k \in Launch : k \in Reserved' <=> pc'[k] \in Reserving \/ k \in Dying
  BY <1>2 DEF Reserved
<1>4. \A k \in Launch : k \in Reserved <=> pc[k] \in Reserving \/ k \in Dying
  BY DEF Reserved
<1> QED BY <1>1, <1>2, <1>3, <1>4 DEF Still

\* A step that hands the VM of l to #destroyMachine.
LEMMA DestroyStarts ==
    ASSUME VMInv, NEW l \in Launch, NEW where, Goto(l, where), NEW why,
           Destroying(l, why), slot' = slot, vm' = vm, where # "prelaunch"
    PROVE  /\ \A k \in Launch \ {l} : Still(k)
           /\ l \in Killing' /\ l \in Reserved' /\ VMInPlace(l)'
<1>1. pc'[l] = where /\ \A k \in Launch \ {l} : pc'[k] = pc[k]
  BY DEF Goto, VMInv, SlotsInv, Typed, TypeOK
<1>2. PICK new : destroys' = destroys \cup {new} /\ new.owner = l /\ new.step = "killing"
  <2> DEFINE gone == [owner |-> l, attempt |-> attempt[l], slot |-> slot[l],
                      for |-> why, step |-> "killing"]
  <2>1. gone.owner = l /\ gone.step = "killing"
    OBVIOUS
  <2>2. destroys' = destroys \cup {gone}
    BY DEF Destroying
  <2> HIDE DEF gone
  <2> QED BY <2>1, <2>2
<1>3. Dying' = Dying \cup {l} /\ Killing' = Killing \cup {l}
  BY <1>2 DEF Dying, Killing
<1>4. \A k \in Launch : k \in Reserved' <=> pc'[k] \in Reserving \/ k \in Dying'
  BY DEF Reserved
<1>5. \A k \in Launch : k \in Reserved <=> pc[k] \in Reserving \/ k \in Dying
  BY DEF Reserved
<1> QED BY <1>1, <1>3, <1>4, <1>5 DEF Still, VMInPlace

\* Steps before a launch has a slot, and those that only move it on with one.
LEMMA QuietRefines ==
    ASSUME ~Monitor, VMInv, SlotsInv', NEW l \in Launch,
           \/ BeginLaunch(l) \/ AwaitRebuilds(l) \/ NoSlot(l)
           \/ Restored(l) \/ VerifyPasses(l) \/ (ClaimWarm(l) /\ vm[l])
    PROVE  VMInv' /\ UNCHANGED <<places, lives, repairing>>
<1>1. /\ UNCHANGED <<slot, vm, destroys>> /\ repairing' = repairing
      /\ vm \in [Launch -> BOOLEAN]
      /\ tracked[l] \/ pc[l] # "restoring"
  BY DEF BeginLaunch, AwaitRebuilds, NoSlot, Restored, VerifyPasses, ClaimWarm, slots,
     machines, repairing, VMInv, SlotsInv, Typed, TypeOK, Unmonitored, Reserving
<1>2. PICK where : /\ Goto(l, where) /\ where # "prelaunch"
                   /\ \/ pc[l] \in {"idle", "claiming"} /\ where \notin Reserving
                      \/ /\ pc[l] \in {"restoring", "verifying", "handing", "warm"}
                         /\ where \in Reserving
  <2>1. CASE BeginLaunch(l) \/ AwaitRebuilds(l) \/ NoSlot(l)
    BY <2>1 DEF BeginLaunch, AwaitRebuilds, NoSlot, Reserving
  <2>2. CASE Restored(l)
    BY <1>1, <2>2 DEF Restored, Reserving
  <2>3. CASE VerifyPasses(l)
    BY <2>3 DEF VerifyPasses, Reserving
  <2>4. CASE ClaimWarm(l) /\ vm[l]
    BY <2>4 DEF ClaimWarm, Reserving
  <2> QED BY <2>1, <2>2, <2>3, <2>4
<1>3. /\ \A k \in Launch \ {l} : Still(k)
      /\ Dying' = Dying /\ Killing' = Killing
      /\ pc'[l] = where
      /\ l \in Reserved' <=> where \in Reserving \/ l \in Dying
  BY <1>1, <1>2, MovesAlone
<1>4. Still(l)
  BY <1>1, <1>2, <1>3 DEF Still, Reserved, Reserving
<1> QED BY <1>1, <1>3, <1>4, NoneMoves

\* A slot that is free is taken, at once or when its check passes.
LEMMA ClaimRefines ==
    ASSUME VMInv, SlotsInv', NEW l \in Launch, TakeSlot(l) \/ CheckPasses(l)
    PROVE  VMInv' /\ [Isolated!Next]_(Isolated!vars)
<1>1. /\ pc \in [Launch -> InFlight \cup Ended] /\ pc[l] \in {"claiming", "checking"}
      /\ UNCHANGED <<vm, destroys>>
      /\ \A k \in Launch \ {l} : slot'[k] = slot[k]
      /\ state \in [Slot -> {"free", "reserved", "unhealthy", "rebuilding"}]
  BY DEF TakeSlot, CheckPasses, machines, VMInv, SlotsInv, Typed, TypeOK
<1>2. l \notin Reserved /\ l \notin Dying /\ l \notin Killing
  <2>1. l \notin Dying
    BY <1>1, DyingLaunches DEF VMInv
  <2> QED BY <1>1, <2>1 DEF Reserved, Reserving, Killing, Dying
<1>3. ~vm[l]
  BY <1>2 DEF VMInv, VMInPlace
<1>4. PICK s \in Slot : /\ slot'[l] = s
                        /\ state[s] = "free"
                        /\ \/ /\ Goto(l, "checking") /\ state' = state
                           \/ /\ Goto(l, "prelaunch")
                              /\ state' = [state EXCEPT ![s] = "reserved"]
  <2>1. CASE TakeSlot(l)
    <3>1. /\ FirstFree(free) = 1 /\ free \in Seq(Slot) /\ free # <<>>
          /\ \A t \in ToSet(free) : state[t] = "free"
          /\ slot \in [Launch -> Slot \cup {None}]
      BY <2>1, FirstEntry DEF TakeSlot, VMInv, SlotsInv, Typed, TypeOK, StatesAgree
    <3>2. free[1] \in Slot /\ free[1] \in ToSet(free)
      BY <3>1 DEF ToSet
    <3> QED BY <2>1, <3>1, <3>2 DEF TakeSlot, ReserveSlot
  <2>2. CASE CheckPasses(l)
    <3>1. l \in Checking /\ l \in Busy
      BY <2>2 DEF CheckPasses, Checking, Busy
    <3>2. slot[l] \in Slot /\ state[slot[l]] = "free" /\ ~replaced[l]
      BY <3>1 DEF VMInv, SlotsInv, OwnersAgree
    <3> QED BY <2>2, <3>2 DEF CheckPasses, ReserveSlot
  <2> QED BY <2>1, <2>2
<1>5. repairing' = repairing /\ s \notin repairing
  BY <1>1, <1>4 DEF repairing
<1>6. CASE Goto(l, "checking")
  <2>1. /\ \A k \in Launch \ {l} : Still(k)
        /\ Dying' = Dying /\ Killing' = Killing /\ l \notin Reserved'
    BY <1>1, <1>2, <1>6, MovesAlone DEF Reserving
  <2>2. /\ VMInPlace(l)' /\ Where(l)' = Where(l) /\ HowFar(l)' = HowFar(l)
    BY <1>1, <1>2, <1>3, <2>1 DEF VMInPlace, Where, HowFar
  <2>3. VMInv' /\ places' = places /\ lives' = lives
    BY <2>1, <2>2, OneMoves DEF places, lives
  <2> QED BY <1>5, <2>3 DEF Isolated!vars, places, lives, repairing
<1>7. CASE Goto(l, "prelaunch")
  <2>1. /\ \A k \in Launch \ {l} : Still(k)
        /\ Dying' = Dying /\ Killing' = Killing /\ l \in Reserved'
        /\ pc'[l] = "prelaunch"
    BY <1>1, <1>7, MovesAlone DEF Reserving
  <2>2. /\ VMInPlace(l)' /\ Where(l)' = s /\ HowFar(l)' = "placed"
        /\ HowFar(l) = "out"
    BY <1>1, <1>2, <1>3, <1>4, <2>1 DEF VMInPlace, Where, HowFar
  <2>3. /\ VMInv'
        /\ places' = [places EXCEPT ![l] = s]
        /\ lives' = [lives EXCEPT ![l] = "placed"] /\ lives[l] = "out"
    BY <2>1, <2>2, OneMoves
  <2>4. \A k \in Launch : places[k] # s
    BY <1>4, VacantSlot DEF VMInv
  <2>5. Isolated!Claim(l, s)
    BY <1>5, <2>3, <2>4 DEF Isolated!Claim, Isolated!Take, Isolated!Vacant,
       Isolated!Becomes, places, lives, repairing
  <2> QED BY <2>3, <2>5 DEF Isolated!Next
<1> QED BY <1>4, <1>6, <1>7

\* A slot whose check fails goes out of service; it is nobody's.
LEMMA BreakRefines ==
    ASSUME VMInv, SlotsInv', NEW l \in Launch, CheckFails(l)
    PROVE  VMInv' /\ [Isolated!Next]_(Isolated!vars)
<1>1. /\ UNCHANGED <<slot, vm, destroys>> /\ Goto(l, "joining") /\ pc[l] = "checking"
      /\ state \in [Slot -> {"free", "reserved", "unhealthy", "rebuilding"}]
  BY DEF CheckFails, machines, VMInv, SlotsInv, Typed, TypeOK
<1>2. l \in Checking /\ l \in Busy
  BY <1>1 DEF Checking, Busy
<1>3. PICK s \in Slot : s = slot[l] /\ state[s] = "free" /\ s \notin rebuilds
  BY <1>2 DEF VMInv, SlotsInv, OwnersAgree, StatesAgree
<1>4. state' = [state EXCEPT ![s] = "rebuilding"]
  BY <1>3 DEF CheckFails
<1>5. l \notin Dying
  BY <1>1, DyingLaunches DEF VMInv
<1>6. /\ \A k \in Launch \ {l} : Still(k)
      /\ Dying' = Dying /\ Killing' = Killing /\ l \notin Reserved'
      /\ pc'[l] = "joining"
  BY <1>1, <1>5, MovesAlone DEF Reserving
<1>7. Still(l)
  BY <1>1, <1>5, <1>6 DEF Still, Reserved, Reserving
<1>8. VMInv' /\ UNCHANGED <<places, lives>>
  BY <1>6, <1>7, NoneMoves
<1>9. \A k \in Launch : places[k] # s
  BY <1>3, VacantSlot DEF VMInv
<1>10. repairing' = repairing \cup {s}
  BY <1>1, <1>3, <1>4 DEF repairing
<1>11. Isolated!Break(s)
  BY <1>8, <1>9, <1>10 DEF Isolated!Break, Isolated!Vacant, places, lives, repairing
<1> QED BY <1>3, <1>8, <1>11 DEF Isolated!Next

\* Firecracker starts in a namespace that nobody else has a VM in ...
LEMMA BootRefines ==
    ASSUME VMInv, SlotsInv', NEW l \in Launch, Spawn(l)
    PROVE  VMInv' /\ [Isolated!Next]_(Isolated!vars)
<1>1. /\ pc[l] = "prelaunch" /\ Goto(l, "restoring")
      /\ UNCHANGED <<slot, destroys>> /\ repairing' = repairing
      /\ vm' = [k \in Launch |-> IF k = l THEN TRUE ELSE vm[k] /\ slot[k] # slot[l]]
  BY DEF Spawn, slots, repairing
<1>2. l \in Reserved /\ l \notin Dying /\ l \notin Killing
  <2>1. l \notin Dying
    BY <1>1, DyingLaunches DEF VMInv
  <2> QED BY <1>1, <2>1 DEF Reserved, Reserving, Killing, Dying
<1>3. \A k \in Launch \ {l} : vm'[k] = vm[k]
  <2>1. \A k \in Reserved : slot[k] = slot[l] => k = l
    BY <1>2, SlotOfOne DEF VMInv
  <2>2. \A k \in Launch \ {l} : (vm[k] /\ slot[k] # slot[l]) = vm[k]
    BY <2>1, KillsItsOwn
  <2>3. \A k \in Launch \ {l} : vm'[k] = (vm[k] /\ slot[k] # slot[l])
    BY <1>1
  <2> QED BY <2>2, <2>3
<1>4. /\ \A k \in Launch \ {l} : Still(k)
      /\ Dying' = Dying /\ Killing' = Killing /\ l \in Reserved'
      /\ pc'[l] = "restoring"
  BY <1>1, <1>3, MovesAlone DEF Reserving
<1>5. ~vm[l] /\ vm'[l]
  BY <1>1 DEF VMInv, VMInPlace
<1>6. /\ VMInPlace(l)' /\ Where(l)' = Where(l)
      /\ HowFar(l) = "placed" /\ HowFar(l)' = "alive"
  BY <1>1, <1>2, <1>4, <1>5 DEF VMInPlace, Where, HowFar
<1>7. /\ VMInv' /\ places' = places
      /\ lives' = [lives EXCEPT ![l] = "alive"] /\ lives[l] = "placed"
  BY <1>4, <1>6, OneMoves DEF places
<1>8. Isolated!Boot(l)
  BY <1>1, <1>7 DEF Isolated!Boot, Isolated!Becomes, places, lives, repairing
<1> QED BY <1>7, <1>8 DEF Isolated!Next

\* ... and a VM that exits does so by itself.
LEMMA ExitRefines ==
    ASSUME VMInv, SlotsInv', NEW l \in Launch, Exit(l)
    PROVE  VMInv' /\ [Isolated!Next]_(Isolated!vars)
<1>1. /\ pc[l] \in {"warm", "up"} /\ UNCHANGED <<pc, slot, destroys>> /\ vm[l]
      /\ repairing' = repairing
      /\ vm' = [vm EXCEPT ![l] = FALSE] /\ vm \in [Launch -> BOOLEAN]
  BY DEF Exit, slots, launches, repairing, VMInv, SlotsInv, Typed, TypeOK
<1>2. l \in Reserved /\ l \notin Dying /\ l \notin Killing
  <2>1. l \notin Dying
    BY <1>1, DyingLaunches DEF VMInv
  <2> QED BY <1>1, <2>1 DEF Reserved, Reserving, Killing, Dying
<1>3. Dying' = Dying /\ Killing' = Killing /\ Reserved' = Reserved
  BY <1>1 DEF Dying, Killing, Reserved
<1>4. \A k \in Launch \ {l} : Still(k)
  BY <1>1, <1>3 DEF Still
<1>5. /\ VMInPlace(l)' /\ Where(l)' = Where(l)
      /\ HowFar(l) = "alive" /\ HowFar(l)' = "exited"
  BY <1>1, <1>2, <1>3 DEF VMInPlace, Where, HowFar
<1>6. /\ VMInv' /\ places' = places
      /\ lives' = [lives EXCEPT ![l] = "exited"] /\ lives[l] = "alive"
  BY <1>4, <1>5, OneMoves DEF places
<1>7. Isolated!Exits(l)
  BY <1>1, <1>6 DEF Isolated!Exits, Isolated!Becomes, places, lives, repairing
<1> QED BY <1>6, <1>7 DEF Isolated!Next

\* A launch hands its VM, alive or not, to #destroyMachine ...
LEMMA ClearRefines ==
    ASSUME ~Monitor, VMInv, SlotsInv', NEW l \in Launch,
           \/ RestoreFails(l) \/ VerifyFails(l) \/ (ClaimWarm(l) /\ ~vm[l]) \/ Terminate(l)
    PROVE  VMInv' /\ [Isolated!Next]_(Isolated!vars)
<1>1. /\ pc[l] \in {"restoring", "verifying", "handing", "warm", "up"}
      /\ slot' = slot /\ vm' = vm /\ repairing' = repairing
  BY DEF RestoreFails, VerifyFails, ClaimWarm, Terminate, slots, repairing
<1>2. \E where, why : Goto(l, where) /\ where # "prelaunch" /\ Destroying(l, why)
  <2>1. CASE RestoreFails(l)
    BY <2>1 DEF RestoreFails
  <2>2. CASE VerifyFails(l)
    BY <2>2 DEF VerifyFails
  <2>3. CASE ClaimWarm(l) /\ ~vm[l]
    BY <2>3 DEF ClaimWarm
  <2>4. CASE Terminate(l)
    BY <2>4 DEF Terminate
  <2> QED BY <2>1, <2>2, <2>3, <2>4
<1>3. /\ \A k \in Launch \ {l} : Still(k)
      /\ l \in Killing' /\ l \in Reserved' /\ VMInPlace(l)'
  BY <1>1, <1>2, DestroyStarts
<1>4. l \in Reserved /\ l \notin Dying /\ l \notin Killing
  <2>1. l \notin Dying
    BY <1>1, DyingLaunches DEF VMInv
  <2> QED BY <1>1, <2>1 DEF Reserved, Reserving, Killing, Dying
<1>5. /\ Where(l)' = Where(l)
      /\ HowFar(l) \in {"alive", "exited"} /\ HowFar(l)' = "clearing"
  BY <1>1, <1>3, <1>4 DEF Where, HowFar
<1>6. /\ VMInv' /\ places' = places
      /\ lives' = [lives EXCEPT ![l] = "clearing"] /\ lives[l] \in {"alive", "exited"}
  BY <1>3, <1>5, OneMoves DEF places
<1>7. Isolated!Clear(l)
  BY <1>1, <1>6 DEF Isolated!Clear, Isolated!Becomes, places, lives, repairing
<1> QED BY <1>6, <1>7 DEF Isolated!Next

\* ... which kills in the namespace of that launch only, ...
LEMMA ClearedRefines ==
    ASSUME VMInv, SlotsInv', NEW d \in destroys, Kill(d)
    PROVE  VMInv' /\ [Isolated!Next]_(Isolated!vars)
<1>1. PICK l \in Launch : /\ l = d.owner /\ l \in Dying /\ d.slot = slot[l]
                          /\ d \in Destroy
  BY DyingLaunches DEF VMInv, SlotsInv, Typed, TypeOK, DestroyedOnce, Dying
<1>2. /\ UNCHANGED <<pc, slot>> /\ repairing' = repairing
      /\ vm' = [k \in Launch |-> vm[k] /\ slot[k] # slot[l] /\ k \notin {l}]
      /\ destroys' = (destroys \ {d}) \cup {[d EXCEPT !.step = "finishing"]}
      /\ d.step = "killing"
  BY <1>1 DEF Kill, KillIn, slots, launches, repairing
<1>3. PICK e : /\ destroys' = (destroys \ {d}) \cup {e}
               /\ e.owner = l /\ e.step = "finishing"
  <2> DEFINE killed == [d EXCEPT !.step = "finishing"]
  <2>1. killed.owner = l /\ killed.step = "finishing"
    BY <1>1 DEF Destroy
  <2>2. destroys' = (destroys \ {d}) \cup {killed}
    BY <1>2
  <2> HIDE DEF killed
  <2> QED BY <2>1, <2>2
<1>4. \A f \in destroys : f.owner = l => f = d
  BY <1>1 DEF VMInv, SlotsInv, DestroyedOnce
<1>5. Dying' = Dying /\ Killing' = Killing \ {l} /\ l \in Killing
  BY <1>1, <1>2, <1>3, <1>4 DEF Dying, Killing
<1>6. Reserved' = Reserved /\ l \in Reserved
  BY <1>1, <1>2, <1>5 DEF Reserved
<1>7. \A k \in Launch \ {l} : vm'[k] = vm[k]
  <2>1. \A k \in Reserved : slot[k] = slot[l] => k = l
    BY <1>6, SlotOfOne DEF VMInv
  <2>2. \A k \in Launch \ {l} : (vm[k] /\ slot[k] # slot[l]) = vm[k]
    BY <2>1, KillsItsOwn
  <2>3. \A k \in Launch \ {l} : vm'[k] = (vm[k] /\ slot[k] # slot[l])
    BY <1>2
  <2> QED BY <2>2, <2>3
<1>8. \A k \in Launch \ {l} : Still(k)
  BY <1>2, <1>5, <1>6, <1>7 DEF Still
<1>9. ~vm'[l]
  BY <1>2
<1>10. /\ VMInPlace(l)' /\ Where(l)' = Where(l)
       /\ HowFar(l) = "clearing" /\ HowFar(l)' = "cleared"
  BY <1>1, <1>2, <1>5, <1>6, <1>9 DEF VMInPlace, Where, HowFar
<1>11. /\ VMInv' /\ places' = places
       /\ lives' = [lives EXCEPT ![l] = "cleared"] /\ lives[l] = "clearing"
  BY <1>8, <1>10, OneMoves DEF places
<1>12. Isolated!Cleared(l)
  BY <1>2, <1>11 DEF Isolated!Cleared, Isolated!Becomes, places, lives, repairing
<1> QED BY <1>11, <1>12 DEF Isolated!Next

\* What giving a slot back, or sending it to be rebuilt, does to the others.
LEMMA LeftSlot ==
    ASSUME SlotsInv, NEW l \in Reserved,
           ReleaseSlot(slot[l]) \/ MarkUnhealthy(slot[l])
    PROVE  repairing' \in {repairing, repairing \cup {slot[l]}}
<1>1. /\ slot[l] \in Slot /\ state[slot[l]] = "reserved"
      /\ state \in [Slot -> {"free", "reserved", "unhealthy", "rebuilding"}]
  BY DEF SlotsInv, OwnersAgree, Busy, Typed, TypeOK
<1>2. CASE ReleaseSlot(slot[l])
  <2>1. state' = [state EXCEPT ![slot[l]] = "free"]
    BY <1>1, <1>2 DEF ReleaseSlot, CanRelease
  <2> QED BY <1>1, <2>1 DEF repairing
<1>3. CASE MarkUnhealthy(slot[l])
  BY <1>1, <1>3 DEF MarkUnhealthy, repairing
<1> QED BY <1>2, <1>3

\* ... and at its end gives the slot back: the VM is gone by then.
LEMMA LeaveRefines ==
    ASSUME VMInv, SlotsInv', NEW d \in destroys, Finish(d)
    PROVE  VMInv' /\ [Isolated!Next]_(Isolated!vars)
<1>1. PICK l \in Launch : /\ l = d.owner /\ l \in Dying /\ d.slot = slot[l]
                          /\ d \in Destroy
                          /\ pc[l] \in {"catching", "failed", "closed"}
                          /\ d.for = "retry" <=> pc[l] = "catching"
  BY DyingLaunches DEF VMInv, SlotsInv, Typed, TypeOK, DestroyedOnce, Dying
<1>2. /\ UNCHANGED <<slot, vm>> /\ destroys' = destroys \ {d}
      /\ d.step = "finishing"
      /\ ReleaseSlot(slot[l]) \/ MarkUnhealthy(slot[l])
      /\ pc \in [Launch -> InFlight \cup Ended]
  BY <1>1 DEF Finish, Destroy, machines, VMInv, SlotsInv, Typed, TypeOK
<1>3. /\ pc'[l] \in {"claiming", "failed", "closed"}
      /\ \A k \in Launch \ {l} : pc'[k] = pc[k]
  BY <1>1, <1>2 DEF Finish, Resume, Goto
<1>4. \A f \in destroys : f.owner = l => f = d
  BY <1>1 DEF VMInv, SlotsInv, DestroyedOnce
<1>5. /\ Dying' = Dying \ {l}
      /\ Killing' = Killing /\ l \notin Killing
  BY <1>1, <1>2, <1>4 DEF Dying, Killing
<1>6. l \in Reserved /\ Reserved' = Reserved \ {l}
  BY <1>1, <1>3, <1>5 DEF Reserved, Reserving
<1>7. \A k \in Launch \ {l} : Still(k)
  BY <1>2, <1>3, <1>5, <1>6 DEF Still
<1>8. ~vm[l] /\ ~vm'[l]
  BY <1>1, <1>2, <1>5 DEF VMInv, VMInPlace
<1>9. /\ VMInPlace(l)' /\ Where(l) = slot[l] /\ Where(l)' = None
      /\ HowFar(l) = "cleared" /\ HowFar(l)' = "out"
  BY <1>1, <1>2, <1>5, <1>6, <1>8 DEF VMInPlace, Where, HowFar
<1>10. /\ VMInv'
       /\ places' = [places EXCEPT ![l] = None] /\ places[l] = slot[l]
       /\ lives' = [lives EXCEPT ![l] = "out"] /\ lives[l] = "cleared"
  BY <1>7, <1>9, OneMoves
<1>11. repairing' \in {repairing, repairing \cup {places[l]}}
  BY <1>2, <1>6, <1>10, LeftSlot DEF VMInv
<1>12. Isolated!Leave(l)
  BY <1>10, <1>11 DEF Isolated!Leave, Isolated!Becomes, places, lives, repairing
<1> QED BY <1>10, <1>12 DEF Isolated!Next

\* So does the catch of #spawnMachine, which clears the namespace itself.
LEMMA SpawnFailsRefines ==
    ASSUME VMInv, SlotsInv', NEW l \in Launch, SpawnFails(l)
    PROVE  VMInv' /\ [Isolated!Next]_(Isolated!vars)
<1>1. /\ pc[l] = "prelaunch" /\ Goto(l, "failed") /\ MarkUnhealthy(slot[l])
      /\ UNCHANGED <<slot, destroys>>
      /\ vm' = [k \in Launch |-> vm[k] /\ slot[k] # slot[l] /\ k \notin {l}]
  BY DEF SpawnFails, KillIn
<1>2. l \in Reserved /\ l \notin Dying /\ l \notin Killing
  <2>1. l \notin Dying
    BY <1>1, DyingLaunches DEF VMInv
  <2> QED BY <1>1, <2>1 DEF Reserved, Reserving, Killing, Dying
<1>3. \A k \in Launch \ {l} : vm'[k] = vm[k]
  <2>1. \A k \in Reserved : slot[k] = slot[l] => k = l
    BY <1>2, SlotOfOne DEF VMInv
  <2>2. \A k \in Launch \ {l} : (vm[k] /\ slot[k] # slot[l]) = vm[k]
    BY <2>1, KillsItsOwn
  <2>3. \A k \in Launch \ {l} : vm'[k] = (vm[k] /\ slot[k] # slot[l])
    BY <1>1
  <2> QED BY <2>2, <2>3
<1>4. /\ \A k \in Launch \ {l} : Still(k)
      /\ Dying' = Dying /\ Killing' = Killing /\ l \notin Reserved'
  BY <1>1, <1>2, <1>3, MovesAlone DEF Reserving
<1>5. ~vm[l] /\ ~vm'[l]
  BY <1>1 DEF VMInv, VMInPlace
<1>6. /\ VMInPlace(l)' /\ Where(l) = slot[l] /\ Where(l)' = None
      /\ HowFar(l) = "placed" /\ HowFar(l)' = "out"
  BY <1>1, <1>2, <1>4, <1>5 DEF VMInPlace, Where, HowFar
<1>7. /\ VMInv'
      /\ places' = [places EXCEPT ![l] = None] /\ places[l] = slot[l]
      /\ lives' = [lives EXCEPT ![l] = "out"] /\ lives[l] = "placed"
  BY <1>4, <1>6, OneMoves
<1>8. repairing' \in {repairing, repairing \cup {places[l]}}
  BY <1>1, <1>2, <1>7, LeftSlot DEF VMInv
<1>9. Isolated!Leave(l)
  BY <1>7, <1>8 DEF Isolated!Leave, Isolated!Becomes, places, lives, repairing
<1> QED BY <1>7, <1>9 DEF Isolated!Next

\* A rebuild clears a namespace that no launch has the use of, and the slot
\* comes back into service, to be taken at once if a launch has joined it.
LEMMA RebuildKills ==
    ASSUME VMInv, NEW s \in Slot, s \in rebuilds, KillIn(s, {})
    PROVE  \A k \in Launch : vm'[k] = vm[k]
<1>1. state[s] # "reserved"
  BY DEF VMInv, SlotsInv, StatesAgree
<1>2. \A k \in Launch : (vm[k] /\ slot[k] # s) = vm[k]
  <2>1. \A k \in Reserved : slot[k] # s
    BY <1>1, VacantSlot DEF VMInv
  <2>2. \A k \in Launch : vm[k] => slot[k] # s
    BY <2>1 DEF VMInv, VMInPlace
  <2> QED BY <2>2 DEF VMInv, SlotsInv, Typed, TypeOK
<1> QED BY <1>2 DEF KillIn

LEMMA MendRefines ==
    ASSUME VMInv, SlotsInv', NEW s \in Slot, RebuildSucceeds(s)
    PROVE  VMInv' /\ [Isolated!Next]_(Isolated!vars)
<1>1. /\ s \in rebuilds /\ SettleRebuild(s, "prelaunch") /\ KillIn(s, {})
      /\ UNCHANGED <<slot, tracked, probing, destroys>>
      /\ state' = [state EXCEPT ![s] = IF Joined(s) = {} THEN "free" ELSE "reserved"]
      /\ state \in [Slot -> {"free", "reserved", "unhealthy", "rebuilding"}]
      /\ state[s] = "rebuilding"
  BY DEF RebuildSucceeds, SettleRebuild, VMInv, SlotsInv, Typed, TypeOK, StatesAgree
<1>0. SlotsInv /\ Typed'
  BY DEF VMInv, SlotsInv
<1>2. /\ Joined(s) \subseteq Joining /\ Reserved' = Reserved \cup Joined(s)
      /\ \A l \in Busy : slot[l] = s <=> l \in Joined(s)
  BY <1>0, <1>1, Settling
<1>3. Dying' = Dying /\ Killing' = Killing
  BY <1>1 DEF Dying, Killing
<1>4. \A k \in Launch : vm'[k] = vm[k]
  BY <1>1, RebuildKills
<1>5. \A k \in Launch :
        IF k \in Joined(s) THEN pc'[k] = "prelaunch" /\ pc[k] = "joining"
        ELSE pc'[k] = pc[k] \/ (pc[k] = "waiting" /\ pc'[k] = "claiming")
  BY <1>1 DEF SettleRebuild, Joined, Awaiting
<1>6. \A k \in Launch \ Joined(s) : Still(k)
  BY <1>1, <1>2, <1>3, <1>4, <1>5 DEF Still
<1>7. repairing' = repairing \ {s} /\ s \in repairing
  BY <1>1 DEF repairing
<1>8. CASE Joined(s) = {}
  <2>1. VMInv' /\ UNCHANGED <<places, lives>>
    BY <1>6, <1>8, NoneMoves
  <2>2. Isolated!Mend(s)
    BY <1>7, <2>1 DEF Isolated!Mend, places, lives, repairing
  <2> QED BY <2>1, <2>2 DEF Isolated!Next
<1>9. CASE Joined(s) # {}
  <2>1. PICK l \in Launch : l \in Joined(s)
    BY <1>9 DEF Joined
  <2>2. l \in Busy /\ slot[l] = s /\ Joined(s) \subseteq Busy
    BY <1>2, <2>1 DEF Busy
  <2>3. Joined(s) = {l}
    BY <1>2, <2>1, <2>2 DEF VMInv, SlotsInv, OneOwner
  <2>4. pc[l] = "joining" /\ pc'[l] = "prelaunch"
    BY <1>5, <2>1
  <2>5. l \notin Dying /\ l \notin Killing /\ l \notin Reserved
    <3>1. l \notin Dying
      BY <2>4, DyingLaunches DEF VMInv
    <3> QED BY <2>4, <3>1 DEF Reserved, Reserving, Killing, Dying
  <2>6. ~vm[l] /\ ~vm'[l]
    BY <1>4, <2>5 DEF VMInv, VMInPlace
  <2>7. l \in Reserved' /\ slot'[l] = s
    BY <1>1, <1>2, <2>1, <2>2
  <2>8. /\ VMInPlace(l)' /\ Where(l)' = s
        /\ HowFar(l) = "out" /\ HowFar(l)' = "placed"
    BY <1>3, <2>4, <2>5, <2>6, <2>7 DEF VMInPlace, Where, HowFar
  <2>9. /\ VMInv'
        /\ places' = [places EXCEPT ![l] = s]
        /\ lives' = [lives EXCEPT ![l] = "placed"] /\ lives[l] = "out"
    BY <1>6, <2>3, <2>8, OneMoves
  <2>10. \A k \in Launch : places[k] # s
    BY <1>1, VacantSlot DEF VMInv
  <2>11. Isolated!Take(l, s)
    BY <2>9, <2>10 DEF Isolated!Take, Isolated!Vacant, Isolated!Becomes, places, lives
  <2>12. Isolated!Mend(s)
    BY <1>7, <2>11 DEF Isolated!Mend, repairing
  <2> QED BY <2>9, <2>12 DEF Isolated!Next
<1> QED BY <1>8, <1>9

\* A rebuild that throws leaves the slot out of service.
LEMMA RebuildFailsRefines ==
    ASSUME VMInv, SlotsInv', NEW s \in Slot, RebuildFails(s)
    PROVE  VMInv' /\ UNCHANGED <<places, lives, repairing>>
<1>1. /\ s \in rebuilds /\ SettleRebuild(s, "failed") /\ KillIn(s, {})
      /\ UNCHANGED <<state, slot, tracked, probing, destroys>>
  BY DEF RebuildFails, SettleRebuild
<1>0. SlotsInv /\ Typed'
  BY DEF VMInv, SlotsInv
<1>2. Reserved' = Reserved
  BY <1>0, <1>1, Settling
<1>3. Dying' = Dying /\ Killing' = Killing
  BY <1>1 DEF Dying, Killing
<1>4. \A k \in Launch : vm'[k] = vm[k]
  BY <1>1, RebuildKills
<1>5. \A k \in Launch : pc'[k] = "prelaunch" <=> pc[k] = "prelaunch"
  BY <1>1 DEF SettleRebuild, Joined, Awaiting
<1>6. \A k \in Launch : Still(k)
  BY <1>1, <1>2, <1>3, <1>4, <1>5 DEF Still
<1>7. repairing' = repairing
  BY <1>1 DEF repairing
<1> QED BY <1>6, <1>7, NoneMoves

LEMMA IsolatedInit == Init => VMInv /\ Isolated!Init
<1> SUFFICES ASSUME Init PROVE VMInv /\ Isolated!Init
  OBVIOUS
<1>1. SlotsInv
  BY SlotsInvInitially
<1>2. VMInv
  BY <1>1 DEF Init, VMInv, VMInPlace
<1>3. Reserved = {} /\ Dying = {} /\ Killing = {} /\ \A l \in Launch : ~vm[l]
  BY DEF Init, Reserved, Reserving, Dying, Killing
<1>4. /\ places = [l \in Launch |-> None]
      /\ lives = [l \in Launch |-> "out"]
  BY <1>1, <1>3, Mapping DEF Mapped, Where, HowFar
<1>5. repairing = {}
  BY DEF Init, repairing
<1> QED BY <1>2, <1>4, <1>5 DEF Isolated!Init, places, lives, repairing

LEMMA IsolatedStep ==
    ASSUME ~Monitor, VMInv, [Next]_vars
    PROVE  VMInv' /\ [Isolated!Next]_(Isolated!vars)
<1>1. SlotsInv'
  BY SlotsInvAfterStep DEF VMInv
<1>2. ASSUME VMInv', UNCHANGED <<places, lives, repairing>>
      PROVE  VMInv' /\ [Isolated!Next]_(Isolated!vars)
  BY <1>2 DEF Isolated!vars, places, lives, repairing
<1>3. ASSUME NEW l \in Launch, BeginLaunch(l) \/ LaunchStep(l)
      PROVE  VMInv' /\ [Isolated!Next]_(Isolated!vars)
  <2>1. CASE \/ BeginLaunch(l) \/ AwaitRebuilds(l) \/ NoSlot(l) \/ Restored(l)
             \/ VerifyPasses(l)
    BY <1>1, <1>2, <2>1, QuietRefines
  <2>2. CASE TakeSlot(l) \/ CheckPasses(l)
    BY <1>1, <2>2, ClaimRefines
  <2>3. CASE CheckFails(l)
    BY <1>1, <2>3, BreakRefines
  <2>4. CASE Spawn(l)
    BY <1>1, <2>4, BootRefines
  <2>5. CASE SpawnFails(l)
    BY <1>1, <2>5, SpawnFailsRefines
  <2>6. CASE RestoreFails(l) \/ VerifyFails(l)
    BY <1>1, <2>6, ClearRefines
  <2> QED BY <1>3, <2>1, <2>2, <2>3, <2>4, <2>5, <2>6 DEF LaunchStep
<1>4. ASSUME NEW l \in Launch, ClaimWarm(l) \/ Terminate(l) \/ Exit(l)
      PROVE  VMInv' /\ [Isolated!Next]_(Isolated!vars)
  <2>1. CASE ClaimWarm(l) /\ vm[l]
    BY <1>1, <1>2, <2>1, QuietRefines
  <2>2. CASE (ClaimWarm(l) /\ ~vm[l]) \/ Terminate(l)
    BY <1>1, <2>2, ClearRefines
  <2>3. CASE Exit(l)
    BY <1>1, <2>3, ExitRefines
  <2> QED BY <1>4, <2>1, <2>2, <2>3
<1>5. ASSUME NEW l \in Launch PROVE ~Probe(l) /\ ~ProbeAnswered(l) /\ ~ProbeFails(l)
  BY DEF Probe, ProbeAnswered, ProbeFails, VMInv, SlotsInv, Unmonitored
<1>6. ASSUME NEW l \in Launch, DestroyStep(l)
      PROVE  VMInv' /\ [Isolated!Next]_(Isolated!vars)
  BY <1>1, <1>6, ClearedRefines, LeaveRefines DEF DestroyStep
<1>7. ASSUME NEW s \in Slot, RebuildStep(s)
      PROVE  VMInv' /\ [Isolated!Next]_(Isolated!vars)
  BY <1>1, <1>2, <1>7, MendRefines, RebuildFailsRefines DEF RebuildStep
<1>8. CASE Next
  BY <1>3, <1>4, <1>5, <1>6, <1>7, <1>8 DEF Next
<1>9. CASE UNCHANGED vars
  <2>1. UNCHANGED <<state, slot, vm, pc, destroys>>
    BY <1>9 DEF vars, slots, launches, machines
  <2>2. Dying' = Dying /\ Killing' = Killing /\ Reserved' = Reserved
    BY <2>1 DEF Dying, Killing, Reserved
  <2>3. \A k \in Launch : Still(k)
    BY <2>1, <2>2 DEF Still
  <2>4. repairing' = repairing
    BY <2>1 DEF repairing
  <2> QED BY <1>1, <1>2, <2>3, <2>4, NoneMoves
<1> QED BY <1>8, <1>9

\* As long as no monitor runs, every launch has its slot to itself and every
\* VM is its launch's own: for any number of slots, launches and retries, no
\* clean-up, rebuild or retry touches the VM of another, and a slot is given
\* back when its VM is gone.
THEOREM LaunchesAreIsolated == ~Monitor => (Spec => ImplementsIsolatedVMs)
<1> SUFFICES ASSUME ~Monitor PROVE Spec => ImplementsIsolatedVMs
  OBVIOUS
<1>1. VMInv /\ [Next]_vars
        => VMInv' /\ [UNCHANGED vars \/ Isolated!Next]_(Isolated!vars)
  BY IsolatedStep
<1> QED BY <1>1, IsolatedInit, PTL DEF Spec, ImplementsIsolatedVMs
=============================================================================
