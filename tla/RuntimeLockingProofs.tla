------------------------ MODULE RuntimeLockingProofs ------------------------
(***************************************************************************)
(* No thread uses a dead iterator, a query answers what its one-step form  *)
(* would answer, and a critical section that changes the arena performs    *)
(* one call of InterspecRuntime: for every number of threads and calls.    *)
(***************************************************************************)
EXTENDS RuntimeLocking, InterspecRuntimeProofs

-----------------------------------------------------------------------------
(* The invariant. *)

Inside(t) == call[t].at \notin {"idle", "enter"}

(* Who is inside a method holds mu_, in the mode of the method.            *)
MutexInv ==
  /\ \A t \in Threads : t \in readers <=> Inside(t) /\ ~ Exclusive(call[t].op)
  /\ \A t \in Threads : t \in writers <=> Inside(t) /\ Exclusive(call[t].op)
  /\ \A t, u \in Threads : t \in writers => u \notin readers
  /\ \A t, u \in Threads : t \in writers /\ u \in writers => t = u

(* A query never comes to a point where the map changes.                   *)
PointsInv ==
  \A t \in Threads :
    /\ call[t].at = "read" => ~ Exclusive(call[t].op)
    /\ call[t].at \in {"emplace", "bump", "erase"} => Exclusive(call[t].op)
    /\ call[t].at = "emplace" /\ call[t].op = "reallocate" => call[t].found # {}

(* The keys of a map. *)
KeysInv == \A a, b \in allocations : a.base = b.base => a = b

(* The bytes that allocate_with_hash_unlocked has found free.              *)
BumpInv ==
  \A t \in Threads :
    call[t].at = "bump" =>
      /\ used + AlignedSize(call[t].size) \in Words
      /\ used + AlignedSize(call[t].size) <= ArenaSize
      /\ ArenaBase + (used + AlignedSize(call[t].size)) <= MaxWord
      /\ (used + AlignedSize(call[t].size)) % kAlignment = 0

(* What a search found is still what it would find. *)
FoundInv ==
  \A t \in Threads :
    /\ call[t].at = "enter" => call[t].found = {}
    /\ call[t].at = "read" => call[t].found = Search(call[t])
    /\ call[t].at \in {"emplace", "bump", "erase"} => call[t].found \subseteq allocations

LockInv ==
  /\ LockTypeOK /\ UsedWithinCapacity
  /\ MutexInv /\ PointsInv /\ KeysInv /\ BumpInv /\ FoundInv
  /\ AnswersAreAtomic

-----------------------------------------------------------------------------
(* Sums of multiples of 8 are multiples of 8: the bump offset stays        *)
(* aligned.                                                                *)
LEMMA SumOfMultiples ==
  ASSUME NEW m \in Nat, NEW n \in Nat, m % 8 = 0, n % 8 = 0
  PROVE  (m + n) % 8 = 0
BY SMT

(* One search, one answer. *)

(* A search finds at most one object, for bases are keys. *)
LEMMA AtMostOneFound ==
  ASSUME TypeOK, KeysInv, NEW ptr \in Words,
         NEW a \in FindAllocation(ptr), NEW b \in FindAllocation(ptr)
  PROVE  a = b
<1>1. /\ a \in allocations /\ b \in allocations
      /\ a.base <= ptr /\ b.base <= ptr
      /\ a.base <= b.base /\ b.base <= a.base
  BY DEF FindAllocation, IsAllocationAtOrBefore
<1>2. a.base \in Nat /\ b.base \in Nat
  BY <1>1, WordAssumption DEF TypeOK, Allocation, Words
<1> QED BY <1>1, <1>2 DEF KeysInv

(* What check answers about the object that its search found. *)
LEMMA FoundAnswersCheck ==
  ASSUME TypeOK, KeysInv, NEW ptr \in Words, NEW size, NEW h,
         NEW a \in FindAllocation(ptr)
  PROVE  Check(ptr, size, h) =
           IF a.type_hash # h THEN "wrong_type"
           ELSE IF size <= a.size - (ptr - a.base) THEN "ok"
           ELSE "out_of_bounds"
<1>1. \A b \in FindAllocation(ptr) : b = a
  BY AtMostOneFound
<1> QED BY <1>1 DEF Check

(* No thread is inside a method. *)
LEMMA LockInvInit == LockInit => LockInv
<1> SUFFICES ASSUME LockInit PROVE LockInv
  OBVIOUS
<1>1. TypeOK /\ UsedWithinCapacity
  <2>1. /\ types \in [TypeIds -> TypeHashes \cup {NoHash}]
        /\ site_types \in [SiteIds -> TypeHashes \cup {NoHash}]
    BY LockingAssumption DEF LockInit, AfterStartUp
  <2>2. type_ids \in [TypeHashes -> TypeIds \cup {0}]
    BY DEF LockInit, AfterStartUp
  <2>3. /\ sites \subseteq AllocationSite
        /\ sites_by_id \in [SiteIds -> Words]
        /\ allocations \subseteq Allocation
        /\ used \in Words
        /\ UsedWithinCapacity
    BY WordAssumption
    DEF LockInit, AfterStartUp, Words, UsedWithinCapacity, kAlignment
  <2> QED BY <2>1, <2>2, <2>3 DEF TypeOK
<1>2. NoCall \in Call
  BY WordAssumption, NameAssumption DEF NoCall, Call, Ops, Queries, Verdicts, Words
<1>3. LockTypeOK
  BY <1>1, <1>2, LockingAssumption DEF LockInit, LockTypeOK, CallsBounded
<1>4. \A t \in Threads : call[t].at = "idle"
  BY DEF LockInit, NoCall
<1>5. KeysInv /\ readers = {} /\ writers = {}
  BY DEF LockInit, AfterStartUp, KeysInv
<1> QED
  BY <1>1, <1>3, <1>4, <1>5
  DEF LockInv, MutexInv, Inside, PointsInv, BumpInv, FoundInv,
      AnswersAreAtomic, At

-----------------------------------------------------------------------------
(* Types. *)

(* Every statement keeps the types and the bump offset inside the arena. *)
LEMMA LockTypedStep ==
  LockInv /\ [LockNext]_runVars => LockTypeOK' /\ UsedWithinCapacity'
<1> SUFFICES ASSUME LockInv, [LockNext]_runVars
             PROVE  LockTypeOK' /\ UsedWithinCapacity'
  OBVIOUS
<1> USE DEF LockInv, CallsBounded
<1>1. /\ call \in [Threads -> Call] /\ CallsBounded
      /\ MaxCalls \in [Threads -> Nat] /\ TypeOK
  BY LockingAssumption DEF LockTypeOK
<1>2. 0 \in Words /\ 1 \in Words /\ 0 \in SiteIds
  BY WordAssumption, NameAssumption DEF Words
<1>3. ASSUME UNCHANGED vars, call' \in [Threads -> Call],
             CallsBounded',
             readers' \subseteq Threads, writers' \subseteq Threads
      PROVE  LockTypeOK' /\ UsedWithinCapacity'
  BY <1>3 DEF LockTypeOK, vars, TypeOK, UsedWithinCapacity
<1>4. ASSUME NEW t \in Threads, NEW answer \in Words, Return(t, answer)
      PROVE  call' \in [Threads -> Call]
  BY <1>1, <1>4 DEF Return, Call
<1>5. ASSUME NEW t \in Threads, NEW verdict \in Verdicts, ReturnVerdict(t, verdict)
      PROVE  call' \in [Threads -> Call]
  BY <1>1, <1>5 DEF ReturnVerdict, Call
<1>6. ASSUME NEW t \in Threads, BeginCall(t)
      PROVE  LockTypeOK' /\ UsedWithinCapacity'
  <2>1. PICK op \in Ops, ptr \in Words, size \in Words, id \in SiteIds,
             h \in TypeHashes \cup {NoHash} : Begin(t, op, ptr, size, id, h)
    BY <1>2, <1>6, LockingAssumption, InputAssumption DEF BeginCall, Ops, Queries
  <2> DEFINE c == [op |-> op, at |-> "enter", ptr |-> ptr, size |-> size,
                   site_id |-> id, type_hash |-> h,
                   found |-> {}, verdict |-> "none", answer |-> 0]
  <2>2. c \in Call
    BY <1>2 DEF Call, Verdicts
  <2>3. call' = [call EXCEPT ![t] = c] /\ calls' = [calls EXCEPT ![t] = @ + 1]
        /\ calls[t] < MaxCalls[t] /\ UNCHANGED <<vars, lockVars>>
    BY <2>1 DEF Begin
  <2> HIDE DEF c
  <2>4. call' \in [Threads -> Call] /\ CallsBounded'
    BY <1>1, <2>2, <2>3
  <2> QED BY <1>3, <2>3, <2>4 DEF lockVars, LockTypeOK
<1>7. ASSUME NEW t \in Threads, Enter(t) PROVE LockTypeOK' /\ UsedWithinCapacity'
  <2>1. call' \in [Threads -> Call]
    BY <1>1, <1>7 DEF Enter, Goto, Call
  <2> QED BY <1>1, <1>3, <1>7, <2>1 DEF Enter, LockTypeOK
<1>8. ASSUME NEW t \in Threads, Leave(t) PROVE LockTypeOK' /\ UsedWithinCapacity'
  <2>1. NoCall \in Call
    BY <1>2 DEF NoCall, Call, Ops, Queries, Verdicts
  <2> QED BY <1>1, <1>3, <1>8, <2>1 DEF Leave, LockTypeOK
<1>9. ASSUME NEW t \in Threads, Find(t) PROVE LockTypeOK' /\ UsedWithinCapacity'
  <2>1. call' \in [Threads -> Call]
    <3>1. CASE Search(call[t]) = {}
      BY <1>2, <1>4, <1>5, <1>9, <3>1 DEF Find, Verdicts
    <3>2. CASE Search(call[t]) # {}
      <4>1. Search(call[t]) \in SUBSET Allocation
        BY <1>1 DEF Search, FindAllocation, AllocationAt, TypeOK
      <4>2. AfterFind(call[t]) \in {"read", "emplace", "erase"}
        BY DEF AfterFind
      <4> QED BY <1>1, <1>9, <3>2, <4>1, <4>2 DEF Find, Call
    <3> QED BY <3>1, <3>2
  <2> QED BY <1>1, <1>3, <1>9, <2>1 DEF Find, lockVars, LockTypeOK
<1>10. ASSUME NEW t \in Threads, Read(t) PROVE LockTypeOK' /\ UsedWithinCapacity'
  <2>1. call' \in [Threads -> Call]
    <3>1. call[t].found \in SUBSET Allocation
      BY <1>1 DEF Call
    <3>2. PICK a \in Allocation : \/ Return(t, a.size)
                                  \/ ReturnVerdict(t, "wrong_type")
                                  \/ ReturnVerdict(t, "ok")
                                  \/ ReturnVerdict(t, "out_of_bounds")
      BY <1>10, <3>1 DEF Read
    <3>3. a.size \in Words
      BY DEF Allocation
    <3> QED BY <1>4, <1>5, <3>2, <3>3 DEF Verdicts
  <2> QED BY <1>1, <1>3, <1>10, <2>1 DEF Read, lockVars, LockTypeOK
<1>11. ASSUME NEW t \in Threads, Emplace(t) PROVE LockTypeOK' /\ UsedWithinCapacity'
  <2>1. CASE Return(t, 0) /\ UNCHANGED allocations
    BY <1>2, <1>3, <1>4, <1>11, <2>1 DEF Emplace, lockVars, registryVars, vars, LockTypeOK
  <2>2. CASE ~ (Return(t, 0) /\ UNCHANGED allocations)
    <3>1. /\ HasType(call[t]) /\ CanAllocate(call[t].size)
          /\ allocations' = allocations \cup {Requested(call[t])}
          /\ call' = [call EXCEPT ![t].at = "bump", ![t].answer = NextBase]
          /\ call[t].at = "emplace"
      BY <1>11, <2>2 DEF Emplace, At
    <3>2. call[t].size \in Words /\ call[t].site_id \in SiteIds /\ call[t] \in Call
      BY <1>1 DEF Call
    <3>3. NextBase \in Words
      BY <1>1, <3>1, <3>2, AllocationFits DEF TypeOK
    <3>4. Requested(call[t]) \in Allocation
      <4>1. CASE call[t].op = "reallocate"
        <5>1. call[t].found # {} /\ call[t].found \subseteq Allocation
          BY <3>1, <3>2, <4>1 DEF PointsInv, Call
        <5>2. (CHOOSE a \in call[t].found : TRUE) \in Allocation
          BY <5>1
        <5> QED BY <3>2, <3>3, <4>1, <5>2 DEF Requested, NewAllocation, Allocation
      <4>2. CASE call[t].op # "reallocate"
        <5>1. site_types[call[t].site_id] \in TypeHashes
          BY <1>1, <3>1, <3>2, <4>2 DEF HasType, TypeOK
        <5> QED BY <3>2, <3>3, <4>2, <5>1 DEF Requested, NewAllocation, Allocation
      <4> QED BY <4>1, <4>2
    <3>5. call' \in [Threads -> Call]
      <4>1. PICK b \in Words : call' = [call EXCEPT ![t].at = "bump",
                                                    ![t].answer = b]
        BY <3>1, <3>3
      <4>2. [call[t] EXCEPT !.at = "bump", !.answer = b] \in Call
        BY <3>2 DEF Call
      <4>3. call' = [call EXCEPT ![t] = [call[t] EXCEPT !.at = "bump", !.answer = b]]
        BY <1>1, <4>1
      <4> QED BY <1>1, <4>2, <4>3
    <3> QED
      BY <1>11, <3>1, <3>4, <3>5
      DEF Emplace, LockTypeOK, TypeOK, UsedWithinCapacity, registryVars, lockVars
  <2> QED BY <2>1, <2>2
<1>12. ASSUME NEW t \in Threads, Bump(t) PROVE LockTypeOK' /\ UsedWithinCapacity'
  <2>1. call' \in [Threads -> Call]
    BY <1>1, <1>12 DEF Bump, Goto, AfterBump, Call
  <2>2. used' \in Words /\ UsedWithinCapacity'
    BY <1>12 DEF Bump, At, BumpInv, UsedWithinCapacity
  <2> QED
    BY <1>12, <2>1, <2>2 DEF Bump, LockTypeOK, TypeOK, registryVars, lockVars
<1>13. ASSUME NEW t \in Threads, EraseFound(t)
       PROVE  LockTypeOK' /\ UsedWithinCapacity'
  <2>1. EraseAnswer(call[t]) \in Words
    BY <1>1, <1>2 DEF EraseAnswer, Call
  <2>2. call' \in [Threads -> Call]
    BY <1>4, <1>13, <2>1 DEF EraseFound
  <2> QED
    BY <1>13, <2>2
    DEF EraseFound, LockTypeOK, TypeOK, UsedWithinCapacity, registryVars, lockVars
<1>14. CASE UNCHANGED runVars
  BY <1>3, <1>14 DEF runVars, lockVars, LockTypeOK
<1> QED
  BY <1>6, <1>7, <1>8, <1>9, <1>10, <1>11, <1>12, <1>13, <1>14 DEF LockNext, Body

-----------------------------------------------------------------------------
(* Mutual exclusion. *)

(* What one step of t does to the call of t. *)
LEMMA CallMoves ==
  ASSUME LockTypeOK, NEW t \in Threads, BeginCall(t) \/ Enter(t) \/ Body(t)
  PROVE  /\ \A u \in Threads : u # t => call'[u] = call[u]
         /\ BeginCall(t) => ~ Inside(t) /\ ~ Inside(t)' /\ UNCHANGED lockVars
         /\ Enter(t) => ~ Inside(t) /\ Inside(t)' /\ call'[t].op = call[t].op
         /\ Body(t) /\ ~ Leave(t) =>
              /\ Inside(t) /\ Inside(t)' /\ call'[t].op = call[t].op
              /\ UNCHANGED lockVars
         /\ Leave(t) => Inside(t) /\ ~ Inside(t)'
<1>1. call \in [Threads -> Call]
  BY DEF LockTypeOK
<1>2. BeginCall(t) =>
        /\ \A u \in Threads : u # t => call'[u] = call[u]
        /\ ~ Inside(t) /\ ~ Inside(t)' /\ UNCHANGED lockVars
  BY <1>1 DEF BeginCall, Begin, At, Inside
<1>3. Enter(t) =>
        /\ \A u \in Threads : u # t => call'[u] = call[u]
        /\ ~ Inside(t) /\ Inside(t)' /\ call'[t].op = call[t].op
  BY <1>1 DEF Enter, Goto, At, Inside, Call
<1>4. Leave(t) =>
        /\ \A u \in Threads : u # t => call'[u] = call[u]
        /\ Inside(t) /\ ~ Inside(t)' /\ ~ BeginCall(t) /\ ~ Enter(t)
  BY <1>1 DEF Leave, At, Inside, NoCall, BeginCall, Begin, Enter
<1> DEFINE Moves == /\ \A u \in Threads : u # t => call'[u] = call[u]
                    /\ Inside(t) /\ Inside(t)' /\ call'[t].op = call[t].op
                    /\ UNCHANGED lockVars
<1>5. Find(t) => Moves
  BY <1>1
  DEF Find, At, Inside, Return, ReturnVerdict, AfterFind, Call
<1>6. Read(t) => Moves
  <2> SUFFICES ASSUME Read(t) PROVE Moves
    OBVIOUS
  <2>1. /\ call[t].at = "read" /\ UNCHANGED lockVars
        /\ \/ \E answer : Return(t, answer)
           \/ \E verdict : ReturnVerdict(t, verdict)
    BY DEF Read, At
  <2> QED BY <1>1, <2>1 DEF Return, ReturnVerdict, Inside, Call
<1>7. Emplace(t) => Moves
  <2> SUFFICES ASSUME Emplace(t) PROVE Moves
    OBVIOUS
  <2>1. /\ call[t].at = "emplace" /\ UNCHANGED lockVars
        /\ \/ Return(t, 0)
           \/ \E base : call' = [call EXCEPT ![t].at = "bump", ![t].answer = base]
    BY DEF Emplace, At
  <2>2. ASSUME Return(t, 0) PROVE Moves
    BY <1>1, <2>1, <2>2 DEF Return, Inside, Call
  <2>3. ASSUME NEW base, call' = [call EXCEPT ![t].at = "bump", ![t].answer = base]
        PROVE  Moves
    BY <1>1, <2>1, <2>3 DEF Inside, Call
  <2> QED BY <2>1, <2>2, <2>3
<1>8. Bump(t) => Moves
  BY <1>1 DEF Bump, At, Goto, AfterBump, Inside, Call
<1>9. EraseFound(t) => Moves
  <2> SUFFICES ASSUME EraseFound(t) PROVE Moves
    OBVIOUS
  <2>1. /\ call[t].at = "erase" /\ UNCHANGED lockVars
        /\ \E answer : Return(t, answer)
    BY DEF EraseFound, At
  <2> QED BY <1>1, <2>1 DEF Return, Inside, Call
<1> QED BY <1>2, <1>3, <1>4, <1>5, <1>6, <1>7, <1>8, <1>9 DEF Body

(* The mutex has one writer or only readers. *)
LEMMA MutexStep == LockInv /\ [LockNext]_runVars => MutexInv'
<1> SUFFICES ASSUME LockTypeOK, MutexInv, [LockNext]_runVars PROVE MutexInv'
  BY DEF LockInv
<1>0. readers \subseteq Threads /\ writers \subseteq Threads
  BY DEF LockTypeOK
<1>1. CASE UNCHANGED runVars
  BY <1>1 DEF runVars, lockVars, MutexInv, Inside
<1>2. ASSUME NEW t \in Threads, BeginCall(t) \/ Enter(t) \/ Body(t)
      PROVE  MutexInv'
  <2>1. \A u \in Threads : u # t => call'[u] = call[u]
    BY <1>2, CallMoves
  <2>2. CASE Enter(t)
    <3>1. ~ Inside(t) /\ Inside(t)' /\ call'[t].op = call[t].op
      BY <1>2, <2>2, CallMoves
    <3>2. CASE Exclusive(call[t].op)
      <4>1. readers = {} /\ writers = {} /\ writers' = {t} /\ readers' = {}
        BY <2>2, <3>2 DEF Enter
      <4> QED BY <2>1, <3>1, <3>2, <4>1 DEF MutexInv, Inside
    <3>3. CASE ~ Exclusive(call[t].op)
      <4>1. writers = {} /\ writers' = {} /\ readers' = readers \cup {t}
        BY <2>2, <3>3 DEF Enter
      <4> QED BY <2>1, <3>1, <3>3, <4>1 DEF MutexInv, Inside
    <3> QED BY <3>2, <3>3
  <2>3. CASE Leave(t)
    <3>1. ~ Inside(t)'
      BY <1>2, <2>3, CallMoves
    <3>2. readers' = readers \ {t} /\ writers' = writers \ {t}
      BY <2>3 DEF Leave
    <3> QED BY <2>1, <3>1, <3>2 DEF MutexInv, Inside
  <2>4. CASE BeginCall(t)
    <3>1. ~ Inside(t) /\ ~ Inside(t)' /\ UNCHANGED lockVars
      BY <1>2, <2>4, CallMoves
    <3> QED BY <2>1, <3>1 DEF MutexInv, Inside, lockVars
  <2>5. CASE Body(t) /\ ~ Leave(t)
    <3>1. /\ Inside(t) /\ Inside(t)' /\ call'[t].op = call[t].op
          /\ UNCHANGED lockVars
      BY <1>2, <2>5, CallMoves
    <3> QED BY <2>1, <3>1 DEF MutexInv, Inside, lockVars
  <2> QED BY <1>2, <2>2, <2>3, <2>4, <2>5
<1> QED BY <1>1, <1>2 DEF LockNext

-----------------------------------------------------------------------------
(* What a thread knows while it is inside.                                 *)

PointsOf(t) ==
  /\ call[t].at = "read" => ~ Exclusive(call[t].op)
  /\ call[t].at \in {"emplace", "bump", "erase"} => Exclusive(call[t].op)
  /\ call[t].at = "emplace" /\ call[t].op = "reallocate" => call[t].found # {}

BumpOf(t) ==
  call[t].at = "bump" =>
    /\ used + AlignedSize(call[t].size) \in Words
    /\ used + AlignedSize(call[t].size) <= ArenaSize
    /\ ArenaBase + (used + AlignedSize(call[t].size)) <= MaxWord
    /\ (used + AlignedSize(call[t].size)) % kAlignment = 0

FoundOf(t) ==
  /\ call[t].at = "enter" => call[t].found = {}
  /\ call[t].at = "read" => call[t].found = Search(call[t])
  /\ call[t].at \in {"emplace", "bump", "erase"} => call[t].found \subseteq allocations

AnswerOf(t) ==
  call[t].at = "leave" =>
    /\ call[t].op = "check" =>
         call[t].verdict = Check(call[t].ptr, call[t].size, call[t].type_hash)
    /\ call[t].op = "allocation_size" =>
         IF AllocationAt(call[t].ptr) = {} THEN call[t].answer = 0
         ELSE \E a \in AllocationAt(call[t].ptr) : call[t].answer = a.size

(* The parts of the invariant, thread by thread. *)
LEMMA PerThread ==
  /\ PointsInv <=> \A t \in Threads : PointsOf(t)
  /\ BumpInv <=> \A t \in Threads : BumpOf(t)
  /\ FoundInv <=> \A t \in Threads : FoundOf(t)
  /\ AnswersAreAtomic <=> \A t \in Threads : AnswerOf(t)
<1>1. PointsInv <=> \A t \in Threads : PointsOf(t)
  BY DEF PointsInv, PointsOf
<1>2. BumpInv <=> \A t \in Threads : BumpOf(t)
  BY DEF BumpInv, BumpOf
<1>3. FoundInv <=> \A t \in Threads : FoundOf(t)
  BY DEF FoundInv, FoundOf
<1>4. AnswersAreAtomic <=> \A t \in Threads : AnswerOf(t)
  BY DEF AnswersAreAtomic, AnswerOf, At
<1> QED BY <1>1, <1>2, <1>3, <1>4

(* A step that changes the arena is one of a thread that is alone inside.  *)
LEMMA AloneOrUnchanged ==
  ASSUME LockInv, NEW t \in Threads, BeginCall(t) \/ Enter(t) \/ Body(t)
  PROVE  UNCHANGED vars \/ \A u \in Threads : u # t => ~ Inside(u)
<1> USE DEF LockInv
<1>1. CASE call[t].at \in {"emplace", "bump", "erase"}
  <2>1. t \in writers
    BY <1>1 DEF PointsInv, MutexInv, Inside
  <2> QED BY <2>1 DEF MutexInv
<1>2. CASE call[t].at \notin {"emplace", "bump", "erase"}
  BY <1>2 DEF BeginCall, Begin, Enter, Body, Find, Read, Emplace, Bump,
              EraseFound, Leave, At
<1> QED BY <1>1, <1>2

(* A statement of one thread leaves what the others know: it writes only   *)
(* under the exclusive lock, and then they are outside.                    *)
LEMMA OthersKeepTheirs ==
  ASSUME LockInv, NEW t \in Threads, BeginCall(t) \/ Enter(t) \/ Body(t),
         NEW u \in Threads, u # t
  PROVE  PointsOf(u)' /\ BumpOf(u)' /\ FoundOf(u)' /\ AnswerOf(u)'
<1>1. call'[u] = call[u]
  BY CallMoves DEF LockInv
<1>2. PointsOf(u) /\ BumpOf(u) /\ FoundOf(u) /\ AnswerOf(u)
  BY PerThread DEF LockInv
<1>3. PointsOf(u)'
  BY <1>1, <1>2 DEF PointsOf
<1>4. CASE ~ Inside(u)
  BY <1>1, <1>2, <1>3, <1>4 DEF Inside, BumpOf, FoundOf, AnswerOf
<1>5. CASE UNCHANGED vars
  <2>1. allocations' = allocations /\ used' = used
    BY <1>5 DEF vars
  <2>2. BumpOf(u)'
    BY <1>1, <1>2, <2>1 DEF BumpOf, AlignedSize
  <2>4. FoundOf(u)'
    BY <1>1, <1>2, <2>1
    DEF FoundOf, Search, FindAllocation, IsAllocationAtOrBefore, AllocationAt
  <2>5. AnswerOf(u)'
    BY <1>1, <1>2, <2>1
    DEF AnswerOf, Check, FindAllocation, IsAllocationAtOrBefore, AllocationAt
  <2> QED BY <1>3, <2>2, <2>4, <2>5
<1> QED BY <1>4, <1>5, AloneOrUnchanged

(* The keys stay apart: emplace is refused when the key is there.          *)
LEMMA KeysStep ==
  ASSUME LockInv, NEW t \in Threads, BeginCall(t) \/ Enter(t) \/ Body(t)
  PROVE  KeysInv'
<1> USE DEF LockInv
<1>1. CASE allocations' \subseteq allocations
  BY <1>1 DEF KeysInv
<1>2. CASE \E n : /\ AllocationAt(NextBase) = {} /\ n.base = NextBase
                  /\ allocations' = allocations \cup {n}
  BY <1>2 DEF KeysInv, AllocationAt
<1>3. Emplace(t) => \/ allocations' \subseteq allocations
                    \/ \E n : /\ AllocationAt(NextBase) = {} /\ n.base = NextBase
                              /\ allocations' = allocations \cup {n}
  <2>1. Requested(call[t]).base = NextBase
    BY DEF Requested, NewAllocation
  <2> QED BY <2>1 DEF Emplace, CanAllocate
<1>4. ~ Emplace(t) => allocations' \subseteq allocations
  BY DEF BeginCall, Begin, Enter, Body, Find, Read, Bump, EraseFound, Leave, vars
<1> QED BY <1>1, <1>2, <1>3, <1>4

(* A thread's own statement brings it to its next point with what that     *)
(* point needs.                                                            *)
LEMMA OwnStep ==
  ASSUME LockInv, NEW t \in Threads, BeginCall(t) \/ Enter(t) \/ Body(t)
  PROVE  PointsOf(t)' /\ BumpOf(t)' /\ FoundOf(t)' /\ AnswerOf(t)'
<1> USE DEF LockInv
<1>1. /\ call \in [Threads -> Call] /\ call[t] \in Call /\ TypeOK
  BY DEF LockTypeOK
<1>2. PointsOf(t) /\ BumpOf(t) /\ FoundOf(t) /\ AnswerOf(t)
  BY PerThread
<1>3. /\ call[t].ptr \in Words /\ call[t].size \in Words
      /\ call[t].found \subseteq Allocation
  BY <1>1 DEF Call
<1>4. CASE BeginCall(t)
  BY <1>1, <1>4 DEF BeginCall, Begin, PointsOf, BumpOf, FoundOf, AnswerOf
<1>5. CASE Leave(t)
  BY <1>1, <1>5 DEF Leave, NoCall, PointsOf, BumpOf, FoundOf, AnswerOf
<1>6. CASE Enter(t)
  <2> DEFINE point == IF call[t].op = "allocate_from_site" THEN "emplace" ELSE "find"
  <2>1. /\ call[t].at = "enter" /\ UNCHANGED vars
        /\ call'[t] = [call[t] EXCEPT !.at = point]
    BY <1>1, <1>6 DEF Enter, At, Goto
  <2>2. /\ call'[t].at = point /\ call'[t].op = call[t].op
        /\ call'[t].found = call[t].found
    BY <1>1, <2>1 DEF Call
  <2> QED
    BY <1>2, <2>1, <2>2
    DEF PointsOf, BumpOf, FoundOf, AnswerOf, Exclusive, Queries
<1>7. CASE Find(t)
  <2>1. allocations' = allocations /\ used' = used
    BY <1>7 DEF Find, vars
  <2>2. Search(call[t]) \subseteq allocations
    BY DEF Search, FindAllocation, AllocationAt
  <2>3. CASE Search(call[t]) = {}
    <3>1. CASE call[t].op = "check"
      <4>1. /\ call'[t].at = "leave" /\ call'[t].verdict = "untracked"
            /\ call'[t].op = "check" /\ call'[t].ptr = call[t].ptr
            /\ call'[t].size = call[t].size
        BY <1>1, <1>7, <2>3, <3>1 DEF Find, ReturnVerdict, Call
      <4>2. FindAllocation(call[t].ptr) = {}
        BY <2>3, <3>1 DEF Search
      <4>3. FindAllocation(call[t].ptr)' = {}
        BY <2>1, <4>1, <4>2 DEF FindAllocation, IsAllocationAtOrBefore
      <4> QED
        BY <4>1, <4>3 DEF PointsOf, BumpOf, FoundOf, AnswerOf, Check
    <3>2. CASE call[t].op # "check"
      <4>1. /\ call'[t].at = "leave" /\ call'[t].answer = 0
            /\ call'[t].op = call[t].op /\ call'[t].ptr = call[t].ptr
        BY <1>1, <1>7, <2>3, <3>2 DEF Find, Return, Call
      <4>2. AllocationAt(call[t].ptr)' = {}
        BY <2>1, <2>3, <3>2, <4>1 DEF Search, AllocationAt
      <4> QED
        BY <3>2, <4>1, <4>2 DEF PointsOf, BumpOf, FoundOf, AnswerOf
    <3> QED BY <3>1, <3>2
  <2>4. CASE Search(call[t]) # {}
    <3>1. /\ call'[t].at = AfterFind(call[t]) /\ call'[t].found = Search(call[t])
          /\ call'[t].op = call[t].op /\ call'[t].ptr = call[t].ptr
      BY <1>1, <1>7, <2>4 DEF Find, Call
    <3>2. Search(call[t])' = Search(call[t])
      BY <2>1, <3>1 DEF Search, FindAllocation, IsAllocationAtOrBefore, AllocationAt
    <3> QED
      BY <2>1, <2>2, <2>4, <3>1, <3>2
      DEF AfterFind, PointsOf, BumpOf, FoundOf, AnswerOf, Exclusive, Queries
  <2> QED BY <2>3, <2>4
<1>8. CASE Read(t)
  <2>1. /\ call[t].at = "read" /\ allocations' = allocations
        /\ call[t].found = Search(call[t])
        /\ call[t].op \in Queries
    BY <1>2, <1>8 DEF Read, At, vars, FoundOf, PointsOf, Exclusive
  <2>2. CASE call[t].op = "allocation_size"
    <3>1. PICK a \in AllocationAt(call[t].ptr) : Return(t, a.size)
      BY <1>8, <2>1, <2>2 DEF Read, Search
    <3>2. /\ call'[t].at = "leave" /\ call'[t].answer = a.size
          /\ call'[t].op = call[t].op /\ call'[t].ptr = call[t].ptr
      BY <1>1, <3>1 DEF Return, Call
    <3>3. a \in AllocationAt(call[t].ptr)'
      BY <2>1, <3>1, <3>2 DEF AllocationAt
    <3> QED
      BY <2>2, <3>2, <3>3 DEF PointsOf, BumpOf, FoundOf, AnswerOf
  <2>3. CASE call[t].op = "check"
    <3>1. PICK a \in FindAllocation(call[t].ptr) :
            ReturnVerdict(t,
              IF a.type_hash # call[t].type_hash THEN "wrong_type"
              ELSE IF call[t].size <= a.size - (call[t].ptr - a.base) THEN "ok"
              ELSE "out_of_bounds")
      BY <1>8, <2>1, <2>3 DEF Read, Search
    <3>2. ReturnVerdict(t, Check(call[t].ptr, call[t].size, call[t].type_hash))
      <4> DEFINE answer == IF a.type_hash # call[t].type_hash THEN "wrong_type"
                           ELSE IF call[t].size <= a.size - (call[t].ptr - a.base)
                           THEN "ok" ELSE "out_of_bounds"
      <4>1. Check(call[t].ptr, call[t].size, call[t].type_hash) = answer
        BY <1>1, <1>3, <3>1, FoundAnswersCheck
      <4>2. ReturnVerdict(t, answer)
        BY <3>1
      <4> HIDE DEF answer
      <4> QED BY <4>1, <4>2
    <3>3. /\ call'[t].at = "leave" /\ call'[t].op = "check"
          /\ call'[t].verdict
               = Check(call[t].ptr, call[t].size, call[t].type_hash)
          /\ call'[t].ptr = call[t].ptr /\ call'[t].size = call[t].size
          /\ call'[t].type_hash = call[t].type_hash
      BY <1>1, <2>3, <3>2 DEF ReturnVerdict, Call
    <3>4. Check(call[t].ptr, call[t].size, call[t].type_hash)'
            = Check(call[t].ptr, call[t].size, call[t].type_hash)
      BY <2>1, <3>3 DEF Check, FindAllocation, IsAllocationAtOrBefore
    <3> QED
      BY <3>3, <3>4 DEF PointsOf, BumpOf, FoundOf, AnswerOf
  <2> QED BY <2>1, <2>2, <2>3 DEF Queries
<1>9. CASE Emplace(t)
  <2>1. Exclusive(call[t].op) /\ call[t].found \subseteq allocations
    BY <1>2, <1>9 DEF Emplace, At, PointsOf, FoundOf
  <2>2. CASE Return(t, 0)
    <3>1. call'[t].at = "leave" /\ call'[t].op = call[t].op
      BY <1>1, <2>2 DEF Return, Call
    <3> QED
      BY <2>1, <3>1 DEF PointsOf, BumpOf, FoundOf, AnswerOf, Exclusive, Queries
  <2>3. CASE ~ Return(t, 0)
    <3>1. /\ CanAllocate(call[t].size) /\ used' = used
          /\ allocations \subseteq allocations'
          /\ call' = [call EXCEPT ![t].at = "bump", ![t].answer = NextBase]
      BY <1>9, <2>3 DEF Emplace
    <3>2. /\ call'[t].at = "bump" /\ call'[t].op = call[t].op
          /\ call'[t].found = call[t].found /\ call'[t].size = call[t].size
      BY <1>1, <3>1 DEF Call
    <3>3. /\ AlignedSize(call[t].size) \in Nat
          /\ AlignedSize(call[t].size) % kAlignment = 0
          /\ used + AlignedSize(call[t].size) <= ArenaSize
          /\ ArenaBase + used + AlignedSize(call[t].size) <= MaxWord
          /\ used + AlignedSize(call[t].size) \in Words
      BY <1>1, <1>3, <3>1, AllocationFits DEF TypeOK
    <3>4. used \in Nat /\ ArenaBase \in Nat /\ used % 8 = 0
      BY <1>1, WordAssumption DEF TypeOK, Words, UsedWithinCapacity, kAlignment
    <3>5. (used + AlignedSize(call[t].size)) % kAlignment = 0
      BY <3>3, <3>4, SumOfMultiples DEF kAlignment
    <3>6. BumpOf(t)'
      <4>1. ArenaBase + (used + AlignedSize(call[t].size)) <= MaxWord
        BY <3>3, <3>4
      <4>2. AlignedSize(call[t].size)' = AlignedSize(call[t].size)
        BY <3>2 DEF AlignedSize
      <4> QED BY <3>1, <3>3, <3>5, <4>1, <4>2 DEF BumpOf
    <3> QED
      BY <2>1, <3>1, <3>2, <3>6 DEF PointsOf, FoundOf, AnswerOf
  <2> QED BY <2>2, <2>3
<1>10. CASE Bump(t)
  <2>1. /\ Exclusive(call[t].op) /\ call[t].found \subseteq allocations
        /\ allocations' = allocations
        /\ call' = [call EXCEPT ![t].at = AfterBump(call[t].op)]
    BY <1>2, <1>10 DEF Bump, At, PointsOf, FoundOf, Goto
  <2>2. /\ call'[t].at = AfterBump(call[t].op) /\ call'[t].op = call[t].op
        /\ call'[t].found = call[t].found
    BY <1>1, <2>1 DEF Call
  <2> QED
    BY <2>1, <2>2
    DEF AfterBump, PointsOf, BumpOf, FoundOf, AnswerOf, Exclusive, Queries
<1>11. CASE EraseFound(t)
  <2>1. /\ Exclusive(call[t].op) /\ Return(t, EraseAnswer(call[t]))
    BY <1>2, <1>11 DEF EraseFound, At, PointsOf
  <2>2. call'[t].at = "leave" /\ call'[t].op = call[t].op
    BY <1>1, <2>1 DEF Return, Call
  <2> QED
    BY <2>1, <2>2 DEF PointsOf, BumpOf, FoundOf, AnswerOf, Exclusive, Queries
<1> QED BY <1>4, <1>5, <1>6, <1>7, <1>8, <1>9, <1>10, <1>11 DEF Body

(* The two together. *)
LEMMA LockInvStep == LockInv /\ [LockNext]_runVars => LockInv'
<1> SUFFICES ASSUME LockInv, [LockNext]_runVars PROVE LockInv'
  OBVIOUS
<1>1. LockTypeOK' /\ UsedWithinCapacity' /\ MutexInv'
  BY LockTypedStep, MutexStep
<1>2. CASE UNCHANGED runVars
  <2>1. KeysInv'
    BY <1>2 DEF LockInv, KeysInv, runVars, vars
  <2>2. ASSUME NEW t \in Threads
        PROVE  PointsOf(t)' /\ BumpOf(t)' /\ FoundOf(t)' /\ AnswerOf(t)'
    <3>1. PointsOf(t) /\ BumpOf(t) /\ FoundOf(t) /\ AnswerOf(t)
      BY PerThread DEF LockInv
    <3>2. allocations' = allocations /\ used' = used /\ call' = call
      BY <1>2 DEF runVars, vars
    <3>3. PointsOf(t)' /\ BumpOf(t)'
      BY <3>1, <3>2 DEF PointsOf, BumpOf, AlignedSize
    <3>4. FoundOf(t)'
      BY <3>1, <3>2
      DEF FoundOf, Search, FindAllocation, IsAllocationAtOrBefore, AllocationAt
    <3>5. AnswerOf(t)'
      BY <3>1, <3>2
      DEF AnswerOf, Check, FindAllocation, IsAllocationAtOrBefore, AllocationAt
    <3> QED BY <3>3, <3>4, <3>5
  <2>3. PointsInv' /\ BumpInv' /\ FoundInv' /\ AnswersAreAtomic'
    BY <2>2 DEF PointsInv, PointsOf, BumpInv, BumpOf, FoundInv, FoundOf,
                AnswersAreAtomic, AnswerOf, At
  <2> QED BY <1>1, <2>1, <2>3 DEF LockInv
<1>3. ASSUME NEW t \in Threads, BeginCall(t) \/ Enter(t) \/ Body(t)
      PROVE  LockInv'
  <2>1. ASSUME NEW u \in Threads
        PROVE  PointsOf(u)' /\ BumpOf(u)' /\ FoundOf(u)' /\ AnswerOf(u)'
    BY <1>3, OthersKeepTheirs, OwnStep
  <2>2. PointsInv' /\ BumpInv' /\ FoundInv' /\ AnswersAreAtomic'
    BY <2>1 DEF PointsInv, PointsOf, BumpInv, BumpOf, FoundInv, FoundOf,
                AnswersAreAtomic, AnswerOf, At
  <2>3. KeysInv'
    BY <1>3, KeysStep
  <2> QED BY <1>1, <2>2, <2>3 DEF LockInv
<1> QED BY <1>2, <1>3 DEF LockNext

(* So the invariant holds always. *)
LEMMA LockInvAlways == LockSpec => []LockInv
BY LockInvInit, LockInvStep, PTL DEF LockSpec

-----------------------------------------------------------------------------
(* What the critical section of a writer has done so far to the arena that *)
(* the last writer left.                                                   *)

Arena == [allocations |-> allocations, used |-> used]

(* The search of a writer has found the one allocation with that base.     *)
Holds(c) == c.found # {} /\ c.found = Atomic!AllocationAt(c.ptr)

Granted(c) ==
  IF c.op = "reallocate"
  THEN LET old == CHOOSE a \in c.found : TRUE
       IN Atomic!NewAllocation(c.size, old.type_hash, old.site_id)
  ELSE Atomic!NewAllocation(c.size, site_types[c.site_id], c.site_id)

(* The new object is in the map. *)
Emplaced(c) ==
  /\ \/ c.op = "allocate_from_site" /\ site_types[c.site_id] # NoHash
     \/ c.op = "reallocate" /\ c.size # 0 /\ Holds(c)
  /\ Atomic!CanAllocate(c.size)
  /\ c.answer = Atomic!NextBase
  /\ allocations = committed.allocations \cup {Granted(c)}

(* An object was erased and nothing else. *)
Erased(c) ==
  /\ c.op = "release" \/ (c.op = "reallocate" /\ c.size = 0)
  /\ Holds(c)
  /\ c.answer = IF c.op = "release" THEN 1 ELSE 0
  /\ allocations = committed.allocations \ c.found
  /\ used = committed.used

(* A new object is there, and the old one, if there was one, is gone. *)
Replaced(c) ==
  /\ \/ c.op = "allocate_from_site" /\ site_types[c.site_id] # NoHash
        /\ allocations = committed.allocations \cup {Granted(c)}
     \/ c.op = "reallocate" /\ c.size # 0 /\ Holds(c)
        /\ allocations = (committed.allocations \cup {Granted(c)}) \ c.found
  /\ Atomic!CanAllocate(c.size)
  /\ c.answer = Atomic!NextBase
  /\ used = committed.used + AlignedSize(c.size)

SectionOf(t) ==
  t \in writers =>
    /\ call[t].at = "find" =>
         committed = Arena /\ call[t].op \in {"release", "reallocate"}
    /\ call[t].at = "emplace" =>
         /\ committed = Arena
         /\ \/ call[t].op = "allocate_from_site"
            \/ call[t].op = "reallocate" /\ call[t].size # 0 /\ Holds(call[t])
    /\ call[t].at = "bump" => Emplaced(call[t]) /\ used = committed.used
    /\ call[t].at = "erase" =>
         \/ /\ committed = Arena /\ Holds(call[t])
            /\ \/ call[t].op = "release"
               \/ call[t].op = "reallocate" /\ call[t].size = 0
         \/ /\ call[t].op = "reallocate" /\ Emplaced(call[t])
            /\ used = committed.used + AlignedSize(call[t].size)
    /\ call[t].at = "leave" =>
         \/ Refuses(call[t]) /\ call[t].answer = 0 /\ committed = Arena
         \/ Erased(call[t])
         \/ Replaced(call[t])

CommitInv ==
  /\ writers = {} => committed = Arena
  /\ \A a, b \in committed.allocations : a.base = b.base => a = b
  /\ \A t \in Threads : SectionOf(t)

(* When nobody has written since the last release, the whole call would    *)
(* see what the statements see.                                            *)
LEMMA AtomicIsNow ==
  ASSUME committed = Arena
  PROVE  /\ \A ptr : Atomic!AllocationAt(ptr) = AllocationAt(ptr)
         /\ \A size : Atomic!CanAllocate(size) <=> CanAllocate(size)
         /\ Atomic!NextBase = NextBase
         /\ \A size, h, id :
              Atomic!NewAllocation(size, h, id) = NewAllocation(size, h, id)
<1>1. committed.allocations = allocations /\ committed.used = used
  BY DEF Arena
<1>2. Atomic!NextBase = NextBase
  BY <1>1 DEF Atomic!NextBase, NextBase, Atomic!Wrap, Wrap
<1>3. \A ptr : Atomic!AllocationAt(ptr) = AllocationAt(ptr)
  BY <1>1 DEF Atomic!AllocationAt, AllocationAt
<1>4. \A size : Atomic!CanAllocate(size) <=> CanAllocate(size)
  BY <1>1, <1>2, <1>3
  DEF Atomic!CanAllocate, CanAllocate, Atomic!arena_valid, arena_valid,
      Atomic!AlignedSize, AlignedSize, Atomic!kAlignment, kAlignment,
      Atomic!Wrap, Wrap
<1>5. \A size, h, id :
        Atomic!NewAllocation(size, h, id) = NewAllocation(size, h, id)
  BY <1>2 DEF Atomic!NewAllocation, NewAllocation
<1> QED BY <1>2, <1>3, <1>4, <1>5

(* The parts of the state that the section of t is about. *)
LEMMA SectionStays ==
  ASSUME NEW t \in Threads, SectionOf(t), t \in writers' => t \in writers,
         UNCHANGED <<vars, committed>>, call'[t] = call[t]
  PROVE  SectionOf(t)'
<1>1. /\ allocations' = allocations /\ used' = used
      /\ site_types' = site_types /\ committed' = committed
  BY DEF vars
<1>2. Arena' = Arena
  BY <1>1 DEF Arena
<1>3. /\ \A ptr : Atomic!AllocationAt(ptr)' = Atomic!AllocationAt(ptr)
      /\ \A size : Atomic!CanAllocate(size)' = Atomic!CanAllocate(size)
      /\ Atomic!NextBase' = Atomic!NextBase
      /\ \A size, h, id : Atomic!NewAllocation(size, h, id)'
                            = Atomic!NewAllocation(size, h, id)
  BY <1>1
  DEF Atomic!CanAllocate, Atomic!AllocationAt, Atomic!NextBase,
      Atomic!NewAllocation
<1>4. CASE t \notin writers'
  BY <1>4 DEF SectionOf
<1>5. CASE t \in writers'
  <2>1. Holds(call[t])' = Holds(call[t])
    BY <1>1, <1>3 DEF Holds, Atomic!AllocationAt
  <2>2. Granted(call[t])' = Granted(call[t])
    BY <1>1, <1>3 DEF Granted, Atomic!NewAllocation, Atomic!NextBase
  <2> QED
    BY <1>1, <1>2, <1>3, <1>5, <2>1, <2>2
    DEF SectionOf, Emplaced, Erased, Replaced, Refuses, AlignedSize
<1> QED BY <1>4, <1>5

(* A statement of one thread leaves how far the others are in their        *)
(* sections.                                                               *)
LEMMA OtherSections ==
  ASSUME LockInv, CommitInv, NEW t \in Threads, BeginCall(t) \/ Enter(t) \/ Body(t),
         NEW u \in Threads, u # t
  PROVE  SectionOf(u)'
<1>1. call'[u] = call[u]
  BY CallMoves DEF LockInv
<1>2. u \in writers' => u \in writers
  BY DEF BeginCall, Begin, Enter, Body, Find, Read, Emplace, Bump, EraseFound,
         Leave, lockVars
<1>3. CASE u \notin writers
  BY <1>2, <1>3 DEF SectionOf
<1>4. CASE u \in writers
  <2>1. ~ Body(t)
    <3>1. t \notin writers /\ t \notin readers
      BY <1>4 DEF LockInv, MutexInv
    <3>2. ~ Inside(t)
      BY <3>1 DEF LockInv, MutexInv
    <3> QED
      BY <3>2 DEF Inside, Body, Find, Read, Emplace, Bump, EraseFound, Leave, At
  <2>2. ~ Enter(t)
    BY <1>4 DEF Enter
  <2>3. UNCHANGED <<vars, lockVars, committed>>
    BY <2>1, <2>2 DEF BeginCall, Begin
  <2>4. SectionOf(u)
    BY DEF CommitInv
  <2> QED BY <1>1, <2>3, <2>4, SectionStays DEF lockVars
<1> QED BY <1>3, <1>4

(* A thread's own statement takes its section one statement further. *)
LEMMA OwnSection ==
  ASSUME LockInv, CommitInv, NEW t \in Threads, BeginCall(t) \/ Enter(t) \/ Body(t)
  PROVE  SectionOf(t)'
<1> USE DEF LockInv
<1>1. /\ call \in [Threads -> Call] /\ call[t] \in Call /\ TypeOK
      /\ call[t].op \in Ops /\ call[t].size \in Words
  BY DEF LockTypeOK, Call
<1>2. SectionOf(t)
  BY DEF CommitInv
<1>3. t \in writers <=> Inside(t) /\ Exclusive(call[t].op)
  BY DEF MutexInv
<1>4. CASE BeginCall(t)
  <2>1. t \notin writers'
    BY <1>3, <1>4, CallMoves DEF lockVars
  <2> QED BY <2>1 DEF SectionOf
<1>5. CASE Leave(t)
  BY <1>5 DEF Leave, SectionOf
<1>6. CASE Enter(t)
  <2>1. CASE ~ Exclusive(call[t].op)
    BY <1>6, <2>1 DEF Enter, SectionOf
  <2>2. CASE Exclusive(call[t].op)
    <3>1. /\ committed = Arena /\ committed' = committed
          /\ allocations' = allocations /\ used' = used
      BY <1>6, <2>2 DEF Enter, CommitInv, vars
    <3>2. committed' = Arena'
      BY <3>1 DEF Arena
    <3> DEFINE point == IF call[t].op = "allocate_from_site" THEN "emplace" ELSE "find"
    <3>3. call'[t].at = point /\ call'[t].op = call[t].op
      BY <1>1, <1>6 DEF Enter, Goto, Call
    <3> QED
      BY <1>1, <2>2, <3>2, <3>3 DEF SectionOf, Exclusive, Ops, Queries
  <2> QED BY <2>1, <2>2
<1>7. ASSUME t \notin writers, Body(t)
      PROVE  SectionOf(t)'
  BY <1>7
  DEF SectionOf, Body, Find, Read, Emplace, Bump, EraseFound, Leave, lockVars
<1>8. CASE Find(t) /\ t \in writers
  <2>1. /\ committed = Arena /\ call[t].op \in {"release", "reallocate"}
        /\ committed' = committed /\ allocations' = allocations /\ used' = used
    BY <1>2, <1>8 DEF SectionOf, Find, At, vars
  <2>2. committed' = Arena'
    BY <2>1 DEF Arena
  <2>3. Search(call[t]) = AllocationAt(call[t].ptr)
    BY <2>1 DEF Search
  <2>4. CASE AllocationAt(call[t].ptr) = {}
    <3>1. /\ call'[t].at = "leave" /\ call'[t].answer = 0
          /\ call'[t].op = call[t].op /\ call'[t].ptr = call[t].ptr
      BY <1>1, <1>8, <2>1, <2>3, <2>4 DEF Find, Return, Call
    <3>2. Atomic!AllocationAt(call[t].ptr)' = {}
      BY <2>1, <2>4, <3>1 DEF Arena, Atomic!AllocationAt, AllocationAt
    <3>3. Refuses(call[t])'
      BY <2>1, <3>1, <3>2 DEF Refuses
    <3> QED BY <2>2, <3>1, <3>3 DEF SectionOf
  <2>5. CASE AllocationAt(call[t].ptr) # {}
    <3>1. /\ call'[t].at = AfterFind(call[t])
          /\ call'[t].found = AllocationAt(call[t].ptr)
          /\ call'[t].op = call[t].op /\ call'[t].ptr = call[t].ptr
          /\ call'[t].size = call[t].size
      BY <1>1, <1>8, <2>3, <2>5 DEF Find, Call
    <3>2. Holds(call[t])'
      BY <2>1, <2>5, <3>1 DEF Holds, Arena, Atomic!AllocationAt, AllocationAt
    <3> QED
      BY <2>1, <2>2, <3>1, <3>2 DEF SectionOf, AfterFind, Queries
  <2> QED BY <2>4, <2>5
<1>9. CASE Read(t) /\ t \in writers
  BY <1>3, <1>9 DEF Read, At, PointsInv
<1>10. CASE Emplace(t) /\ t \in writers
  <2>1. /\ committed = Arena /\ committed' = committed /\ used' = used
        /\ site_types' = site_types
        /\ \/ call[t].op = "allocate_from_site"
           \/ call[t].op = "reallocate" /\ call[t].size # 0 /\ Holds(call[t])
    BY <1>2, <1>10 DEF SectionOf, Emplace, At, registryVars
  <2>2. CASE ~ (HasType(call[t]) /\ CanAllocate(call[t].size))
    <3>1. /\ call'[t].at = "leave" /\ call'[t].answer = 0
          /\ call'[t].op = call[t].op /\ call'[t].size = call[t].size
          /\ call'[t].site_id = call[t].site_id
          /\ allocations' = allocations
      BY <1>1, <1>10, <2>2 DEF Emplace, Return, Call
    <3>2. committed' = Arena'
      BY <2>1, <3>1 DEF Arena
    <3>3. Atomic!CanAllocate(call[t].size)' = Atomic!CanAllocate(call[t].size)
      BY <2>1, <3>1 DEF Atomic!CanAllocate, Atomic!AllocationAt, Atomic!NextBase,
                        Atomic!AlignedSize
    <3>4. Refuses(call[t])'
      BY <2>1, <2>2, <3>1, <3>3, AtomicIsNow DEF Refuses, HasType
    <3> QED BY <3>1, <3>2, <3>4 DEF SectionOf
  <2>3. CASE HasType(call[t]) /\ CanAllocate(call[t].size)
    <3>1. /\ allocations' = allocations \cup {Requested(call[t])}
          /\ call' = [call EXCEPT ![t].at = "bump", ![t].answer = NextBase]
      BY <1>10, <2>3 DEF Emplace
    <3>2. /\ call'[t].at = "bump" /\ call'[t].answer = NextBase
          /\ call'[t].op = call[t].op /\ call'[t].size = call[t].size
          /\ call'[t].site_id = call[t].site_id
          /\ call'[t].found = call[t].found /\ call'[t].ptr = call[t].ptr
      BY <1>1, <3>1 DEF Call
    <3>3. Granted(call[t])' = Requested(call[t])
      <4>1. Granted(call[t])' = Granted(call[t])
        BY <2>1, <3>2 DEF Granted, Atomic!NewAllocation, Atomic!NextBase
      <4>2. Granted(call[t]) = Requested(call[t])
        BY <2>1, AtomicIsNow DEF Granted, Requested
      <4> QED BY <4>1, <4>2
    <3>4. /\ Atomic!CanAllocate(call[t].size)' /\ Atomic!NextBase' = NextBase
      <4>1. Atomic!CanAllocate(call[t].size)' = Atomic!CanAllocate(call[t].size)
        BY <2>1, <3>2 DEF Atomic!CanAllocate, Atomic!AllocationAt,
                          Atomic!NextBase, Atomic!AlignedSize
      <4>2. Atomic!NextBase' = Atomic!NextBase
        BY <2>1 DEF Atomic!NextBase
      <4> QED BY <2>1, <2>3, <4>1, <4>2, AtomicIsNow
    <3>5. call[t].op = "reallocate" => Holds(call[t])'
      BY <2>1, <3>2 DEF Holds, Atomic!AllocationAt
    <3>6. committed.allocations = allocations /\ committed.used = used
      BY <2>1 DEF Arena
    <3>7. Emplaced(call[t])'
      BY <2>1, <2>3, <3>1, <3>2, <3>3, <3>4, <3>5, <3>6 DEF Emplaced, HasType
    <3> QED BY <2>1, <3>2, <3>6, <3>7 DEF SectionOf
  <2> QED BY <2>2, <2>3
<1>11. CASE Bump(t) /\ t \in writers
  <2>1. /\ Emplaced(call[t]) /\ used = committed.used
        /\ committed' = committed /\ allocations' = allocations
        /\ site_types' = site_types
        /\ used' = used + AlignedSize(call[t].size)
    BY <1>2, <1>11 DEF SectionOf, Bump, At, registryVars
  <2>2. /\ call'[t].at = AfterBump(call[t].op) /\ call'[t].answer = call[t].answer
        /\ call'[t].op = call[t].op /\ call'[t].size = call[t].size
        /\ call'[t].site_id = call[t].site_id
        /\ call'[t].found = call[t].found /\ call'[t].ptr = call[t].ptr
    BY <1>1, <1>11 DEF Bump, Goto, Call
  <2>3. Emplaced(call[t])'
    <3>1. Granted(call[t])' = Granted(call[t])
      BY <2>1, <2>2 DEF Granted, Atomic!NewAllocation, Atomic!NextBase
    <3>2. Holds(call[t])' = Holds(call[t])
      BY <2>1, <2>2 DEF Holds, Atomic!AllocationAt
    <3>3. /\ Atomic!CanAllocate(call[t].size)' = Atomic!CanAllocate(call[t].size)
          /\ Atomic!NextBase' = Atomic!NextBase
      BY <2>1, <2>2 DEF Atomic!CanAllocate, Atomic!AllocationAt,
                        Atomic!NextBase, Atomic!AlignedSize
    <3> QED BY <2>1, <2>2, <3>1, <3>2, <3>3 DEF Emplaced
  <2>4. used' = committed'.used + AlignedSize(call'[t].size)
    BY <2>1, <2>2
  <2>5. CASE call[t].op = "reallocate"
    BY <2>2, <2>3, <2>4, <2>5 DEF AfterBump, SectionOf, AlignedSize
  <2>6. CASE call[t].op # "reallocate"
    <3>1. Replaced(call[t])'
      BY <2>2, <2>3, <2>4, <2>6 DEF Emplaced, Replaced, AlignedSize
    <3> QED BY <2>2, <2>6, <3>1 DEF AfterBump, SectionOf
  <2> QED BY <2>5, <2>6
<1>12. CASE EraseFound(t) /\ t \in writers
  <2>1. /\ committed' = committed /\ used' = used /\ site_types' = site_types
        /\ allocations' = allocations \ call[t].found
    BY <1>12 DEF EraseFound, registryVars
  <2>2. /\ call'[t].at = "leave" /\ call'[t].answer = EraseAnswer(call[t])
        /\ call'[t].op = call[t].op /\ call'[t].size = call[t].size
        /\ call'[t].site_id = call[t].site_id
        /\ call'[t].found = call[t].found /\ call'[t].ptr = call[t].ptr
    BY <1>1, <1>12 DEF EraseFound, Return, Call
  <2>3. Holds(call[t])' = Holds(call[t])
    BY <2>1, <2>2 DEF Holds, Atomic!AllocationAt
  <2>4. CASE /\ committed = Arena /\ Holds(call[t])
             /\ \/ call[t].op = "release"
                \/ call[t].op = "reallocate" /\ call[t].size = 0
    <3>1. committed.allocations = allocations /\ committed.used = used
      BY <2>4 DEF Arena
    <3>2. Erased(call[t])'
      BY <2>1, <2>2, <2>3, <2>4, <3>1 DEF Erased, EraseAnswer
    <3> QED BY <2>2, <3>2 DEF SectionOf
  <2>5. CASE /\ call[t].op = "reallocate" /\ Emplaced(call[t])
             /\ used = committed.used + AlignedSize(call[t].size)
    <3>1. Granted(call[t])' = Granted(call[t])
      BY <2>1, <2>2 DEF Granted, Atomic!NewAllocation, Atomic!NextBase
    <3>2. /\ Atomic!CanAllocate(call[t].size)' = Atomic!CanAllocate(call[t].size)
          /\ Atomic!NextBase' = Atomic!NextBase
      BY <2>1, <2>2 DEF Atomic!CanAllocate, Atomic!AllocationAt,
                        Atomic!NextBase, Atomic!AlignedSize
    <3>3. AlignedSize(call[t].size)' = AlignedSize(call[t].size)
      BY <2>2 DEF AlignedSize
    <3>4. call[t].size # 0 /\ Holds(call[t])
      BY <2>5 DEF Emplaced
    <3>5. allocations' = (committed.allocations \cup {Granted(call[t])})
                           \ call[t].found
      BY <2>1, <2>5 DEF Emplaced
    <3>6. call'[t].answer = Atomic!NextBase /\ Atomic!CanAllocate(call[t].size)
      BY <2>2, <2>5 DEF Emplaced, EraseAnswer
    <3>7. Replaced(call[t])'
      BY <2>1, <2>2, <2>3, <2>5, <3>1, <3>2, <3>3, <3>4, <3>5, <3>6 DEF Replaced
    <3> QED BY <2>2, <3>7 DEF SectionOf
  <2> QED BY <1>2, <1>12, <2>4, <2>5 DEF SectionOf, EraseFound, At
<1> QED
  BY <1>4, <1>5, <1>6, <1>7, <1>8, <1>9, <1>10, <1>11, <1>12 DEF Body

(* At the start nothing has been written since the last release. *)
LEMMA CommitInvInit == LockInit => CommitInv
BY DEF LockInit, AfterStartUp, CommitInv, Arena, SectionOf

(* The two together. *)
LEMMA CommitInvStep ==
  LockInv /\ CommitInv /\ [LockNext]_runVars => CommitInv'
<1> SUFFICES ASSUME LockInv, CommitInv, [LockNext]_runVars PROVE CommitInv'
  OBVIOUS
<1>1. CASE UNCHANGED runVars
  <2>1. \A t \in Threads : SectionOf(t)'
    BY <1>1, SectionStays DEF runVars, lockVars, CommitInv
  <2> QED BY <1>1, <2>1 DEF runVars, lockVars, vars, CommitInv, Arena
<1>2. ASSUME NEW t \in Threads, BeginCall(t) \/ Enter(t) \/ Body(t)
      PROVE  CommitInv'
  <2>1. \A u \in Threads : SectionOf(u)'
    BY <1>2, OwnSection, OtherSections
  <2>2. CASE Leave(t)
    <3>1. /\ allocations' = allocations /\ used' = used
          /\ writers' = writers \ {t}
          /\ committed' = IF t \in writers THEN Arena ELSE committed
      BY <2>2 DEF Leave, vars, Arena
    <3>2. KeysInv /\ writers \subseteq Threads
      BY DEF LockInv, LockTypeOK
    <3> QED BY <2>1, <3>1, <3>2 DEF CommitInv, Arena, KeysInv
  <2>3. CASE ~ Leave(t)
    <3>1. committed' = committed
      BY <1>2, <2>3 DEF BeginCall, Begin, Enter, Body, Find, Read, Emplace,
                        Bump, EraseFound
    <3>2. writers' = {} => writers = {} /\ UNCHANGED vars
      <4>1. CASE BeginCall(t) \/ Enter(t)
        BY <4>1 DEF BeginCall, Begin, Enter, lockVars
      <4>2. CASE Body(t)
        <5>1. writers' = writers
          BY <2>3, <4>2 DEF Body, Find, Read, Emplace, Bump, EraseFound, lockVars
        <5>2. t \in writers \/ UNCHANGED vars
          <6>1. call[t].at \in {"emplace", "bump", "erase"} => t \in writers
            BY DEF LockInv, PointsInv, MutexInv, Inside
          <6> QED
            BY <2>3, <4>2, <6>1
            DEF Body, Find, Read, Emplace, Bump, EraseFound, At
        <5> QED BY <5>1, <5>2
      <4> QED BY <1>2, <4>1, <4>2
    <3> QED BY <2>1, <3>1, <3>2 DEF CommitInv, Arena, vars
  <2> QED BY <2>2, <2>3
<1> QED BY <1>1, <1>2 DEF LockNext

(* So the invariant holds always. *)
LEMMA CommitInvAlways == LockSpec => []CommitInv
BY LockInvAlways, CommitInvInit, CommitInvStep, PTL DEF LockSpec

(* The section that ends has done what the call does in one step. *)
LEMMA SectionPerforms ==
  ASSUME LockInv, CommitInv, NEW t \in Threads, t \in writers, Leave(t)
  PROVE  IF Refuses(call[t])
         THEN call[t].answer = 0 /\ UNCHANGED committed
         ELSE Performs(call[t])
<1> DEFINE c == call[t]
<1>1. /\ c.at = "leave" /\ committed' = Arena
      /\ committed'.allocations = allocations /\ committed'.used = used
      /\ UNCHANGED registryVars
  BY DEF Leave, At, Arena, vars, registryVars
<1>2. SectionOf(t)
  BY DEF CommitInv
<1> HIDE DEF c
<1>3. ASSUME Holds(c)
      PROVE  \E old \in committed.allocations :
               Atomic!AllocationAt(c.ptr) = {old} /\ c.found = {old}
  <2>1. PICK old \in committed.allocations : old \in c.found /\ old.base = c.ptr
    BY <1>3 DEF Holds, Atomic!AllocationAt
  <2>2. \A a \in Atomic!AllocationAt(c.ptr) : a = old
    BY <2>1 DEF CommitInv, Atomic!AllocationAt
  <2> QED BY <1>3, <2>1, <2>2 DEF Holds
<1>4. CASE Refuses(c) /\ c.answer = 0 /\ committed = Arena
  BY <1>1, <1>4 DEF c
<1>5. CASE Erased(c)
  <2>1. PICK old \in committed.allocations :
          Atomic!AllocationAt(c.ptr) = {old} /\ c.found = {old}
    BY <1>3, <1>5 DEF Erased
  <2>2. Atomic!Erase(old)
    BY <1>1, <1>5, <2>1 DEF Erased, Atomic!Erase, Atomic!registryVars, registryVars
  <2>3. ~ Refuses(c)
    BY <1>5, <2>1 DEF Erased, Refuses
  <2>4. Performs(c)
    BY <1>5, <2>1, <2>2 DEF Erased, Performs, Atomic!Release, Atomic!Reallocate
  <2> QED BY <2>3, <2>4 DEF c
<1>6. CASE Replaced(c) /\ c.op = "reallocate"
  <2>1. PICK old \in committed.allocations :
          Atomic!AllocationAt(c.ptr) = {old} /\ c.found = {old}
    BY <1>3, <1>6 DEF Replaced
  <2>2. Granted(c) = Atomic!NewAllocation(c.size, old.type_hash, old.site_id)
    BY <1>6, <2>1 DEF Granted
  <2>3. /\ Atomic!CanAllocate(c.size) /\ c.size # 0
        /\ committed'.allocations =
             (committed.allocations
               \cup {Atomic!NewAllocation(c.size, old.type_hash, old.site_id)})
             \ {old}
        /\ committed'.used = committed.used + Atomic!AlignedSize(c.size)
    BY <1>1, <1>6, <2>1, <2>2
    DEF Replaced, Atomic!AlignedSize, AlignedSize, Atomic!Wrap, Wrap,
        Atomic!kAlignment, kAlignment
  <2>4. Atomic!Reallocate(c.ptr, c.size)
    BY <1>1, <2>1, <2>3 DEF Atomic!Reallocate, Atomic!registryVars, registryVars
  <2>5. ~ Refuses(c)
    BY <1>6, <2>1 DEF Replaced, Refuses
  <2>6. Performs(c)
    BY <1>6, <2>4 DEF Replaced, Performs
  <2> QED BY <2>5, <2>6 DEF c
<1>7. CASE Replaced(c) /\ c.op = "allocate_from_site"
  <2>1. /\ site_types[c.site_id] # NoHash /\ Atomic!CanAllocate(c.size)
        /\ committed'.allocations =
             committed.allocations
               \cup {Atomic!NewAllocation(c.size, site_types[c.site_id], c.site_id)}
        /\ committed'.used = committed.used + Atomic!AlignedSize(c.size)
    BY <1>1, <1>7
    DEF Replaced, Granted, Atomic!AlignedSize, AlignedSize, Atomic!Wrap, Wrap,
        Atomic!kAlignment, kAlignment
  <2>2. Atomic!AllocateFromSite(c.size, c.site_id)
    BY <1>1, <2>1 DEF Atomic!AllocateFromSite, Atomic!AllocateWithHash,
                      Atomic!registryVars, registryVars
  <2>3. ~ Refuses(c)
    BY <1>7, <2>1 DEF Refuses
  <2>4. Performs(c)
    BY <1>7, <2>2 DEF Replaced, Performs
  <2> QED BY <2>3, <2>4 DEF c
<1> QED BY <1>1, <1>2, <1>4, <1>5, <1>6, <1>7 DEF SectionOf, Replaced, c

-----------------------------------------------------------------------------
(* The results. *)

(* The arena and the locals of every call keep their types, also between   *)
(* the two statements of an allocation (runtime.h, every method).          *)
THEOREM LockTypeCorrect == LockSpec => []LockTypeOK
<1>1. LockInv => LockTypeOK
  BY DEF LockInv
<1> QED BY <1>1, LockInvAlways, PTL

(* No thread reads, copies or erases a node that another thread has erased *)
(* (mu_ is held from the search to the last use of what it found).         *)
THEOREM NoDanglingIterators == LockSpec => []NoDanglingIterator
<1>1. LockInv => NoDanglingIterator
  BY DEF LockInv, FoundInv, NoDanglingIterator, Search, FindAllocation, AllocationAt
<1> QED BY <1>1, LockInvAlways, PTL

(* When check or allocation_size returns, its answer is the one that the   *)
(* call gives in one step at that moment.                                  *)
THEOREM QueriesAreAtomic == LockSpec => []AnswersAreAtomic
<1>1. LockInv => AnswersAreAtomic
  BY DEF LockInv
<1> QED BY <1>1, LockInvAlways, PTL

(* What a critical section has done to the arena when the lock is given    *)
(* back is what the call does in one step of InterspecRuntime, and nothing *)
(* else changes the arena: every number of threads and calls, the two      *)
(* statements of an allocation and the three of a reallocation included    *)
(* (allocate_from_site, release and reallocate of runtime.h).              *)
THEOREM SectionsAreAtomic == LockSpec => CallsAreAtomic
<1>1. ASSUME LockInv, CommitInv, [LockNext]_runVars
      PROVE  IF \E t \in Threads : t \in writers /\ t \notin writers'
             THEN \A t \in writers \ writers' :
                    IF Refuses(call[t])
                    THEN call[t].answer = 0 /\ UNCHANGED committed
                    ELSE Performs(call[t])
             ELSE UNCHANGED committed
  <2>1. CASE UNCHANGED runVars
    BY <2>1 DEF runVars, lockVars, LockInv, LockTypeOK
  <2>2. ASSUME NEW u \in Threads, BeginCall(u) \/ Enter(u) \/ Body(u), ~ Leave(u)
        PROVE  committed' = committed /\ writers \subseteq writers'
    BY <2>2 DEF BeginCall, Begin, Enter, Body, Find, Read, Emplace, Bump,
                EraseFound, lockVars
  <2>3. ASSUME NEW u \in Threads, Leave(u)
        PROVE  /\ writers \ writers' = IF u \in writers THEN {u} ELSE {}
               /\ u \notin writers => committed' = committed
    BY <2>3 DEF Leave
  <2> QED BY <1>1, <2>1, <2>2, <2>3, SectionPerforms DEF LockNext
<1> QED
  BY <1>1, LockInvAlways, CommitInvAlways, PTL DEF LockSpec, CallsAreAtomic

(* The sizes of the calls in progress are ones that callers ask for. *)
AskedFor ==
  \A t \in Threads :
    call[t].op \in {"allocate_from_site", "reallocate"} => call[t].size \in Sizes

(* An answer is always to a call that the thread has made. *)
LEMMA AskedForStep == LockInv /\ AskedFor /\ [LockNext]_runVars => AskedFor'
<1> SUFFICES ASSUME LockInv, AskedFor, [LockNext]_runVars PROVE AskedFor'
  OBVIOUS
<1>1. CASE UNCHANGED runVars
  BY <1>1 DEF runVars, AskedFor
<1>2. ASSUME NEW t \in Threads, BeginCall(t) \/ Enter(t) \/ Body(t)
      PROVE  AskedFor'
  <2>1. \A u \in Threads : u # t => call'[u] = call[u]
    BY <1>2, CallMoves DEF LockInv
  <2>2. call \in [Threads -> Call]
    BY DEF LockInv, LockTypeOK
  <2>3. CASE BeginCall(t)
    BY <2>1, <2>2, <2>3 DEF BeginCall, Begin, AskedFor
  <2>4. CASE Leave(t)
    BY <2>1, <2>2, <2>4 DEF Leave, NoCall, AskedFor
  <2>5. ASSUME call'[t].op = call[t].op, call'[t].size = call[t].size
        PROVE  AskedFor'
    BY <2>1, <2>5 DEF AskedFor
  <2>6. CASE Enter(t)
    BY <2>2, <2>5, <2>6 DEF Enter, Goto, Call
  <2>7. CASE Find(t)
    BY <2>2, <2>5, <2>7 DEF Find, Return, ReturnVerdict, Call
  <2>8. CASE Read(t)
    <3>1. \/ \E answer : Return(t, answer)
          \/ \E verdict : ReturnVerdict(t, verdict)
      BY <2>8 DEF Read
    <3> QED BY <2>2, <2>5, <3>1 DEF Return, ReturnVerdict, Call
  <2>9. CASE Emplace(t)
    <3>1. \/ Return(t, 0)
          \/ \E base : call' = [call EXCEPT ![t].at = "bump", ![t].answer = base]
      BY <2>9 DEF Emplace
    <3> QED BY <2>2, <2>5, <3>1 DEF Return, Call
  <2>10. CASE Bump(t)
    BY <2>2, <2>5, <2>10 DEF Bump, Goto, Call
  <2>11. CASE EraseFound(t)
    BY <2>2, <2>5, <2>11 DEF EraseFound, Return, Call
  <2> QED
    BY <1>2, <2>3, <2>4, <2>6, <2>7, <2>8, <2>9, <2>10, <2>11 DEF Body
<1> QED BY <1>1, <1>2 DEF LockNext

(* The arena that the writers leave behind moves only by steps of the      *)
(* runtime whose calls are single steps, so what is proved of its steps    *)
(* holds of what threads see between two critical sections.                *)
THEOREM LockedRuntimeRefines == LockSpec => [][Atomic!Next]_Atomic!vars
<1>1. ASSUME LockInv, CommitInv, AskedFor, [LockNext]_runVars
      PROVE  [Atomic!Next]_Atomic!vars
  <2>1. UNCHANGED registryVars
    BY <1>1 DEF LockNext, runVars, BeginCall, Begin, Enter, Body, Find, Read,
                Emplace, Bump, EraseFound, Leave, vars, registryVars
  <2>2. CASE committed' = committed
    BY <2>1, <2>2 DEF Atomic!vars, registryVars
  <2>3. CASE committed' # committed
    <3>1. PICK t \in Threads : Leave(t) /\ t \in writers
      BY <1>1, <2>3 DEF LockNext, runVars, BeginCall, Begin, Enter, Body, Find, Read,
                  Emplace, Bump, EraseFound, Leave
    <3>2. Performs(call[t])
      BY <1>1, <2>3, <3>1, SectionPerforms
    <3>3. call[t].ptr \in Words /\ call[t].site_id \in SiteIds /\ call[t].op \in Ops
      BY <1>1 DEF LockInv, LockTypeOK, Call
    <3>4. call[t].op \in {"release", "reallocate", "allocate_from_site"}
      BY <1>1, <3>1, <3>3 DEF LockInv, MutexInv, Exclusive, Ops, Queries
    <3>5. CASE call[t].op = "release"
      <4>1. Atomic!Release(call[t].ptr)
        BY <3>2, <3>5 DEF Performs
      <4> QED BY <3>3, <4>1 DEF Atomic!Next, Atomic!Words, Words
    <3>6. CASE call[t].op = "reallocate"
      <4>1. Atomic!Reallocate(call[t].ptr, call[t].size)
        BY <3>2, <3>6 DEF Performs
      <4>2. call[t].size \in Sizes
        BY <1>1, <3>6 DEF AskedFor
      <4> QED BY <3>3, <4>1, <4>2 DEF Atomic!Next, Atomic!Words, Words
    <3>7. CASE call[t].op = "allocate_from_site"
      <4>1. Atomic!AllocateFromSite(call[t].size, call[t].site_id)
        BY <3>2, <3>7 DEF Performs
      <4>2. call[t].size \in Sizes
        BY <1>1, <3>7 DEF AskedFor
      <4> QED BY <3>3, <4>1, <4>2 DEF Atomic!Next
    <3> QED BY <3>4, <3>5, <3>6, <3>7
  <2> QED BY <2>2, <2>3
<1>2. LockInit => AskedFor
  BY DEF LockInit, NoCall, AskedFor
<1>3. LockSpec => []AskedFor
  BY <1>2, AskedForStep, LockInvAlways, PTL DEF LockSpec
<1> QED BY <1>1, <1>3, LockInvAlways, CommitInvAlways, PTL DEF LockSpec
=============================================================================
