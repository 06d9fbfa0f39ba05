---------------------------- MODULE QueueProofs ----------------------------
(***************************************************************************)
(* Proofs about the two queues of xyne-claw's runs.                        *)
(*                                                                         *)
(* AgentRunQueue: its types, that the runs at work are never more than the *)
(* slots while nothing worse than crashes happens, and that a run whose    *)
(* request was answered is in exactly one place.                           *)
(*                                                                         *)
(* ConversationQueue: its types with the cap of the FIFO, that the slot    *)
(* lets one run be active, that a set marker has something coming to it,   *)
(* and that no message is lost on its way.                                 *)
(***************************************************************************)
EXTENDS AgentRunQueue, ConversationQueue, SequenceTheorems, FiniteSetTheorems, TLAPS

-----------------------------------------------------------------------------
(* Types *)

\* what a drainer that has a run remembers of it
AgentHands ==
    \A p \in Processes :
        /\ at[p] \in {"dispatching", "requeueing"} => taken[p] \in Tasks
        /\ at[p] = "requeueing" => tries[p] + 1 \in 0 .. MaxTries - 1
AgentTypeInv == AgentTypeOK /\ AgentHands

LEMMA AgentInitTypes == AgentInit => AgentTypeInv
<1> SUFFICES ASSUME AgentInit PROVE AgentTypeInv
  OBVIOUS
<1>1. 0 \in 0 .. MaxTries - 1 /\ 0 \in 0 .. MaxMishaps /\ <<>> \in Seq(Tasks)
  BY AgentAssumption
<1> QED BY <1>1 DEF AgentInit, AgentTypeInv, AgentTypeOK, AgentHands

LEMMA MishapTyped ==
    ASSUME AgentTypeInv, NEW kind, Mishap(kind)
    PROVE  mishaps' \in 0 .. MaxMishaps /\ happened' \subseteq Mishaps
<1>1. mishaps \in 0 .. MaxMishaps /\ happened \subseteq Mishaps
  BY DEF AgentTypeInv, AgentTypeOK
<1>2. mishaps' \in 0 .. MaxMishaps
  BY <1>1, AgentAssumption DEF Mishap
<1> QED BY <1>1, <1>2 DEF Mishap

\* The outcomes of a dispatch keep the types.
LEMMA OutcomeTyped ==
    ASSUME AgentTypeInv, NEW r \in Tasks, Took(r) \/ Failed(r)
    PROVE  /\ work' \in [Tasks -> {"none", "running", "dark", "ended"}]
           /\ mishaps' \in 0 .. MaxMishaps /\ happened' \subseteq Mishaps
BY MishapTyped DEF Took, Failed, Well, AgentTypeInv, AgentTypeOK

LEMMA HandlerTypes ==
    ASSUME AgentTypeInv, NEW r \in Tasks, Handler(r)
    PROVE  AgentTypeInv'
<1>1. CASE Admit(r)
  <2>1. mishaps' \in 0 .. MaxMishaps /\ happened' \subseteq Mishaps
    BY <1>1, MishapTyped DEF Admit, Well, AgentTypeInv, AgentTypeOK
  <2>2. registered' \in BOOLEAN
    BY <1>1 DEF Admit, AgentTypeInv, AgentTypeOK
  <2>3. slots' \subseteq Tasks
    BY <1>1 DEF Admit, AgentTypeInv, AgentTypeOK
  <2>4. ingress' \in [Tasks -> {"new", "held", "refused", "over"}]
    BY <1>1, ZenonT(40) DEF Admit, AgentTypeInv, AgentTypeOK
  <2>5. UNCHANGED <<fifo, payload, work, drainer, fate>>
    BY <1>1 DEF Admit
  <2> QED BY <2>1, <2>2, <2>3, <2>4, <2>5 DEF AgentTypeInv, AgentTypeOK, AgentHands, drainer
<1>2. CASE Enqueue(r)
  <2>1. 0 \in 0 .. MaxTries - 1
    BY AgentAssumption
  <2>2. Append(fifo, r) \in Seq(Tasks)
    BY DEF AgentTypeInv, AgentTypeOK
  <2> QED BY <1>2, <2>1, <2>2 DEF Enqueue, Well, AgentTypeInv, AgentTypeOK, AgentHands, drainer
<1>3. CASE DispatchHeld(r)
  <2>1. Took(r) \/ Failed(r)
    BY <1>3 DEF DispatchHeld
  <2> QED BY <1>3, <2>1, OutcomeTyped DEF DispatchHeld, AgentTypeInv, AgentTypeOK, AgentHands,
     drainer
<1> QED BY <1>1, <1>2, <1>3 DEF Handler

LEMMA DrainTypes ==
    ASSUME AgentTypeInv, NEW p \in Processes, Drain(p)
    PROVE  AgentTypeInv'
<1>0. 0 \in 0 .. MaxTries - 1
  BY AgentAssumption
<1>1. CASE Wake(p)
  BY <1>1 DEF Wake, Go, Well, AgentTypeInv, AgentTypeOK, AgentHands
<1>2. CASE Sweep(p)
  BY <1>2 DEF Sweep, Go, Well, AgentTypeInv, AgentTypeOK, AgentHands
<1>3. CASE Pop(p)
  <2>1. ASSUME NEW i \in Poppable, fifo' = SubSeq(fifo, i + 1, Len(fifo)),
               Go(p, "dispatching"), taken' = [taken EXCEPT ![p] = fifo[i]],
               tries' = [tries EXCEPT ![p] = payload[fifo[i]]],
               slots' = slots \cup {fifo[i]},
               payload' = [payload EXCEPT ![fifo[i]] = Null]
        PROVE  AgentTypeInv'
    <3>1. fifo[i] \in Tasks /\ payload[fifo[i]] \in 0 .. MaxTries - 1
      BY DEF Poppable, Waits, AgentTypeInv, AgentTypeOK
    <3>2. fifo' \in Seq(Tasks)
      BY <2>1 DEF Poppable, AgentTypeInv, AgentTypeOK
    <3> QED BY <1>3, <2>1, <3>1, <3>2, ZenonT(40) DEF Pop, Go, Well, AgentTypeInv, AgentTypeOK, AgentHands
  <2>2. ASSUME fifo' = (IF Cardinality(slots) < MaxConcurrent THEN <<>> ELSE fifo),
               Go(p, "counting"), UNCHANGED <<slots, payload, taken, tries>>
        PROVE  AgentTypeInv'
    <3>1. fifo' \in Seq(Tasks)
      BY <2>2 DEF AgentTypeInv, AgentTypeOK
    <3> QED BY <1>3, <2>2, <3>1 DEF Pop, Go, Well, AgentTypeInv, AgentTypeOK, AgentHands
  <2> QED BY <1>3, <2>1, <2>2 DEF Pop
<1>4. CASE Outcome(p)
  <2>1. taken[p] \in Tasks
    BY <1>4 DEF Outcome, AgentTypeInv, AgentHands
  <2>2. /\ work' \in [Tasks -> {"none", "running", "dark", "ended"}]
        /\ mishaps' \in 0 .. MaxMishaps /\ happened' \subseteq Mishaps
        /\ slots' \subseteq Tasks /\ fate' \subseteq Tasks
    BY <1>4, <2>1, OutcomeTyped
       DEF Outcome, Accepted, Absorbed, HandedOff, PutBack, Dropped, Well, AgentTypeInv, AgentTypeOK
  <2>3. CASE Go(p, "popping") /\ Done(p)
    BY <1>0, <1>4, <2>2, <2>3 DEF Outcome, Go, Done, AgentTypeInv, AgentTypeOK, AgentHands
  <2>4. CASE TriesLeft(p) /\ Go(p, "requeueing") /\ UNCHANGED <<taken, tries>>
    BY <1>4, <2>1, <2>2, <2>4, AgentAssumption
       DEF Outcome, Go, TriesLeft, AgentTypeInv, AgentTypeOK, AgentHands
  <2> QED BY <1>4, <2>3, <2>4 DEF Outcome
<1>5. CASE PutAtHead(p)
  <2>1. taken[p] \in Tasks /\ tries[p] + 1 \in 0 .. MaxTries - 1
    BY <1>5 DEF PutAtHead, AgentTypeInv, AgentHands
  <2>2. fifo' \in Seq(Tasks)
    BY <1>5, <2>1 DEF PutAtHead, AgentTypeInv, AgentTypeOK
  <2> QED BY <1>0, <1>5, <2>1, <2>2
        DEF PutAtHead, Repacked, Go, Done, Well, AgentTypeInv, AgentTypeOK, AgentHands
<1>6. CASE Count(p)
  BY <1>6 DEF Count, Go, Well, AgentTypeInv, AgentTypeOK, AgentHands
<1>7. CASE Leave(p)
  BY <1>7 DEF Leave, Go, Well, AgentTypeInv, AgentTypeOK, AgentHands
<1> QED BY <1>1, <1>2, <1>3, <1>4, <1>5, <1>6, <1>7 DEF Drain

LEMMA AgentNextTypes == ASSUME AgentTypeInv, [AgentNext]_agentVars PROVE AgentTypeInv'
<1>1. ASSUME NEW r \in Tasks, Handler(r) PROVE AgentTypeInv'
  BY <1>1, HandlerTypes
<1>2. ASSUME NEW r \in Tasks, End(r) PROVE AgentTypeInv'
  BY <1>2 DEF End, Well, AgentTypeInv, AgentTypeOK, AgentHands, drainer
<1>3. ASSUME NEW r \in Tasks, Lapse(r) PROVE AgentTypeInv'
  BY <1>3, MishapTyped DEF Lapse, AgentTypeInv, AgentTypeOK, AgentHands, drainer
<1>4. ASSUME NEW r \in Tasks, Resend(r) PROVE AgentTypeInv'
  BY <1>4, MishapTyped DEF Resend, AgentTypeInv, AgentTypeOK, AgentHands, drainer
<1>5. ASSUME NEW r \in Tasks, Abandon(r) PROVE AgentTypeInv'
  BY <1>5, MishapTyped DEF Abandon, AgentTypeInv, AgentTypeOK, AgentHands, drainer
<1>6. ASSUME NEW p \in Processes, Drain(p) PROVE AgentTypeInv'
  BY <1>6, DrainTypes
<1>7. ASSUME NEW p \in Processes, DrainerEnds(p) PROVE AgentTypeInv'
  BY <1>7, AgentAssumption, MishapTyped DEF DrainerEnds, Go, Done, AgentTypeInv, AgentTypeOK,
     AgentHands
<1>8. ASSUME UNCHANGED agentVars PROVE AgentTypeInv'
  BY <1>8 DEF agentVars, AgentTypeInv, AgentTypeOK, AgentHands, drainer
<1> QED BY <1>1, <1>2, <1>3, <1>4, <1>5, <1>6, <1>7, <1>8 DEF AgentNext

\* The state keeps its types: a run in a drainer's hands is a run, and a run
\* pushed back has tries left.
THEOREM AgentTypesKept == AgentSpec => []AgentTypeOK
<1>1. AgentSpec => []AgentTypeInv
  BY AgentInitTypes, AgentNextTypes, PTL DEF AgentSpec
<1> QED BY <1>1, PTL DEF AgentTypeInv

-----------------------------------------------------------------------------
(* The bound *)

Safe == happened \subseteq {"crash"}

InHands(r) == \E p \in Processes : Carries(p, r) \/ Requeues(p, r)

\* no handler and no drainer will do anything with r any more
Spent(r) == ingress[r] = "over" /\ ~Waits(r) /\ ~InHands(r) /\ ~AtWork(r)

Undecided(r) == ingress[r] \in {"new", "refused"} =>
    r \notin slots /\ ~Waits(r) /\ ~InHands(r) /\ work[r] = "none"
HeldRun(r) == ingress[r] = "held" =>
    r \in slots /\ ~Waits(r) /\ ~InHands(r) /\ work[r] = "none"
Carried(r) == \A p \in Processes :
    /\ Carries(p, r) => r \in slots /\ ~Waits(r) /\ work[r] = "none"
    /\ Requeues(p, r) => r \notin slots /\ ~Waits(r) /\ work[r] = "none"
\* no two drainers have r in hands
Apart(r) == \A p, q \in Processes :
    (Carries(p, r) \/ Requeues(p, r)) /\ (Carries(q, r) \/ Requeues(q, r)) => p = q
Queued(r) == Waits(r) => r \notin slots /\ work[r] = "none"
Working(r) == work[r] # "dark" /\ (work[r] = "running" => r \in slots)
\* a verdict about to be carried out is still right
Judged(r) == \A p \in Processes : at[p] = "settling" /\ r \in settled[p] => Spent(r)

RunInv(r) == /\ Undecided(r) /\ HeldRun(r) /\ Carried(r) /\ Apart(r)
             /\ Queued(r) /\ Working(r) /\ Judged(r)
CapInv == Cardinality(slots) <= MaxConcurrent /\ \A r \in Tasks : RunInv(r)

LEMMA SlotsFinite ==
    ASSUME AgentTypeInv
    PROVE  IsFiniteSet(slots) /\ Cardinality(slots) \in Nat
BY AgentAssumption, FS_Subset, FS_CardinalityType DEF AgentTypeInv, AgentTypeOK

\* Taking a slot that is free, or giving slots back, keeps the count.
LEMMA SlotTaken ==
    ASSUME AgentTypeInv, CapInv, NEW r \in Tasks, slots' = slots \cup {r},
           r \in slots \/ Cardinality(slots) < MaxConcurrent
    PROVE  Cardinality(slots') <= MaxConcurrent
<1>1. Cardinality(slots \cup {r}) =
        IF r \in slots THEN Cardinality(slots) ELSE Cardinality(slots) + 1
  BY SlotsFinite, FS_AddElement
<1> QED BY <1>1, AgentAssumption, SlotsFinite DEF CapInv

LEMMA SlotsGivenBack ==
    ASSUME AgentTypeInv, CapInv, slots' \subseteq slots
    PROVE  Cardinality(slots') <= MaxConcurrent
<1>1. Cardinality(slots') <= Cardinality(slots) /\ Cardinality(slots') \in Nat
  BY SlotsFinite, FS_Subset, FS_CardinalityType
<1> QED BY <1>1, AgentAssumption, SlotsFinite DEF CapInv

LEMMA InitCap == AgentInit => CapInv
<1> SUFFICES ASSUME AgentInit PROVE CapInv
  OBVIOUS
<1>1. Cardinality(slots) <= MaxConcurrent
  BY AgentAssumption, FS_EmptySet DEF AgentInit
<1>2. ASSUME NEW r \in Tasks PROVE RunInv(r)
  BY DEF AgentInit, RunInv, Undecided, HeldRun, Carried, Apart, Queued, Working, Judged,
         InHands, Waits, Carries, Requeues, AtWork
<1> QED BY <1>1, <1>2 DEF CapInv

LEMMA AdmitCap ==
    ASSUME AgentTypeInv, CapInv, NEW r \in Tasks, Admit(r), "outage" \notin happened'
    PROVE  CapInv'
<1>1. CASE Admits(r) /\ slots' = slots \cup {r} /\ ingress' = [ingress EXCEPT ![r] = "held"]
  <2>1. Cardinality(slots') <= MaxConcurrent
    BY <1>1, SlotTaken DEF Admits
  <2>2. ASSUME NEW s \in Tasks PROVE RunInv(s)'
    BY <1>1 DEF Admit, drainer, AgentTypeInv, AgentTypeOK, CapInv, RunInv, Undecided, HeldRun,
       Carried,
       Apart, Queued, Working, Judged, Spent, InHands, Waits, Carries, Requeues, AtWork
  <2> QED BY <2>1, <2>2 DEF CapInv
<1>2. CASE UNCHANGED slots /\ ingress' = [ingress EXCEPT ![r] = "refused"]
  BY <1>2 DEF Admit, drainer, AgentTypeInv, AgentTypeOK, CapInv, RunInv, Undecided, HeldRun,
     Carried,
       Apart, Queued, Working, Judged, Spent, InHands, Waits, Carries, Requeues, AtWork
<1> QED BY <1>1, <1>2 DEF Admit, Mishap

LEMMA EnqueueCap ==
    ASSUME AgentTypeInv, CapInv, NEW r \in Tasks, Enqueue(r)
    PROVE  CapInv'
<1>1. UNCHANGED slots
  BY DEF Enqueue
<1>2. ASSUME NEW s \in Tasks PROVE RunInv(s)'
  BY DEF Enqueue, Known, drainer, AgentTypeInv, AgentTypeOK, CapInv, RunInv, Undecided, HeldRun,
     Carried,
       Apart, Queued, Working, Judged, Spent, InHands, Waits, Carries, Requeues, AtWork
<1> QED BY <1>1, <1>2 DEF CapInv

LEMMA DispatchCap ==
    ASSUME AgentTypeInv, CapInv, NEW r \in Tasks, DispatchHeld(r),
           "unrecorded" \notin happened', "unanswered" \notin happened'
    PROVE  CapInv'
<1>1. Cardinality(slots') <= MaxConcurrent
  BY SlotsGivenBack DEF DispatchHeld
<1>2. CASE work' = [work EXCEPT ![r] = "running"] /\ UNCHANGED slots
  <2>1. ASSUME NEW s \in Tasks PROVE RunInv(s)'
    BY <1>2 DEF DispatchHeld, drainer, AgentTypeInv, AgentTypeOK, CapInv, RunInv, Undecided,
       HeldRun, Carried,
       Apart, Queued, Working, Judged, Spent, InHands, Waits, Carries, Requeues, AtWork
  <2> QED BY <1>1, <2>1 DEF CapInv
<1>3. CASE UNCHANGED work /\ slots' = slots \ {r}
  <2>1. ASSUME NEW s \in Tasks PROVE RunInv(s)'
    BY <1>3 DEF DispatchHeld, drainer, AgentTypeInv, AgentTypeOK, CapInv, RunInv, Undecided,
       HeldRun, Carried,
       Apart, Queued, Working, Judged, Spent, InHands, Waits, Carries, Requeues, AtWork
  <2> QED BY <1>1, <2>1 DEF CapInv
<1> QED BY <1>2, <1>3 DEF DispatchHeld, Took, Failed, Mishap

LEMMA WakeCap ==
    ASSUME AgentTypeInv, CapInv, NEW p \in Processes, Wake(p)
    PROVE  CapInv'
<1>1. ASSUME NEW s \in slots, Settled(s) PROVE Spent(s)
  BY <1>1 DEF Settled, InDispatch, AgentTypeInv, AgentTypeOK, CapInv, RunInv, Undecided, HeldRun,
     Carried,
       Apart, Queued, Working, Judged, Spent, InHands, Waits, Carries, Requeues, AtWork
<1>2. ASSUME NEW s \in Tasks, Spent(s) PROVE Spent(s)'
  BY <1>2 DEF Wake, Go, AgentTypeInv, AgentTypeOK, CapInv, RunInv, Undecided, HeldRun, Carried,
       Apart, Queued, Working, Judged, Spent, InHands, Waits, Carries, Requeues, AtWork
<1>3. ASSUME NEW s \in Tasks PROVE Judged(s)'
  <2>1. ASSUME NEW q \in Processes, at'[q] = "settling", s \in settled'[q] PROVE Spent(s)
    BY <1>1, <2>1 DEF Wake, Go, AgentTypeInv, AgentTypeOK, CapInv, RunInv, Judged
  <2> QED BY <1>2, <2>1 DEF Judged
<1>4. ASSUME NEW s \in Tasks PROVE RunInv(s)'
  BY <1>3 DEF Wake, Go, AgentTypeInv, AgentTypeOK, CapInv, RunInv, Undecided, HeldRun, Carried,
       Apart, Queued, Working, Judged, Spent, InHands, Waits, Carries, Requeues, AtWork
<1> QED BY <1>4 DEF CapInv, Wake

LEMMA SweepCap ==
    ASSUME AgentTypeInv, CapInv, NEW p \in Processes, Sweep(p)
    PROVE  CapInv'
<1>1. Cardinality(slots') <= MaxConcurrent
  BY SlotsGivenBack DEF Sweep
<1>2. ASSUME NEW s \in Tasks PROVE RunInv(s)'
  BY DEF Sweep, Go, AgentTypeInv, AgentTypeOK, CapInv, RunInv, Undecided, HeldRun, Carried,
       Apart, Queued, Working, Judged, Spent, InHands, Waits, Carries, Requeues, AtWork
<1> QED BY <1>1, <1>2 DEF CapInv

LEMMA PopCap ==
    ASSUME AgentTypeInv, CapInv, NEW p \in Processes, Pop(p)
    PROVE  CapInv'
<1>1. ASSUME Cardinality(slots) < MaxConcurrent, NEW i \in Poppable,
             Go(p, "dispatching"), taken' = [taken EXCEPT ![p] = fifo[i]],
             slots' = slots \cup {fifo[i]},
             payload' = [payload EXCEPT ![fifo[i]] = Null]
      PROVE  CapInv'
  <2>1. fifo[i] \in Tasks /\ Waits(fifo[i])
    BY DEF Poppable, AgentTypeInv, AgentTypeOK
  <2>2. Cardinality(slots') <= MaxConcurrent
    BY <1>1, <2>1, SlotTaken
  <2>3. ASSUME NEW s \in Tasks PROVE RunInv(s)'
    BY <1>1, <2>1 DEF Pop, Go, AgentTypeInv, AgentTypeOK, CapInv, RunInv, Undecided, HeldRun,
       Carried,
       Apart, Queued, Working, Judged, Spent, InHands, Waits, Carries, Requeues, AtWork
  <2> QED BY <2>2, <2>3 DEF CapInv
<1>2. ASSUME Go(p, "counting"), UNCHANGED <<slots, payload, taken, tries>>
      PROVE  CapInv'
  BY <1>2 DEF Pop, Go, AgentTypeInv, AgentTypeOK, CapInv, RunInv, Undecided, HeldRun, Carried,
       Apart, Queued, Working, Judged, Spent, InHands, Waits, Carries, Requeues, AtWork
<1> QED BY <1>1, <1>2 DEF Pop

LEMMA OutcomeCap ==
    ASSUME AgentTypeInv, CapInv, NEW p \in Processes, Outcome(p),
           "unrecorded" \notin happened', "unanswered" \notin happened'
    PROVE  CapInv'
<1>1. taken[p] \in Tasks /\ at[p] = "dispatching"
  BY DEF Outcome, AgentTypeInv, AgentHands
<1>2. Cardinality(slots') <= MaxConcurrent
  BY SlotsGivenBack DEF Outcome, Accepted, Absorbed, HandedOff, PutBack, Dropped
<1>3. CASE Go(p, "popping") /\ Done(p)
  <2>1. CASE work' = [work EXCEPT ![taken[p]] = "running"] /\ UNCHANGED slots
    <3>1. ASSUME NEW s \in Tasks PROVE RunInv(s)'
      BY <1>1, <1>3, <2>1 DEF Outcome, Go, Done, AgentTypeInv, AgentTypeOK, CapInv, RunInv,
         Undecided, HeldRun, Carried,
       Apart, Queued, Working, Judged, Spent, InHands, Waits, Carries, Requeues, AtWork
    <3> QED BY <1>2, <3>1 DEF CapInv
  <2>2. CASE UNCHANGED work /\ slots' \in {slots, slots \ {taken[p]}}
    <3>1. ASSUME NEW s \in Tasks PROVE RunInv(s)'
      BY <1>1, <1>3, <2>2 DEF Outcome, Go, Done, AgentTypeInv, AgentTypeOK, CapInv, RunInv,
         Undecided, HeldRun, Carried,
       Apart, Queued, Working, Judged, Spent, InHands, Waits, Carries, Requeues, AtWork
    <3> QED BY <1>2, <3>1 DEF CapInv
  <2> QED
    BY <1>3, <2>1, <2>2
       DEF Outcome, Accepted, Absorbed, HandedOff, PutBack, Dropped, Took, Failed, Mishap, Go,
           AgentTypeInv, AgentTypeOK
<1>4. CASE /\ Go(p, "requeueing") /\ UNCHANGED <<taken, tries>>
           /\ UNCHANGED work /\ slots' = slots \ {taken[p]}
  <2>1. ASSUME NEW s \in Tasks PROVE RunInv(s)'
    BY <1>1, <1>4 DEF Outcome, Go, AgentTypeInv, AgentTypeOK, CapInv, RunInv, Undecided, HeldRun,
       Carried,
       Apart, Queued, Working, Judged, Spent, InHands, Waits, Carries, Requeues, AtWork
  <2> QED BY <1>2, <2>1 DEF CapInv
<1> QED BY <1>3, <1>4 DEF Outcome, PutBack, Failed, Mishap

LEMMA RequeueCap ==
    ASSUME AgentTypeInv, CapInv, NEW p \in Processes, PutAtHead(p)
    PROVE  CapInv'
<1>1. taken[p] \in Tasks
  BY DEF PutAtHead, AgentTypeInv, AgentHands
<1>2. ASSUME NEW s \in Tasks PROVE RunInv(s)'
  BY <1>1 DEF PutAtHead, Repacked, Go, Done, AgentTypeInv, AgentTypeOK, CapInv, RunInv, Undecided,
     HeldRun, Carried,
       Apart, Queued, Working, Judged, Spent, InHands, Waits, Carries, Requeues, AtWork
<1> QED BY <1>2 DEF CapInv, PutAtHead

LEMMA DrainCap ==
    ASSUME AgentTypeInv, CapInv, NEW p \in Processes, Drain(p),
           "unrecorded" \notin happened', "unanswered" \notin happened'
    PROVE  CapInv'
<1>1. CASE Count(p) \/ Leave(p)
  BY <1>1, SMTT(30) DEF Count, Leave, Go, AgentTypeInv, AgentTypeOK, CapInv, RunInv, Undecided, HeldRun,
     Carried,
       Apart, Queued, Working, Judged, Spent, InHands, Waits, Carries, Requeues, AtWork
<1> QED BY <1>1, WakeCap, SweepCap, PopCap, OutcomeCap, RequeueCap DEF Drain

LEMMA NextCap ==
    ASSUME AgentTypeInv, Safe => CapInv, [AgentNext]_agentVars, Safe'
    PROVE  CapInv'
<1>1. Safe
  BY DEF Safe, AgentNext, Handler, Admit, Enqueue, DispatchHeld, Took, Failed, End, Lapse, Resend,
         Abandon, Drain, Wake, Sweep, Pop, Outcome, Accepted, Absorbed, HandedOff, PutBack,
         Dropped, PutAtHead, Count, Leave, DrainerEnds, Well, Mishap, agentVars
<1>2. \A kind \in Kinds \ {"crash"} : kind \notin happened'
  BY DEF Safe
<1>3. ASSUME NEW r \in Tasks, Handler(r) PROVE CapInv'
  BY <1>1, <1>2, <1>3, AdmitCap, EnqueueCap, DispatchCap DEF Handler, Kinds
<1>4. ASSUME NEW r \in Tasks, End(r) PROVE CapInv'
  BY <1>1, <1>4 DEF End, drainer, AgentTypeInv, AgentTypeOK, CapInv, RunInv, Undecided, HeldRun,
     Carried,
       Apart, Queued, Working, Judged, Spent, InHands, Waits, Carries, Requeues, AtWork
<1>5. ASSUME NEW r \in Tasks, Abandon(r) PROVE CapInv'
  BY <1>1, <1>5 DEF Abandon, drainer, AgentTypeInv, AgentTypeOK, CapInv, RunInv, Undecided,
     HeldRun, Carried,
       Apart, Queued, Working, Judged, Spent, InHands, Waits, Carries, Requeues, AtWork
<1>6. ASSUME NEW r \in Tasks, Lapse(r) \/ Resend(r) PROVE CapInv'
  BY <1>2, <1>6 DEF Lapse, Resend, Mishap, Kinds
<1>7. ASSUME NEW p \in Processes, Drain(p) PROVE CapInv'
  BY <1>1, <1>2, <1>7, DrainCap DEF Kinds
<1>8. ASSUME NEW p \in Processes, DrainerEnds(p) PROVE CapInv'
  BY <1>1, <1>8 DEF DrainerEnds, Go, Done, AgentTypeInv, AgentTypeOK, CapInv, RunInv, Undecided,
     HeldRun, Carried,
       Apart, Queued, Working, Judged, Spent, InHands, Waits, Carries, Requeues, AtWork
<1>9. ASSUME UNCHANGED agentVars PROVE CapInv'
  BY <1>1, <1>9 DEF agentVars, drainer, AgentTypeInv, AgentTypeOK, CapInv, RunInv, Undecided,
     HeldRun, Carried,
       Apart, Queued, Working, Judged, Spent, InHands, Waits, Carries, Requeues, AtWork
<1> QED BY <1>3, <1>4, <1>5, <1>6, <1>7, <1>8, <1>9 DEF AgentNext

LEMMA CapImplied == ASSUME AgentTypeInv, Safe => CapInv PROVE CapHeld
<1> DEFINE busy == {r \in Tasks : AtWork(r) \/ InDispatch(r)}
<1>1. ASSUME CapInv PROVE busy \subseteq slots
  BY <1>1 DEF CapInv, RunInv, HeldRun, Carried, Working, AtWork, InDispatch, AgentTypeInv,
     AgentTypeOK
<1>2. ASSUME CapInv PROVE Cardinality(busy) <= MaxConcurrent
  <2>1. Cardinality(busy) <= Cardinality(slots) /\ Cardinality(busy) \in Nat
    BY <1>1, <1>2, SlotsFinite, FS_Subset, FS_CardinalityType
  <2> QED BY <1>2, <2>1, AgentAssumption, SlotsFinite DEF CapInv
<1> QED BY <1>2 DEF CapHeld, Safe

\* The runs at work or in dispatch are never more than the slots, while only
\* crashes happen: every busy run holds a slot, and a slot is given back only
\* on a verdict that stays right until it is carried out.
THEOREM SlotsBoundRuns == AgentSpec => []CapHeld
<1>1. AgentInit => AgentTypeInv /\ (Safe => CapInv)
  BY AgentInitTypes, InitCap
<1>2. (AgentTypeInv /\ (Safe => CapInv)) /\ [AgentNext]_agentVars => (AgentTypeInv /\ (Safe => CapInv))'
  BY AgentNextTypes, NextCap
<1>3. AgentTypeInv /\ (Safe => CapInv) => CapHeld
  BY CapImplied
<1> QED BY <1>1, <1>2, <1>3, PTL DEF AgentSpec

-----------------------------------------------------------------------------
(* The list and the hash agree *)

\* What has a payload is on the list: a pop drops only entries that have none.
Matched == \A r \in Tasks : Waits(r) => Listed(r)

LEMMA PopMatches ==
    ASSUME AgentTypeInv, Matched, NEW i \in Poppable, \A j \in Poppable : i <= j,
           payload' = [payload EXCEPT ![fifo[i]] = Null],
           fifo' = SubSeq(fifo, i + 1, Len(fifo))
    PROVE  Matched'
<1>1. /\ fifo \in Seq(Tasks) /\ fifo[i] \in Tasks /\ i \in 1 .. Len(fifo)
      /\ payload \in [Tasks -> 0 .. MaxTries - 1 \cup {Null}]
  BY DEF Poppable, AgentTypeInv, AgentTypeOK
<1>2. ASSUME NEW r \in Tasks, Waits(r)' PROVE Listed(r)'
  <2>1. r # fifo[i] /\ Waits(r)
    BY <1>1, <1>2 DEF Waits
  <2>2. PICK j \in 1 .. Len(fifo) : fifo[j] = r
    BY <2>1 DEF Matched, Listed
  <2>3. j \in Poppable /\ j # i
    BY <2>1, <2>2 DEF Poppable
  <2>4. i <= j /\ i \in Nat /\ j \in Nat /\ Len(fifo) \in Nat /\ j <= Len(fifo) /\ i >= 1
    BY <1>1, <2>2, <2>3
  <2>5. j - i \in 1 .. Len(fifo') /\ fifo'[j - i] = fifo[j]
    BY <1>1, <2>3, <2>4
  <2> QED BY <1>2, <2>2, <2>5 DEF Listed
<1> QED BY <1>2 DEF Matched

LEMMA NextMatched == ASSUME AgentTypeInv, Matched, [AgentNext]_agentVars PROVE Matched'
<1>0. fifo \in Seq(Tasks) /\ payload \in [Tasks -> 0 .. MaxTries - 1 \cup {Null}]
  BY DEF AgentTypeInv, AgentTypeOK
<1>1. ASSUME UNCHANGED <<fifo, payload>> PROVE Matched'
  BY <1>1 DEF Matched, Waits, Listed
<1>2. ASSUME NEW r \in Tasks, Enqueue(r) PROVE Matched'
  <2>1. CASE UNCHANGED <<fifo, payload>>
    BY <1>1, <2>1
  <2>2. CASE payload' = [payload EXCEPT ![r] = 0] /\ fifo' = Append(fifo, r)
    <3>1. /\ 1 .. Len(fifo) \subseteq 1 .. Len(fifo') /\ Len(fifo) + 1 \in 1 .. Len(fifo')
          /\ \A i \in 1 .. Len(fifo) : fifo'[i] = fifo[i]
          /\ fifo'[Len(fifo) + 1] = r
      BY <1>0, <2>2
    <3>2. \A s \in Tasks : Waits(s)' => Waits(s) \/ s = r
      BY <1>0, <2>2 DEF Waits
    <3> QED BY <3>1, <3>2 DEF Matched, Listed
  <2> QED BY <1>2, <2>1, <2>2 DEF Enqueue
<1>3. ASSUME NEW p \in Processes, Pop(p) PROVE Matched'
  <2>1. CASE \E i \in Poppable : /\ \A j \in Poppable : i <= j
                                 /\ payload' = [payload EXCEPT ![fifo[i]] = Null]
                                 /\ fifo' = SubSeq(fifo, i + 1, Len(fifo))
    BY <2>1, PopMatches
  <2>2. CASE UNCHANGED <<payload, fifo>>
    BY <1>1, <2>2
  <2>3. CASE Poppable = {} /\ UNCHANGED payload
    BY <2>3 DEF Poppable, Matched, Waits, Listed
  <2>4. \/ \E i \in Poppable : /\ \A j \in Poppable : i <= j
                               /\ payload' = [payload EXCEPT ![fifo[i]] = Null]
                               /\ fifo' = SubSeq(fifo, i + 1, Len(fifo))
        \/ UNCHANGED <<payload, fifo>>
        \/ Poppable = {} /\ UNCHANGED payload
    <3>1. Cardinality(slots) >= MaxConcurrent => ~(Cardinality(slots) < MaxConcurrent)
      BY SlotsFinite, AgentAssumption
    <3> QED BY <1>3, <3>1 DEF Pop
  <2> QED BY <2>1, <2>2, <2>3, <2>4
<1>4. ASSUME NEW p \in Processes, PutAtHead(p) PROVE Matched'
  <2>1. taken[p] \in Tasks /\ payload' = [payload EXCEPT ![taken[p]] = tries[p] + 1]
        /\ fifo' = <<taken[p]>> \o fifo
    BY <1>4 DEF PutAtHead, Repacked, AgentTypeInv, AgentHands
  <2> DEFINE r == taken[p]
  <2> HIDE DEF r
  <2>2. r \in Tasks /\ payload' = [payload EXCEPT ![r] = tries[p] + 1] /\ fifo' = <<r>> \o fifo
    BY <2>1 DEF r
  <2>3. /\ 1 \in 1 .. Len(fifo') /\ fifo'[1] = r
        /\ \A i \in 1 .. Len(fifo) : i + 1 \in 1 .. Len(fifo') /\ fifo'[i + 1] = fifo[i]
    BY <1>0, <2>2
  <2>4. \A s \in Tasks : Waits(s)' => Waits(s) \/ s = r
    BY <1>0, <2>2 DEF Waits
  <2>5. ASSUME NEW s \in Tasks, Waits(s)' PROVE Listed(s)'
    <3>1. CASE s = r
      BY <2>3, <2>5, <3>1 DEF Listed
    <3>2. CASE s # r
      <4>1. PICK i \in 1 .. Len(fifo) : fifo[i] = s
        BY <2>4, <2>5, <3>2 DEF Matched, Listed
      <4> QED BY <2>3, <2>5, <4>1 DEF Listed
    <3> QED BY <3>1, <3>2
  <2> QED BY <2>5 DEF Matched
<1>5. ASSUME NEW p \in Processes, Drain(p) \/ DrainerEnds(p) PROVE Matched'
  BY <1>1, <1>3, <1>4, <1>5 DEF Drain, Wake, Sweep, Outcome, Count, Leave, DrainerEnds
<1>6. ASSUME NEW r \in Tasks, Handler(r) \/ End(r) \/ Lapse(r) \/ Resend(r) \/ Abandon(r)
      PROVE  Matched'
  BY <1>1, <1>2, <1>6 DEF Handler, Admit, DispatchHeld, End, Lapse, Resend, Abandon
<1> QED BY <1>1, <1>5, <1>6 DEF AgentNext, agentVars

-----------------------------------------------------------------------------
(* Every run in one place *)

Calm == happened \cap {"crash", "resend", "unanswered"} = {}

\* Where a run can be: waiting, left, started, or in a drainer's hands.
Places == {"listed", "left", "started"} \cup Processes
Here(x, r) ==
    \/ x = "listed" /\ Waits(r)
    \/ x = "left" /\ r \in fate
    \/ x = "started" /\ work[r] # "none"
    \/ x \in Processes /\ (Carries(x, r) \/ Requeues(x, r))

\* A run whose request is being handled is nowhere yet, and holds no slot before
\* it is admitted (the enqueue of a refused run would take it for a known one);
\* one whose request was answered is in one place.
Placed(r) ==
    /\ ingress[r] \in {"new", "refused"} => r \notin slots
    /\ ingress[r] # "over" => \A x \in Places : ~Here(x, r)
    /\ ingress[r] = "over" => \E x \in Places : \A y \in Places : Here(y, r) <=> y = x
PlaceInv == AgentTypeInv /\ Matched /\ (Calm => \A r \in Tasks : Placed(r))

LEMMA PlacesApart ==
    /\ "listed" \in Places /\ "left" \in Places /\ "started" \in Places
    /\ "listed" \notin Processes /\ "left" \notin Processes /\ "started" \notin Processes
    /\ Processes \subseteq Places
BY AgentAssumption DEF Places

StaysPut(r) == \A x \in Places : Here(x, r)' <=> Here(x, r)
GoesTo(y, r) == \A x \in Places : Here(x, r)' <=> x = y

LEMMA NobodyMoves ==
    ASSUME \A r \in Tasks : Placed(r), \A r \in Tasks : StaysPut(r),
           \A r \in Tasks : \/ ingress'[r] = ingress[r] /\ (r \in slots' => r \in slots)
                            \/ ingress[r] # "over" /\ ingress'[r] = "held"
                            \/ ingress[r] = "new" /\ ingress'[r] = "refused" /\ r \notin slots'
    PROVE  \A r \in Tasks : Placed(r)'
<1> SUFFICES ASSUME NEW r \in Tasks PROVE Placed(r)'
  OBVIOUS
<1>1. CASE ingress'[r] = ingress[r] /\ (r \in slots' => r \in slots)
  BY <1>1 DEF Placed, StaysPut
<1>2. CASE ingress[r] # "over" /\ ingress'[r] = "held"
  BY <1>2 DEF Placed, StaysPut
<1>3. CASE ingress[r] = "new" /\ ingress'[r] = "refused" /\ r \notin slots'
  BY <1>3 DEF Placed, StaysPut
<1> QED BY <1>1, <1>2, <1>3

LEMMA OneMoves ==
    ASSUME \A r \in Tasks : Placed(r), NEW r \in Tasks, NEW y \in Places, GoesTo(y, r),
           ingress'[r] = "over",
           \A s \in Tasks : s # r => StaysPut(s) /\ ingress'[s] = ingress[s]
                                    /\ (s \in slots' => s \in slots)
    PROVE  \A s \in Tasks : Placed(s)'
<1> SUFFICES ASSUME NEW s \in Tasks PROVE Placed(s)'
  OBVIOUS
<1>1. CASE s = r
  BY <1>1 DEF Placed, GoesTo
<1>2. CASE s # r
  BY <1>2 DEF Placed, StaysPut
<1> QED BY <1>1, <1>2

LEMMA HandlerPlaces ==
    ASSUME PlaceInv, Calm, "unanswered" \notin happened', NEW r \in Tasks, Handler(r)
    PROVE  \A s \in Tasks : Placed(s)'
<1>0. /\ \A s \in Tasks : Placed(s)
      /\ AgentTypeInv /\ ingress \in [Tasks -> {"new", "held", "refused", "over"}]
      /\ work \in [Tasks -> {"none", "running", "dark", "ended"}]
      /\ payload \in [Tasks -> 0 .. MaxTries - 1 \cup {Null}]
  BY DEF PlaceInv, AgentTypeInv, AgentTypeOK
<1>1. CASE Admit(r)
  <2>1. \A s \in Tasks : StaysPut(s)
    BY <1>1 DEF Admit, StaysPut, Here, Waits, Carries, Requeues, drainer
  <2>2. \A s \in Tasks : \/ ingress'[s] = ingress[s] /\ (s \in slots' => s \in slots)
                         \/ ingress[s] # "over" /\ ingress'[s] = "held"
                         \/ ingress[s] = "new" /\ ingress'[s] = "refused" /\ s \notin slots'
    BY <1>0, <1>1 DEF Admit, Admits
  <2> QED BY <1>0, <2>1, <2>2, NobodyMoves
<1>2. CASE Enqueue(r)
  <2>1. /\ ~Known(r) /\ \A x \in Places : ~Here(x, r)
    BY <1>0, <1>2, PlacesApart DEF Enqueue, Placed, Known, Here
  <2>2. /\ ingress' = [ingress EXCEPT ![r] = "over"] /\ UNCHANGED <<slots, work, drainer>>
        /\ \/ fate' = fate \cup {r} /\ UNCHANGED payload
           \/ payload' = [payload EXCEPT ![r] = 0] /\ UNCHANGED fate
    BY <1>2, <2>1 DEF Enqueue
  <2>3. \A s \in Tasks : s # r => StaysPut(s) /\ ingress'[s] = ingress[s]
    BY <1>0, <2>2 DEF StaysPut, Here, Waits, Carries, Requeues, drainer
  <2>4. CASE fate' = fate \cup {r} /\ UNCHANGED payload
    <3>1. GoesTo("left", r)
      BY <2>1, <2>2, <2>4 DEF GoesTo, Here, Waits, Carries, Requeues, drainer
    <3> QED BY <1>0, <2>2, <2>3, <3>1, PlacesApart, OneMoves
  <2>5. CASE payload' = [payload EXCEPT ![r] = 0] /\ UNCHANGED fate
    <3>1. Waits(r)'
      BY <1>0, <2>5, AgentAssumption DEF Waits
    <3>2. GoesTo("listed", r)
      BY <2>1, <2>2, <2>5, <3>1 DEF GoesTo, Here, Waits, Carries, Requeues, drainer
    <3> QED BY <1>0, <2>2, <2>3, <3>2, PlacesApart, OneMoves
  <2> QED BY <2>2, <2>4, <2>5
<1>3. CASE DispatchHeld(r)
  <2>1. \A x \in Places : ~Here(x, r)
    BY <1>0, <1>3 DEF DispatchHeld, Placed
  <2>2. /\ ingress' = [ingress EXCEPT ![r] = "over"] /\ UNCHANGED <<payload, drainer>>
        /\ slots' \subseteq slots
        /\ \/ UNCHANGED fate /\ \E row \in {"running", "dark"} : work' = [work EXCEPT ![r] = row]
           \/ UNCHANGED work /\ fate' = fate \cup {r}
    BY <1>3 DEF DispatchHeld, Took, Failed, Mishap
  <2>3. \A s \in Tasks : s # r => StaysPut(s) /\ ingress'[s] = ingress[s]
    BY <1>0, <2>2 DEF StaysPut, Here, Waits, Carries, Requeues, drainer
  <2>4. CASE UNCHANGED work /\ fate' = fate \cup {r}
    <3>1. GoesTo("left", r)
      BY <2>1, <2>2, <2>4 DEF GoesTo, Here, Waits, Carries, Requeues, drainer
    <3> QED BY <1>0, <2>2, <2>3, <3>1, PlacesApart, OneMoves
  <2>5. CASE UNCHANGED fate /\ \E row \in {"running", "dark"} : work' = [work EXCEPT ![r] = row]
    <3>1. GoesTo("started", r)
      BY <1>0, <2>1, <2>2, <2>5 DEF GoesTo, Here, Waits, Carries, Requeues, drainer
    <3> QED BY <1>0, <2>2, <2>3, <3>1, PlacesApart, OneMoves
  <2> QED BY <2>2, <2>4, <2>5
<1> QED BY <1>1, <1>2, <1>3 DEF Handler

\* What a drainer has in hands is settled with the handler.
LEMMA HandOver ==
    ASSUME \A r \in Tasks : Placed(r), NEW p \in Processes, NEW r \in Tasks,
           Carries(p, r) \/ Requeues(p, r)
    PROVE  ingress[r] = "over" /\ \A x \in Places : Here(x, r) <=> x = p
BY PlacesApart DEF Placed, Here

LEMMA DrainPlaces ==
    ASSUME PlaceInv, Calm, "unanswered" \notin happened', NEW p \in Processes, Drain(p)
    PROVE  \A s \in Tasks : Placed(s)'
<1>0. /\ \A s \in Tasks : Placed(s)
      /\ AgentTypeInv /\ AgentHands
      /\ work \in [Tasks -> {"none", "running", "dark", "ended"}]
      /\ payload \in [Tasks -> 0 .. MaxTries - 1 \cup {Null}]
      /\ at \in [Processes -> {"idle", "settling", "popping", "dispatching",
                               "requeueing", "counting", "leaving"}]
      /\ taken \in [Processes -> Tasks \cup {Null}]
  BY DEF PlaceInv, AgentTypeInv, AgentTypeOK
<1>1. CASE Wake(p) \/ Sweep(p) \/ Count(p) \/ Leave(p)
  <2>1. \A s \in Tasks : StaysPut(s)
    BY <1>0, <1>1 DEF Wake, Sweep, Count, Leave, Go, StaysPut, Here, Waits, Carries, Requeues
  <2>2. ingress' = ingress /\ slots' \subseteq slots
    BY <1>1 DEF Wake, Sweep, Count, Leave
  <2> QED BY <1>0, <2>1, <2>2, NobodyMoves
<1>2. CASE Pop(p)
  <2>1. ASSUME NEW i \in Poppable, Go(p, "dispatching"), taken' = [taken EXCEPT ![p] = fifo[i]],
               slots' = slots \cup {fifo[i]}, payload' = [payload EXCEPT ![fifo[i]] = Null]
        PROVE  \A s \in Tasks : Placed(s)'
    <3>0. fifo[i] \in Tasks /\ Waits(fifo[i])
      BY DEF Poppable, PlaceInv, AgentTypeInv, AgentTypeOK
    <3>1. PICK r \in Tasks : r = fifo[i] /\ Waits(r)
      BY <3>0
    <3>2. /\ Go(p, "dispatching") /\ taken' = [taken EXCEPT ![p] = r]
          /\ slots' = slots \cup {r} /\ payload' = [payload EXCEPT ![r] = Null]
          /\ at[p] = "popping" /\ UNCHANGED <<ingress, work, fate>>
      BY <1>2, <2>1, <3>1 DEF Pop
    <3>3. ingress[r] = "over" /\ \A x \in Places : Here(x, r) => x = "listed"
      BY <1>0, <3>1, PlacesApart DEF Placed, Here
    <3>4. GoesTo(p, r)
      <4>1. Here(p, r)'
        BY <1>0, <3>2 DEF Here, Carries, Go
      <4>2. ~Waits(r)'
        BY <1>0, <3>1, <3>2 DEF Waits
      <4>3. ASSUME NEW x \in Places, x # p, Here(x, r)' PROVE FALSE
        <5>1. \A q \in Processes : q # p => at'[q] = at[q] /\ taken'[q] = taken[q]
          BY <1>0, <3>2 DEF Go
        <5>2. Here(x, r) /\ x # "listed"
          BY <3>2, <4>2, <4>3, <5>1, PlacesApart DEF Here, Carries, Requeues
        <5> QED BY <3>3, <5>2
      <4> QED BY <4>1, <4>3 DEF GoesTo
    <3>5. ASSUME NEW s \in Tasks, s # r PROVE StaysPut(s)
      BY <1>0, <3>2, <3>5 DEF StaysPut, Here, Waits, Carries, Requeues, Go
    <3> QED BY <1>0, <3>1, <3>2, <3>3, <3>4, <3>5, PlacesApart, OneMoves
  <2>2. ASSUME Go(p, "counting"), UNCHANGED <<slots, payload, taken, tries>>
        PROVE  \A s \in Tasks : Placed(s)'
    <3>1. at[p] = "popping" /\ UNCHANGED <<ingress, work, fate>>
      BY <1>2 DEF Pop
    <3>2. \A s \in Tasks : StaysPut(s)
      BY <1>0, <2>2, <3>1 DEF Go, StaysPut, Here, Waits, Carries, Requeues
    <3> QED BY <1>0, <2>2, <3>1, <3>2, NobodyMoves
  <2> QED BY <1>2, <2>1, <2>2 DEF Pop
<1>3. CASE Outcome(p)
  <2>0. taken[p] \in Tasks
    BY <1>0, <1>3 DEF Outcome, AgentHands
  <2>1. PICK r \in Tasks : r = taken[p]
    BY <2>0
  <2>2. at[p] = "dispatching" /\ UNCHANGED <<payload, ingress>>
    BY <1>3 DEF Outcome
  <2>3. ingress[r] = "over" /\ \A x \in Places : Here(x, r) <=> x = p
    BY <1>0, <2>1, <2>2, HandOver DEF Carries
  <2>4. \/ /\ Go(p, "popping") /\ taken' = [taken EXCEPT ![p] = Null]
           /\ UNCHANGED <<fate, slots>>
           /\ \E row \in {"running", "dark"} : work' = [work EXCEPT ![r] = row]
        \/ /\ Go(p, "popping") /\ taken' = [taken EXCEPT ![p] = Null]
           /\ UNCHANGED work /\ fate' = fate \cup {r} /\ slots' \subseteq slots
        \/ /\ Go(p, "requeueing") /\ UNCHANGED <<taken, work, fate>> /\ slots' \subseteq slots
    BY <1>3, <2>1
       DEF Outcome, Accepted, Absorbed, HandedOff, PutBack, Dropped, Took, Failed, Mishap, Done
  <2>5. \A q \in Processes : q # p => at'[q] = at[q] /\ taken'[q] = taken[q]
    BY <1>0, <2>4 DEF Go
  <2>6. \A s \in Tasks : s # r => StaysPut(s)
    <3>1. \A s \in Tasks : s # r =>
            ~Carries(p, s)' /\ ~Requeues(p, s)' /\ ~Carries(p, s) /\ ~Requeues(p, s)
      BY <1>0, <2>1, <2>2, <2>4, AgentAssumption DEF Carries, Requeues, Go
    <3>2. \A s \in Tasks : s # r =>
            work'[s] = work[s] /\ (s \in fate' <=> s \in fate) /\ payload'[s] = payload[s]
      BY <1>0, <2>2, <2>4
    <3> QED BY <2>5, <3>1, <3>2 DEF StaysPut, Here, Waits, Carries, Requeues
  <2>7. ~Waits(r)' /\ \A q \in Processes : q # p => ~Carries(q, r)' /\ ~Requeues(q, r)'
    BY <2>2, <2>3, <2>5, PlacesApart DEF Here, Waits, Carries, Requeues
  <2>8. r \notin fate /\ work[r] = "none"
    BY <2>3, PlacesApart DEF Here
  <2>9. \E y \in Places : GoesTo(y, r)
    <3>1. CASE Go(p, "popping") /\ taken' = [taken EXCEPT ![p] = Null]
      <4>1. \A q \in Processes : ~Carries(q, r)' /\ ~Requeues(q, r)'
        BY <1>0, <2>7, <3>1 DEF Carries, Requeues, Go
      <4>2. CASE UNCHANGED work /\ fate' = fate \cup {r}
        <5>1. GoesTo("left", r)
          BY <2>7, <2>8, <4>1, <4>2, PlacesApart DEF GoesTo, Here
        <5> QED BY <5>1, PlacesApart
      <4>3. CASE UNCHANGED fate /\ \E row \in {"running", "dark"} : work' = [work EXCEPT ![r] = row]
        <5>1. work'[r] # "none"
          BY <1>0, <4>3
        <5>2. GoesTo("started", r)
          BY <2>7, <2>8, <4>1, <4>3, <5>1, PlacesApart DEF GoesTo, Here
        <5> QED BY <5>2, PlacesApart
      <4> QED BY <1>0, <2>4, <3>1, <4>2, <4>3 DEF Go
    <3>2. CASE Go(p, "requeueing") /\ UNCHANGED <<taken, work, fate>>
      <4>1. Requeues(p, r)'
        BY <1>0, <2>1, <3>2 DEF Requeues, Go
      <4>2. GoesTo(p, r)
        BY <2>7, <2>8, <3>2, <4>1, PlacesApart DEF GoesTo, Here
      <4> QED BY <4>2, PlacesApart
    <3> QED BY <2>4, <3>1, <3>2
  <2>10. slots' \subseteq slots
    BY <2>4
  <2> QED BY <1>0, <2>2, <2>3, <2>6, <2>9, <2>10, OneMoves
<1>4. CASE PutAtHead(p)
  <2>0. taken[p] \in Tasks /\ tries[p] + 1 # Null
    BY <1>0, <1>4, AgentAssumption DEF PutAtHead, AgentHands
  <2>1. PICK r \in Tasks : r = taken[p]
    BY <2>0
  <2>2. /\ at[p] = "requeueing" /\ UNCHANGED <<ingress, slots, work, fate>>
        /\ Go(p, "counting") /\ taken' = [taken EXCEPT ![p] = Null]
        /\ payload' = [payload EXCEPT ![r] = tries[p] + 1]
    BY <1>4, <2>1 DEF PutAtHead, Repacked, Done
  <2>3. ingress[r] = "over" /\ \A x \in Places : Here(x, r) <=> x = p
    BY <1>0, <2>1, <2>2, HandOver DEF Requeues
  <2>4. \A q \in Processes : q # p => at'[q] = at[q] /\ taken'[q] = taken[q]
    BY <1>0, <2>2 DEF Go
  <2>5. \A s \in Tasks : s # r => StaysPut(s)
    <3>1. \A s \in Tasks : s # r =>
            ~Carries(p, s)' /\ ~Requeues(p, s)' /\ ~Carries(p, s) /\ ~Requeues(p, s)
      BY <1>0, <2>1, <2>2 DEF Carries, Requeues, Go
    <3>2. \A s \in Tasks : s # r => payload'[s] = payload[s]
      BY <1>0, <2>2
    <3> QED BY <2>2, <2>4, <3>1, <3>2 DEF StaysPut, Here, Waits, Carries, Requeues
  <2>6. GoesTo("listed", r)
    <3>1. Waits(r)'
      BY <1>0, <2>0, <2>2 DEF Waits
    <3>2. \A q \in Processes : ~Carries(q, r)' /\ ~Requeues(q, r)'
      <4>1. ~Carries(p, r)' /\ ~Requeues(p, r)'
        BY <1>0, <2>2 DEF Carries, Requeues, Go
      <4> QED BY <2>3, <2>4, <4>1, PlacesApart DEF Here, Carries, Requeues
    <3>3. r \notin fate /\ work[r] = "none"
      BY <2>3, PlacesApart DEF Here
    <3> QED BY <2>2, <3>1, <3>2, <3>3, PlacesApart DEF GoesTo, Here
  <2> QED BY <1>0, <2>2, <2>3, <2>5, <2>6, PlacesApart, OneMoves
<1> QED BY <1>1, <1>2, <1>3, <1>4 DEF Drain

LEMMA NextPlaces == ASSUME PlaceInv, [AgentNext]_agentVars PROVE PlaceInv'
<1>1. AgentTypeInv' /\ Matched'
  BY AgentNextTypes, NextMatched DEF PlaceInv
<1>2. ASSUME Calm' PROVE \A s \in Tasks : Placed(s)'
  <2>1. Calm /\ \A kind \in {"crash", "resend", "unanswered"} : kind \notin happened'
    BY <1>2
       DEF Calm, AgentNext, Handler, Admit, Enqueue, DispatchHeld, Took, Failed, End, Lapse, Resend,
           Abandon, Drain, Wake, Sweep, Pop, Outcome, Accepted, Absorbed, HandedOff, PutBack,
           Dropped, PutAtHead, Count, Leave, DrainerEnds, Well, Mishap, agentVars
  <2>2. /\ \A s \in Tasks : Placed(s)
        /\ work \in [Tasks -> {"none", "running", "dark", "ended"}]
    BY <2>1 DEF PlaceInv, AgentTypeInv, AgentTypeOK
  <2>3. ASSUME NEW r \in Tasks, End(r) PROVE \A s \in Tasks : Placed(s)'
    <3>1. UNCHANGED <<slots, payload, ingress, drainer, fate>>
      BY <2>3 DEF End
    <3>2. \A s \in Tasks : work'[s] # "none" <=> work[s] # "none"
      BY <2>2, <2>3 DEF End, AtWork
    <3>3. \A s \in Tasks : StaysPut(s)
      BY <3>1, <3>2 DEF StaysPut, Here, Waits, Carries, Requeues, drainer
    <3> QED BY <2>2, <3>1, <3>3, NobodyMoves
  <2>4. ASSUME NEW r \in Tasks, Lapse(r) PROVE \A s \in Tasks : Placed(s)'
    <3>1. slots' \subseteq slots /\ UNCHANGED <<payload, ingress, work, drainer, fate>>
      BY <2>4 DEF Lapse
    <3>2. \A s \in Tasks : StaysPut(s)
      BY <3>1 DEF StaysPut, Here, Waits, Carries, Requeues, drainer
    <3> QED BY <2>2, <3>1, <3>2, NobodyMoves
  <2>5. ASSUME NEW r \in Tasks, Resend(r) \/ Abandon(r) PROVE FALSE
    BY <2>1, <2>5 DEF Resend, Abandon, Mishap
  <2>6. ASSUME NEW p \in Processes, DrainerEnds(p) PROVE FALSE
    BY <2>1, <2>6 DEF DrainerEnds, Mishap
  <2>7. ASSUME UNCHANGED agentVars PROVE \A s \in Tasks : Placed(s)'
    <3>1. \A s \in Tasks : StaysPut(s)
      BY <2>7 DEF agentVars, StaysPut, Here, Waits, Carries, Requeues, drainer
    <3> QED BY <2>2, <2>7, <3>1, NobodyMoves DEF agentVars
  <2> QED BY <2>1, <2>3, <2>4, <2>5, <2>6, <2>7, HandlerPlaces, DrainPlaces DEF AgentNext
<1> QED BY <1>1, <1>2 DEF PlaceInv

LEMMA PlacesCounted == ASSUME PlaceInv PROVE InOnePlace
<1> SUFFICES ASSUME Calm, NEW r \in Tasks, ingress[r] = "over"
             PROVE  Cardinality({x \in {"listed", "left", "started"} \cup Processes :
                        \/ x = "listed" /\ Listed(r)
                        \/ x = "left" /\ r \in fate
                        \/ x = "started" /\ work[r] # "none"
                        \/ x \in Processes /\ (Carries(x, r) \/ Requeues(x, r))}) = 1
  BY DEF InOnePlace, Calm
<1>1. Waits(r) <=> Listed(r)
  BY DEF PlaceInv, Matched, Listed
<1>2. PICK x \in Places : \A y \in Places : Here(y, r) <=> y = x
  BY DEF PlaceInv, Placed
<1>3. {y \in Places : Here(y, r)} = {x}
  BY <1>2
<1>4. Cardinality({x}) = 1
  BY FS_Singleton
<1> QED BY <1>1, <1>3, <1>4 DEF Here, Places

\* A run whose request was answered is in exactly one place, for any number of
\* processes that drain and any number of runs: the pop, the requeue and the
\* handlers hand it over whole, and what the hash holds is on the list.
THEOREM RunsInOnePlace == AgentSpec => []InOnePlace
<1>1. AgentInit => PlaceInv
  <2> SUFFICES ASSUME AgentInit PROVE PlaceInv
    OBVIOUS
  <2>1. Matched /\ \A r \in Tasks : Placed(r)
    BY DEF AgentInit, Matched, Placed, Here, Waits, Carries, Requeues
  <2> QED BY <2>1, AgentInitTypes DEF PlaceInv
<1>2. PlaceInv /\ [AgentNext]_agentVars => PlaceInv'
  BY NextPlaces
<1> QED BY <1>1, <1>2, PlacesCounted, PTL DEF AgentSpec

-----------------------------------------------------------------------------
(* The queue of a conversation *)

-----------------------------------------------------------------------------
(* The FIFO *)

\* A push leaves the FIFO within its cap.
LEMMA EnqueuedTyped ==
    ASSUME queue \in Seq(Entries), Len(queue) <= Cap, NEW e \in Entries
    PROVE  Enqueued(e) \in Seq(Entries) /\ Len(Enqueued(e)) <= Cap
BY QueueAssumption DEF Enqueued, Accepts

\* A pop takes the head and leaves the rest.
LEMMA PoppedTyped ==
    ASSUME queue \in Seq(Entries), Len(queue) <= Cap, NEW token \in Tokens
    PROVE  /\ Popped(token) \in Hands
           /\ Rest \in Seq(Entries) /\ Len(Rest) <= Cap
<1>1. CASE queue = <<>>
  BY <1>1, QueueAssumption DEF Popped, Rest, Hands
<1>2. CASE queue # <<>>
  <2>1. Head(queue) \in Entries /\ Tail(queue) \in Seq(Entries)
        /\ Len(Tail(queue)) = Len(queue) - 1
    BY <1>2
  <2> QED BY <1>2, <2>1, QueueAssumption DEF Popped, Rest, Hands
<1> QED BY <1>1, <1>2

-----------------------------------------------------------------------------
(* Types *)

RunRecords == [of : Askers \cup {None}, token : Tokens, phase : Phases]

\* a run has an asker
Asked == \A r \in Runs : run[r].phase # "none" => run[r].of \in Askers
TypeInv == TypeOK /\ Asked

\* A run that moves on keeps its asker and its claim.
LEMMA Moved ==
    ASSUME run \in [Runs -> RunRecords], Asked, NEW r \in Runs, run[r].phase # "none",
           NEW phase \in Phases, run' = [run EXCEPT ![r].phase = phase]
    PROVE  run' \in [Runs -> RunRecords] /\ Asked'
BY DEF RunRecords, Asked

LEMMA DispatchedTyped ==
    ASSUME run \in [Runs -> RunRecords], Asked, NEW a \in Askers, NEW token \in Tokens,
           Dispatched(a, token)
    PROVE  run' \in [Runs -> RunRecords] /\ Asked'
<1>1. PICK r \in Runs :
        run' = [run EXCEPT ![r] = [of |-> a, token |-> token, phase |-> "starting"]]
  BY DEF Dispatched
<1>2. [of |-> a, token |-> token, phase |-> "starting"] \in RunRecords
  BY DEF RunRecords, Phases
<1> QED BY <1>1, <1>2 DEF RunRecords, Asked

\* ... and so it does when another is posted for its asker.
LEMMA FollowsTyped ==
    ASSUME run \in [Runs -> RunRecords], Asked, NEW q \in Runs, run[q].phase # "none",
           NEW token \in Tokens, Follows(q, token)
    PROVE  run' \in [Runs -> RunRecords] /\ Asked'
<1>1. PICK r \in Runs :
        run' = [run EXCEPT ![r] = [of |-> run[q].of, token |-> token, phase |-> "starting"],
                           ![q].phase = "over"]
  BY DEF Follows
<1>2. run[q].of \in Askers
  BY DEF Asked
<1>3. [of |-> run[q].of, token |-> token, phase |-> "starting"] \in RunRecords
  BY <1>2 DEF RunRecords, Phases
<1>4. "over" \in Phases
  BY DEF Phases, Handled
<1>5. \A p \in Runs : run'[p] \in RunRecords /\ run'[p].of \in {run[p].of, run[q].of}
                     /\ (run'[p].phase # "none" => p = r \/ p = q \/ run'[p] = run[p])
  BY <1>1, <1>3, <1>4 DEF RunRecords
<1>6. run' \in [Runs -> RunRecords]
  BY <1>1, <1>5
<1>7. Asked'
  BY <1>1, <1>2, <1>3 DEF Asked, RunRecords
<1> QED BY <1>6, <1>7

LEMMA InitTypes == Init => TypeInv
<1> SUFFICES ASSUME Init PROVE TypeInv
  OBVIOUS
<1>1. queue \in Seq(Entries) /\ Len(queue) <= Cap
  BY QueueAssumption DEF Init
<1>2. run \in [Runs -> RunRecords] /\ Asked
  BY DEF Init, Idle, RunRecords, Phases, Tokens, Asked
<1>3. gate \in [Askers -> {"out", "refused", "claimed", "open", "approved", "done"}]
  BY DEF Init
<1>4. drain \in [Handlers -> Hands \cup {None}] /\ lock \in [Users -> Runs \cup {None}]
  BY DEF Init
<1>5. due \in [Runs -> 0 .. 2]
  BY DEF Init
<1> QED BY <1>1, <1>2, <1>3, <1>4, <1>5 DEF Init, TypeInv, TypeOK, RunRecords, Tokens

LEMMA TokenTyped == \A m \in Messages : TokenOf(m) \in Tokens
BY DEF TokenOf, Tokens

LEMMA GateTypes ==
    ASSUME TypeInv, NEW m \in Messages,
           Arrive(m) \/ FailOpen(m) \/ Queue(m) \/ Dispatch(m) \/ Refuse(m)
    PROVE  TypeInv'
<1>0. m \in Askers /\ m \in Tokens /\ m \in Handlers /\ Waiting(m) \in Entries
      /\ TokenOf(m) \in Tokens
  BY TokenTyped DEF Askers, Tokens, Handlers, Waiting, Entries
<1>1. CASE Arrive(m)
  BY <1>0, <1>1 DEF Arrive, TypeInv, TypeOK, Asked
<1>2. CASE Queue(m)
  <2>1. queue' \in Seq(Entries) /\ Len(queue') <= Cap /\ seen' \subseteq Entries
    BY <1>0, <1>2, EnqueuedTyped DEF Queue, Noted, TypeInv, TypeOK
  <2> QED BY <1>0, <1>2, <2>1 DEF Queue, TypeInv, TypeOK, Asked
<1>3. CASE Dispatch(m)
  <2>1. run' \in [Runs -> RunRecords] /\ Asked'
    BY <1>0, <1>3, DispatchedTyped DEF Dispatch, TypeInv, TypeOK, RunRecords
  <2> QED BY <1>0, <1>3, <2>1 DEF Dispatch, TypeInv, TypeOK, RunRecords
<1>4. CASE Refuse(m)
  <2>1. Popped(TokenOf(m)) \in Hands /\ queue' \in Seq(Entries) /\ Len(queue') <= Cap
    BY <1>0, <1>4, PoppedTyped DEF Refuse, TypeInv, TypeOK
  <2> QED BY <1>0, <1>4, <2>1 DEF Refuse, TypeInv, TypeOK, Asked
<1>5. CASE FailOpen(m)
  BY <1>0, <1>5 DEF FailOpen, TypeInv, TypeOK, Asked
<1> QED BY <1>1, <1>2, <1>3, <1>4, <1>5

LEMMA PlanTypes ==
    ASSUME TypeInv, NEW p \in Plans, Approve(p) \/ Continue(p)
    PROVE  TypeInv'
<1>0. p \in Askers /\ None \in Tokens
  BY DEF Askers, Tokens
<1>1. CASE Approve(p)
  BY <1>0, <1>1 DEF Approve, TypeInv, TypeOK, Asked
<1>2. CASE Continue(p)
  <2>1. run' \in [Runs -> RunRecords] /\ Asked'
    BY <1>0, <1>2, DispatchedTyped DEF Continue, TypeInv, TypeOK, RunRecords
  <2> QED BY <1>0, <1>2, <2>1 DEF Continue, TypeInv, TypeOK, RunRecords
<1> QED BY <1>1, <1>2

LEMMA WorkTypes ==
    ASSUME TypeInv, NEW r \in Runs, Work(r) \/ Fall(r)
    PROVE  TypeInv'
<1>0. run \in [Runs -> RunRecords] /\ Asked /\ r \in Handlers
  BY DEF TypeInv, TypeOK, RunRecords, Handlers
<1>1. CASE Lock(r)
  <2>1. run' \in [Runs -> RunRecords] /\ Asked'
    BY <1>0, <1>1, Moved DEF Lock, Phases
  <2> QED BY <1>1, <2>1 DEF Lock, TypeInv, TypeOK, RunRecords
<1>2. CASE GiveUp(r)
  <2>1. run' \in [Runs -> RunRecords] /\ Asked'
    BY <1>0, <1>2, Moved DEF GiveUp, Phases
  <2> QED BY <1>2, <2>1 DEF GiveUp, TypeInv, TypeOK, RunRecords
<1>3. CASE Finish(r)
  <2>1. run' \in [Runs -> RunRecords] /\ Asked'
    BY <1>0, <1>3, Moved DEF Finish, Phases
  <2>2. due' \in [Runs -> 0 .. 2]
    BY <1>3 DEF Finish, TypeInv, TypeOK
  <2>3. lock' \in [Users -> Runs \cup {None}]
    BY <1>3 DEF Finish, Freed, TypeInv, TypeOK
  <2> QED BY <1>3, <2>1, <2>2, <2>3 DEF Finish, TypeInv, TypeOK, RunRecords
<1>4. CASE Crash(r)
  <2>1. run' \in [Runs -> RunRecords] /\ Asked'
    BY <1>0, <1>4, Moved DEF Crash, Live, Phases
  <2> QED BY <1>4, <2>1 DEF Crash, TypeInv, TypeOK, RunRecords
<1>5. CASE LockLapses(r)
  <2>1. lock' \in [Users -> Runs \cup {None}]
    BY <1>5 DEF LockLapses, Freed, TypeInv, TypeOK
  <2> QED BY <1>5, <2>1 DEF LockLapses, TypeInv, TypeOK, Asked
<1>6. ASSUME Called(r) PROVE due' \in [Runs -> 0 .. 2] /\ UNCHANGED <<slot, seen, gate, lock, stop>>
  BY <1>6 DEF Called, TypeInv, TypeOK
<1>8. ASSUME Drains(r)
      PROVE  /\ queue' \in Seq(Entries) /\ Len(queue') <= Cap
             /\ drain' \in [Handlers -> Hands \cup {None}]
  <2>1. Popped(None) \in Hands /\ queue' \in Seq(Entries) /\ Len(queue') <= Cap
    BY <1>8, PoppedTyped DEF Drains, Tokens, TypeInv, TypeOK
  <2> QED BY <1>0, <1>8, <2>1 DEF Drains, TypeInv, TypeOK
<1>9. CASE Finalize(r) \/ FailToRecovery(r) \/ GoOn(r)
  <2>1. run' \in [Runs -> RunRecords] /\ Asked' /\ run[r].of \in Askers
    BY <1>0, <1>9, Moved DEF Finalize, FailToRecovery, GoOn, Phases, Handled, Asked
  <2>2. due' \in [Runs -> 0 .. 2] /\ UNCHANGED <<slot, seen, gate, lock, stop>>
    BY <1>6, <1>9 DEF Finalize, FailToRecovery, GoOn
  <2>3. /\ queue' \in Seq(Entries) /\ Len(queue') <= Cap
        /\ drain' \in [Handlers -> Hands \cup {None}]
    BY <1>8, <1>9 DEF Finalize, FailToRecovery, GoOn, Keeps, TypeInv, TypeOK
  <2>4. disturbed' \in BOOLEAN
    BY <1>9 DEF Finalize, FailToRecovery, GoOn, TypeInv, TypeOK
  <2>5. heard' \subseteq Askers
    BY <1>9, <2>1 DEF Finalize, FailToRecovery, GoOn, TypeInv, TypeOK
  <2> QED BY <2>1, <2>2, <2>3, <2>4, <2>5 DEF TypeInv, TypeOK, RunRecords
<1>10. CASE Repeat(r)
  <2>1. due' \in [Runs -> 0 .. 2] /\ UNCHANGED <<slot, seen, gate, lock, stop, run, heard>>
    BY <1>6, <1>10 DEF Repeat
  <2>2. /\ queue' \in Seq(Entries) /\ Len(queue') <= Cap
        /\ drain' \in [Handlers -> Hands \cup {None}]
    BY <1>8, <1>10 DEF Repeat, TypeInv, TypeOK
  <2>3. disturbed' \in BOOLEAN
    BY <1>10 DEF Repeat, TypeInv, TypeOK
  <2> QED BY <2>1, <2>2, <2>3 DEF TypeInv, TypeOK, Asked
<1>11. CASE Turn(r) \/ Retry(r)
  <2>1. PICK token \in Tokens : Follows(r, token)
    BY <1>11 DEF Turn, Retry, Tokens, TypeInv, TypeOK
  <2>2. run' \in [Runs -> RunRecords] /\ Asked'
    BY <1>0, <1>11, <2>1, FollowsTyped DEF Turn, Turns, Retry
  <2> QED BY <1>11, <2>2 DEF Turn, Retry, TypeInv, TypeOK, RunRecords
<1>12. CASE LoseTurn(r)
  <2>1. run' \in [Runs -> RunRecords] /\ Asked'
    BY <1>0, <1>12, Moved DEF LoseTurn, Turns, Phases, Handled
  <2> QED BY <1>12, <2>1 DEF LoseTurn, TypeInv, TypeOK, RunRecords
<1>13. CASE Check(r)
  <2>1. run[r].of \in Askers /\ None \in Tokens
    BY <1>0, <1>13 DEF Check, Turns, Asked, Tokens
  <2>2. run' \in [Runs -> RunRecords] /\ Asked'
    BY <1>0, <1>13, <2>1, DispatchedTyped DEF Check
  <2> QED BY <1>13, <2>2 DEF Check, TypeInv, TypeOK, RunRecords
<1>7. CASE Requeue(r)
  <2>1. [of |-> run[r].of, lock |-> r] \in Entries
    BY <1>0, <1>7 DEF Requeue, Asked, Entries
  <2>2. run' \in [Runs -> RunRecords] /\ Asked'
    BY <1>0, <1>7, Moved DEF Requeue, Phases, Handled
  <2>3. queue' \in Seq(Entries) /\ Len(queue') <= Cap /\ seen' \subseteq Entries
    BY <1>7, <2>1, EnqueuedTyped DEF Requeue, Noted, TypeInv, TypeOK
  <2>4. drain' \in [Handlers -> Hands \cup {None}]
    <3>1. [token |-> None, entry |-> None] \in Hands
      BY DEF Hands, Tokens
    <3> QED BY <1>0, <1>7, <3>1 DEF Requeue, TypeInv, TypeOK
  <2>5. due' \in [Runs -> 0 .. 2]
    BY <1>7 DEF Requeue, TypeInv, TypeOK
  <2>6. disturbed' \in BOOLEAN
    BY <1>7 DEF Requeue, TypeInv, TypeOK
  <2> QED BY <1>7, <2>2, <2>3, <2>4, <2>5, <2>6 DEF Requeue, TypeInv, TypeOK, RunRecords
<1> QED BY <1>1, <1>2, <1>3, <1>4, <1>5, <1>7, <1>9, <1>10, <1>11, <1>12, <1>13
        DEF Work, Answer, Fall

\* What a drain holds is a token it may release with, and nothing or an entry.
LEMMA HandTyped ==
    ASSUME TypeInv, NEW h \in Handlers, drain[h] # None
    PROVE  drain[h].token \in Tokens /\ drain[h].entry \in Entries \cup {None}
BY DEF TypeInv, TypeOK, Hands

LEMMA HandleTypes ==
    ASSUME TypeInv, NEW h \in Handlers, Handle(h)
    PROVE  TypeInv'
<1>1. CASE Release(h)
  BY <1>1, HandTyped DEF Release, Released, Tokens, TypeInv, TypeOK, Asked
<1>2. CASE Redispatch(h)
  <2>1. drain[h].entry.of \in Askers
    BY <1>2, HandTyped DEF Redispatch, Entries
  <2>2. run' \in [Runs -> RunRecords] /\ Asked'
    <3>1. slot \in Tokens /\ Asked /\ run \in [Runs -> RunRecords]
      BY DEF Tokens, TypeInv, TypeOK, RunRecords
    <3> QED BY <1>2, <2>1, <3>1, DispatchedTyped DEF Redispatch
  <2> QED BY <1>2, <2>2 DEF Redispatch, TypeInv, TypeOK, RunRecords
<1>3. CASE RedispatchFails(h)
  <2>1. drain[h].entry.of \in Askers
    BY <1>3, HandTyped DEF RedispatchFails, Entries
  <2> QED BY <1>3, <2>1 DEF RedispatchFails, Released, Tokens, TypeInv, TypeOK, Asked
<1> QED BY <1>1, <1>2, <1>3 DEF Handle

LEMMA StopTypes == ASSUME TypeInv, Clear \/ Reconcile PROVE TypeInv'
<1>1. CASE Clear
  <2>1. heard' \subseteq Askers
    <3>1. ASSUME NEW i \in 1 .. Len(queue) PROVE queue[i].of \in Askers
      <4>1. queue \in Seq(Entries)
        BY DEF TypeInv, TypeOK
      <4>2. queue[i] \in Entries
        BY <4>1
      <4> QED BY <4>2 DEF Entries
    <3>2. heard' = heard \cup {queue[i].of : i \in 1 .. Len(queue)}
      BY <1>1 DEF Clear
    <3> QED BY <3>1, <3>2 DEF TypeInv, TypeOK
  <2>2. queue' \in Seq(Entries) /\ Len(queue') <= Cap
    BY <1>1, QueueAssumption DEF Clear
  <2> QED BY <1>1, <2>1, <2>2 DEF Clear, TypeInv, TypeOK, Asked
<1>2. CASE Reconcile /\ Orphans = {}
  BY <1>2 DEF Reconcile, TypeInv, TypeOK, Asked
<1>3. CASE Reconcile /\ Orphans # {}
  <2>1. Popped(None) \in Hands /\ queue' \in Seq(Entries) /\ Len(queue') <= Cap
    BY <1>3, PoppedTyped DEF Reconcile, Tokens, TypeInv, TypeOK
  <2>2. run' \in [Runs -> RunRecords] /\ Asked'
    <3>1. ASSUME NEW r \in Runs PROVE [run[r] EXCEPT !.phase = "over"] \in RunRecords
      BY SMTT(30) DEF TypeInv, TypeOK, RunRecords, Phases, Handled
    <3>2. run' = [r \in Runs |-> IF run[r].phase = "gone"
                                 THEN [run[r] EXCEPT !.phase = "over"] ELSE run[r]]
      BY <1>3 DEF Reconcile
    <3> QED BY <3>1, <3>2 DEF TypeInv, TypeOK, RunRecords, Asked
  <2>3. heard' \subseteq Askers
    BY <1>3 DEF Reconcile, Orphans, TypeInv, TypeOK, Asked
  <2>4. drain' \in [Handlers -> Hands \cup {None}]
    BY <1>3, <2>1 DEF Reconcile, TypeInv, TypeOK
  <2> QED BY <1>3, <2>1, <2>2, <2>3, <2>4 DEF Reconcile, TypeInv, TypeOK, RunRecords
<1> QED BY <1>1, <1>2, <1>3

LEMMA NextTypes == ASSUME TypeInv, [Next]_vars PROVE TypeInv'
<1>1. CASE Expire \/ Silence
  BY <1>1 DEF Expire, Silence, Tokens, TypeInv, TypeOK, Asked
<1>2. CASE UNCHANGED vars
  BY <1>2 DEF vars, TypeInv, TypeOK, Asked
<1> QED BY <1>1, <1>2, GateTypes, PlanTypes, WorkTypes, HandleTypes, StopTypes DEF Next

\* The state keeps its types, and the FIFO its cap, whoever pushes and pops.
THEOREM TypesKept == Spec => []TypeOK
<1>1. Spec => []TypeInv
  BY InitTypes, NextTypes, PTL DEF Spec
<1> QED BY <1>1, PTL DEF TypeInv

-----------------------------------------------------------------------------
(* One run at a time *)

Busy(r) == Live(r) \/ Tells(r) \/ Turns(r)
Held(h) == drain[h] # None

\* The holders of the slot: a dispatch about to be sent, a run up to its
\* callback, a finalizer up to its release.  There is one at most, and none
\* without the slot.
NoHolder ==
    /\ \A m \in Messages : ~Passed(m)
    /\ \A r \in Runs : ~Busy(r)
    /\ \A h \in Handlers : ~Held(h)
Alone ==
    /\ \A m, k \in Messages : Passed(m) /\ Passed(k) => m = k
    /\ \A r, q \in Runs : Busy(r) /\ Busy(q) => r = q
    /\ \A g, h \in Handlers : Held(g) /\ Held(h) => g = h
    /\ \A m \in Messages, r \in Runs : ~(Passed(m) /\ Busy(r))
    /\ \A m \in Messages, h \in Handlers : ~(Passed(m) /\ Held(h))
    /\ \A r \in Runs, h \in Handlers : ~(Busy(r) /\ Held(h))
OneHolder == Alone /\ (slot = None => NoHolder)

HolderInv == TypeInv /\ (~disturbed => OneHolder)

LEMMA InitHolder == Init => OneHolder
<1> SUFFICES ASSUME Init PROVE OneHolder
  OBVIOUS
<1>1. \A m \in Messages : gate[m] = "out"
  BY DEF Init, Askers
<1>2. \A r \in Runs : run[r].phase = "none"
  BY DEF Init, Idle
<1>3. \A h \in Handlers : drain[h] = None
  BY DEF Init
<1> QED BY <1>1, <1>2, <1>3 DEF OneHolder, Alone, NoHolder, Passed, Busy, Held, Live, Tells, Turns

\* A dispatch makes one run busy and leaves the others as they are.
LEMMA DispatchedOne ==
    ASSUME run \in [Runs -> RunRecords], NEW a, NEW token, Dispatched(a, token)
    PROVE  \E r \in Runs : /\ ~Busy(r) /\ Busy(r)'
                           /\ \A q \in Runs : q # r => (Busy(q)' <=> Busy(q))
<1>1. PICK r \in Runs :
        /\ run[r].phase = "none"
        /\ run' = [run EXCEPT ![r] = [of |-> a, token |-> token, phase |-> "starting"]]
  BY DEF Dispatched, NextSession
<1>2. \A q \in Runs : q # r => run'[q] = run[q]
  BY <1>1
<1>3. run'[r].phase = "starting"
  BY <1>1
<1> QED BY <1>1, <1>2, <1>3 DEF Busy, Live, Tells, Turns

\* The next turn of a goal takes the place of the one that is over.
LEMMA FollowsOne ==
    ASSUME run \in [Runs -> RunRecords], NEW q \in Runs, run[q].phase # "none",
           NEW token, Follows(q, token)
    PROVE  \E r \in Runs : /\ ~Busy(r) /\ Busy(r)' /\ r # q /\ ~Busy(q)'
                           /\ \A p \in Runs \ {q, r} : Busy(p)' <=> Busy(p)
<1>1. PICK r \in Runs :
        /\ run[r].phase = "none"
        /\ run' = [run EXCEPT
              ![r] = [of |-> run[q].of, token |-> token, phase |-> "starting"],
              ![q].phase = "over"]
  BY DEF Follows, NextSession
<1>2. r # q
  BY <1>1
<1>3. \A p \in Runs : p # r /\ p # q => run'[p] = run[p]
  BY <1>1
<1>4. run'[r].phase = "starting" /\ run'[q].phase = "over"
  BY <1>1, <1>2 DEF RunRecords
<1> QED BY <1>1, <1>2, <1>3, <1>4 DEF Busy, Live, Tells, Turns

LEMMA GateHolder ==
    ASSUME HolderInv, ~disturbed, NEW m \in Messages,
           Arrive(m) \/ Queue(m) \/ Dispatch(m) \/ Refuse(m)
    PROVE  OneHolder'
<1>0. /\ OneHolder /\ m \in Askers /\ m \in Handlers /\ m # None
      /\ Messages \subseteq Askers /\ gate \in [Askers -> {"out", "refused", "claimed", "open", "approved", "done"}]
      /\ run \in [Runs -> RunRecords] /\ drain \in [Handlers -> Hands \cup {None}]
  BY QueueAssumption DEF HolderInv, TypeInv, TypeOK, RunRecords, Askers, Handlers
<1>1. CASE Arrive(m) \/ Queue(m)
  BY <1>0, <1>1
     DEF Arrive, Queue, Claimable, OneHolder, Alone, NoHolder, Passed, Busy, Held, Live, Tells, Turns
<1>2. CASE Dispatch(m)
  <2>1. PICK r \in Runs : /\ ~Busy(r) /\ Busy(r)'
                         /\ \A q \in Runs : q # r => (Busy(q)' <=> Busy(q))
    BY <1>0, <1>2, DispatchedOne DEF Dispatch
  <2>2. /\ \A k \in Messages : Passed(k)' <=> Passed(k) /\ k # m
        /\ \A h \in Handlers : Held(h)' <=> Held(h)
        /\ slot' = slot /\ Passed(m)
    BY <1>0, <1>2 DEF Dispatch, Passed, Held
  <2> QED BY <1>0, <2>1, <2>2 DEF OneHolder, Alone, NoHolder
<1>3. CASE Refuse(m)
  <2>1. /\ \A k \in Messages : Passed(k)' <=> Passed(k) /\ k # m
        /\ \A h \in Handlers : h # m => (Held(h)' <=> Held(h))
        /\ \A r \in Runs : Busy(r)' <=> Busy(r)
        /\ slot' = slot /\ Passed(m)
    BY <1>0, <1>3 DEF Refuse, Passed, Held, Busy, Live, Tells, Turns
  <2> QED BY <1>0, <2>1 DEF OneHolder, Alone, NoHolder
<1> QED BY <1>1, <1>2, <1>3

LEMMA PlanHolder ==
    ASSUME HolderInv, ~disturbed, ~disturbed', NEW p \in Plans, Approve(p) \/ Continue(p)
    PROVE  OneHolder'
<1>1. Approve(p)
  BY DEF Continue
<1>2. \A m \in Messages : Passed(m)' <=> Passed(m)
  BY <1>1, QueueAssumption DEF Approve, Passed, HolderInv, TypeInv, TypeOK, Askers
<1> QED BY <1>1, <1>2
        DEF Approve, HolderInv, OneHolder, Alone, NoHolder, Busy, Held, Live, Tells, Turns

\* A run that moves within its phases, or to one that holds nothing.
LEMMA RunMoves ==
    ASSUME HolderInv, ~disturbed, NEW r \in Runs, NEW phase,
           run[r].phase \in {"starting", "running"} \/ phase = run[r].phase,
           run' = [run EXCEPT ![r].phase = phase], UNCHANGED <<slot, gate, drain>>
    PROVE  OneHolder'
<1>1. /\ \A q \in Runs : Busy(q)' => Busy(q)
      /\ \A m \in Messages : Passed(m)' <=> Passed(m)
      /\ \A h \in Handlers : Held(h)' <=> Held(h)
  BY DEF HolderInv, TypeInv, TypeOK, Busy, Live, Tells, Turns, Passed, Held
<1> QED BY <1>1 DEF HolderInv, OneHolder, Alone, NoHolder

\* A run whose callback is being handled gives way to its finalizer.
LEMMA RunDrains ==
    ASSUME HolderInv, ~disturbed, NEW r \in Runs, Busy(r), ~Busy(r)',
           \A q \in Runs : q # r => (Busy(q)' <=> Busy(q)),
           \A h \in Handlers : h # r => (Held(h)' <=> Held(h)),
           UNCHANGED <<slot, gate>>
    PROVE  OneHolder'
<1>1. \A m \in Messages : Passed(m)' <=> Passed(m)
  BY DEF Passed
<1> QED BY <1>1 DEF HolderInv, OneHolder, Alone, NoHolder

LEMMA WorkHolder ==
    ASSUME HolderInv, ~disturbed, ~disturbed', NEW r \in Runs, Work(r) \/ Fall(r)
    PROVE  OneHolder'
<1>0. /\ run \in [Runs -> RunRecords] /\ r \in Handlers
      /\ drain \in [Handlers -> Hands \cup {None}]
  BY DEF HolderInv, TypeInv, TypeOK, RunRecords, Handlers
<1>1. CASE Lock(r)
  BY <1>1, RunMoves DEF Lock
<1>2. CASE GiveUp(r)
  BY <1>2, RunMoves DEF GiveUp
<1>3. CASE Finish(r)
  BY <1>3, RunMoves DEF Finish
<1>4. CASE Crash(r)
  BY <1>4, RunMoves DEF Crash, Live
<1>5. CASE LockLapses(r)
  BY <1>5 DEF LockLapses, HolderInv, OneHolder, Alone, NoHolder, Passed, Busy, Held, Live, Tells, Turns
<1>6. CASE Finalize(r) \/ FailToRecovery(r)
  <2>1. run[r].phase = "answered" /\ run'[r].phase \in {"over", "retrying"}
    BY <1>0, <1>6 DEF Finalize, FailToRecovery, RunRecords
  <2>2. /\ \A q \in Runs : q # r => run'[q] = run[q]
        /\ \A h \in Handlers : h # r => drain'[h] = drain[h]
    BY <1>0, <1>6 DEF Finalize, FailToRecovery, Drains
  <2>3. UNCHANGED <<slot, gate>>
    BY <1>6 DEF Finalize, FailToRecovery, Called
  <2> QED BY <2>1, <2>2, <2>3, RunDrains DEF Busy, Held, Live, Tells, Turns
<1>8. CASE GoOn(r)
  <2>1. run[r].phase = "answered" /\ UNCHANGED <<slot, gate, drain>>
    BY <1>8 DEF GoOn, Called, Keeps
  <2>2. \A q \in Runs : Busy(q)' => Busy(q)
    BY <1>0, <1>8, <2>1 DEF GoOn, Busy, Live, Tells, Turns
  <2>3. \A m \in Messages : Passed(m)' <=> Passed(m)
    BY <2>1 DEF Passed
  <2>4. \A h \in Handlers : Held(h)' <=> Held(h)
    BY <2>1 DEF Held
  <2> QED BY <2>1, <2>2, <2>3, <2>4 DEF HolderInv, OneHolder, Alone, NoHolder
<1>9. CASE Repeat(r)
  <2>1. UNCHANGED <<slot, gate, drain, run>>
    BY <1>9 DEF Repeat, Called
  <2> QED BY <2>1 DEF HolderInv, OneHolder, Alone, NoHolder, Passed, Busy, Held, Live, Tells, Turns
<1>10. CASE Turn(r)
  <2>1. UNCHANGED <<slot, gate, drain>> /\ Busy(r) /\ run[r].phase # "none"
    BY <1>10 DEF Turn, Turns, Busy
  <2>2. PICK q \in Runs : /\ ~Busy(q) /\ Busy(q)' /\ q # r /\ ~Busy(r)'
                         /\ \A p \in Runs \ {q, r} : Busy(p)' <=> Busy(p)
    BY <1>0, <1>10, <2>1, FollowsOne DEF Turn
  <2>3. \A m \in Messages : Passed(m)' <=> Passed(m)
    BY <2>1 DEF Passed
  <2>4. \A h \in Handlers : Held(h)' <=> Held(h)
    BY <2>1 DEF Held
  <2>5. OneHolder /\ q \in Runs /\ r \in Runs
    BY DEF HolderInv
  <2> QED BY <2>1, <2>2, <2>3, <2>4, <2>5 DEF OneHolder, Alone, NoHolder
<1>11. CASE LoseTurn(r)
  <2>1. UNCHANGED <<slot, gate, drain>>
    BY <1>11 DEF LoseTurn
  <2>2. \A q \in Runs : Busy(q)' => Busy(q)
    BY <1>0, <1>11 DEF LoseTurn, Busy, Live, Tells, Turns
  <2>3. \A m \in Messages : Passed(m)' <=> Passed(m)
    BY <2>1 DEF Passed
  <2>4. \A h \in Handlers : Held(h)' <=> Held(h)
    BY <2>1 DEF Held
  <2> QED BY <2>1, <2>2, <2>3, <2>4 DEF HolderInv, OneHolder, Alone, NoHolder
<1>12. CASE Check(r) \/ Retry(r)
  BY <1>12 DEF Check, Retry
<1>7. CASE Requeue(r)
  <2>1. run[r].phase = "locked" /\ run'[r].phase \in {"over", "dropped"}
    BY <1>0, <1>7 DEF Requeue, RunRecords
  <2>2. /\ \A q \in Runs : q # r => run'[q] = run[q]
        /\ \A h \in Handlers : h # r => drain'[h] = drain[h]
    BY <1>0, <1>7 DEF Requeue
  <2>3. UNCHANGED <<slot, gate>>
    BY <1>7 DEF Requeue
  <2> QED BY <2>1, <2>2, <2>3, RunDrains DEF Busy, Held, Live, Tells, Turns
<1> QED BY <1>1, <1>2, <1>3, <1>4, <1>5, <1>6, <1>7, <1>8, <1>9, <1>10, <1>11, <1>12
        DEF Work, Answer, Fall

LEMMA HandleHolder ==
    ASSUME HolderInv, ~disturbed, NEW h \in Handlers, Handle(h)
    PROVE  OneHolder'
<1>0. /\ OneHolder /\ Held(h) /\ ~Held(h)'
      /\ run \in [Runs -> RunRecords]
      /\ \A g \in Handlers : g # h => (Held(g)' <=> Held(g))
      /\ \A m \in Messages : Passed(m)' <=> Passed(m)
  BY DEF Handle, Release, Redispatch, RedispatchFails, HolderInv, TypeInv, TypeOK,
         RunRecords, Held, Passed
<1>1. CASE Release(h) \/ RedispatchFails(h)
  <2>1. \A r \in Runs : Busy(r)' <=> Busy(r)
    BY <1>1 DEF Release, RedispatchFails, Busy, Live, Tells, Turns
  <2> QED BY <1>0, <2>1 DEF OneHolder, Alone, NoHolder
<1>2. CASE Redispatch(h)
  <2>1. PICK r \in Runs : /\ ~Busy(r) /\ Busy(r)'
                         /\ \A q \in Runs : q # r => (Busy(q)' <=> Busy(q))
    BY <1>0, <1>2, DispatchedOne DEF Redispatch
  <2>2. slot' = slot
    BY <1>2 DEF Redispatch
  <2> QED BY <1>0, <2>1, <2>2 DEF OneHolder, Alone, NoHolder
<1> QED BY <1>1, <1>2 DEF Handle

LEMMA NextHolder == ASSUME HolderInv, [Next]_vars PROVE HolderInv'
<1>1. TypeInv'
  BY NextTypes DEF HolderInv
<1>2. ASSUME ~disturbed' PROVE OneHolder'
  <2>1. ~disturbed
    BY <1>2 DEF Next, Arrive, FailOpen, Queue, Dispatch, Refuse, Approve, Continue, Work, Lock,
                GiveUp, Finish, LockLapses, Answer, Finalize, GoOn, FailToRecovery, Repeat,
                Requeue, Turn, Fall, Crash, LoseTurn, Check, Retry, Handle, Release, Redispatch,
                RedispatchFails, Clear, Reconcile, Expire, Silence, vars
  <2>2. CASE Clear \/ Reconcile
    <3>1. UNCHANGED <<slot, gate, drain, run>>
      BY <1>2, <2>2 DEF Clear, Reconcile
    <3> QED BY <2>1, <3>1 DEF HolderInv, OneHolder, Alone, NoHolder, Passed, Busy, Held, Live,
       Tells, Turns
  <2>3. CASE Expire
    BY <2>1, <2>3 DEF Expire, Outstanding, HolderInv, OneHolder, Alone, NoHolder, Passed, Busy,
                      Held, Live, Tells, Turns
  <2>4. CASE Silence
    BY <1>2, <2>4 DEF Silence
  <2>5. CASE UNCHANGED vars
    BY <2>1, <2>5 DEF vars, HolderInv, OneHolder, Alone, NoHolder, Passed, Busy, Held, Live, Tells, Turns
  <2>6. ASSUME NEW m \in Messages, FailOpen(m) PROVE OneHolder'
    BY <1>2, <2>6 DEF FailOpen
  <2> QED BY <1>2, <2>1, <2>2, <2>3, <2>4, <2>5, <2>6, GateHolder, PlanHolder, WorkHolder, HandleHolder
          DEF Next
<1> QED BY <1>1, <1>2 DEF HolderInv

LEMMA HolderIsActive == ASSUME HolderInv PROVE OneRunAtATime
<1> SUFFICES ASSUME ~disturbed, NEW x \in Active, NEW y \in Active PROVE x = y
  BY DEF OneRunAtATime
<1>1. Alone
  BY DEF HolderInv, OneHolder
<1>2. \/ \E m \in Messages : x = <<"gate", m>> /\ Passed(m)
      \/ \E r \in Runs : x = <<"run", r>> /\ Busy(r)
      \/ \E h \in Handlers : x = <<"drain", h>> /\ Held(h)
  BY DEF Active, Passed, Busy, Held
<1>3. \/ \E m \in Messages : y = <<"gate", m>> /\ Passed(m)
      \/ \E r \in Runs : y = <<"run", r>> /\ Busy(r)
      \/ \E h \in Handlers : y = <<"drain", h>> /\ Held(h)
  BY DEF Active, Passed, Busy, Held
<1> QED BY <1>1, <1>2, <1>3 DEF Alone

\* The slot lets one run of the conversation be active, whatever the gate,
\* the finalizers, the locks and the crashes do, as long as nobody starts a
\* run or gives the slot up outside the chain of claim, run and finalizer.
THEOREM OneActive == Spec => []OneRunAtATime
<1>1. Init => HolderInv
  BY InitTypes, InitHolder DEF HolderInv
<1>2. Spec => []HolderInv
  BY <1>1, NextHolder, PTL DEF Spec
<1> QED BY <1>2, HolderIsActive, PTL

-----------------------------------------------------------------------------
(* What every step leaves in order *)

\* A dispatch or /stop that may still drain is not draining yet, and a
\* session that was not given out is of nobody.
Ready ==
    /\ \A m \in Messages : Passed(m) => ~Held(m)
    /\ stop # "done" => ~Held(StopHandler)
Fresh == \A r \in Runs : run[r].phase = "none" => run[r].of = None
OrderInv == TypeInv /\ Ready /\ Fresh

\* The handlers are told apart.
LEMMA HandlersApart ==
    /\ \A m \in Messages : m \in Handlers /\ m \in Askers /\ m \notin Runs /\ m # StopHandler
    /\ \A r \in Runs : r \in Handlers /\ r # StopHandler
    /\ StopHandler \in Handlers
<1>1. \A r \in Runs : r \in Nat /\ r # 0
  BY QueueAssumption DEF Runs
<1> QED BY <1>1, QueueAssumption DEF Handlers, Askers, StopHandler

\* Ready is about the gate, the drains and the handler of /stop.
LEMMA ReadyKept ==
    ASSUME Ready,
           \A m \in Messages : Passed(m)' => ~Held(m)' \/ (Passed(m) /\ (Held(m)' => Held(m))),
           stop' # "done" => stop # "done" /\ (Held(StopHandler)' => Held(StopHandler))
    PROVE  Ready'
BY DEF Ready

LEMMA NextReady == ASSUME TypeInv, Ready, [Next]_vars PROVE Ready'
<1>0. /\ gate \in [Askers -> {"out", "refused", "claimed", "open", "approved", "done"}]
      /\ drain \in [Handlers -> Hands \cup {None}]
  BY DEF TypeInv, TypeOK
<1>1. ASSUME NEW m \in Messages, Arrive(m) \/ FailOpen(m) \/ Queue(m) \/ Dispatch(m) \/ Refuse(m) PROVE Ready'
  <2>1. \A k \in Messages : k # m => (Passed(k)' <=> Passed(k)) /\ (Held(k)' <=> Held(k))
    BY <1>0, <1>1, HandlersApart DEF Arrive, FailOpen, Queue, Dispatch, Refuse, Passed, Held
  <2>2. Passed(m)' => ~Held(m)'
    BY <1>0, <1>1, HandlersApart DEF Arrive, FailOpen, Queue, Dispatch, Refuse, Passed, Held
  <2>3. stop' = stop /\ (Held(StopHandler)' <=> Held(StopHandler))
    BY <1>0, <1>1, HandlersApart DEF Arrive, FailOpen, Queue, Dispatch, Refuse, Held
  <2> QED BY <2>1, <2>2, <2>3, ReadyKept
<1>2. ASSUME NEW p \in Plans, Approve(p) \/ Continue(p) PROVE Ready'
  <2>1. p \in Askers /\ \A m \in Messages : m # p
    BY QueueAssumption DEF Askers
  <2>2. \A m \in Messages : Passed(m)' <=> Passed(m)
    BY <1>0, <1>2, <2>1, HandlersApart DEF Approve, Continue, Passed
  <2> QED BY <1>2, <2>2, ReadyKept DEF Approve, Continue, Held
<1>3. ASSUME NEW r \in Runs, Work(r) \/ Fall(r) PROVE Ready'
  <2>1. UNCHANGED <<gate, stop>> /\ \A h \in Handlers : h # r => drain'[h] = drain[h]
    BY <1>0, <1>3, HandlersApart
       DEF Work, Lock, GiveUp, Finish, LockLapses, Answer, Finalize, GoOn, FailToRecovery, Repeat,
           Requeue, Called, Drains, Keeps, Turn, Fall, Crash, LoseTurn, Check, Retry
  <2>2. \A m \in Messages : m # r /\ m \in Handlers
    BY HandlersApart
  <2>3. r # StopHandler /\ StopHandler \in Handlers
    BY HandlersApart
  <2> QED BY <2>1, <2>2, <2>3, ReadyKept DEF Passed, Held
<1>4. ASSUME NEW h \in Handlers, Handle(h) PROVE Ready'
  <2>1. UNCHANGED <<gate, stop>> /\ drain' = [drain EXCEPT ![h] = None]
    BY <1>4 DEF Handle, Release, Redispatch, RedispatchFails
  <2>2. \A g \in Handlers : Held(g)' => Held(g)
    BY <1>0, <2>1 DEF Held
  <2> QED BY <2>1, <2>2, HandlersApart, ReadyKept DEF Passed
<1>5. CASE Clear
  BY <1>5, ReadyKept DEF Clear, Passed, Held
<1>6. CASE Reconcile
  <2>1. \A m \in Messages : drain'[m] = drain[m]
    BY <1>0, <1>6, HandlersApart DEF Reconcile
  <2> QED BY <1>6, <2>1, ReadyKept DEF Reconcile, Passed, Held
<1>7. CASE Expire \/ Silence \/ UNCHANGED vars
  BY <1>7, ReadyKept DEF Expire, Silence, vars, Passed, Held
<1> QED BY <1>1, <1>2, <1>3, <1>4, <1>5, <1>6, <1>7 DEF Next

\* A run that is given out or moves on leaves the others as they are.
LEMMA FreshKept ==
    ASSUME Fresh,
           \A r \in Runs : run'[r].phase = "none" => run'[r] = run[r]
    PROVE  Fresh'
BY DEF Fresh

LEMMA NextFresh == ASSUME TypeInv, Fresh, [Next]_vars PROVE Fresh'
<1>0. run \in [Runs -> RunRecords]
  BY DEF TypeInv, TypeOK, RunRecords
<1>1. ASSUME NEW a, NEW token, Dispatched(a, token) PROVE Fresh'
  BY <1>0, <1>1, FreshKept DEF Dispatched
<1>2. ASSUME NEW r \in Runs, NEW phase, phase # "none", run' = [run EXCEPT ![r].phase = phase]
      PROVE  Fresh'
  BY <1>0, <1>2, FreshKept DEF RunRecords
<1>3. ASSUME NEW m \in Messages, Arrive(m) \/ FailOpen(m) \/ Queue(m) \/ Dispatch(m) \/ Refuse(m) PROVE Fresh'
  BY <1>1, <1>3, FreshKept DEF Arrive, FailOpen, Queue, Dispatch, Refuse
<1>4. ASSUME NEW p \in Plans, Approve(p) \/ Continue(p) PROVE Fresh'
  BY <1>1, <1>4, FreshKept DEF Approve, Continue
<1>5. ASSUME NEW r \in Runs, Work(r) \/ Fall(r) PROVE Fresh'
  <2>1. CASE Turn(r) \/ Retry(r)
    <3>1. PICK q \in Runs : \E token :
            run' = [run EXCEPT ![q] = [of |-> run[r].of, token |-> token, phase |-> "starting"],
                               ![r].phase = "over"]
      BY <2>1 DEF Turn, Retry, Follows
    <3>2. \A p \in Runs : p # q /\ p # r => run'[p] = run[p]
      BY <1>0, <3>1
    <3>3. run'[r].phase # "none" /\ run'[q].phase # "none"
      BY <1>0, <3>1 DEF RunRecords
    <3> QED BY <3>2, <3>3, FreshKept
  <2>2. CASE Check(r)
    BY <1>1, <2>2 DEF Check
  <2>3. CASE Repeat(r) \/ LockLapses(r)
    BY <2>3, FreshKept DEF Repeat, LockLapses
  <2>4. CASE Lock(r) \/ GiveUp(r) \/ Finish(r) \/ Crash(r) \/ LoseTurn(r)
    BY <1>2, <2>4 DEF Lock, GiveUp, Finish, Crash, LoseTurn
  <2>5. CASE Finalize(r) \/ GoOn(r) \/ FailToRecovery(r) \/ Requeue(r)
    BY <1>2, <2>5 DEF Finalize, GoOn, FailToRecovery, Requeue
  <2> QED BY <1>5, <2>1, <2>2, <2>3, <2>4, <2>5 DEF Work, Answer, Fall
<1>6. ASSUME NEW h \in Handlers, Handle(h) PROVE Fresh'
  BY <1>1, <1>6, FreshKept DEF Handle, Release, Redispatch, RedispatchFails
<1>7. CASE Reconcile
  <2>1. \A r \in Runs : run'[r] = run[r] \/ run'[r].phase = "over"
    BY <1>0, <1>7 DEF Reconcile, RunRecords
  <2> QED BY <2>1, FreshKept
<1>8. CASE Clear \/ Expire \/ Silence \/ UNCHANGED vars
  BY <1>8, FreshKept DEF Clear, Expire, Silence, vars
<1> QED BY <1>3, <1>4, <1>5, <1>6, <1>7, <1>8 DEF Next

LEMMA InitOrder == Init => OrderInv
<1> SUFFICES ASSUME Init PROVE OrderInv
  OBVIOUS
<1>1. \A m \in Messages : gate[m] = "out"
  BY DEF Init, Askers
<1>2. drain[StopHandler] = None
  BY HandlersApart DEF Init
<1>3. Fresh
  BY DEF Init, Idle, Fresh
<1> QED BY <1>1, <1>2, <1>3, InitTypes DEF OrderInv, Ready, Passed, Held

LEMMA NextOrder == ASSUME OrderInv, [Next]_vars PROVE OrderInv'
BY NextTypes, NextReady, NextFresh DEF OrderInv

\* A drain that begins holds something, and an entry when one waits.
LEMMA PoppedHeld ==
    ASSUME queue \in Seq(Entries), NEW token \in Tokens
    PROVE  /\ Popped(token) # None /\ Popped(token).token = token
           /\ queue # <<>> => Popped(token).entry = Head(queue) /\ Head(queue) # None
           /\ queue = <<>> => Popped(token).entry = None
<1>1. queue # <<>> => Head(queue) \in Entries
  OBVIOUS
<1>2. Popped(token) \in Hands
  BY <1>1 DEF Popped, Hands
<1> QED BY <1>1, <1>2, NoneAssumption DEF Popped

-----------------------------------------------------------------------------
(* No phantom slot *)

Claimed(m) == gate[m] = "claimed"

\* What ends in releasing the marker or in another run under it: the dispatch
\* that claimed it, any run up to the end of its callbacks, and a drain that
\* holds no token or the marker's own.  A drain with the token of an earlier
\* claim releases nothing, so it does not count.
Moving(r) == Busy(r) \/ run[r].phase \in {"gone", "unsent"}
Comes(h) == Held(h) /\ drain[h].token \in {None, slot}
Backed ==
    slot # None =>
        \/ Claimed(slot)
        \/ \E r \in Runs : Moving(r)
        \/ \E h \in Handlers : Comes(h)
BackInv == OrderInv /\ Backed

LEMMA BackedBySlot ==
    ASSUME Backed, UNCHANGED slot,
           Claimed(slot) => Claimed(slot)' \/ (\E r \in Runs : Moving(r)') \/ \E h \in Handlers : Comes(h)',
           \A r \in Runs : Moving(r) => (\E q \in Runs : Moving(q)') \/ \E h \in Handlers : Comes(h)',
           \A h \in Handlers : Comes(h) => (\E q \in Runs : Moving(q)') \/ \E g \in Handlers : Comes(g)'
    PROVE  Backed'
BY DEF Backed

LEMMA DispatchMoves ==
    ASSUME TypeInv, NEW a, NEW token, Dispatched(a, token) PROVE \E r \in Runs : Moving(r)'
BY DispatchedOne DEF Moving, TypeInv, TypeOK, RunRecords

LEMMA GateBacked ==
    ASSUME BackInv, NEW m \in Messages,
           Arrive(m) \/ FailOpen(m) \/ Queue(m) \/ Dispatch(m) \/ Refuse(m)
    PROVE  Backed'
<1>0. /\ gate \in [Askers -> {"out", "refused", "claimed", "open", "approved", "done"}]
      /\ drain \in [Handlers -> Hands \cup {None}] /\ slot \in Messages \cup {None}
      /\ m \in Askers /\ m \in Handlers /\ m # None /\ TypeInv /\ Backed
      /\ Messages \subseteq Askers
  BY HandlersApart, QueueAssumption DEF BackInv, OrderInv, TypeInv, TypeOK, Askers
<1>1. CASE Arrive(m) /\ slot = None
  BY <1>0, <1>1 DEF Arrive, Claimable, Backed, Claimed
<1>2. CASE Arrive(m) /\ slot # None
  <2>1. slot' = slot /\ (Claimed(slot) => Claimed(slot)') /\ UNCHANGED <<run, due, drain>>
    BY <1>0, <1>2 DEF Arrive, Claimable, Claimed, Tokens
  <2> QED BY <1>0, <1>2, <2>1 DEF Backed, Moving, Comes, Busy, Held, Live, Tells, Turns, Claimed
<1>3. CASE Queue(m)
  <2>1. slot' = slot /\ (Claimed(slot) => Claimed(slot)') /\ UNCHANGED <<run, due, drain>>
    BY <1>0, <1>3 DEF Queue, Claimed, Tokens
  <2> QED BY <1>0, <2>1 DEF Backed, Moving, Comes, Busy, Held, Live, Tells, Turns, Claimed
<1>4. CASE Dispatch(m)
  BY <1>0, <1>4, DispatchMoves DEF Dispatch, Backed
<1>6. CASE FailOpen(m)
  <2>1. slot' = slot /\ (Claimed(slot) => Claimed(slot)') /\ UNCHANGED <<run, due, drain>>
    BY <1>0, <1>6 DEF FailOpen, Claimed
  <2> QED BY <1>0, <2>1 DEF Backed, Moving, Comes, Busy, Held, Live, Tells, Turns, Claimed
<1>5. CASE Refuse(m)
  <2>1. /\ slot' = slot /\ UNCHANGED <<run, due>>
        /\ drain' = [drain EXCEPT ![m] = Popped(TokenOf(m))]
    BY <1>5 DEF Refuse
  <2>2. ~Held(m)
    BY <1>5 DEF BackInv, OrderInv, Ready, Refuse, Passed, Held
  <2>3. Held(m)' /\ (Claimed(m) => drain'[m].token = m)
    <3>1. Popped(TokenOf(m)) # None /\ Popped(TokenOf(m)).token = TokenOf(m)
      BY <1>0, PoppedHeld, TokenTyped DEF TypeInv, TypeOK
    <3> QED BY <1>0, <2>1, <3>1 DEF Held, TokenOf, Claimed
  <2>4. Claimed(slot) => Claimed(slot)' \/ Comes(m)'
    BY <1>0, <1>5, <2>1, <2>3 DEF Claimed, Comes, Refuse
  <2>5. \A h \in Handlers : Comes(h) => Comes(h)'
    BY <1>0, <2>1, <2>2 DEF Comes, Held
  <2>6. \A r \in Runs : Moving(r) => Moving(r)'
    BY <2>1 DEF Moving, Busy, Live, Tells, Turns
  <2> QED BY <1>0, <2>1, <2>4, <2>5, <2>6, BackedBySlot
<1> QED BY <1>1, <1>2, <1>3, <1>4, <1>5, <1>6

LEMMA WorkBacked ==
    ASSUME BackInv, NEW r \in Runs, Work(r) \/ Fall(r)
    PROVE  Backed'
<1>0. /\ run \in [Runs -> RunRecords] /\ due \in [Runs -> 0 .. 2]
      /\ drain \in [Handlers -> Hands \cup {None}] /\ queue \in Seq(Entries)
      /\ r \in Handlers /\ None \in Tokens /\ TypeInv /\ Backed
  BY HandlersApart DEF BackInv, OrderInv, TypeInv, TypeOK, RunRecords, Tokens
<1>1. ASSUME UNCHANGED <<slot, gate, drain>>,
             \A q \in Runs : q # r => run'[q] = run[q] /\ due'[q] = due[q],
             Moving(r) => Moving(r)'
      PROVE  Backed'
  <2>1. \A q \in Runs : Moving(q) => Moving(q)'
    BY <1>1 DEF Moving, Busy, Live, Tells, Turns
  <2> QED BY <1>0, <1>1, <2>1, BackedBySlot DEF Comes, Held, Claimed
<1>2. ASSUME UNCHANGED slot, Held(r)', drain'[r].token = None PROVE Backed'
  BY <1>0, <1>2 DEF Backed, Comes
<1>3. CASE Lock(r)
  BY <1>0, <1>1, <1>3 DEF Lock, Moving, Busy, Live, Tells, Turns, RunRecords
<1>4. CASE GiveUp(r)
  BY <1>0, <1>1, <1>4 DEF GiveUp, Moving, Busy, Live, Tells, Turns, RunRecords
<1>5. CASE Finish(r)
  BY <1>0, <1>1, <1>5 DEF Finish, Moving, Busy, Live, Tells, Turns, RunRecords
<1>6. CASE Crash(r)
  BY <1>0, <1>1, <1>6 DEF Crash, Moving, Busy, Live, Tells, Turns, RunRecords
<1>7. CASE LockLapses(r)
  BY <1>0, <1>1, <1>7 DEF LockLapses, Moving, Busy, Live, Tells, Turns
<1>8. CASE Drains(r) /\ slot' = slot
  <2>1. drain'[r] = Popped(None)
    BY <1>0, <1>8 DEF Drains
  <2> QED BY <1>0, <1>2, <1>8, <2>1, PoppedHeld DEF Held
<1>10. CASE Finalize(r) \/ FailToRecovery(r)
  BY <1>8, <1>10 DEF Finalize, FailToRecovery, Called
<1>11. CASE GoOn(r)
  <2>1. UNCHANGED <<slot, gate, drain>> /\ Moving(r)'
    BY <1>0, <1>11 DEF GoOn, Called, Keeps, Moving, Busy, Turns, RunRecords
  <2>2. \A q \in Runs : q # r => run'[q] = run[q] /\ due'[q] = due[q]
    BY <1>0, <1>11 DEF GoOn, Called
  <2> QED BY <1>1, <2>1, <2>2
<1>12. CASE Repeat(r)
  <2>1. UNCHANGED <<slot, gate, run>> /\ \A q \in Runs : q # r => due'[q] = due[q]
    BY <1>0, <1>12 DEF Repeat, Called
  <2>2. CASE Drains(r)
    BY <1>8, <2>1, <2>2
  <2>3. CASE UNCHANGED drain
    BY <1>1, <2>1, <2>3 DEF Moving, Busy, Live, Tells, Turns
  <2> QED BY <1>12, <2>2, <2>3 DEF Repeat
<1>13. CASE Turn(r) \/ Retry(r)
  <2>1. UNCHANGED <<slot, gate>> /\ run[r].phase # "none" /\ \E token : Follows(r, token)
    BY <1>13 DEF Turn, Turns, Retry
  <2>2. PICK token : Follows(r, token)
    BY <2>1
  <2>3. \E q \in Runs : Busy(q)'
    BY <1>0, <2>1, <2>2, FollowsOne
  <2> QED BY <1>0, <2>1, <2>3 DEF Backed, Moving
<1>14. CASE LoseTurn(r)
  BY <1>0, <1>1, <1>14 DEF LoseTurn, Moving, Busy, Live, Tells, Turns, RunRecords
<1>15. CASE Check(r)
  BY <1>0, <1>15, DispatchMoves DEF Check, Backed
<1>9. CASE Requeue(r)
  <2>1. slot' = slot /\ drain'[r] = [token |-> None, entry |-> None]
    BY <1>0, <1>9 DEF Requeue
  <2>2. [token |-> None, entry |-> None] \in Hands
    BY <1>0 DEF Hands
  <2> QED BY <1>2, <2>1, <2>2, NoneAssumption DEF Held
<1> QED BY <1>3, <1>4, <1>5, <1>6, <1>7, <1>9, <1>10, <1>11, <1>12, <1>13, <1>14, <1>15
        DEF Work, Answer, Fall

LEMMA HandleBacked ==
    ASSUME BackInv, NEW h \in Handlers, Handle(h)
    PROVE  Backed'
<1>0. TypeInv /\ Backed /\ drain \in [Handlers -> Hands \cup {None}] /\ slot \in Messages \cup {None}
  BY DEF BackInv, OrderInv, TypeInv, TypeOK
<1>1. CASE Release(h) \/ RedispatchFails(h)
  <2>1. CASE drain[h].token \in {None, slot}
    BY <1>1, <2>1 DEF Release, RedispatchFails, Released, Backed
  <2>2. CASE drain[h].token \notin {None, slot}
    <3>1. slot' = slot /\ UNCHANGED <<gate, run, due>> /\ drain' = [drain EXCEPT ![h] = None]
      BY <1>1, <2>2 DEF Release, RedispatchFails, Released
    <3>2. \A g \in Handlers : Comes(g) => Comes(g)'
      BY <1>0, <2>2, <3>1 DEF Comes, Held
    <3>3. \A r \in Runs : Moving(r) => Moving(r)'
      BY <3>1 DEF Moving, Busy, Live, Tells, Turns
    <3> QED BY <1>0, <3>1, <3>2, <3>3, BackedBySlot DEF Claimed
  <2> QED BY <2>1, <2>2
<1>2. CASE Redispatch(h)
  BY <1>0, <1>2, DispatchMoves DEF Redispatch, Backed
<1> QED BY <1>1, <1>2 DEF Handle

LEMMA NextBacked == ASSUME BackInv, [Next]_vars PROVE Backed'
<1>0. TypeInv /\ Backed /\ drain \in [Handlers -> Hands \cup {None}] /\ None \in Tokens
      /\ queue \in Seq(Entries) /\ StopHandler \in Handlers
  BY HandlersApart DEF BackInv, OrderInv, TypeInv, TypeOK, Tokens
<1>1. ASSUME NEW p \in Plans, Approve(p) PROVE Backed'
  <2>1. UNCHANGED <<slot, run, due, drain>> /\ (Claimed(slot) => Claimed(slot)')
    BY <1>0, <1>1 DEF Approve, Claimed, TypeInv, TypeOK
  <2> QED BY <1>0, <2>1 DEF Backed, Moving, Comes, Busy, Held, Live, Tells, Turns
<1>2. ASSUME NEW p \in Plans, Continue(p) PROVE Backed'
  BY <1>0, <1>2, DispatchMoves DEF Continue, Backed
<1>3. CASE Reconcile /\ Orphans # {}
  <2>1. slot' = slot /\ drain'[StopHandler] = Popped(None)
    BY <1>0, <1>3 DEF Reconcile
  <2>2. Comes(StopHandler)'
    BY <1>0, <2>1, PoppedHeld DEF Comes, Held
  <2> QED BY <1>0, <2>1, <2>2 DEF Backed
<1>4. CASE Clear \/ (Reconcile /\ Orphans = {}) \/ UNCHANGED vars
  <2>1. UNCHANGED <<slot, gate, run, due, drain>>
    BY <1>4 DEF Clear, Reconcile, vars
  <2> QED BY <1>0, <2>1 DEF Backed, Claimed, Moving, Comes, Busy, Held, Live, Tells, Turns
<1>5. CASE Expire \/ Silence
  BY <1>5 DEF Expire, Silence, Backed
<1> QED BY <1>1, <1>2, <1>3, <1>4, <1>5, GateBacked, WorkBacked, HandleBacked DEF Next

\* A marker that is set has something coming to it, in every interleaving of
\* the gate, the finalizers, /stop and lapsed markers: a dispatch, a run, a
\* callback or a drain that ends in releasing it or in the next run, or a run
\* whose pod died or whose goal's next turn was lost (what /stop and the lapse
\* act on).
THEOREM SlotIsBacked == Spec => []NoPhantomSlot
<1>1. Init => Backed
  BY DEF Init, Backed
<1>2. Spec => []BackInv
  <2>1. Init => BackInv
    BY <1>1, InitOrder DEF BackInv
  <2>2. BackInv /\ [Next]_vars => BackInv'
    BY NextBacked, NextOrder DEF BackInv
  <2> QED BY <2>1, <2>2, PTL DEF Spec
<1>3. BackInv => NoPhantomSlot
  <2> SUFFICES ASSUME BackInv, slot # None PROVE Outstanding \/ \E r \in Runs : run[r].phase \in {"gone", "unsent"}
    BY DEF NoPhantomSlot
  <2>1. slot \in Messages
    BY DEF BackInv, OrderInv, TypeInv, TypeOK
  <2>2. \/ Claimed(slot) \/ (\E r \in Runs : Moving(r)) \/ \E h \in Handlers : Held(h)
    BY DEF BackInv, Backed, Comes
  <2> QED BY <2>1, <2>2 DEF Claimed, Passed, Moving, Held, Busy, Outstanding
<1> QED BY <1>2, <1>3, PTL

-----------------------------------------------------------------------------
(* Nothing is lost *)

\* Where an asker's message can be: in the FIFO, in a drain, or in a run that
\* its finalizer has not ended; and whether it was told.
InFifo(a) == \E i \in 1 .. Len(queue) : queue[i].of = a
HandCarries(h, a) == Held(h) /\ drain[h].entry # None /\ drain[h].entry.of = a
RunOf(r, a) == run[r].of = a /\ run[r].phase # "over"
Cared(a) ==
    \/ a \in heard \/ InFifo(a)
    \/ \E h \in Handlers : HandCarries(h, a)
    \/ \E r \in Runs : RunOf(r, a)

\* A message whose handler is done is cared for, and so is one the dedupe set
\* knows: a repeat of it is taken for one that was queued.
KeptInv ==
    /\ OrderInv
    /\ \A a \in Askers : gate[a] = "done" => Cared(a)
    /\ \A m \in Messages : Waiting(m) \in seen => Cared(m)

\* A push keeps what is listed and lists what it accepts.
LEMMA PushLists ==
    ASSUME queue \in Seq(Entries), NEW e \in Entries, queue' = Enqueued(e)
    PROVE  /\ \A a \in Askers : InFifo(a) => InFifo(a)'
           /\ Accepts(e) => InFifo(e.of)'
<1>1. CASE ~Accepts(e)
  BY <1>1 DEF Enqueued, InFifo
<1>2. CASE Accepts(e)
  <2>1. /\ queue' = Append(queue, e) /\ Len(queue') = Len(queue) + 1 /\ Len(queue) \in Nat
        /\ \A i \in 1 .. Len(queue) : queue'[i] = queue[i]
        /\ queue'[Len(queue) + 1] = e
    BY <1>2 DEF Enqueued
  <2>2. 1 .. Len(queue) \subseteq 1 .. Len(queue') /\ Len(queue) + 1 \in 1 .. Len(queue')
    BY <2>1
  <2> QED BY <2>1, <2>2 DEF InFifo
<1> QED BY <1>1, <1>2

\* A pop moves the head of the FIFO to the drain that begins.
LEMMA PopCarries ==
    ASSUME queue \in Seq(Entries), drain \in [Handlers -> Hands \cup {None}],
           NEW h \in Handlers, NEW token \in Tokens, ~Held(h),
           queue' = Rest, drain' = [drain EXCEPT ![h] = Popped(token)], NEW a \in Askers
    PROVE  /\ \A g \in Handlers : HandCarries(g, a) => HandCarries(g, a)'
           /\ InFifo(a) => InFifo(a)' \/ HandCarries(h, a)'
<1>1. \A g \in Handlers : HandCarries(g, a) => HandCarries(g, a)'
  BY DEF HandCarries, Held
<1>2. ASSUME InFifo(a) PROVE InFifo(a)' \/ HandCarries(h, a)'
  <2>1. PICK i \in 1 .. Len(queue) : queue[i].of = a
    BY <1>2 DEF InFifo
  <2>2. queue # <<>> /\ queue' = Tail(queue) /\ Len(queue') = Len(queue) - 1
        /\ Len(queue) \in Nat /\ Head(queue) = queue[1]
    BY <2>1 DEF Rest
  <2>3. CASE i = 1
    <3>1. drain'[h] = Popped(token)
      OBVIOUS
    <3> QED BY <2>1, <2>2, <2>3, <3>1, PoppedHeld DEF HandCarries, Held
  <2>4. CASE i # 1
    <3>1. i - 1 \in 1 .. Len(queue') /\ queue'[i - 1] = queue[i]
      BY <2>1, <2>2, <2>4
    <3> QED BY <2>1, <3>1 DEF InFifo
  <2> QED BY <2>3, <2>4
<1> QED BY <1>1, <1>2

\* A dispatch keeps the runs of every asker and adds one of its own.
LEMMA DispatchRuns ==
    ASSUME TypeInv, Fresh, NEW a \in Askers, NEW token, Dispatched(a, token)
    PROVE  /\ \E r \in Runs : RunOf(r, a)'
           /\ \A b \in Askers, r \in Runs : RunOf(r, b) => RunOf(r, b)'
<1>0. run \in [Runs -> RunRecords]
  BY DEF TypeInv, TypeOK, RunRecords
<1>1. PICK r \in Runs :
        /\ run[r].phase = "none"
        /\ run' = [run EXCEPT ![r] = [of |-> a, token |-> token, phase |-> "starting"]]
  BY DEF Dispatched, NextSession
<1>2. \A b \in Askers : ~RunOf(r, b)
  BY <1>1, QueueAssumption DEF Fresh, RunOf
<1>3. RunOf(r, a)' /\ \A q \in Runs : q # r => run'[q] = run[q]
  BY <1>0, <1>1 DEF RunOf
<1> QED BY <1>2, <1>3 DEF RunOf

\* ... and so does the run that follows on one.
LEMMA FollowsRuns ==
    ASSUME TypeInv, Fresh, NEW q \in Runs, run[q].phase # "none", NEW token, Follows(q, token),
           NEW a \in Askers, NEW p \in Runs, RunOf(p, a)
    PROVE  \E r \in Runs : RunOf(r, a)'
<1>0. run \in [Runs -> RunRecords]
  BY DEF TypeInv, TypeOK, RunRecords
<1>1. PICK r \in Runs :
        /\ run[r].phase = "none"
        /\ run' = [run EXCEPT
              ![r] = [of |-> run[q].of, token |-> token, phase |-> "starting"],
              ![q].phase = "over"]
  BY DEF Follows, NextSession
<1>2. r # q
  BY <1>1
<1>3. run'[r] = [of |-> run[q].of, token |-> token, phase |-> "starting"]
  BY <1>0, <1>1, <1>2
<1>4. \A k \in Runs : k # r /\ k # q => run'[k] = run[k]
  BY <1>0, <1>1
<1>5. CASE p = q
  BY <1>3, <1>5 DEF RunOf
<1>6. CASE p # q /\ p # r
  BY <1>4, <1>6 DEF RunOf
<1>7. p # r
  BY <1>1, QueueAssumption DEF Fresh, RunOf
<1> QED BY <1>5, <1>6, <1>7

\* A run that moves on is still its asker's, until it is over.
LEMMA RunKeeps ==
    ASSUME run \in [Runs -> RunRecords], NEW r \in Runs, NEW phase,
           run' = [run EXCEPT ![r].phase = phase], NEW a \in Askers, NEW q \in Runs, RunOf(q, a)
    PROVE  RunOf(q, a)' \/ (q = r /\ phase = "over" /\ run[r].of = a)
BY DEF RunOf, RunRecords

\* Every step keeps what is cared for.
Caring == \A a \in Askers : Cared(a) => Cared(a)'

LEMMA GateCares ==
    ASSUME KeptInv, NEW m \in Messages,
           Arrive(m) \/ FailOpen(m) \/ Queue(m) \/ Dispatch(m) \/ Refuse(m)
    PROVE  /\ Caring
           /\ \A a \in Askers : gate'[a] = "done" => gate[a] = "done" \/ Cared(a)'
           /\ \A k \in Messages : Waiting(k) \in seen' => Waiting(k) \in seen \/ Cared(k)'
<1>0. /\ gate \in [Askers -> {"out", "refused", "claimed", "open", "approved", "done"}]
      /\ drain \in [Handlers -> Hands \cup {None}] /\ queue \in Seq(Entries)
      /\ m \in Askers /\ m \in Handlers /\ m \in Tokens /\ TypeInv /\ Fresh
      /\ Waiting(m) \in Entries /\ Waiting(m).of = m
      /\ \A k \in Messages : Waiting(k) = Waiting(m) => k = m
  BY HandlersApart DEF KeptInv, OrderInv, TypeInv, TypeOK, Waiting, Entries, Tokens
<1>1. CASE Arrive(m) \/ FailOpen(m)
  <2>1. UNCHANGED <<queue, seen, drain, run, heard>>
    BY <1>1 DEF Arrive, FailOpen
  <2>2. \A a \in Askers : gate'[a] = "done" => gate[a] = "done"
    BY <1>0, <1>1 DEF Arrive, FailOpen
  <2> QED BY <2>1, <2>2 DEF Caring, Cared, InFifo, HandCarries, RunOf, Held
<1>2. CASE Queue(m)
  <2>1. UNCHANGED <<drain, run>> /\ heard \subseteq heard' /\ queue' = Enqueued(Waiting(m))
    BY <1>2 DEF Queue
  <2>2. Caring
    <3>1. \A a \in Askers : InFifo(a) => InFifo(a)'
      BY <1>0, <2>1, PushLists
    <3> QED BY <2>1, <3>1 DEF Caring, Cared, HandCarries, RunOf, Held
  <2>3. Cared(m)'
    <3>1. CASE Accepts(Waiting(m))
      BY <1>0, <2>1, <3>1, PushLists DEF Cared
    <3>2. CASE Deduped(Waiting(m))
      BY <1>0, <2>2, <3>2 DEF Deduped, KeptInv, Caring
    <3>3. CASE ~Accepts(Waiting(m)) /\ ~Deduped(Waiting(m))
      BY <1>2, <3>3 DEF Queue, Cared
    <3> QED BY <3>1, <3>2, <3>3
  <2>4. \A a \in Askers : gate'[a] = "done" => gate[a] = "done" \/ a = m
    BY <1>0, <1>2 DEF Queue
  <2>5. \A k \in Messages : Waiting(k) \in seen' => Waiting(k) \in seen \/ k = m
    BY <1>0, <1>2 DEF Queue, Noted
  <2> QED BY <2>2, <2>3, <2>4, <2>5
<1>3. CASE Dispatch(m)
  <2>1. UNCHANGED <<queue, seen, drain, heard>> /\ Dispatched(m, TokenOf(m))
    BY <1>3 DEF Dispatch
  <2>2. (\E r \in Runs : RunOf(r, m)') /\ \A a \in Askers, r \in Runs : RunOf(r, a) => RunOf(r, a)'
    BY <1>0, <2>1, DispatchRuns
  <2>3. \A a \in Askers : gate'[a] = "done" => gate[a] = "done" \/ a = m
    BY <1>0, <1>3 DEF Dispatch
  <2> QED BY <2>1, <2>2, <2>3 DEF Caring, Cared, InFifo, HandCarries, Held
<1>4. CASE Refuse(m)
  <2>1. /\ UNCHANGED <<seen, run>> /\ heard' = heard \cup {m}
        /\ queue' = Rest /\ drain' = [drain EXCEPT ![m] = Popped(TokenOf(m))] /\ ~Held(m)
        /\ TokenOf(m) \in Tokens
    BY <1>4, TokenTyped DEF Refuse, KeptInv, OrderInv, Ready, Passed, Held
  <2>2. \A a \in Askers : /\ \A g \in Handlers : HandCarries(g, a) => HandCarries(g, a)'
                          /\ InFifo(a) => InFifo(a)' \/ HandCarries(m, a)'
    BY <1>0, <2>1, PopCarries
  <2>3. \A a \in Askers : gate'[a] = "done" => gate[a] = "done" \/ a = m
    BY <1>0, <1>4 DEF Refuse
  <2> QED BY <1>0, <2>1, <2>2, <2>3 DEF Caring, Cared, RunOf
<1> QED BY <1>1, <1>2, <1>3, <1>4

LEMMA PlanCares ==
    ASSUME KeptInv, NEW p \in Plans, Approve(p) \/ Continue(p)
    PROVE  /\ Caring
           /\ \A a \in Askers : gate'[a] = "done" => gate[a] = "done" \/ Cared(a)'
           /\ seen' = seen
<1>0. /\ gate \in [Askers -> {"out", "refused", "claimed", "open", "approved", "done"}]
      /\ p \in Askers /\ TypeInv /\ Fresh
  BY DEF KeptInv, OrderInv, TypeInv, TypeOK, Askers
<1>1. CASE Approve(p)
  BY <1>0, <1>1 DEF Approve, Caring, Cared, InFifo, HandCarries, RunOf, Held
<1>2. CASE Continue(p)
  <2>1. UNCHANGED <<queue, seen, drain, heard>> /\ Dispatched(p, None)
    BY <1>2 DEF Continue
  <2>2. (\E r \in Runs : RunOf(r, p)') /\ \A a \in Askers, r \in Runs : RunOf(r, a) => RunOf(r, a)'
    BY <1>0, <2>1, DispatchRuns
  <2>3. \A a \in Askers : gate'[a] = "done" => gate[a] = "done" \/ a = p
    BY <1>0, <1>2 DEF Continue
  <2> QED BY <2>1, <2>2, <2>3 DEF Caring, Cared, InFifo, HandCarries, Held
<1> QED BY <1>1, <1>2

LEMMA WorkCares ==
    ASSUME KeptInv, NEW r \in Runs, Work(r) \/ Fall(r)
    PROVE  /\ Caring /\ gate' = gate
           /\ \A k \in Messages : Waiting(k) \in seen' => Waiting(k) \in seen
<1>0. /\ run \in [Runs -> RunRecords] /\ queue \in Seq(Entries)
      /\ drain \in [Handlers -> Hands \cup {None}]
      /\ r \in Handlers /\ None \in Tokens /\ TypeInv /\ Asked /\ Fresh
  BY HandlersApart DEF KeptInv, OrderInv, TypeInv, TypeOK, RunRecords, Tokens
<1>1. CASE Lock(r) \/ GiveUp(r) \/ Finish(r) \/ Crash(r) \/ LoseTurn(r)
  <2>1. UNCHANGED <<queue, seen, gate, drain, heard>>
    BY <1>1 DEF Lock, GiveUp, Finish, Crash, LoseTurn
  <2>2. PICK phase : phase # "over" /\ run' = [run EXCEPT ![r].phase = phase]
    BY <1>1 DEF Lock, GiveUp, Finish, Crash, LoseTurn
  <2>3. \A a \in Askers, q \in Runs : RunOf(q, a) => RunOf(q, a)'
    BY <1>0, <2>2, RunKeeps
  <2> QED BY <2>1, <2>3 DEF Caring, Cared, InFifo, HandCarries, Held
<1>2. CASE LockLapses(r)
  BY <1>2 DEF LockLapses, Caring, Cared, InFifo, HandCarries, RunOf, Held
<1>5. CASE Finalize(r) \/ FailToRecovery(r)
  <2>1. UNCHANGED <<seen, gate>> /\ heard \subseteq heard'
    BY <1>5 DEF Finalize, FailToRecovery, Called
  <2>2. Drains(r)
    BY <1>5 DEF Finalize, FailToRecovery
  <2>3. \A a \in Askers, q \in Runs : RunOf(q, a) => RunOf(q, a)' \/ a \in heard'
    <3>1. CASE Finalize(r)
      BY <1>0, <3>1, RunKeeps DEF Finalize
    <3>2. CASE FailToRecovery(r)
      BY <1>0, <3>2, RunKeeps DEF FailToRecovery
    <3> QED BY <1>5, <3>1, <3>2
  <2>4. Caring
    <3>1. queue' = Rest /\ drain' = [drain EXCEPT ![r] = Popped(None)] /\ ~Held(r)
      BY <2>2 DEF Drains, Held
    <3>2. \A a \in Askers : /\ \A g \in Handlers : HandCarries(g, a) => HandCarries(g, a)'
                            /\ InFifo(a) => InFifo(a)' \/ HandCarries(r, a)'
      BY <1>0, <3>1, PopCarries
    <3> QED BY <1>0, <2>1, <2>3, <3>1, <3>2 DEF Caring, Cared
  <2> QED BY <2>1, <2>4
<1>6. CASE GoOn(r)
  <2>1. UNCHANGED <<seen, gate, queue, drain>> /\ heard \subseteq heard'
    BY <1>6 DEF GoOn, Called, Keeps
  <2>2. \A a \in Askers, q \in Runs : RunOf(q, a) => RunOf(q, a)'
    BY <1>0, <1>6, RunKeeps DEF GoOn
  <2> QED BY <2>1, <2>2 DEF Caring, Cared, InFifo, HandCarries, Held
<1>7. CASE Repeat(r)
  <2>1. UNCHANGED <<seen, gate, run, heard>>
    BY <1>7 DEF Repeat, Called
  <2>2. \A a \in Askers, q \in Runs : RunOf(q, a) => RunOf(q, a)'
    BY <2>1 DEF RunOf
  <2>3. CASE Drains(r)
    <3>1. queue' = Rest /\ drain' = [drain EXCEPT ![r] = Popped(None)] /\ ~Held(r)
      BY <2>3 DEF Drains, Held
    <3>2. \A a \in Askers : /\ \A g \in Handlers : HandCarries(g, a) => HandCarries(g, a)'
                            /\ InFifo(a) => InFifo(a)' \/ HandCarries(r, a)'
      BY <1>0, <3>1, PopCarries
    <3> QED BY <1>0, <2>1, <2>2, <3>1, <3>2 DEF Caring, Cared
  <2>4. CASE UNCHANGED <<queue, drain>>
    BY <2>1, <2>2, <2>4 DEF Caring, Cared, InFifo, HandCarries, Held
  <2> QED BY <1>7, <2>3, <2>4 DEF Repeat
<1>8. CASE Turn(r) \/ Retry(r)
  <2>1. UNCHANGED <<queue, seen, gate, drain, heard>> /\ run[r].phase # "none"
    BY <1>8 DEF Turn, Turns, Retry
  <2>2. PICK token : Follows(r, token)
    BY <1>8 DEF Turn, Retry
  <2>3. \A a \in Askers, q \in Runs : RunOf(q, a) => \E p \in Runs : RunOf(p, a)'
    BY <1>0, <2>1, <2>2, FollowsRuns
  <2> QED BY <2>1, <2>3 DEF Caring, Cared, InFifo, HandCarries, Held
<1>9. CASE Check(r)
  <2>1. UNCHANGED <<queue, seen, gate, drain, heard>> /\ run[r].of \in Askers
    BY <1>0, <1>9 DEF Check, Turns, Asked
  <2>2. \A b \in Askers, q \in Runs : RunOf(q, b) => RunOf(q, b)'
    BY <1>0, <1>9, <2>1, DispatchRuns DEF Check
  <2> QED BY <2>1, <2>2 DEF Caring, Cared, InFifo, HandCarries, Held
<1>4. CASE Requeue(r)
  <2> DEFINE e == [of |-> run[r].of, lock |-> r]
             phase == IF Accepts(e) THEN "over" ELSE "dropped"
  <2>1. /\ UNCHANGED <<gate, heard>> /\ queue' = Enqueued(e) /\ seen' = Noted(e)
        /\ run' = [run EXCEPT ![r].phase = phase] /\ ~Held(r)
        /\ drain' = [drain EXCEPT ![r] = [token |-> None, entry |-> None]]
    BY <1>4 DEF Requeue, Held
  <2>2. e \in Entries /\ e.of = run[r].of /\ \A k \in Messages : Waiting(k) # e
    <3>1. run[r].of \in Askers
      BY <1>0, <1>4 DEF Requeue, Asked
    <3>2. r # 0
      BY HandlersApart DEF StopHandler
    <3> QED BY <3>1, <3>2 DEF Entries, Waiting
  <2> HIDE DEF e
  <2>3. \A a \in Askers, q \in Runs : RunOf(q, a) => RunOf(q, a)' \/ InFifo(a)'
    <3>1. \A a \in Askers : Accepts(e) /\ run[r].of = a => InFifo(a)'
      BY <1>0, <2>1, <2>2, PushLists
    <3>2. phase = "over" => Accepts(e)
      OBVIOUS
    <3> HIDE DEF phase
    <3>3. \A a \in Askers, q \in Runs :
            RunOf(q, a) => RunOf(q, a)' \/ (phase = "over" /\ run[r].of = a)
      BY <1>0, <2>1, RunKeeps
    <3> QED BY <3>1, <3>2, <3>3
  <2>4. \A a \in Askers : InFifo(a) => InFifo(a)'
    BY <1>0, <2>1, <2>2, PushLists
  <2>5. \A a \in Askers, h \in Handlers : HandCarries(h, a) => HandCarries(h, a)'
    BY <1>0, <2>1 DEF HandCarries, Held
  <2>6. Caring
    BY <2>1, <2>3, <2>4, <2>5 DEF Caring, Cared
  <2> QED BY <2>1, <2>2, <2>6 DEF Noted
<1> QED BY <1>1, <1>2, <1>4, <1>5, <1>6, <1>7, <1>8, <1>9 DEF Work, Answer, Fall

LEMMA HandleCares ==
    ASSUME KeptInv, NEW h \in Handlers, Handle(h)
    PROVE  Caring /\ UNCHANGED <<gate, seen>>
<1>0. TypeInv /\ Fresh /\ drain \in [Handlers -> Hands \cup {None}]
  BY DEF KeptInv, OrderInv, TypeInv, TypeOK
<1>1. UNCHANGED <<gate, seen, queue>> /\ heard \subseteq heard'
      /\ drain' = [drain EXCEPT ![h] = None]
  BY DEF Handle, Release, Redispatch, RedispatchFails
<1>2. \A a \in Askers, g \in Handlers : g # h /\ HandCarries(g, a) => HandCarries(g, a)'
  BY <1>0, <1>1 DEF HandCarries, Held
<1>3. \A a \in Askers : InFifo(a) => InFifo(a)'
  BY <1>1 DEF InFifo
<1>4. \A a \in Askers, r \in Runs : RunOf(r, a) => RunOf(r, a)'
  <2>1. CASE Redispatch(h)
    <3>1. drain[h].entry.of \in Askers
      BY <1>0, <2>1, HandTyped DEF Redispatch, Entries
    <3> QED BY <1>0, <2>1, <3>1, DispatchRuns DEF Redispatch
  <2>2. CASE Release(h) \/ RedispatchFails(h)
    BY <2>2 DEF Release, RedispatchFails, RunOf
  <2> QED BY <2>1, <2>2 DEF Handle
<1>5. ASSUME NEW a \in Askers, HandCarries(h, a) PROVE a \in heard' \/ \E r \in Runs : RunOf(r, a)'
  <2>1. CASE Release(h)
    BY <1>5, <2>1 DEF Release, HandCarries
  <2>2. CASE Redispatch(h)
    BY <1>0, <1>5, <2>2, DispatchRuns DEF Redispatch, HandCarries
  <2>3. CASE RedispatchFails(h)
    BY <1>5, <2>3 DEF RedispatchFails, HandCarries
  <2> QED BY <2>1, <2>2, <2>3 DEF Handle
<1> QED BY <1>1, <1>2, <1>3, <1>4, <1>5 DEF Caring, Cared

LEMMA StopCares ==
    ASSUME KeptInv, Clear \/ Reconcile
    PROVE  Caring /\ gate' = gate /\ seen' \subseteq seen
<1>0. /\ drain \in [Handlers -> Hands \cup {None}] /\ queue \in Seq(Entries)
      /\ run \in [Runs -> RunRecords] /\ None \in Tokens /\ StopHandler \in Handlers
  BY HandlersApart DEF KeptInv, OrderInv, TypeInv, TypeOK, RunRecords, Tokens
<1>1. CASE Clear
  <2>1. \A a \in Askers : InFifo(a) => a \in heard'
    BY <1>1 DEF Clear, InFifo
  <2> QED BY <1>1, <2>1 DEF Clear, Caring, Cared, HandCarries, RunOf, Held
<1>2. CASE Reconcile /\ Orphans = {}
  BY <1>2 DEF Reconcile, Caring, Cared, InFifo, HandCarries, RunOf, Held
<1>3. CASE Reconcile /\ Orphans # {}
  <2>1. /\ UNCHANGED <<gate, seen>> /\ heard' = heard \cup {run[r].of : r \in Orphans}
        /\ queue' = Rest /\ drain' = [drain EXCEPT ![StopHandler] = Popped(None)]
        /\ run' = [r \in Runs |-> IF run[r].phase = "gone"
                                  THEN [run[r] EXCEPT !.phase = "over"] ELSE run[r]]
        /\ ~Held(StopHandler)
    BY <1>3 DEF Reconcile, KeptInv, OrderInv, Ready
  <2>2. \A a \in Askers : /\ \A g \in Handlers : HandCarries(g, a) => HandCarries(g, a)'
                          /\ InFifo(a) => InFifo(a)' \/ HandCarries(StopHandler, a)'
    BY <1>0, <2>1, PopCarries
  <2>3. \A a \in Askers, r \in Runs : RunOf(r, a) => RunOf(r, a)' \/ a \in heard'
    <3> SUFFICES ASSUME NEW a \in Askers, NEW r \in Runs, RunOf(r, a) PROVE RunOf(r, a)' \/ a \in heard'
      OBVIOUS
    <3>1. CASE run[r].phase = "gone"
      BY <2>1, <3>1 DEF Orphans, RunOf
    <3>2. CASE run[r].phase # "gone"
      BY <2>1, <3>2 DEF RunOf
    <3> QED BY <3>1, <3>2
  <2> QED BY <1>0, <2>1, <2>2, <2>3 DEF Caring, Cared
<1> QED BY <1>1, <1>2, <1>3

LEMMA NextCares == ASSUME KeptInv, [Next]_vars PROVE KeptInv'
<1> DEFINE Cares ==
      /\ Caring
      /\ \A a \in Askers : gate'[a] = "done" => gate[a] = "done" \/ Cared(a)'
      /\ \A k \in Messages : Waiting(k) \in seen' => Waiting(k) \in seen \/ Cared(k)'
<1>1. ASSUME Expire \/ Silence \/ UNCHANGED vars PROVE Cares
  <2>1. UNCHANGED <<gate, seen, queue, drain, run, heard>>
    BY <1>1 DEF Expire, Silence, vars
  <2>2. Caring
    BY <2>1 DEF Caring, Cared, InFifo, HandCarries, RunOf, Held
  <2> QED BY <2>1, <2>2 DEF Cares
<1>2. Cares
  BY <1>1, GateCares, PlanCares, WorkCares, HandleCares, StopCares DEF Next
<1>3. OrderInv'
  BY NextOrder DEF KeptInv
<1> QED BY <1>2, <1>3 DEF KeptInv, Caring, Askers

\* No message falls between the gate, the FIFO, the finalizers and the runs,
\* however often it is sent again and whoever drains meanwhile: one its
\* handler is done with was answered or told about, waits, or is of a run that
\* has not ended.  The dedupe set must be part of the argument: a message it
\* knows is not queued again.
THEOREM NoneIsLost == Spec => []NothingLost
<1>1. Init => KeptInv
  <2> SUFFICES ASSUME Init PROVE KeptInv
    OBVIOUS
  <2>1. OrderInv
    BY InitOrder
  <2> QED BY <2>1 DEF Init, KeptInv
<1>2. Spec => []KeptInv
  BY <1>1, NextCares, PTL DEF Spec
<1>3. KeptInv => NothingLost
  BY DEF KeptInv, NothingLost, InHand, Cared, InFifo, HandCarries, RunOf, Held
<1> QED BY <1>2, <1>3, PTL

=============================================================================
