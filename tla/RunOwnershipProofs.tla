------------------------- MODULE RunOwnershipProofs -------------------------
(***************************************************************************)
(* Proofs about RunOwnership: its types; that an attempt that has claimed  *)
(* the run is the holder of the owner key while every pod reaches Redis    *)
(* and no key lapsed before its registration; and that then no two         *)
(* attempts of a job do its work, with the stalls the worker allows.       *)
(***************************************************************************)
EXTENDS RunOwnership, FiniteSetTheorems, TLAPS

-----------------------------------------------------------------------------
(* Types *)

AttRecords == [pod : Pods \cup {None}, took : Attempts \cup {None}, phase : Phases,
               stage : Stages, out : BOOLEAN, halted : BOOLEAN]

\* an attempt has a pod from its delivery on
Placed == \A a \in Attempts : att[a].pod = None <=> att[a].phase = "none"
\* a job that an attempt holds is active, and one that stalled once too often
\* has failed
JobHeld ==
    /\ runner # None => job = "active"
    /\ job # "failed" => stalls <= MaxStalled
TypeInv == TypeOK /\ Placed /\ JobHeld

\* A step that leaves every attempt where it is, and finds no dead holder.
Stays ==
    /\ att' \in [Attempts -> AttRecords]
    /\ \A b \in Attempts : att'[b].pod = att[b].pod /\ att'[b].took \in {att[b].took, None}

\* An attempt whose phase alone moves, and one whose stage does.
Moved(a, ph) ==
    /\ att'[a].phase = ph /\ att'[a].pod = att[a].pod /\ att'[a].halted = att[a].halted
    /\ att'[a].stage = att[a].stage
    /\ \A b \in Attempts : b # a => att'[b] = att[b]
Staged(a, st) ==
    /\ att'[a].stage = st /\ att'[a].phase = att[a].phase /\ att'[a].pod = att[a].pod
    /\ att'[a].halted = att[a].halted
    /\ \A b \in Attempts : b # a => att'[b] = att[b]
\* An attempt that is over.
Gone(a) ==
    /\ att'[a].phase = "over" /\ att'[a].pod = att[a].pod /\ att'[a].stage = "start"
    /\ \A b \in Attempts : b # a => att'[b] = att[b]

LEMMA PhaseMoves ==
    ASSUME att \in [Attempts -> AttRecords], NEW a \in Attempts, NEW ph \in Phases,
           att' = Phase(a, ph)
    PROVE  Stays /\ Moved(a, ph)
<1>1. att' = [att EXCEPT ![a] = [att[a] EXCEPT !.phase = ph]]
  BY DEF Phase
<1>2. /\ [att[a] EXCEPT !.phase = ph] \in AttRecords
      /\ [att[a] EXCEPT !.phase = ph].pod = att[a].pod
      /\ [att[a] EXCEPT !.phase = ph].took = att[a].took
      /\ [att[a] EXCEPT !.phase = ph].stage = att[a].stage
      /\ [att[a] EXCEPT !.phase = ph].halted = att[a].halted
      /\ [att[a] EXCEPT !.phase = ph].phase = ph
  BY DEF AttRecords
<1> QED BY <1>1, <1>2 DEF Stays, Moved

LEMMA StageMoves ==
    ASSUME att \in [Attempts -> AttRecords], NEW a \in Attempts, NEW st \in Stages,
           att' = Stage(a, st)
    PROVE  Stays /\ Staged(a, st)
<1>1. att' = [att EXCEPT ![a] = [att[a] EXCEPT !.stage = st]]
  BY DEF Stage
<1>2. /\ [att[a] EXCEPT !.stage = st] \in AttRecords
      /\ [att[a] EXCEPT !.stage = st].pod = att[a].pod
      /\ [att[a] EXCEPT !.stage = st].took = att[a].took
      /\ [att[a] EXCEPT !.stage = st].phase = att[a].phase
      /\ [att[a] EXCEPT !.stage = st].halted = att[a].halted
      /\ [att[a] EXCEPT !.stage = st].stage = st
  BY DEF AttRecords
<1> QED BY <1>1, <1>2 DEF Stays, Staged

LEMMA OverMoves ==
    ASSUME att \in [Attempts -> AttRecords], NEW a \in Attempts,
           att' = [att EXCEPT ![a] = Over(a)]
    PROVE  Stays /\ Gone(a)
<1>1. /\ Over(a) \in AttRecords /\ Over(a).pod = att[a].pod /\ Over(a).took = None
      /\ Over(a).phase = "over" /\ Over(a).stage = "start"
  BY DEF Over, PodOf, AttRecords, Phases, Stages
<1> QED BY <1>1 DEF Stays, Gone

LEMMA ClaimMoves ==
    ASSUME att \in [Attempts -> AttRecords], NEW a \in Attempts, att' = Claimed(a)
    PROVE  Stays /\ Moved(a, "labelling")
<1> DEFINE r == [[att[a] EXCEPT !.phase = "labelling"] EXCEPT !.took = None]
<1>1. att' = [att EXCEPT ![a] = r]
  BY DEF Claimed
<1>2. /\ r \in AttRecords /\ r.pod = att[a].pod /\ r.took = None /\ r.stage = att[a].stage
      /\ r.halted = att[a].halted /\ r.phase = "labelling"
  BY DEF AttRecords, Phases
<1> HIDE DEF r
<1> QED BY <1>1, <1>2 DEF Stays, Moved

LEMMA RunMoves ==
    ASSUME att \in [Attempts -> AttRecords], NEW a \in Attempts, NEW flag \in BOOLEAN,
           att' = [att EXCEPT ![a].phase = "running", ![a].halted = flag]
    PROVE  /\ Stays /\ att'[a].phase = "running" /\ att'[a].halted = flag
           /\ att'[a].pod = att[a].pod /\ att'[a].stage = att[a].stage
           /\ \A b \in Attempts : b # a => att'[b] = att[b]
<1> DEFINE r == [[att[a] EXCEPT !.phase = "running"] EXCEPT !.halted = flag]
<1>1. att' = [att EXCEPT ![a] = r]
  OBVIOUS
<1>2. /\ r \in AttRecords /\ r.pod = att[a].pod /\ r.took = att[a].took
      /\ r.stage = att[a].stage /\ r.halted = flag /\ r.phase = "running"
  BY DEF AttRecords, Phases
<1> HIDE DEF r
<1> QED BY <1>1, <1>2 DEF Stays

LEMMA OutMoves ==
    ASSUME NEW h \in [Attempts -> AttRecords], NEW a \in Attempts, NEW ph \in Phases,
           att' = [h EXCEPT ![a].phase = ph, ![a].out = TRUE]
    PROVE  /\ att' \in [Attempts -> AttRecords] /\ att'[a].phase = ph
           /\ att'[a].pod = h[a].pod /\ att'[a].took = h[a].took
           /\ att'[a].stage = h[a].stage /\ att'[a].halted = h[a].halted
           /\ \A b \in Attempts : b # a => att'[b] = h[b]
<1> DEFINE r == [[h[a] EXCEPT !.phase = ph] EXCEPT !.out = TRUE]
<1>1. att' = [h EXCEPT ![a] = r]
  OBVIOUS
<1>2. /\ r \in AttRecords /\ r.pod = h[a].pod /\ r.took = h[a].took
      /\ r.stage = h[a].stage /\ r.halted = h[a].halted /\ r.phase = ph
  BY DEF AttRecords
<1> HIDE DEF r
<1> QED BY <1>1, <1>2

LEMMA HearMoves ==
    ASSUME NEW h \in [Attempts -> AttRecords], NEW a \in Attempts,
           att' = [h EXCEPT ![a].out = TRUE]
    PROVE  /\ att' \in [Attempts -> AttRecords] /\ att'[a].phase = h[a].phase
           /\ att'[a].pod = h[a].pod /\ att'[a].took = h[a].took
           /\ \A b \in Attempts : b # a => att'[b] = h[b]
<1>1. att' = [h EXCEPT ![a] = [h[a] EXCEPT !.out = TRUE]]
  OBVIOUS
<1>2. /\ [h[a] EXCEPT !.out = TRUE] \in AttRecords
      /\ [h[a] EXCEPT !.out = TRUE].pod = h[a].pod
      /\ [h[a] EXCEPT !.out = TRUE].took = h[a].took
      /\ [h[a] EXCEPT !.out = TRUE].phase = h[a].phase
  BY DEF AttRecords
<1> QED BY <1>1, <1>2

\* An abort leaves every phase and every stage as it is.
LEMMA HaltedKeeps ==
    ASSUME att \in [Attempts -> AttRecords], NEW p
    PROVE  /\ Halted(p) \in [Attempts -> AttRecords]
           /\ \A b \in Attempts : /\ Halted(p)[b].pod = att[b].pod
                                  /\ Halted(p)[b].took = att[b].took
                                  /\ Halted(p)[b].phase = att[b].phase
                                  /\ Halted(p)[b].stage = att[b].stage
<1>1. ASSUME NEW b \in Attempts
      PROVE  /\ [att[b] EXCEPT !.halted = TRUE] \in AttRecords
             /\ [att[b] EXCEPT !.halted = TRUE].pod = att[b].pod
             /\ [att[b] EXCEPT !.halted = TRUE].took = att[b].took
             /\ [att[b] EXCEPT !.halted = TRUE].phase = att[b].phase
             /\ [att[b] EXCEPT !.halted = TRUE].stage = att[b].stage
  BY DEF AttRecords
<1> QED BY <1>1 DEF Halted

LEMMA InitTypes == Init => TypeInv
<1> SUFFICES ASSUME Init PROVE TypeInv
  OBVIOUS
<1>1. att \in [Attempts -> AttRecords] /\ Placed
  BY DEF Init, AttRecords, Phases, Stages, Placed
<1>2. stalls \in 0 .. MaxStalled + 1 /\ accidents \in 0 .. MaxAccidents /\ JobHeld
  BY OwnershipAssumption DEF Init, JobHeld
<1> QED BY <1>1, <1>2 DEF Init, TypeInv, TypeOK, AttRecords

LEMMA AccidentTyped ==
    ASSUME TypeInv, Accident PROVE accidents' \in 0 .. MaxAccidents
BY OwnershipAssumption DEF Accident, TypeInv, TypeOK

LEMMA DeliverTypes == ASSUME TypeInv, NEW p \in Pods, Deliver(p) PROVE TypeInv'
<1>1. PICK a \in Attempts :
        /\ att[a].phase = "none"
        /\ att' = [att EXCEPT ![a].pod = p, ![a].took = key, ![a].phase = "claiming"]
        /\ job' = "active" /\ runner' = a
  BY DEF Deliver
<1>2. att' \in [Attempts -> AttRecords] /\ Placed'
  BY <1>1, OwnershipAssumption DEF AttRecords, Phases, TypeInv, TypeOK, Placed
<1>3. job = "waiting" /\ UNCHANGED <<stalls, registry, pods, cut, threads, marker, past, accidents>>
  BY DEF Deliver
<1>4. UNCHANGED <<owned, sessions, lost, fenced, active, key, alive, wasCut, slipped>>
  BY <1>3 DEF registry, threads, past
<1> QED BY <1>1, <1>2, <1>3, <1>4 DEF TypeInv, TypeOK, JobHeld, AttRecords

\* the steps of an attempt
LEMMA ClaimTypes == ASSUME TypeInv, NEW a \in Attempts, Claim(a) PROVE TypeInv' /\ Stays
<1>0. /\ att \in [Attempts -> AttRecords] /\ Placed /\ PodOf(a) \in Pods
      /\ att[a].phase = "claiming"
  BY DEF Claim, Up, PodOf, TypeInv, TypeOK, AttRecords, Placed
<1>1. UNCHANGED <<alive, pods, cut, owned, sessions, lost, fenced, active, marker, wasCut,
                  slipped, accidents>>
  BY DEF Claim, threads, past
<1>2. CASE att' = Claimed(a) /\ key' \in {key, a} /\ UNCHANGED <<job, runner, stalls>>
  <2>1. Stays /\ Placed'
    BY <1>0, <1>2, ClaimMoves DEF Stays, Moved, Placed
  <2> QED BY <1>1, <1>2, <2>1 DEF TypeInv, TypeOK, JobHeld, Stays, AttRecords
<1>3. CASE /\ att' = [att EXCEPT ![a] = Over(a)]
           /\ job' = (IF runner = a THEN "waiting" ELSE job)
           /\ runner' = (IF runner = a THEN None ELSE runner)
           /\ UNCHANGED <<stalls, key>>
  <2>0. Stays /\ Gone(a)
    BY <1>0, <1>3, OverMoves
  <2>1. Stays /\ Placed'
    BY <1>0, <2>0 DEF Stays, Gone, Placed
  <2>2. JobHeld' /\ job' \in {"waiting", "active", "done", "failed"} /\ runner' \in Attempts \cup {None}
    BY <1>3, OwnershipAssumption DEF JobHeld, TypeInv, TypeOK
  <2> QED BY <1>1, <1>3, <2>1, <2>2 DEF TypeInv, TypeOK, Stays, AttRecords
<1> QED BY <1>2, <1>3 DEF Claim, queue

LEMMA RegisterTypes == ASSUME TypeInv, NEW a \in Attempts, Register(a) PROVE TypeInv' /\ Stays
<1>0. /\ att \in [Attempts -> AttRecords] /\ Placed /\ PodOf(a) \in Pods
      /\ att[a].phase = "labelling"
  BY DEF Register, Labelling, Up, PodOf, TypeInv, TypeOK, AttRecords, Placed
<1>1. UNCHANGED <<job, runner, stalls, key, alive, pods, cut, lost, fenced, marker, wasCut,
                  slipped, accidents>>
  BY DEF Register, queue, registry, past
<1>2. /\ Stays /\ att'[a].phase = "running"
      /\ \A b \in Attempts : b # a => att'[b] = att[b]
  <2>1. (active[PodOf(a)] = "aborted") \in BOOLEAN
    OBVIOUS
  <2>2. att' = [att EXCEPT ![a].phase = "running", ![a].halted = (active[PodOf(a)] = "aborted")]
    BY DEF Register
  <2> QED BY <1>0, <2>1, <2>2, RunMoves
<1>3. /\ sessions' \in [Pods -> Attempts \cup {None}] /\ owned' \in [Pods -> Attempts \cup {None}]
      /\ active' \in [Pods -> {"none", "live", "aborted"}]
  BY <1>0 DEF Register, TypeInv, TypeOK
<1>4. Placed'
  BY <1>0, <1>2 DEF Placed, Stays
<1> QED BY <1>1, <1>2, <1>3, <1>4 DEF TypeInv, TypeOK, JobHeld, Stays, AttRecords

\* The steps of the run itself: its stage moves, and the marker is written.
Steps(a) == Look(a) \/ Finish(a) \/ Mark(a)

LEMMA StepMoves ==
    ASSUME TypeInv, NEW a \in Attempts, Steps(a)
    PROVE  /\ Stays /\ PodOf(a) \in Pods /\ att[a].phase \in {"running", "gone"}
           /\ \E st \in Stages : Staged(a, st)
           /\ UNCHANGED <<queue, registry, pods, cut, threads, past>>
           /\ marker' \in {"none", "late", "kept"} /\ accidents' \in 0 .. MaxAccidents
<1>0. /\ att \in [Attempts -> AttRecords] /\ PodOf(a) \in Pods
      /\ att[a].phase \in {"running", "gone"}
  BY DEF Steps, Look, Finish, Mark, GoesOn, Up, PodOf, TypeInv, TypeOK, AttRecords
<1>1. PICK st \in Stages : att' = Stage(a, st)
  BY DEF Steps, Look, Finish, Mark, Stages
<1>2. Stays /\ Staged(a, st)
  BY <1>0, <1>1, StageMoves
<1>3. /\ UNCHANGED <<queue, registry, pods, cut, threads, past>>
      /\ marker' \in {"none", "late", "kept"}
  BY DEF Steps, Look, Finish, Mark, TypeInv, TypeOK
<1>4. accidents' \in 0 .. MaxAccidents
  BY AccidentTyped DEF Steps, Look, Finish, Mark, TypeInv, TypeOK
<1> QED BY <1>0, <1>2, <1>3, <1>4

LEMMA StepTypes == ASSUME TypeInv, NEW a \in Attempts, Steps(a) PROVE TypeInv'
<1>1. /\ Stays /\ \E st \in Stages : Staged(a, st)
      /\ UNCHANGED <<queue, registry, pods, cut, threads, past>>
      /\ marker' \in {"none", "late", "kept"} /\ accidents' \in 0 .. MaxAccidents
  BY StepMoves
<1>2. Placed'
  BY <1>1 DEF Staged, TypeInv, Placed
<1> QED BY <1>1, <1>2 DEF queue, registry, threads, past, Stays, TypeInv, TypeOK, JobHeld, AttRecords

\* What an attempt that runs does to its own phase.
Ends(a) == Tell(a) \/ Yield(a) \/ TimeOut(a) \/ Close(a)

LEMMA WorkMoves ==
    ASSUME TypeInv, NEW a \in Attempts, Ends(a)
    PROVE  /\ Stays /\ Placed' /\ PodOf(a) \in Pods
           /\ \A b \in Attempts : b # a => att'[b].phase = att[b].phase
           /\ Running(a)' => Running(a)
           /\ ~Labelling(a) /\ ~Labelling(a)' /\ att[a].phase # "over"
<1>0. /\ att \in [Attempts -> AttRecords] /\ Placed /\ PodOf(a) \in Pods
      /\ att[a].phase \notin {"none", "over"} /\ ~Labelling(a)
  BY DEF Ends, Tell, GoesOn, Yield, TimeOut, Close, Up, PodOf, Labelling, TypeInv, TypeOK, AttRecords
<1>2. CASE Tell(a)
  <2>1. \/ att[a].phase = "gone" /\ att' = [att EXCEPT ![a] = Over(a)]
        \/ att[a].phase = "running" /\ att' = Phase(a, "ending")
    BY <1>2 DEF Tell, GoesOn, Ended
  <2>2. /\ Stays
        /\ Gone(a) \/ (att[a].phase = "running" /\ Moved(a, "ending"))
    BY <1>0, <2>1, PhaseMoves, OverMoves DEF Phases
  <2> QED BY <1>0, <2>2 DEF Moved, Gone, Stays, Placed, Running, Labelling
<1>3. CASE Yield(a)
  BY <1>0, <1>3, PhaseMoves DEF Yield, Phases, Moved, Stays, Placed, Running, Labelling
<1>4. CASE TimeOut(a)
  <2> DEFINE h == Halted(PodOf(a))
  <2>1. /\ h \in [Attempts -> AttRecords]
        /\ \A b \in Attempts : /\ h[b].pod = att[b].pod /\ h[b].took = att[b].took
                               /\ h[b].phase = att[b].phase
    BY <1>0, HaltedKeeps
  <2>2. att' = [h EXCEPT ![a].phase = "timedout", ![a].out = TRUE] /\ "timedout" \in Phases
    BY <1>4 DEF TimeOut, Phases
  <2> HIDE DEF h
  <2>3. /\ att' \in [Attempts -> AttRecords] /\ att'[a].phase = "timedout"
        /\ att'[a].pod = h[a].pod /\ att'[a].took = h[a].took
        /\ att'[a].stage = h[a].stage /\ att'[a].halted = h[a].halted
        /\ \A b \in Attempts : b # a => att'[b] = h[b]
    BY <2>1, <2>2, OutMoves
  <2>4. /\ Stays /\ \A b \in Attempts : b # a => att'[b].phase = att[b].phase
    BY <2>1, <2>3 DEF Stays
  <2> QED BY <1>0, <1>4, <2>3, <2>4 DEF TimeOut, Stays, Placed, Running, Labelling
<1>5. CASE Close(a)
  <2>1. att' = [att EXCEPT ![a] = Over(a)] \/ att' = Phase(a, "gone")
    BY <1>5 DEF Close
  <2>2. Stays /\ (Gone(a) \/ Moved(a, "gone"))
    BY <1>0, <2>1, PhaseMoves, OverMoves DEF Phases
  <2> QED BY <1>0, <2>2 DEF Moved, Gone, Stays, Placed, Running, Labelling
<1> QED BY <1>2, <1>3, <1>4, <1>5 DEF Ends

LEMMA WorkTypes == ASSUME TypeInv, NEW a \in Attempts, Ends(a) PROVE TypeInv'
<1>0. att' \in [Attempts -> AttRecords] /\ Placed' /\ PodOf(a) \in Pods
  BY WorkMoves DEF Stays
<1>1. CASE Tell(a)
  <2>1. UNCHANGED <<queue, registry, pods, cut, owned, sessions, lost, fenced, marker, past, accidents>>
    BY <1>1 DEF Tell
  <2>2. active' \in [Pods -> {"none", "live", "aborted"}]
    BY <1>0, <1>1 DEF Tell, TypeInv, TypeOK
  <2> QED BY <1>0, <2>1, <2>2 DEF queue, registry, past, TypeInv, TypeOK, JobHeld, AttRecords
<1>2. CASE Yield(a) \/ TimeOut(a)
  <2>1. UNCHANGED <<queue, registry, pods, cut, owned, sessions, lost, fenced, marker, past>>
    BY <1>2 DEF Yield, TimeOut
  <2>2. active' \in [Pods -> {"none", "live", "aborted"}]
    BY <1>0, <1>2 DEF Yield, TimeOut, Aborted, TypeInv, TypeOK
  <2>3. accidents' \in 0 .. MaxAccidents
    BY <1>2, AccidentTyped DEF Yield, TimeOut
  <2> QED BY <1>0, <2>1, <2>2, <2>3
          DEF queue, registry, past, TypeInv, TypeOK, JobHeld, AttRecords
<1>3. CASE Close(a)
  <2>1. UNCHANGED <<stalls, alive, pods, cut, lost, active, marker, past, accidents>>
    BY <1>3 DEF Close
  <2>2. /\ sessions' \in [Pods -> Attempts \cup {None}] /\ owned' \in [Pods -> Attempts \cup {None}]
        /\ fenced' \subseteq Pods /\ key' \in Attempts \cup {None}
    BY <1>3 DEF Close, Disowned, TypeInv, TypeOK
  <2>3. JobHeld' /\ job' \in {"waiting", "active", "done", "failed"} /\ runner' \in Attempts \cup {None}
    BY <1>3, OwnershipAssumption DEF Close, JobHeld, TypeInv, TypeOK
  <2> QED BY <1>0, <2>1, <2>2, <2>3 DEF past, TypeInv, TypeOK, AttRecords
<1> QED BY <1>1, <1>2, <1>3 DEF Ends

LEMMA HearTypes ==
    ASSUME TypeInv, NEW a \in Attempts, Hear(a)
    PROVE  TypeInv' /\ Stays /\ \A b \in Attempts : att'[b].phase = att[b].phase
<1>0. att \in [Attempts -> AttRecords] /\ Placed /\ PodOf(a) \in Pods
  BY DEF Hear, Up, PodOf, TypeInv, TypeOK, AttRecords
<1>1. Stays /\ \A b \in Attempts : att'[b].phase = att[b].phase
  <2>1. CASE att' = [Halted(PodOf(a)) EXCEPT ![a].out = TRUE]
    <3> DEFINE h == Halted(PodOf(a))
    <3>1. /\ h \in [Attempts -> AttRecords]
          /\ \A b \in Attempts : /\ h[b].pod = att[b].pod /\ h[b].took = att[b].took
                                 /\ h[b].phase = att[b].phase
      BY <1>0, HaltedKeeps
    <3>2. att' = [h EXCEPT ![a].out = TRUE]
      BY <2>1
    <3> HIDE DEF h
    <3>3. /\ att' \in [Attempts -> AttRecords] /\ att'[a].phase = h[a].phase
          /\ att'[a].pod = h[a].pod /\ att'[a].took = h[a].took
          /\ \A b \in Attempts : b # a => att'[b] = h[b]
      BY <3>1, <3>2, HearMoves
    <3> QED BY <3>1, <3>3 DEF Stays
  <2>2. CASE att' = att
    BY <1>0, <2>2 DEF Stays
  <2> QED BY <2>1, <2>2 DEF Hear
<1>2. UNCHANGED <<queue, registry, pods, cut, owned, marker, past, accidents>>
  BY DEF Hear
<1>3. /\ sessions' \in [Pods -> Attempts \cup {None}] /\ lost' \subseteq Attempts
      /\ fenced' \subseteq Pods /\ active' \in [Pods -> {"none", "live", "aborted"}]
  BY <1>0 DEF Hear, FenceSession, Aborted, TypeInv, TypeOK
<1>4. Placed'
  BY <1>0, <1>1 DEF Stays, Placed
<1> QED BY <1>1, <1>2, <1>3, <1>4
        DEF queue, registry, past, Stays, TypeInv, TypeOK, JobHeld, AttRecords

\* the steps of the watchdog, of time and of the pods
LEMMA WatchTypes ==
    ASSUME TypeInv, NEW p \in Pods, Watches(p) \/ AliveLapses(p) \/ KeyLapses \/ Stall
    PROVE  TypeInv'
<1>1. CASE Refresh(p)
  BY <1>1 DEF Refresh, Keeps, queue, past, TypeInv, TypeOK, Placed, JobHeld
<1>2. CASE Touch(p) \/ AliveLapses(p)
  BY <1>2 DEF Touch, AliveLapses, queue, threads, past, TypeInv, TypeOK, Placed, JobHeld
<1>3. CASE KeyLapses
  <2>1. PodOf(key) \in Pods \/ ~Labelling(key)
    BY <1>3 DEF KeyLapses, Labelling, PodOf, TypeInv, TypeOK, Placed
  <2>2. slipped' \subseteq Pods
    BY <1>3, <2>1 DEF KeyLapses, TypeInv, TypeOK
  <2> QED BY <1>3, <2>2 DEF KeyLapses, queue, threads, TypeInv, TypeOK, Placed, JobHeld
<1>4. CASE Stall
  <2>1. /\ stalls' \in 0 .. MaxStalled + 1 /\ JobHeld'
    BY <1>4, OwnershipAssumption DEF Stall, TypeInv, TypeOK, JobHeld
  <2>2. UNCHANGED <<registry, pods, cut, threads, att, marker, past, accidents>>
    BY <1>4 DEF Stall
  <2> QED BY <1>4, <2>1, <2>2 DEF Stall, registry, threads, past, TypeInv, TypeOK, Placed
<1> QED BY <1>1, <1>2, <1>3, <1>4 DEF Watches

\* A crash ends every attempt of its pod.
LEMMA CrashMoves ==
    ASSUME TypeInv, NEW p \in Pods, Crash(p)
    PROVE  /\ Stays /\ Placed'
           /\ \A b \in Attempts : IF PodOf(b) = p THEN att'[b].phase = "over" ELSE att'[b] = att[b]
<1>0. att \in [Attempts -> AttRecords] /\ Placed
  BY DEF TypeInv, TypeOK, AttRecords
<1>1. ASSUME NEW b \in Attempts
      PROVE  /\ Over(b) \in AttRecords /\ Over(b).pod = att[b].pod /\ Over(b).took = None
             /\ Over(b).phase = "over"
  BY <1>0 DEF Over, PodOf, AttRecords, Phases, Stages
<1>2. att' = [a \in Attempts |-> IF PodOf(a) = p THEN Over(a) ELSE att[a]]
  BY DEF Crash
<1>3. /\ Stays
      /\ \A b \in Attempts : IF PodOf(b) = p THEN att'[b].phase = "over" ELSE att'[b] = att[b]
  BY <1>0, <1>1, <1>2 DEF Stays
<1>4. Placed'
  BY <1>0, <1>3, OwnershipAssumption DEF Stays, Placed, PodOf
<1> QED BY <1>3, <1>4

LEMMA PodTypes ==
    ASSUME TypeInv, NEW p \in Pods, Recovers(p) \/ Freeze(p) \/ Crash(p) \/ Cut(p)
    PROVE  TypeInv'
<1>1. CASE Recovers(p)
  BY <1>1 DEF Recovers, Thaw, Restart, Heal, queue, registry, threads, past,
              TypeInv, TypeOK, Placed, JobHeld
<1>2. CASE Freeze(p) \/ Cut(p)
  <2>1. accidents' \in 0 .. MaxAccidents
    BY <1>2, AccidentTyped, OwnershipAssumption DEF Freeze, Cut, TypeInv, TypeOK
  <2>2. /\ pods' \in [Pods -> {"up", "frozen", "dead"}] /\ cut' \subseteq Pods
        /\ wasCut' \in BOOLEAN /\ slipped' = slipped
    BY <1>2 DEF Freeze, Cut, past, TypeInv, TypeOK
  <2>3. UNCHANGED <<queue, registry, threads, att, marker>>
    BY <1>2 DEF Freeze, Cut
  <2> QED BY <2>1, <2>2, <2>3 DEF queue, registry, threads, TypeInv, TypeOK, Placed, JobHeld
<1>3. CASE Crash(p)
  <2>1. accidents' \in 0 .. MaxAccidents
    BY <1>3, AccidentTyped DEF Crash
  <2>2. att' \in [Attempts -> AttRecords] /\ Placed'
    BY <1>3, CrashMoves DEF Stays
  <2>3. /\ owned' \in [Pods -> Attempts \cup {None}] /\ sessions' \in [Pods -> Attempts \cup {None}]
        /\ active' \in [Pods -> {"none", "live", "aborted"}]
        /\ lost' \subseteq Attempts /\ fenced' \subseteq Pods
        /\ pods' \in [Pods -> {"up", "frozen", "dead"}]
    BY <1>3 DEF Crash, TypeInv, TypeOK
  <2>4. UNCHANGED <<queue, registry, cut, marker, past>>
    BY <1>3 DEF Crash
  <2> QED BY <2>1, <2>2, <2>3, <2>4 DEF queue, registry, past, TypeInv, TypeOK, JobHeld, AttRecords
<1> QED BY <1>1, <1>2, <1>3

LEMMA NextTypes == ASSUME TypeInv, [Next]_vars PROVE TypeInv'
<1>1. PICK p \in Pods : TRUE
  BY OwnershipAssumption
<1>2. CASE KeyLapses \/ Stall
  BY <1>1, <1>2, WatchTypes
<1>3. CASE UNCHANGED vars
  BY <1>3 DEF vars, queue, registry, threads, past, TypeInv, TypeOK, Placed, JobHeld
<1> QED BY <1>2, <1>3, DeliverTypes, ClaimTypes, RegisterTypes, StepTypes, WorkTypes, HearTypes,
           WatchTypes, PodTypes DEF Next, Runs, Steps, Ends, Lapses

\* The state keeps its types: a job that an attempt holds is active, and its
\* stalls stay within what the worker allows, and one.
THEOREM TypesKept == Spec => []TypeOK
<1>1. Spec => []TypeInv
  BY InitTypes, NextTypes, PTL DEF Spec
<1> QED BY <1>1, PTL DEF TypeInv

-----------------------------------------------------------------------------
(* The holder *)

\* A key and a watchdog name attempts that were delivered, each on its pod.
Known ==
    /\ key # None => PodOf(key) # None
    /\ \A p \in Pods : owned[p] # None => PodOf(owned[p]) = p

Holds(a) == Labelling(a) \/ Running(a)

\* While every pod reaches Redis: what has claimed is the holder, on a pod that
\* is not dead, and once it runs its watchdog refreshes the key, but for the pods
\* that slipped; a pod that is not dead has its alive key, nothing of a dead
\* pod goes on, and a holder found dead by inspectOwner is over.
RefreshedRuns ==
    \A a \in Attempts :
        PodOf(a) \notin slipped =>
            /\ Holds(a) => key = a /\ pods[PodOf(a)] # "dead"
            /\ Running(a) => owned[PodOf(a)] = a
AliveKeys == \A p \in Pods : pods[p] # "dead" => p \in alive
DeadAreOver ==
    \A a \in Attempts :
        PodOf(a) # None /\ pods[PodOf(a)] = "dead" => att[a].phase = "over"
TookTheDead == \A a \in Attempts : att[a].took # None => att[att[a].took].phase = "over"
Safe == RefreshedRuns /\ AliveKeys /\ DeadAreOver /\ TookTheDead

OwnerInv == TypeInv /\ Known /\ (cut # {} => wasCut) /\ (~wasCut => Safe)
\* what is left to show of a step
Kept == Known' /\ (cut' # {} => wasCut') /\ (~wasCut' => Safe')

LEMMA OwnerFacts ==
    ASSUME OwnerInv
    PROVE  /\ TypeInv /\ Known /\ (cut # {} => wasCut) /\ (~wasCut => Safe)
           /\ att \in [Attempts -> AttRecords]
           /\ \A b \in Attempts : PodOf(b) \in Pods \cup {None}
           /\ \A b \in Attempts : att[b].took \in Attempts \cup {None}
           /\ key \in Attempts \cup {None} /\ owned \in [Pods -> Attempts \cup {None}]
           /\ pods \in [Pods -> {"up", "frozen", "dead"}]
           /\ \A b \in Attempts : Holds(b) => PodOf(b) \in Pods
BY DEF OwnerInv, TypeInv, TypeOK, PodOf, AttRecords, Placed, Holds, Labelling, Running

LEMMA InitOwner == Init => Known /\ (cut # {} => wasCut) /\ Safe
<1> SUFFICES ASSUME Init PROVE Known /\ (cut # {} => wasCut) /\ Safe
  OBVIOUS
<1>1. \A a \in Attempts : att[a].pod = None /\ att[a].took = None /\ att[a].phase = "none"
  BY DEF Init
<1> QED BY <1>1 DEF Init, Known, Safe, RefreshedRuns, AliveKeys, DeadAreOver, TookTheDead,
                    PodOf, Running, Holds, Labelling

\* Where the pods, the keys and the watchdogs stay as they are, and no
\* attempt claims, starts to run or comes back, the holder stays.
LEMMA QuietSteps ==
    ASSUME OwnerInv, Stays, UNCHANGED <<key, alive, pods, cut, owned, wasCut, slipped>>,
           \A b \in Attempts : /\ Running(b)' => Running(b)
                               /\ Labelling(b)' => Labelling(b),
           \A b \in Attempts : att[b].phase = "over" => att'[b].phase = "over"
    PROVE  Kept
<1>1. \A b \in Attempts : PodOf(b)' = PodOf(b) /\ att'[b].took \in {att[b].took, None}
  BY DEF Stays, PodOf
<1>2. Known'
  BY <1>1, OwnerFacts DEF Known
<1>3. ASSUME ~wasCut PROVE Safe'
  <2>1. Safe
    BY <1>3, OwnerFacts
  <2>2. RefreshedRuns'
    BY <1>1, <2>1 DEF Safe, RefreshedRuns, Holds
  <2>3. AliveKeys' /\ DeadAreOver'
    BY <1>1, <2>1 DEF Safe, AliveKeys, DeadAreOver
  <2>4. TookTheDead'
    BY <1>1, <2>1, OwnerFacts DEF Safe, TookTheDead
  <2> QED BY <2>2, <2>3, <2>4 DEF Safe
<1> QED BY <1>2, <1>3, OwnerFacts DEF Kept

LEMMA DeliverOwner == ASSUME OwnerInv, NEW p \in Pods, Deliver(p) PROVE Kept
<1>1. PICK a \in Attempts :
        /\ att[a].phase = "none"
        /\ att' = [att EXCEPT ![a].pod = p, ![a].took = key, ![a].phase = "claiming"]
  BY DEF Deliver
<1>2. /\ UNCHANGED <<key, alive, pods, cut, owned, wasCut, slipped>>
      /\ pods[p] = "up" /\ ~AliveOther
  BY DEF Deliver, registry, threads, past
<1>3. /\ att \in [Attempts -> AttRecords] /\ PodOf(a) = None
      /\ key \in Attempts \cup {None} /\ owned \in [Pods -> Attempts \cup {None}]
  BY <1>1, OwnerFacts DEF TypeInv, Placed, PodOf
<1>4. /\ att'[a].pod = p /\ att'[a].took = key /\ att'[a].phase = "claiming"
      /\ \A b \in Attempts : b # a => att'[b] = att[b]
  BY <1>1, <1>3 DEF AttRecords
<1>5. Known'
  BY <1>2, <1>3, <1>4, OwnershipAssumption DEF OwnerInv, Known, PodOf
<1>6. ASSUME ~wasCut PROVE Safe'
  <2>1. Safe
    BY <1>6 DEF OwnerInv
  <2>2. key # None => key # a /\ att[key].phase = "over"
    BY <1>2, <1>3, <2>1, OwnershipAssumption
       DEF AliveOther, OwnerInv, Known, Safe, AliveKeys, DeadAreOver, TypeInv, TypeOK, PodOf
  <2>3. RefreshedRuns' /\ AliveKeys' /\ DeadAreOver'
    BY <1>2, <1>3, <1>4, <2>1, OwnershipAssumption
       DEF Safe, RefreshedRuns, AliveKeys, DeadAreOver, Holds, Labelling, Running, PodOf
  <2>4. TookTheDead'
    BY <1>1, <1>3, <1>4, <2>1, <2>2 DEF Safe, TookTheDead, AttRecords
  <2> QED BY <2>3, <2>4 DEF Safe
<1> QED BY <1>2, <1>5, <1>6 DEF OwnerInv, Kept

\* A claim that succeeds finds no attempt that holds the run.
LEMMA ClaimFindsNone ==
    ASSUME OwnerInv, ~wasCut, NEW a \in Attempts, att[a].phase = "claiming", Claims(a)
    PROVE  \A b \in Attempts : Holds(b) => PodOf(b) \in slipped
BY OwnerFacts, OwnershipAssumption
   DEF Safe, RefreshedRuns, TookTheDead, Claims, Holds, Labelling, Running

LEMMA ClaimOwner == ASSUME OwnerInv, NEW a \in Attempts, Claim(a) PROVE Kept
<1>0. /\ Stays /\ att[a].phase = "claiming" /\ PodOf(a) \in Pods /\ pods[PodOf(a)] = "up"
      /\ UNCHANGED <<alive, pods, cut, owned, wasCut, slipped>>
      /\ att \in [Attempts -> AttRecords]
  BY ClaimTypes, OwnerFacts DEF Claim, Up, PodOf, threads, past
<1>1. CASE att' = [att EXCEPT ![a] = Over(a)] /\ key' = key
  <2>1. Gone(a)
    BY <1>0, <1>1, OverMoves
  <2> QED BY <1>0, <1>1, <2>1, QuietSteps DEF Gone, Running, Labelling
<1>2. CASE att' = Claimed(a) /\ ((key' = a /\ Claims(a)) \/ (PodOf(a) \in cut /\ key' = key))
  <2>1. /\ Moved(a, "labelling")
        /\ \A b \in Attempts : PodOf(b)' = PodOf(b)
        /\ \A b \in Attempts : b # a => att'[b] = att[b]
    BY <1>0, <1>2, ClaimMoves DEF Stays, PodOf, Moved
  <2>2. Known'
    BY <1>0, <1>2, <2>1, OwnerFacts, OwnershipAssumption DEF Known
  <2>3. ASSUME ~wasCut PROVE Safe'
    <3>1. Safe /\ cut = {} /\ key' = a /\ Claims(a)
      BY <1>2, <2>3 DEF OwnerInv
    <3>2. \A b \in Attempts : Holds(b) => PodOf(b) \in slipped
      BY <1>0, <2>3, <3>1, ClaimFindsNone
    <3>3. \A b \in Attempts : Holds(b)' /\ b # a => PodOf(b)' \in slipped'
      BY <1>0, <2>1, <3>2 DEF Holds, Labelling, Running
    <3>4. ~Running(a)'
      BY <2>1 DEF Moved, Running
    <3>5. RefreshedRuns'
      BY <1>0, <2>1, <3>1, <3>3, <3>4 DEF RefreshedRuns, Holds
    <3>6. AliveKeys' /\ DeadAreOver'
      BY <1>0, <2>1, <3>1 DEF Safe, AliveKeys, DeadAreOver
    <3>7. TookTheDead'
      BY <1>0, <2>1, <3>1, OwnerFacts DEF Safe, TookTheDead, Stays, Moved
    <3> QED BY <3>5, <3>6, <3>7 DEF Safe
  <2> QED BY <1>0, <2>2, <2>3 DEF OwnerInv, Kept
<1> QED BY <1>1, <1>2 DEF Claim

LEMMA RegisterOwner == ASSUME OwnerInv, NEW a \in Attempts, Register(a) PROVE Kept
<1>0. /\ Stays /\ Labelling(a) /\ PodOf(a) \in Pods /\ pods[PodOf(a)] = "up"
      /\ UNCHANGED <<key, alive, pods, cut, wasCut, slipped>>
      /\ owned' = [owned EXCEPT ![PodOf(a)] = a]
      /\ att \in [Attempts -> AttRecords]
  BY RegisterTypes, OwnerFacts DEF Register, Up, PodOf, registry, past
<1>1. /\ att'[a].phase = "running" /\ \A b \in Attempts : b # a => att'[b] = att[b]
  <2>1. (active[PodOf(a)] = "aborted") \in BOOLEAN
    OBVIOUS
  <2>2. att' = [att EXCEPT ![a].phase = "running", ![a].halted = (active[PodOf(a)] = "aborted")]
    BY DEF Register
  <2> QED BY <1>0, <2>1, <2>2, RunMoves
<1>2. \A b \in Attempts : PodOf(b)' = PodOf(b)
  BY <1>0 DEF Stays, PodOf
<1>3. Known'
  BY <1>0, <1>2, OwnerFacts, OwnershipAssumption DEF Known
<1>4. ASSUME ~wasCut PROVE Safe'
  <2>1. Safe
    BY <1>4, OwnerFacts
  <2>2. \A b \in Attempts : b # a => (Holds(b)' <=> Holds(b)) /\ (Running(b)' <=> Running(b))
    BY <1>1 DEF Holds, Labelling, Running
  <2>3. ASSUME NEW b \in Attempts, b # a, PodOf(b) \notin slipped, Holds(b)
        PROVE  key = b /\ pods[PodOf(b)] # "dead" /\ PodOf(a) \in slipped
    BY <1>0, <2>1, <2>3 DEF Safe, RefreshedRuns, Holds
  <2>4. PodOf(a) \notin slipped => key = a /\ owned'[PodOf(a)] = a
    BY <1>0, <2>1, OwnerFacts DEF Safe, RefreshedRuns, Holds
  <2>5. ASSUME NEW b \in Attempts, b # a, PodOf(b) \notin slipped, Running(b)
        PROVE  owned'[PodOf(b)] = b
    <3>1. owned[PodOf(b)] = b /\ PodOf(b) # PodOf(a) /\ PodOf(b) \in Pods
      BY <2>1, <2>3, <2>5, OwnerFacts DEF Safe, RefreshedRuns, Holds
    <3> QED BY <1>0, <3>1, OwnerFacts
  <2>6. RefreshedRuns'
    <3> SUFFICES ASSUME NEW b \in Attempts, PodOf(b) \notin slipped
                 PROVE  /\ Holds(b)' => key = b /\ pods[PodOf(b)] # "dead"
                        /\ Running(b)' => owned'[PodOf(b)] = b
      BY <1>0, <1>2 DEF RefreshedRuns
    <3>1. CASE b = a
      BY <1>0, <2>4, <3>1
    <3>2. CASE b # a
      BY <2>2, <2>3, <2>5, <3>2
    <3> QED BY <3>1, <3>2
  <2>7. AliveKeys' /\ DeadAreOver'
    BY <1>0, <1>1, <1>2, <2>1 DEF Safe, AliveKeys, DeadAreOver
  <2>8. TookTheDead'
    BY <1>0, <1>1, <2>1, OwnerFacts DEF Safe, TookTheDead, Stays, Labelling
  <2> QED BY <2>6, <2>7, <2>8 DEF Safe
<1> QED BY <1>0, <1>3, <1>4, OwnerFacts DEF Kept

LEMMA StepOwner == ASSUME OwnerInv, NEW a \in Attempts, Steps(a) PROVE Kept
<1>1. /\ Stays /\ \E st \in Stages : Staged(a, st)
      /\ UNCHANGED <<key, alive, pods, cut, owned, wasCut, slipped>>
  BY StepMoves, OwnerFacts DEF registry, threads, past
<1>2. \A b \in Attempts : att'[b].phase = att[b].phase
  BY <1>1 DEF Staged
<1> QED BY <1>1, <1>2, QuietSteps DEF Running, Labelling

LEMMA WorkOwner == ASSUME OwnerInv, NEW a \in Attempts, Ends(a) PROVE Kept
<1>0. /\ Stays /\ PodOf(a) \in Pods
      /\ \A b \in Attempts : /\ Running(b)' => Running(b)
                             /\ Labelling(b)' => Labelling(b)
      /\ \A b \in Attempts : att[b].phase = "over" => att'[b].phase = "over"
  <2>1. /\ Stays /\ PodOf(a) \in Pods
        /\ \A b \in Attempts : b # a => att'[b].phase = att[b].phase
        /\ (Running(a)' => Running(a)) /\ ~Labelling(a)' /\ att[a].phase # "over"
    BY WorkMoves, OwnerFacts
  <2> QED BY <2>1 DEF Running, Labelling
<1>1. CASE Tell(a) \/ Yield(a) \/ TimeOut(a)
  <2>1. UNCHANGED <<key, alive, pods, cut, owned, wasCut, slipped>>
    BY <1>1 DEF Tell, Yield, TimeOut, registry, past
  <2> QED BY <1>0, <2>1, QuietSteps
<1>2. CASE Close(a)
  <2>1. /\ owned' = [owned EXCEPT ![PodOf(a)] = None] /\ Running(a) /\ ~Running(a)'
        /\ key' \in {key, None} /\ (key' # key => key = a)
        /\ UNCHANGED <<alive, pods, cut, wasCut, slipped>>
    <3>1. att' = [att EXCEPT ![a] = Over(a)] \/ att' = Phase(a, "gone")
      BY <1>2 DEF Close
    <3>2. att'[a].phase \in {"gone", "over"}
      BY <3>1, PhaseMoves, OverMoves, OwnerFacts DEF Phases, Moved, Gone
    <3> QED BY <1>2, <3>2 DEF Close, Disowned, Running, past
  <2>2. \A b \in Attempts : PodOf(b)' = PodOf(b) /\ att'[b].took \in {att[b].took, None}
    BY <1>0 DEF Stays, PodOf
  <2>3. Known'
    BY <1>0, <2>1, <2>2, OwnerFacts DEF Known
  <2>4. ASSUME ~wasCut PROVE Safe'
    <3>1. Safe
      BY <2>4 DEF OwnerInv
    <3>2. ASSUME NEW b \in Attempts, PodOf(b) \notin slipped, Holds(b)'
          PROVE  /\ key' = b /\ pods[PodOf(b)] # "dead"
                 /\ Running(b)' => owned'[PodOf(b)] = b
      <4>1. Holds(b) /\ key = b /\ pods[PodOf(b)] # "dead"
        BY <1>0, <3>1, <3>2 DEF Holds, Safe, RefreshedRuns
      <4>2. CASE b = a
        BY <1>0, <2>1, <3>2, <4>2, WorkMoves, OwnerFacts DEF Holds
      <4>3. CASE b # a
        <5>1. key' = key
          BY <2>1, <4>1, <4>3
        <5>2. ASSUME Running(b)' PROVE owned'[PodOf(b)] = b
          <6>1. owned[PodOf(b)] = b /\ PodOf(b) \in Pods
            BY <1>0, <3>1, <3>2, <4>1, <5>2, OwnerFacts DEF Safe, RefreshedRuns
          <6>2. PodOf(b) # PodOf(a)
            BY <2>1, <3>1, <3>2, <4>1, <4>3 DEF Safe, RefreshedRuns, Holds
          <6> QED BY <2>1, <6>1, <6>2, OwnerFacts
        <5> QED BY <4>1, <5>1, <5>2
      <4> QED BY <4>2, <4>3
    <3>3. RefreshedRuns'
      BY <2>1, <2>2, <3>2 DEF RefreshedRuns, Holds
    <3>4. AliveKeys' /\ DeadAreOver'
      BY <1>0, <2>1, <2>2, <3>1 DEF Safe, AliveKeys, DeadAreOver
    <3>5. TookTheDead'
      BY <1>0, <2>2, <3>1, OwnerFacts DEF Safe, TookTheDead
    <3> QED BY <3>3, <3>4, <3>5 DEF Safe
  <2> QED BY <2>1, <2>3, <2>4, OwnerFacts DEF Kept
<1> QED BY <1>1, <1>2 DEF Ends

LEMMA HearOwner == ASSUME OwnerInv, NEW a \in Attempts, Hear(a) PROVE Kept
<1>1. Stays /\ \A b \in Attempts : att'[b].phase = att[b].phase
  BY HearTypes DEF OwnerInv
<1>2. UNCHANGED <<key, alive, pods, cut, owned, wasCut, slipped>>
  BY DEF Hear, registry, past
<1> QED BY <1>1, <1>2, QuietSteps DEF Running, Labelling

LEMMA WatchOwner ==
    ASSUME OwnerInv, NEW p \in Pods, Watches(p) \/ AliveLapses(p) \/ KeyLapses \/ Stall
    PROVE  Kept
<1>0. UNCHANGED <<att, pods, cut, wasCut>>
  BY DEF Watches, Refresh, Touch, AliveLapses, KeyLapses, Stall, past
<1>1. /\ \A b \in Attempts : /\ PodOf(b)' = PodOf(b) /\ (Running(b)' <=> Running(b))
                             /\ (Holds(b)' <=> Holds(b))
      /\ DeadAreOver => DeadAreOver'
      /\ TookTheDead => TookTheDead'
  BY <1>0 DEF PodOf, Running, Holds, Labelling, DeadAreOver, TookTheDead
<1>2. ASSUME Known', ~wasCut => RefreshedRuns' /\ AliveKeys' PROVE Kept
  BY <1>0, <1>1, <1>2, OwnerFacts DEF Safe, Kept
<1>3. CASE Refresh(p)
  <2>1. owned[p] # None /\ owned[p] \in Attempts /\ PodOf(owned[p]) = p /\ UNCHANGED <<alive, slipped>>
    BY <1>3, OwnerFacts DEF Refresh, Known, past
  <2>2. CASE Keeps(owned[p])
    <3>1. key' = owned[p] /\ owned' = owned
      BY <1>3, <2>2 DEF Refresh
    <3>2. Known'
      BY <1>0, <2>1, <3>1, OwnershipAssumption DEF OwnerInv, Known, PodOf
    <3>3. ~wasCut => RefreshedRuns' /\ AliveKeys'
      <4> SUFFICES ASSUME ~wasCut PROVE RefreshedRuns' /\ AliveKeys'
        OBVIOUS
      <4>1. \A b \in Attempts : PodOf(b) \notin slipped /\ Holds(b) => key' = key
        BY <2>2, <3>1, OwnerFacts, OwnershipAssumption DEF Keeps, Safe, RefreshedRuns
      <4> QED BY <1>0, <1>1, <2>1, <3>1, <4>1, OwnerFacts DEF Safe, RefreshedRuns, AliveKeys, Holds
    <3> QED BY <1>2, <3>2, <3>3
  <2>3. CASE ~Keeps(owned[p])
    <3>1. key' = key /\ owned' = [owned EXCEPT ![p] = None]
      BY <1>3, <2>3 DEF Refresh
    <3>2. Known'
      BY <1>0, <3>1, OwnerFacts DEF Known, PodOf
    <3>3. ~wasCut => RefreshedRuns' /\ AliveKeys'
      <4> SUFFICES ASSUME ~wasCut PROVE RefreshedRuns' /\ AliveKeys'
        OBVIOUS
      <4>1. ASSUME NEW b \in Attempts, PodOf(b) \notin slipped, Running(b)
            PROVE  owned'[PodOf(b)] = b
        <5>1. key = b /\ owned[PodOf(b)] = b /\ PodOf(b) \in Pods
          BY <4>1, OwnerFacts DEF Safe, RefreshedRuns, Holds
        <5>2. PodOf(b) # p
          BY <2>3, <5>1 DEF Keeps
        <5> QED BY <3>1, <5>1, <5>2, OwnerFacts
      <4> QED BY <1>0, <1>1, <2>1, <3>1, <4>1, OwnerFacts DEF Safe, RefreshedRuns, AliveKeys
    <3> QED BY <1>2, <3>2, <3>3
  <2> QED BY <2>2, <2>3
<1>4. CASE Touch(p) \/ AliveLapses(p) \/ Stall
  <2>1. UNCHANGED <<key, owned, slipped>>
    BY <1>4 DEF Touch, AliveLapses, Stall, threads, registry, past
  <2>2. ~wasCut /\ AliveKeys => AliveKeys'
    BY <1>0, <1>4, OwnerFacts DEF Touch, AliveLapses, Stall, Reaches, registry, AliveKeys
  <2> QED BY <1>0, <1>1, <1>2, <2>1, <2>2, OwnerFacts DEF Known, Safe, RefreshedRuns
<1>5. CASE KeyLapses
  <2>1. /\ key' = None /\ ~Refreshed /\ UNCHANGED <<alive, owned>>
        /\ slipped' = IF Labelling(key) THEN slipped \cup {PodOf(key)} ELSE slipped
    BY <1>5 DEF KeyLapses, threads
  <2>2. ~wasCut => \A b \in Attempts : Holds(b) => PodOf(b) \in slipped'
    <3> SUFFICES ASSUME ~wasCut, NEW b \in Attempts, Holds(b), PodOf(b) \notin slipped'
                 PROVE  FALSE
      OBVIOUS
    <3>1. key = b /\ pods[PodOf(b)] # "dead" /\ ~Labelling(b)
      BY <2>1, OwnerFacts DEF Safe, RefreshedRuns
    <3>2. Running(b) /\ owned[PodOf(b)] = b
      BY <2>1, <3>1, OwnerFacts DEF Holds, Safe, RefreshedRuns
    <3> QED BY <2>1, <3>1, <3>2, <1>5, OwnerFacts DEF KeyLapses, Refreshed, Reaches
  <2> QED BY <1>0, <1>1, <1>2, <2>1, <2>2, OwnerFacts DEF Known, Safe, RefreshedRuns, AliveKeys, Holds
<1> QED BY <1>3, <1>4, <1>5 DEF Watches

LEMMA PodOwner ==
    ASSUME OwnerInv, NEW p \in Pods, Recovers(p) \/ Freeze(p) \/ Crash(p) \/ Cut(p)
    PROVE  Kept
<1>1. CASE Recovers(p) \/ Freeze(p)
  <2>1. /\ UNCHANGED <<key, owned, att, wasCut, slipped>>
        /\ \A q \in Pods : pods[q] # "dead" => pods'[q] # "dead"
        /\ \A q \in Pods : pods'[q] # "dead" => pods[q] # "dead" \/ q \in alive'
        /\ alive \subseteq alive' /\ cut' \subseteq cut
    BY <1>1, OwnerFacts DEF Recovers, Thaw, Restart, Heal, Freeze, threads, registry, past
  <2>2. /\ \A b \in Attempts : /\ PodOf(b)' = PodOf(b) /\ (Running(b)' <=> Running(b))
                               /\ (Holds(b)' <=> Holds(b))
        /\ Known'
    BY <2>1 DEF PodOf, Running, Holds, Labelling, OwnerInv, Known
  <2>3. ASSUME ~wasCut PROVE Safe'
    <3>1. Safe
      BY <2>3 DEF OwnerInv
    <3>2. RefreshedRuns'
      <4> SUFFICES ASSUME NEW b \in Attempts, PodOf(b) \notin slipped
                   PROVE  /\ Holds(b) => key' = b /\ pods'[PodOf(b)] # "dead"
                          /\ Running(b) => owned'[PodOf(b)] = b
        BY <2>1, <2>2 DEF RefreshedRuns
      <4> QED BY <2>1, <3>1, OwnerFacts DEF Safe, RefreshedRuns, Holds
    <3>3. AliveKeys'
      BY <2>1, <3>1 DEF Safe, AliveKeys
    <3>4. DeadAreOver'
      BY <2>1, <2>2, <3>1, OwnerFacts DEF Safe, DeadAreOver
    <3>5. TookTheDead'
      BY <2>1, <3>1 DEF Safe, TookTheDead
    <3> QED BY <3>2, <3>3, <3>4, <3>5 DEF Safe
  <2> QED BY <2>1, <2>2, <2>3 DEF OwnerInv, Kept
<1>2. CASE Cut(p)
  BY <1>2 DEF Cut, threads, registry, OwnerInv, Known, Kept, PodOf
<1>3. CASE Crash(p)
  <2>1. /\ Stays
        /\ \A b \in Attempts : IF PodOf(b) = p THEN att'[b].phase = "over" ELSE att'[b] = att[b]
    BY <1>3, CrashMoves DEF OwnerInv
  <2>2. /\ owned' = [owned EXCEPT ![p] = None] /\ pods' = [pods EXCEPT ![p] = "dead"]
        /\ UNCHANGED <<key, alive, cut, wasCut, slipped>>
    BY <1>3 DEF Crash, registry, past
  <2>3. /\ \A b \in Attempts : PodOf(b)' = PodOf(b) /\ att'[b].took \in {att[b].took, None}
        /\ \A b \in Attempts : Running(b)' => Running(b) /\ PodOf(b) # p
        /\ \A b \in Attempts : Holds(b)' => Holds(b) /\ PodOf(b) # p
    BY <2>1 DEF Stays, PodOf, Holds, Labelling, Running
  <2>4. Known'
    BY <2>2, <2>3, OwnerFacts DEF Known
  <2>5. ASSUME ~wasCut PROVE Safe'
    <3>1. Safe
      BY <2>5 DEF OwnerInv
    <3>2. RefreshedRuns'
      <4> SUFFICES ASSUME NEW b \in Attempts, PodOf(b) \notin slipped
                   PROVE  /\ Holds(b)' => key = b /\ pods'[PodOf(b)] # "dead"
                          /\ Running(b)' => owned'[PodOf(b)] = b
        BY <2>2, <2>3 DEF RefreshedRuns
      <4> QED BY <2>2, <2>3, <3>1, OwnerFacts DEF Safe, RefreshedRuns, Holds
    <3>3. AliveKeys'
      BY <2>2, <3>1, OwnerFacts DEF Safe, AliveKeys
    <3>4. DeadAreOver'
      BY <2>1, <2>2, <2>3, <3>1, OwnerFacts DEF Safe, DeadAreOver
    <3>5. TookTheDead'
      BY <2>1, <2>3, <3>1, OwnerFacts DEF Safe, TookTheDead
    <3> QED BY <3>2, <3>3, <3>4, <3>5 DEF Safe
  <2> QED BY <2>2, <2>4, <2>5, OwnerFacts DEF Kept
<1> QED BY <1>1, <1>2, <1>3

LEMMA NextOwner == ASSUME OwnerInv, [Next]_vars PROVE OwnerInv'
<1>1. TypeInv'
  BY NextTypes DEF OwnerInv
<1>2. PICK p \in Pods : TRUE
  BY OwnershipAssumption
<1>3. CASE KeyLapses \/ Stall
  BY <1>1, <1>2, <1>3, WatchOwner DEF OwnerInv, Kept
<1>4. CASE UNCHANGED vars
  <2>1. /\ Stays /\ UNCHANGED <<att, key, alive, pods, cut, owned, wasCut, slipped>>
    BY <1>4, OwnerFacts DEF vars, registry, threads, past, Stays
  <2>2. Kept
    BY <2>1, QuietSteps DEF Running, Labelling
  <2> QED BY <1>1, <2>2 DEF Kept, OwnerInv
<1>5. ASSUME Kept PROVE OwnerInv'
  BY <1>1, <1>5 DEF Kept, OwnerInv
<1> QED BY <1>3, <1>4, <1>5, DeliverOwner, ClaimOwner, RegisterOwner, StepOwner, WorkOwner,
           HearOwner, WatchOwner, PodOwner DEF Next, Runs, Steps, Ends, Lapses

\* An attempt that has claimed the run is the holder of the owner key, through
\* freezes, stalls, crashes, time-outs and drains, as long as no pod has lost
\* Redis and its own pod did not freeze between the claim and the registration
\* until the key lapsed: its watchdog keeps the key from the registration on, and
\* whoever replaces a holder replaces one whose pod has died.
THEOREM RunnersOwn == Spec => []RunnerOwns
<1>1. Init => OwnerInv
  BY InitTypes, InitOwner DEF OwnerInv
<1>2. OwnerInv => RunnerOwns
  BY DEF OwnerInv, Safe, RefreshedRuns, RunnerOwns, Holds
<1>3. Spec => []OwnerInv
  BY <1>1, NextOwner, PTL DEF Spec
<1> QED BY <1>2, <1>3, PTL

-----------------------------------------------------------------------------
(* The work is done once *)

\* An attempt that nothing has stopped.
Able(a) == att[a].phase \in {"running", "timedout", "gone"} /\ ~att[a].halted

\* An attempt that stalled may still do harm: it goes on beside the attempt
\* that the queue starts next, and it clears the activeRuns entry the two share,
\* so that a time-out no longer reaches the other.  Every harm is paid for:
\*   - Owing: the attempts that go on though the queue no longer waits for them;
\*   - Hazard: 2 while an attempt can end its work and no time-out can stop it,
\*     1 while an attempt is about to clear an entry that another shares;
\*   - Spent: the queue heard of an end, or is to find the job stalled.
Owing ==
    {a \in Attempts : \/ att[a].phase \in {"timedout", "gone"}
                      \/ att[a].phase \in {"claiming", "labelling", "running"} /\ a # runner}
Past(a) == att[a].phase \in {"timedout", "gone"}
Exposed(a) ==
    /\ ~att[a].halted
    /\ Past(a) \/ (att[a].phase = "running" /\ active[PodOf(a)] # "live")
Cleared(a) ==
    /\ Past(a) \/ (att[a].phase = "running" /\ att[a].halted)
    /\ active[PodOf(a)] # "aborted"
Hazard == IF \E a \in Attempts : Exposed(a) THEN 2
          ELSE IF \E a \in Attempts : Cleared(a) THEN 1 ELSE 0
Spent ==
    IF job = "done" \/ (runner # None /\ att[runner].phase \in {"ending", "timedout", "over"})
    THEN 1 ELSE 0

Budget == Cardinality(Owing) + Hazard <= stalls + Spent

\* The watchdogs own nothing but what runs, so they report no loss.
OwnedRuns == lost = {} /\ \A p \in Pods : owned[p] # None => Running(owned[p])

OneAble == \A a, b \in Attempts : Able(a) /\ Able(b) => a = b
\* Once the marker is kept, what nothing has stopped is not at work, unless it
\* could not read the marker.
Marked == Keyed /\ marker = "kept" => \A a \in Attempts : Able(a) => att[a].stage # "work"
\* What has not begun is at the start; what writes its marker in time is not
\* stopped.
Tidy(a) ==
    /\ att[a].phase \in {"none", "claiming", "labelling"} => att[a].stage = "start"
    /\ att[a].phase = "running" /\ att[a].stage = "mark" => ~att[a].halted
AllTidy == \A a \in Attempts : Tidy(a)

LEMMA FiniteAttempts == \A S \in SUBSET Attempts : IsFiniteSet(S) /\ Cardinality(S) \in Nat
<1>1. IsFiniteSet(Attempts)
  BY FS_Interval, OwnershipAssumption DEF Attempts
<1> QED BY <1>1, FS_Subset, FS_CardinalityType

LEMMA OwingFinite ==
    ASSUME NEW S \in SUBSET Attempts, NEW T \in SUBSET Attempts, NEW x \in Attempts
    PROVE  /\ T \subseteq S => Cardinality(T) <= Cardinality(S)
           /\ T \subseteq S \cup {x} => Cardinality(T) <= Cardinality(S) + 1
           /\ T \subseteq S \ {x} /\ x \in S => Cardinality(T) + 1 <= Cardinality(S)
<1>0. IsFiniteSet(S) /\ IsFiniteSet(T) /\ Cardinality(S) \in Nat /\ Cardinality(T) \in Nat
  BY FiniteAttempts
<1>1. T \subseteq S => Cardinality(T) <= Cardinality(S)
  BY <1>0, FS_Subset
<1>2. ASSUME T \subseteq S \cup {x} PROVE Cardinality(T) <= Cardinality(S) + 1
  <2>1. /\ IsFiniteSet(S \cup {x})
        /\ Cardinality(S \cup {x}) \in {Cardinality(S), Cardinality(S) + 1}
    BY <1>0, FS_AddElement
  <2>2. Cardinality(T) <= Cardinality(S \cup {x})
    BY <1>2, <2>1, FS_Subset
  <2> QED BY <1>0, <2>1, <2>2
<1>3. ASSUME T \subseteq S \ {x}, x \in S PROVE Cardinality(T) + 1 <= Cardinality(S)
  <2>1. IsFiniteSet(S \ {x}) /\ Cardinality(S \ {x}) = Cardinality(S) - 1
    BY <1>0, <1>3, FS_RemoveElement
  <2>2. Cardinality(T) <= Cardinality(S \ {x})
    BY <1>3, <2>1, FS_Subset
  <2> QED BY <1>0, <2>1, <2>2
<1> QED BY <1>1, <1>2, <1>3

\* How the hazard of a step compares with the one before it.
LEMMA HazardMoves ==
    /\ Hazard \in 0 .. 2 /\ Hazard' \in 0 .. 2
    /\ (\A b \in Attempts : Exposed(b)' => Hazard >= 1) => Hazard' <= Hazard + 1
    /\ /\ \A b \in Attempts : Exposed(b)' => \E c \in Attempts : Exposed(c)
       /\ \A b \in Attempts : Cleared(b)' => \E c \in Attempts : Exposed(c) \/ Cleared(c)
       => Hazard' <= Hazard
BY DEF Hazard

LEMMA HazardIs ==
    /\ \A b \in Attempts : Exposed(b) => Hazard = 2
    /\ \A b \in Attempts : Cleared(b) => Hazard >= 1
BY DEF Hazard

\* The ways a step keeps the books: what comes to be owed is paid for by a
\* stall or by the end the queue hears of.
LEMMA Booked ==
    ASSUME TypeInv, TypeInv', Budget, NEW d \in Int, NEW e \in Int,
           Cardinality(Owing') <= Cardinality(Owing) + d, Hazard' <= Hazard + e,
           stalls + Spent + (d + e) <= stalls' + Spent'
    PROVE  Budget'
<1>1. Cardinality(Owing) \in Int /\ Cardinality(Owing') \in Int
  BY FiniteAttempts DEF Owing
<1>2. Hazard \in Int /\ Hazard' \in Int /\ Spent \in Int /\ Spent' \in Int
  BY HazardMoves DEF Spent
<1>3. stalls \in Int /\ stalls' \in Int
  BY OwnershipAssumption DEF TypeInv, TypeOK
<1>4. Cardinality(Owing) + Hazard <= stalls + Spent
  BY DEF Budget
<1>5. Cardinality(Owing') + Hazard' <= (Cardinality(Owing) + Hazard) + (d + e)
  BY <1>1, <1>2
<1>6. (Cardinality(Owing) + Hazard) + (d + e) <= stalls + Spent + (d + e)
  BY <1>1, <1>2, <1>3, <1>4
<1>7. Cardinality(Owing') + Hazard' <= stalls' + Spent'
  <2> DEFINE A == Cardinality(Owing') + Hazard'
             B == (Cardinality(Owing) + Hazard) + (d + e)
             C == stalls + Spent + (d + e)
             D == stalls' + Spent'
  <2>1. A \in Int /\ B \in Int /\ C \in Int /\ D \in Int
    BY <1>1, <1>2, <1>3
  <2>2. A <= B /\ B <= C /\ C <= D
    BY <1>5, <1>6
  <2> HIDE DEF A, B, C, D
  <2>3. A <= D
    BY <2>1, <2>2
  <2> QED BY <2>3 DEF A, D
<1> QED BY <1>7 DEF Budget

\* What is left to show of a step while no pod has lost Redis or slipped.
Worked == Budget /\ OwnedRuns /\ OneAble /\ Marked /\ AllTidy
WorkInv == OwnerInv /\ (~wasCut /\ slipped = {} => Worked)
Steady ==
    /\ OwnerInv /\ OwnerInv' /\ ~wasCut /\ ~wasCut' /\ slipped = {} /\ slipped' = {}
    /\ Worked

LEMMA SteadyFacts ==
    ASSUME Steady
    PROVE  /\ TypeInv /\ TypeInv' /\ Safe /\ Safe' /\ cut = {} /\ Known
           /\ att \in [Attempts -> AttRecords] /\ att' \in [Attempts -> AttRecords]
           /\ \A a, b \in Attempts : Holds(a) /\ Holds(b) => a = b
           /\ \A a, b \in Attempts : Running(a) /\ Running(b) => a = b
           /\ \A a \in Attempts : Holds(a) => key = a
           /\ \A a \in Attempts : Running(a) => owned[PodOf(a)] = a
           /\ Budget /\ OwnedRuns /\ OneAble /\ Marked /\ AllTidy
           /\ active \in [Pods -> {"none", "live", "aborted"}]
           /\ runner # None => runner \in Attempts /\ job = "active"
<1>1. Safe /\ Safe' /\ cut = {} /\ Known /\ TypeInv /\ TypeInv' /\ Worked /\ slipped = {}
  BY DEF Steady, OwnerInv
<1>2. /\ att \in [Attempts -> AttRecords] /\ att' \in [Attempts -> AttRecords]
      /\ active \in [Pods -> {"none", "live", "aborted"}]
      /\ runner # None => runner \in Attempts /\ job = "active"
  BY <1>1 DEF TypeInv, TypeOK, AttRecords, JobHeld
<1>3. /\ \A a \in Attempts : Holds(a) => key = a
      /\ \A a \in Attempts : Running(a) => owned[PodOf(a)] = a
  BY <1>1 DEF Safe, RefreshedRuns
<1>4. \A a, b \in Attempts : Running(a) /\ Running(b) => a = b
  BY <1>3 DEF Holds
<1> QED BY <1>1, <1>2, <1>3, <1>4 DEF Worked

\* A step after which no attempt can do more than before it.
NoWorse ==
    \A b \in Attempts : /\ Exposed(b)' => Exposed(b)
                        /\ Cleared(b)' => Exposed(b) \/ Cleared(b)
                        /\ Able(b)' => Able(b) /\ att'[b].stage = att[b].stage
                        /\ Tidy(b)'

LEMMA NoWorseKeeps ==
    ASSUME Steady, NoWorse
    PROVE  /\ Hazard' <= Hazard /\ OneAble' /\ AllTidy'
           /\ UNCHANGED marker => Marked'
<1>1. Hazard' <= Hazard
  BY HazardMoves DEF NoWorse
<1>2. OneAble'
  BY SteadyFacts DEF NoWorse, OneAble
<1>3. UNCHANGED marker => Marked'
  BY SteadyFacts DEF NoWorse, Marked
<1>4. AllTidy'
  BY DEF NoWorse, AllTidy
<1> QED BY <1>1, <1>2, <1>3, <1>4

\* the books of a step that leaves the queue as it is
LEMMA SameQueue ==
    ASSUME Steady, UNCHANGED <<job, runner, stalls>>,
           NEW d \in Int, NEW e \in Int, d + e <= 0,
           runner # None /\ att[runner].phase \in {"ending", "timedout", "over"}
              => att'[runner].phase \in {"ending", "timedout", "over"},
           Cardinality(Owing') <= Cardinality(Owing) + d, Hazard' <= Hazard + e
    PROVE  Budget'
<1>1. Spent \in Int /\ Spent' \in Int /\ Spent <= Spent' /\ stalls \in Int
  BY SteadyFacts, OwnershipAssumption DEF Spent, TypeInv, TypeOK
<1>2. stalls + Spent + (d + e) <= stalls' + Spent'
  <2>1. \A s, x, y, z \in Int : x <= y /\ z <= 0 => s + x + z <= s + y
    OBVIOUS
  <2>2. d + e \in Int /\ stalls' = stalls
    OBVIOUS
  <2> HIDE DEF Spent
  <2>3. stalls + Spent + (d + e) <= stalls + Spent'
    BY <1>1, <2>1, <2>2
  <2> QED BY <2>2, <2>3
<1> QED BY <1>2, Booked, SteadyFacts

LEMMA DeliverWorks == ASSUME Steady, NEW p \in Pods, Deliver(p) PROVE Worked'
<1>1. PICK a \in Attempts :
        /\ att[a].phase = "none"
        /\ att' = [att EXCEPT ![a].pod = p, ![a].took = key, ![a].phase = "claiming"]
        /\ job' = "active" /\ runner' = a
  BY DEF Deliver
<1>2. /\ job = "waiting" /\ runner = None /\ stalls' = stalls
      /\ UNCHANGED <<owned, lost, active, marker>>
  BY SteadyFacts DEF Deliver, threads
<1>3. /\ att'[a].phase = "claiming" /\ att'[a].halted = att[a].halted
      /\ att'[a].stage = "start"
      /\ \A b \in Attempts : b # a => att'[b] = att[b]
  BY <1>1, SteadyFacts DEF AttRecords, AllTidy, Tidy
<1>4. Owing' \subseteq Owing
  BY <1>1, <1>2, <1>3, OwnershipAssumption DEF Owing
<1>5. NoWorse
  <2> SUFFICES ASSUME NEW b \in Attempts
               PROVE  /\ Exposed(b)' => Exposed(b)
                      /\ Cleared(b)' => Cleared(b)
                      /\ Able(b)' => Able(b) /\ att'[b].stage = att[b].stage
                      /\ Tidy(b)'
    BY DEF NoWorse
  <2>1. CASE b = a
    BY <1>3, <2>1 DEF Exposed, Cleared, Able, Past, Tidy
  <2>2. CASE b # a
    BY <1>2, <1>3, <2>2, SteadyFacts DEF Exposed, Cleared, Able, Past, PodOf, Tidy, AllTidy
  <2> QED BY <2>1, <2>2
<1>6. Budget'
  <2>1. Cardinality(Owing') <= Cardinality(Owing) + 0
    BY <1>4, OwingFinite, FiniteAttempts DEF Owing
  <2>2. Hazard' <= Hazard + 0
    BY <1>5, NoWorseKeeps, HazardMoves
  <2>3. Spent = 0 /\ Spent' = 0
    BY <1>1, <1>2, <1>3 DEF Spent
  <2>4. stalls + Spent + (0 + 0) <= stalls' + Spent'
    BY <1>2, <2>3, SteadyFacts, OwnershipAssumption DEF TypeInv, TypeOK
  <2> QED BY <2>1, <2>2, <2>4, Booked, SteadyFacts
<1>7. OwnedRuns'
  BY <1>1, <1>2, <1>3, SteadyFacts DEF OwnedRuns, Running, TypeInv, TypeOK
<1> QED BY <1>2, <1>5, <1>6, <1>7, NoWorseKeeps DEF Worked

LEMMA SpentRange == Spent \in {0, 1} /\ Spent' \in {0, 1}
BY DEF Spent

\* the books of a step that owes nothing new
LEMMA NothingNew ==
    ASSUME Steady, stalls' = stalls, Spent <= Spent', Owing' \subseteq Owing, Hazard' <= Hazard
    PROVE  Budget'
<1>1. Cardinality(Owing') <= Cardinality(Owing) + 0
  BY OwingFinite, FiniteAttempts DEF Owing
<1>2. Hazard' <= Hazard + 0
  BY HazardMoves
<1>3. stalls + Spent + (0 + 0) <= stalls' + Spent'
  <2>1. stalls \in Int
    BY SteadyFacts, OwnershipAssumption DEF TypeInv, TypeOK
  <2>2. \A s \in Int, x, y \in {0, 1} : x <= y => s + x + (0 + 0) <= s + y
    OBVIOUS
  <2>3. stalls + Spent + (0 + 0) <= stalls + Spent'
    BY <2>1, <2>2, SpentRange
  <2> QED BY <2>3
<1> QED BY <1>1, <1>2, <1>3, Booked, SteadyFacts

\* Three stalls are not enough for two attempts that can do the work: this is
\* where the worker's limit of two is needed.
LEMMA NoneAbleAtRegister ==
    ASSUME Steady, MaxStalled <= 2, NEW a \in Attempts, Labelling(a)
    PROVE  \A b \in Attempts : ~Able(b)
<1> SUFFICES ASSUME NEW b \in Attempts, Able(b) PROVE FALSE
  OBVIOUS
<1>0. att[a].phase = "labelling"
  BY DEF Labelling
<1>1. att[b].phase = "gone" /\ ~att[b].halted /\ b # a
  BY SteadyFacts DEF Able, Holds, Labelling, Running
<1>2. Hazard = 2
  BY <1>1, HazardIs DEF Exposed, Past
<1>3. b \in Owing
  BY <1>1 DEF Owing
<1>4. /\ Cardinality(Owing) + 2 <= stalls + Spent
      /\ Cardinality(Owing) \in Nat /\ stalls \in Nat /\ stalls <= MaxStalled + 1
      /\ MaxStalled \in Nat
      /\ job # "failed" => stalls <= MaxStalled
  <2>1. Cardinality(Owing) \in Nat
    BY FiniteAttempts DEF Owing
  <2> QED BY <1>2, <2>1, SteadyFacts, OwnershipAssumption DEF Budget, TypeInv, TypeOK, JobHeld
<1>5. CASE runner = a
  <2>1. job = "active" /\ Spent = 0
    BY <1>0, <1>5, SteadyFacts, OwnershipAssumption DEF Spent
  <2>2. Cardinality(Owing) >= 1
    <3>1. Cardinality({}) + 1 <= Cardinality(Owing)
      BY <1>3, OwingFinite DEF Owing
    <3> QED BY <1>4, <3>1, FS_EmptySet
  <2> QED BY <1>4, <2>1, <2>2
<1>6. CASE runner # a
  <2>1. a \in Owing
    BY <1>0, <1>6 DEF Owing
  <2>2. Cardinality(Owing) >= 2
    <3>1. {b} \in SUBSET Attempts /\ Owing \in SUBSET Attempts /\ {b} \subseteq Owing \ {a}
      BY <1>1, <1>3 DEF Owing
    <3>2. Cardinality({b}) + 1 <= Cardinality(Owing)
      BY <2>1, <3>1, OwingFinite
    <3>3. Cardinality({b}) = 1
      BY FS_Singleton
    <3> QED BY <1>4, <3>2, <3>3
  <2>3. stalls + Spent <= 3
    <3>1. CASE job = "failed"
      <4>1. Spent = 0
        BY <3>1, SteadyFacts DEF Spent
      <4> QED BY <1>4, <4>1
    <3>2. CASE job # "failed"
      BY <1>4, <3>2, SpentRange
    <3> QED BY <3>1, <3>2
  <2>4. Spent \in Nat
    BY SpentRange
  <2> QED BY <1>4, <2>2, <2>3, <2>4
<1> QED BY <1>5, <1>6

\* A claimer that moves on: what the queue waits for, and what it ends.
LEMMA ClaimBooks ==
    ASSUME Steady, NEW a \in Attempts, att[a].phase \in {"claiming", "labelling"},
           stalls' = stalls,
           \A b \in Attempts : b # a => att'[b] = att[b],
           \/ /\ att'[a].phase = "over" /\ job' = (IF runner = a THEN "waiting" ELSE job)
              /\ runner' = (IF runner = a THEN None ELSE runner)
           \/ att'[a].phase \in {"labelling", "running"} /\ job' = job /\ runner' = runner
    PROVE  Owing' \subseteq Owing /\ Spent <= Spent'
<1>1. Owing' \subseteq Owing
  BY OwnershipAssumption DEF Owing
<1>2. CASE runner = a
  <2>1. Spent = 0
    BY <1>2, SteadyFacts, OwnershipAssumption DEF Spent
  <2> QED BY <1>1, <2>1, SpentRange
<1>3. CASE runner # a
  <2>1. job' = job /\ runner' = runner /\ (runner # None => att'[runner] = att[runner])
    BY <1>3, SteadyFacts
  <2>2. Spent' = Spent
    BY <2>1 DEF Spent
  <2> QED BY <1>1, <2>2, SpentRange
<1> QED BY <1>2, <1>3

LEMMA StillOwnedRuns ==
    ASSUME Steady, UNCHANGED <<owned, lost>>, \A b \in Attempts : Running(b) => Running(b)'
    PROVE  OwnedRuns'
BY SteadyFacts DEF OwnedRuns, TypeInv, TypeOK

LEMMA ClaimWorks == ASSUME Steady, NEW a \in Attempts, Claim(a) PROVE Worked'
<1>0. /\ att[a].phase = "claiming" /\ att \in [Attempts -> AttRecords]
      /\ PodOf(a) \in Pods /\ PodOf(a) \notin cut /\ stalls' = stalls
      /\ UNCHANGED <<owned, lost, active, marker>>
  BY SteadyFacts DEF Claim, Up, PodOf, TypeInv, TypeOK, threads, queue
<1>1. \/ /\ Gone(a) /\ job' = (IF runner = a THEN "waiting" ELSE job)
         /\ runner' = (IF runner = a THEN None ELSE runner)
      \/ Moved(a, "labelling") /\ job' = job /\ runner' = runner
  BY <1>0, OverMoves, ClaimMoves DEF Claim, queue
<1>2. /\ att'[a].phase \in {"over", "labelling"}
      /\ att'[a].phase = "labelling" => att'[a].stage = "start"
      /\ \A b \in Attempts : b # a => att'[b] = att[b]
  BY <1>0, <1>1, SteadyFacts DEF Gone, Moved, AllTidy, Tidy
<1>3. NoWorse
  <2> SUFFICES ASSUME NEW b \in Attempts
               PROVE  /\ Exposed(b)' => Exposed(b)
                      /\ Cleared(b)' => Cleared(b)
                      /\ Able(b)' => Able(b) /\ att'[b].stage = att[b].stage
                      /\ Tidy(b)'
    BY DEF NoWorse
  <2>1. CASE b = a
    BY <1>2, <2>1 DEF Exposed, Cleared, Able, Past, Tidy
  <2>2. CASE b # a
    BY <1>0, <1>2, <2>2, SteadyFacts DEF Exposed, Cleared, Able, Past, PodOf, Tidy, AllTidy
  <2> QED BY <2>1, <2>2
<1>4. Owing' \subseteq Owing /\ Spent <= Spent'
  BY <1>0, <1>1, <1>2, ClaimBooks DEF Gone, Moved
<1>5. Budget'
  BY <1>0, <1>3, <1>4, NoWorseKeeps, NothingNew
<1>6. OwnedRuns'
  BY <1>0, <1>2, StillOwnedRuns DEF Running
<1> QED BY <1>0, <1>3, <1>5, <1>6, NoWorseKeeps DEF Worked

LEMMA RegisterWorks ==
    ASSUME Steady, MaxStalled <= 2, NEW a \in Attempts, Register(a) PROVE Worked'
<1> DEFINE p == PodOf(a)
<1>0. /\ Labelling(a) /\ att[a].phase = "labelling" /\ att \in [Attempts -> AttRecords]
      /\ p \in Pods /\ UNCHANGED <<job, runner, stalls, lost, marker>>
      /\ owned' = [owned EXCEPT ![p] = a]
      /\ active' = [active EXCEPT ![p] = IF @ = "none" THEN "live" ELSE @]
  BY SteadyFacts DEF Register, Labelling, Up, PodOf, queue, TypeInv, TypeOK
<1>1. /\ att'[a].phase = "running" /\ att'[a].pod = att[a].pod
      /\ att'[a].halted = (active[p] = "aborted") /\ att'[a].stage = "start"
      /\ \A b \in Attempts : b # a => att'[b] = att[b]
  <2>1. (active[p] = "aborted") \in BOOLEAN /\ att[a].stage = "start"
    BY <1>0, SteadyFacts DEF AllTidy, Tidy
  <2>2. att' = [att EXCEPT ![a].phase = "running", ![a].halted = (active[p] = "aborted")]
    BY DEF Register
  <2> HIDE DEF p
  <2>3. /\ att'[a].phase = "running" /\ att'[a].halted = (active[p] = "aborted")
        /\ att'[a].pod = att[a].pod /\ att'[a].stage = att[a].stage
        /\ \A b \in Attempts : b # a => att'[b] = att[b]
    BY <1>0, <2>1, <2>2, RunMoves
  <2> QED BY <2>1, <2>3
<1>2. \A b \in Attempts : ~Running(b)
  BY <1>0, SteadyFacts DEF Holds, Running, Labelling
<1>3. /\ active'[p] = IF active[p] = "none" THEN "live" ELSE active[p]
      /\ active[p] \in {"none", "live", "aborted"}
      /\ \A q : q # p => active'[q] = active[q]
  BY <1>0, SteadyFacts
<1>4. Hazard' <= Hazard
  <2>1. ~Exposed(a)' /\ ~Cleared(a)'
    BY <1>1, <1>3 DEF Exposed, Cleared, Past, PodOf
  <2>2. ASSUME NEW b \in Attempts, b # a
        PROVE  (Exposed(b)' => Exposed(b)) /\ (Cleared(b)' => Cleared(b))
    BY <1>1, <1>2, <1>3, <2>2 DEF Exposed, Cleared, Past, PodOf, Running
  <2> QED BY <2>1, <2>2, HazardMoves
<1>5. Owing' \subseteq Owing /\ Spent <= Spent'
  BY <1>0, <1>1, ClaimBooks
<1>6. Budget'
  BY <1>0, <1>4, <1>5, NothingNew
<1>7. OwnedRuns'
  <2>1. owned' \in [Pods -> Attempts \cup {None}] /\ \A q \in Pods : owned'[q] \in {None, a}
    BY <1>0, <1>2, SteadyFacts DEF OwnedRuns, TypeInv, TypeOK
  <2> QED BY <1>0, <1>1, <2>1, SteadyFacts DEF OwnedRuns, Running
<1>8. \A b \in Attempts : Able(b)' => b = a
  <2>1. \A b \in Attempts : ~Able(b)
    BY <1>0, NoneAbleAtRegister
  <2> QED BY <1>1, <2>1 DEF Able
<1>9. OneAble' /\ Marked' /\ AllTidy'
  <2>1. Tidy(a)'
    BY <1>1 DEF Tidy
  <2>2. \A b \in Attempts : Tidy(b)'
    BY <1>1, <2>1, SteadyFacts DEF AllTidy, Tidy
  <2>3. OneAble' /\ Marked'
    BY <1>0, <1>1, <1>8 DEF OneAble, Marked
  <2> QED BY <2>2, <2>3 DEF AllTidy
<1> QED BY <1>6, <1>7, <1>9 DEF Worked

\* The steps of the run itself change what is owed by nobody; only an attempt
\* that nothing has stopped writes the marker in time, and it is the only one.
LEMMA StepWorks == ASSUME Steady, NEW a \in Attempts, Steps(a) PROVE Worked'
<1>0. /\ att[a].phase \in {"running", "gone"}
      /\ UNCHANGED <<job, runner, stalls, owned, lost, active>>
  BY StepMoves, SteadyFacts DEF queue, threads
<1>1. PICK st \in Stages : Staged(a, st)
  BY StepMoves, SteadyFacts
<1>2. \A b \in Attempts : /\ att'[b].phase = att[b].phase /\ att'[b].pod = att[b].pod
                          /\ att'[b].halted = att[b].halted
                          /\ b # a => att'[b].stage = att[b].stage
  BY <1>1 DEF Staged
<1>3. \A b \in Attempts : /\ Exposed(b)' <=> Exposed(b)
                          /\ Cleared(b)' <=> Cleared(b)
                          /\ Able(b)' <=> Able(b)
  BY <1>0, <1>2 DEF Exposed, Cleared, Able, Past, PodOf
<1>4. Hazard' <= Hazard /\ OneAble'
  BY <1>3, HazardMoves, SteadyFacts DEF OneAble
<1>5. Owing' \subseteq Owing /\ Spent <= Spent'
  <2>1. Owing' \subseteq Owing
    BY <1>0, <1>2 DEF Owing
  <2>2. Spent' = Spent
    BY <1>0, <1>2, SteadyFacts DEF Spent
  <2> QED BY <2>1, <2>2, SpentRange
<1>6. Budget'
  BY <1>0, <1>4, <1>5, NothingNew
<1>7. OwnedRuns'
  BY <1>0, <1>2, StillOwnedRuns DEF Running
<1>8. Marked' /\ AllTidy'
  <2>1. \A b \in Attempts : b # a => Tidy(b)'
    BY <1>2, SteadyFacts DEF Tidy, AllTidy
  <2>2. CASE Look(a)
    <3>1. /\ att' \in {Stage(a, "tell"), Stage(a, "again"), Stage(a, "work")} /\ marker' = marker
      BY <2>2 DEF Look
    <3>2. att'[a].stage \in {"tell", "again", "work"} /\ (Found => att'[a].stage # "work")
      <4>1. \A t \in Stages : att' = Stage(a, t) => att'[a].stage = t
        BY StageMoves, SteadyFacts DEF Staged
      <4>2. {"tell", "again", "work"} \subseteq Stages
        BY DEF Stages
      <4>3. \/ Found /\ att' = Stage(a, "tell")
            \/ ~Found /\ att' = Stage(a, "work")
            \/ Found /\ att' = Stage(a, "again")
        BY <2>2 DEF Look
      <4> QED BY <4>1, <4>2, <4>3
    <3>3. Marked'
      BY <1>2, <1>3, <3>1, <3>2, SteadyFacts DEF Marked, Found
    <3>4. Tidy(a)'
      BY <1>0, <1>2, <3>2 DEF Tidy
    <3> QED BY <2>1, <3>3, <3>4 DEF AllTidy
  <2>3. CASE Finish(a)
    <3>1. att' = Stage(a, "mark") /\ ~att[a].halted /\ marker' = marker
      BY <2>3 DEF Finish
    <3>2. att'[a].stage = "mark"
      BY <3>1, StageMoves, SteadyFacts DEF Stages, Staged
    <3>3. Marked'
      BY <1>2, <1>3, <3>1, <3>2, SteadyFacts DEF Marked
    <3>4. Tidy(a)'
      BY <1>0, <1>2, <3>1 DEF Tidy
    <3> QED BY <2>1, <3>3, <3>4 DEF AllTidy
  <2>4. CASE Mark(a)
    <3>1. /\ att' = Stage(a, "tell") /\ att[a].stage = "mark"
          /\ marker' = "kept" => marker = "kept" \/ att[a].phase = "running"
      BY <2>4 DEF Mark
    <3>2. att'[a].stage = "tell"
      BY <3>1, StageMoves, SteadyFacts DEF Stages, Staged
    <3>3. att[a].phase = "running" => Able(a)
      BY <3>1, SteadyFacts DEF AllTidy, Tidy, Able
    <3>4. Marked'
      BY <1>2, <1>3, <3>1, <3>2, <3>3, SteadyFacts DEF Marked, OneAble
    <3>5. Tidy(a)'
      BY <1>0, <1>2, <3>2 DEF Tidy
    <3> QED BY <2>1, <3>4, <3>5 DEF AllTidy
  <2> QED BY <2>2, <2>3, <2>4 DEF Steps
<1> QED BY <1>4, <1>6, <1>7, <1>8 DEF Worked

\* An attempt that ends clears the activeRuns entry of its pod: what that
\* harms was harmed before, or is owed by the one that ends.
LEMMA EndsHazard ==
    ASSUME Steady, NEW a \in Attempts, att[a].phase \in {"running", "gone"},
           Gone(a) \/ Moved(a, "ending") \/ Moved(a, "yielding"),
           PodOf(a) \in Pods, active' = [active EXCEPT ![PodOf(a)] = "none"]
    PROVE  /\ ~att[a].halted => Hazard' <= Hazard
           /\ Hazard' <= Hazard + 1
           /\ \A b \in Attempts : Able(b)' => Able(b) /\ b # a
           /\ \A b \in Attempts : b # a => att'[b] = att[b]
           /\ AllTidy'
<1> DEFINE p == PodOf(a)
<1>0. /\ ~Exposed(a)' /\ ~Cleared(a)' /\ ~Able(a)'
      /\ \A b \in Attempts : b # a => att'[b] = att[b] /\ PodOf(b)' = PodOf(b)
      /\ active'[p] = "none" /\ \A q : q # p => active'[q] = active[q]
      /\ active[p] \in {"none", "live", "aborted"}
  BY SteadyFacts DEF Moved, Gone, Exposed, Cleared, Able, Past, PodOf
<1>1. /\ ~att[a].halted /\ (att[a].phase = "gone" \/ active[p] # "live") => Exposed(a)
      /\ att[a].phase = "gone" /\ active[p] # "aborted" => Cleared(a)
  BY DEF Exposed, Cleared, Past, PodOf
<1>2. ASSUME NEW b \in Attempts, Exposed(b)', ~Exposed(b)
      PROVE  att[a].phase = "gone" /\ active[p] = "live"
  <2>1. b # a /\ PodOf(b) = p /\ att[b].phase = "running" /\ active[p] = "live"
    BY <1>0, <1>2 DEF Exposed, Past
  <2>2. att[a].phase = "gone"
    BY <2>1, SteadyFacts DEF Running
  <2> QED BY <2>1, <2>2
<1>3. ASSUME NEW b \in Attempts, Cleared(b)', ~Cleared(b)
      PROVE  active[p] = "aborted"
  BY <1>0, <1>3 DEF Cleared, Past
<1>4. ASSUME ~att[a].halted PROVE Hazard' <= Hazard
  <2>1. \A b \in Attempts : Exposed(b)' => \E c \in Attempts : Exposed(c)
    BY <1>1, <1>2, <1>4
  <2>2. \A b \in Attempts : Cleared(b)' => \E c \in Attempts : Exposed(c) \/ Cleared(c)
    BY <1>1, <1>3, <1>4
  <2> QED BY <2>1, <2>2, HazardMoves
<1>5. Hazard' <= Hazard + 1
  <2>1. ASSUME NEW b \in Attempts, Exposed(b)' PROVE Hazard >= 1
    <3>1. \E c \in Attempts : Exposed(c) \/ Cleared(c)
      BY <1>1, <1>2, <2>1
    <3> QED BY <3>1, HazardIs
  <2> QED BY <2>1, HazardMoves
<1>6. \A b \in Attempts : Able(b)' => Able(b) /\ b # a
  BY <1>0 DEF Able
<1>7. AllTidy'
  <2>1. Tidy(a)'
    BY DEF Moved, Gone, Tidy
  <2> QED BY <1>0, <2>1, SteadyFacts DEF AllTidy, Tidy
<1> QED BY <1>0, <1>4, <1>5, <1>6, <1>7

\* What an attempt that ends owed is paid back, or its job has its end.
LEMMA EndsBooks ==
    ASSUME Steady, NEW a \in Attempts, att[a].phase \in {"running", "gone"},
           UNCHANGED <<job, runner, stalls>>, Hazard' <= Hazard + 1,
           \/ att[a].phase = "running" /\ Moved(a, "ending")
           \/ att[a].phase = "gone" /\ Gone(a)
    PROVE  Budget'
<1>0. Owing \in SUBSET Attempts /\ Owing' \in SUBSET Attempts
  BY DEF Owing
<1>1. CASE a \in Owing
  <2>1. Owing' \subseteq Owing \ {a}
    BY DEF Owing, Moved, Gone
  <2>2. Cardinality(Owing') <= Cardinality(Owing) + (-1)
    <3>1. Cardinality(Owing') + 1 <= Cardinality(Owing)
      BY <1>0, <1>1, <2>1, OwingFinite
    <3>2. Cardinality(Owing') \in Nat /\ Cardinality(Owing) \in Nat
      BY <1>0, FiniteAttempts
    <3> QED BY <3>1, <3>2
  <2>3. runner # None /\ att[runner].phase \in {"ending", "timedout", "over"}
          => att'[runner].phase \in {"ending", "timedout", "over"}
    BY SteadyFacts DEF Moved, Gone
  <2>4. -1 \in Int /\ 1 \in Int /\ (-1) + 1 <= 0
    OBVIOUS
  <2> QED BY <2>2, <2>3, <2>4, SameQueue
<1>2. CASE a \notin Owing
  <2>1. runner = a /\ att[a].phase = "running"
    BY <1>2 DEF Owing
  <2>0. Moved(a, "ending")
    BY <2>1
  <2>2. Spent = 0 /\ Spent' = 1
    <3>1. job = "active" /\ runner' = a /\ att'[a].phase = "ending" /\ a # None
      BY <2>0, <2>1, SteadyFacts, OwnershipAssumption DEF Moved
    <3> QED BY <2>1, <3>1 DEF Spent
  <2>3. Owing' \subseteq Owing
    BY <2>0 DEF Owing, Moved
  <2>4. Cardinality(Owing') <= Cardinality(Owing) + 0
    BY <1>0, <2>3, OwingFinite, FiniteAttempts
  <2>5. stalls + Spent + (0 + 1) <= stalls' + Spent'
    BY <2>2, SteadyFacts, OwnershipAssumption DEF TypeInv, TypeOK
  <2> QED BY <2>4, <2>5, Booked, SteadyFacts
<1> QED BY <1>1, <1>2

LEMMA TellWorks == ASSUME Steady, NEW a \in Attempts, Tell(a) PROVE Worked'
<1>0. /\ att[a].phase \in {"running", "gone"} /\ att \in [Attempts -> AttRecords]
      /\ PodOf(a) \in Pods /\ att' = Ended(a)
      /\ active' = [active EXCEPT ![PodOf(a)] = "none"]
      /\ UNCHANGED <<job, runner, stalls, owned, lost, marker>>
  BY SteadyFacts DEF Tell, GoesOn, Up, PodOf, queue, TypeInv, TypeOK
<1>1. \/ att[a].phase = "running" /\ Moved(a, "ending")
      \/ att[a].phase = "gone" /\ Gone(a)
  BY <1>0, PhaseMoves, OverMoves DEF Ended, Phases
<1>2. /\ Hazard' <= Hazard + 1 /\ AllTidy'
      /\ \A b \in Attempts : Able(b)' => Able(b) /\ b # a
      /\ \A b \in Attempts : b # a => att'[b] = att[b]
  BY <1>0, <1>1, EndsHazard
<1>3. Budget'
  BY <1>0, <1>1, <1>2, EndsBooks
<1>4. OwnedRuns'
  BY <1>0, <1>1, StillOwnedRuns DEF Moved, Gone, Running
<1>5. OneAble' /\ Marked'
  BY <1>0, <1>2, SteadyFacts DEF OneAble, Marked
<1> QED BY <1>2, <1>3, <1>4, <1>5 DEF Worked

LEMMA YieldWorks == ASSUME Steady, NEW a \in Attempts, Yield(a) PROVE Worked'
<1>0. /\ att[a].phase = "running" /\ ~att[a].halted /\ att \in [Attempts -> AttRecords]
      /\ PodOf(a) \in Pods /\ att' = Phase(a, "yielding")
      /\ active' = [active EXCEPT ![PodOf(a)] = "none"]
      /\ UNCHANGED <<job, runner, stalls, owned, lost, marker>>
  BY SteadyFacts DEF Yield, Up, PodOf, queue, TypeInv, TypeOK
<1>1. Moved(a, "yielding")
  BY <1>0, PhaseMoves DEF Phases
<1>2. /\ Hazard' <= Hazard /\ AllTidy'
      /\ \A b \in Attempts : Able(b)' => Able(b) /\ b # a
      /\ \A b \in Attempts : b # a => att'[b] = att[b]
  BY <1>0, <1>1, EndsHazard
<1>3. Owing' \subseteq Owing
  BY <1>0, <1>1 DEF Owing, Moved
<1>4. Spent <= Spent'
  <2>1. CASE runner = a
    <3>1. Spent = 0
      BY <1>0, <2>1, SteadyFacts, OwnershipAssumption DEF Spent
    <3> QED BY <3>1, SpentRange
  <2>2. CASE runner # a
    <3>1. runner # None => att'[runner] = att[runner]
      BY <1>1, <2>2, SteadyFacts DEF Moved
    <3>2. Spent' = Spent
      BY <1>0, <3>1 DEF Spent
    <3> QED BY <3>2, SpentRange
  <2> QED BY <2>1, <2>2
<1>5. Budget'
  BY <1>0, <1>2, <1>3, <1>4, NothingNew
<1>6. OwnedRuns'
  BY <1>0, <1>1, StillOwnedRuns DEF Moved, Running
<1>7. OneAble' /\ Marked'
  BY <1>0, <1>2, SteadyFacts DEF OneAble, Marked
<1> QED BY <1>2, <1>5, <1>6, <1>7 DEF Worked

LEMMA HaltedFlags ==
    ASSUME att \in [Attempts -> AttRecords], NEW p, NEW b \in Attempts
    PROVE  IF active[p] = "live" /\ PodOf(b) = p /\ att[b].phase = "running"
           THEN Halted(p)[b].halted = TRUE ELSE Halted(p)[b] = att[b]
<1>1. [att[b] EXCEPT !.halted = TRUE].halted = TRUE
  BY DEF AttRecords
<1> QED BY <1>1 DEF Halted

LEMMA TimeOutMoves ==
    ASSUME Steady, NEW a \in Attempts, TimeOut(a)
    PROVE  /\ att[a].phase = "running" /\ PodOf(a) \in Pods
           /\ att'[a].phase = "timedout" /\ att'[a].pod = att[a].pod
           /\ att'[a].halted = (active[PodOf(a)] = "live" \/ att[a].halted)
           /\ att'[a].stage = att[a].stage
           /\ \A b \in Attempts : b # a => att'[b] = att[b]
           /\ active' = Aborted(PodOf(a))
           /\ UNCHANGED <<job, runner, stalls, owned, lost, marker>>
<1> DEFINE h == Halted(PodOf(a))
<1>0. /\ att[a].phase = "running" /\ PodOf(a) \in Pods /\ att \in [Attempts -> AttRecords]
      /\ att' = [h EXCEPT ![a].phase = "timedout", ![a].out = TRUE]
      /\ active' = Aborted(PodOf(a)) /\ "timedout" \in Phases
      /\ UNCHANGED <<job, runner, stalls, owned, lost, marker>>
  BY SteadyFacts DEF TimeOut, Up, PodOf, queue, TypeInv, TypeOK, Phases
<1>1. /\ h \in [Attempts -> AttRecords]
      /\ h[a].pod = att[a].pod /\ h[a].stage = att[a].stage
      /\ \A b \in Attempts : IF active[PodOf(a)] = "live" /\ PodOf(b) = PodOf(a) /\ att[b].phase = "running"
                             THEN h[b].halted = TRUE ELSE h[b] = att[b]
  BY <1>0, HaltedKeeps, HaltedFlags
<1> HIDE DEF h
<1>4. /\ att'[a].phase = "timedout" /\ att'[a].pod = h[a].pod /\ att'[a].halted = h[a].halted
      /\ att'[a].stage = h[a].stage
      /\ \A b \in Attempts : b # a => att'[b] = h[b]
  BY <1>0, <1>1, OutMoves
<1>5. h[a].halted = (active[PodOf(a)] = "live" \/ att[a].halted)
  <2>1. h[a].halted \in BOOLEAN /\ att[a].halted \in BOOLEAN
    BY <1>0, <1>1 DEF AttRecords
  <2>2. CASE active[PodOf(a)] = "live"
    BY <1>0, <1>1, <2>2
  <2>3. CASE active[PodOf(a)] # "live"
    BY <1>1, <2>1, <2>3
  <2> QED BY <2>2, <2>3
<1>6. ASSUME NEW b \in Attempts, b # a PROVE h[b] = att[b]
  <2>1. att[b].phase # "running"
    BY <1>0, <1>6, SteadyFacts DEF Running
  <2> QED BY <1>1, <2>1
<1> QED BY <1>0, <1>1, <1>4, <1>5, <1>6

LEMMA TimeOutWorks == ASSUME Steady, NEW a \in Attempts, TimeOut(a) PROVE Worked'
<1> DEFINE p == PodOf(a)
<1>0. /\ att[a].phase = "running" /\ p \in Pods
      /\ att'[a].phase = "timedout" /\ att'[a].pod = att[a].pod
      /\ att'[a].halted = (active[p] = "live" \/ att[a].halted)
      /\ att'[a].stage = att[a].stage
      /\ \A b \in Attempts : b # a => att'[b] = att[b]
      /\ active' = Aborted(p)
      /\ UNCHANGED <<job, runner, stalls, owned, lost, marker>>
  BY TimeOutMoves
<1>1. /\ active'[p] = IF active[p] = "live" THEN "aborted" ELSE active[p]
      /\ active[p] \in {"none", "live", "aborted"}
      /\ \A q : q # p => active'[q] = active[q]
      /\ \A b \in Attempts : PodOf(b)' = PodOf(b)
  BY <1>0, SteadyFacts DEF Aborted, PodOf
<1>2. NoWorse
  <2>1. /\ Exposed(a)' => Exposed(a)
        /\ Cleared(a)' => Exposed(a) \/ Cleared(a)
        /\ Able(a)' => Able(a)
        /\ Tidy(a)'
    BY <1>0, <1>1 DEF Exposed, Cleared, Able, Past, Tidy
  <2>2. ASSUME NEW b \in Attempts, b # a
        PROVE  /\ (Exposed(b)' => Exposed(b)) /\ (Cleared(b)' => Cleared(b))
               /\ (Able(b)' => Able(b)) /\ Tidy(b)'
    <3>1. att[b].phase # "running"
      BY <1>0, <2>2, SteadyFacts DEF Running
    <3> QED BY <1>0, <1>1, <2>2, <3>1, SteadyFacts DEF Exposed, Cleared, Able, Past, Tidy, AllTidy
  <2> QED BY <1>0, <2>1, <2>2 DEF NoWorse
<1>3. Hazard' <= Hazard /\ OneAble' /\ Marked' /\ AllTidy'
  BY <1>0, <1>2, NoWorseKeeps
<1>4. Budget'
  <2>1. CASE runner = a
    <3>1. Spent = 0 /\ Spent' = 1
      BY <1>0, <2>1, SteadyFacts, OwnershipAssumption DEF Spent
    <3>2. Owing \in SUBSET Attempts /\ Owing' \in SUBSET Attempts /\ Owing' \subseteq Owing \cup {a}
      BY <1>0 DEF Owing
    <3>3. Cardinality(Owing') <= Cardinality(Owing) + 1
      BY <3>2, OwingFinite
    <3>4. stalls + Spent + (1 + 0) <= stalls' + Spent'
      BY <1>0, <3>1, SteadyFacts, OwnershipAssumption DEF TypeInv, TypeOK
    <3>5. Hazard' <= Hazard + 0
      BY <1>3, HazardMoves
    <3> QED BY <3>3, <3>4, <3>5, Booked, SteadyFacts
  <2>2. CASE runner # a
    <3>1. Owing' \subseteq Owing
      BY <1>0, <2>2 DEF Owing
    <3>2. Spent' = Spent
      <4>1. runner # None => att'[runner] = att[runner]
        BY <1>0, <2>2, SteadyFacts
      <4> QED BY <1>0, <4>1 DEF Spent
    <3> QED BY <1>0, <1>3, <3>1, <3>2, SpentRange, NothingNew
  <2> QED BY <2>1, <2>2
<1>5. OwnedRuns'
  BY <1>0, StillOwnedRuns DEF Running
<1> QED BY <1>3, <1>4, <1>5 DEF Worked

LEMMA CloseWorks == ASSUME Steady, NEW a \in Attempts, Close(a) PROVE Worked'
<1>0. /\ att[a].phase \in {"ending", "yielding", "timedout"} /\ att \in [Attempts -> AttRecords]
      /\ PodOf(a) \in Pods /\ PodOf(a) \notin cut
      /\ owned' = [owned EXCEPT ![PodOf(a)] = None]
      /\ UNCHANGED <<stalls, lost, active, marker>>
      /\ IF runner = a
         THEN /\ runner' = None
              /\ job' = IF att[a].phase = "yielding" THEN "waiting" ELSE "done"
         ELSE UNCHANGED <<job, runner>>
  BY SteadyFacts DEF Close, Up, PodOf, Disowned, TypeInv, TypeOK
<1>1. IF att[a].phase = "timedout" THEN Moved(a, "gone") ELSE Gone(a)
  <2>1. att' = IF att[a].phase = "timedout" THEN Phase(a, "gone") ELSE [att EXCEPT ![a] = Over(a)]
    BY DEF Close
  <2> QED BY <1>0, <2>1, PhaseMoves, OverMoves DEF Phases
<1>2. NoWorse
  <2>1. /\ (Exposed(a)' => Exposed(a)) /\ (Cleared(a)' => Cleared(a))
        /\ (Able(a)' => Able(a) /\ att'[a].stage = att[a].stage) /\ Tidy(a)'
    BY <1>0, <1>1 DEF Moved, Gone, Exposed, Cleared, Able, Past, PodOf, Tidy
  <2>2. ASSUME NEW b \in Attempts, b # a
        PROVE  /\ (Exposed(b)' => Exposed(b)) /\ (Cleared(b)' => Cleared(b))
               /\ (Able(b)' => Able(b) /\ att'[b].stage = att[b].stage) /\ Tidy(b)'
    BY <1>0, <1>1, <2>2, SteadyFacts
       DEF Moved, Gone, Exposed, Cleared, Able, Past, PodOf, Tidy, AllTidy
  <2> QED BY <2>1, <2>2 DEF NoWorse
<1>3. Owing' \subseteq Owing
  <2>1. a \in Owing' => a \in Owing
    BY <1>0, <1>1 DEF Owing, Moved, Gone
  <2>2. ASSUME NEW b \in Attempts, b # a, b \in Owing' PROVE b \in Owing
    BY <1>0, <1>1, <2>2 DEF Owing, Moved, Gone
  <2> QED BY <2>1, <2>2 DEF Owing
<1>4. Spent <= Spent'
  <2>1. CASE runner = a /\ att[a].phase = "yielding"
    <3>1. Spent = 0
      BY <2>1, SteadyFacts, OwnershipAssumption DEF Spent
    <3> QED BY <3>1, SpentRange
  <2>2. CASE runner = a /\ att[a].phase # "yielding"
    <3>1. Spent' = 1
      BY <1>0, <2>2 DEF Spent
    <3> QED BY <3>1, SpentRange
  <2>3. CASE runner # a
    <3>1. /\ runner' = runner /\ job' = job
          /\ runner # None => att'[runner] = att[runner]
      BY <1>0, <1>1, <2>3, SteadyFacts DEF Moved, Gone
    <3>2. Spent' = Spent
      BY <3>1 DEF Spent
    <3> QED BY <3>2, SpentRange
  <2> QED BY <2>1, <2>2, <2>3
<1>5. Budget'
  BY <1>0, <1>2, <1>3, <1>4, NoWorseKeeps, NothingNew
<1>6. OwnedRuns'
  <2>1. \A q \in Pods : owned'[q] = None
    <3> SUFFICES ASSUME NEW q \in Pods, owned'[q] # None PROVE FALSE
      OBVIOUS
    <3>1. owned \in [Pods -> Attempts \cup {None}]
      BY SteadyFacts DEF TypeInv, TypeOK
    <3>2. q # PodOf(a) /\ owned[q] # None
      BY <1>0, <3>1
    <3>3. owned[q] \in Attempts /\ Running(owned[q]) /\ PodOf(owned[q]) = q
      BY <3>1, <3>2, SteadyFacts DEF OwnedRuns, Known
    <3>4. owned[q] = a
      BY <1>0, <3>3, SteadyFacts DEF Running
    <3> QED BY <3>2, <3>3, <3>4
  <2> QED BY <1>0, <2>1, SteadyFacts DEF OwnedRuns
<1> QED BY <1>0, <1>2, <1>5, <1>6, NoWorseKeeps DEF Worked

\* The steps that leave the attempts, the queue and the marker as they are.
LEMMA UntouchedWorks ==
    ASSUME Steady, UNCHANGED <<att, job, runner, stalls, active, owned, lost, marker>>
    PROVE  Worked'
<1>1. Owing' = Owing /\ Spent' = Spent
  BY DEF Owing, Spent
<1>2. NoWorse
  BY SteadyFacts DEF NoWorse, Exposed, Cleared, Able, Past, PodOf, Tidy, AllTidy
<1>3. Budget'
  BY <1>1, <1>2, NoWorseKeeps, SpentRange, NothingNew
<1>4. OwnedRuns'
  BY StillOwnedRuns DEF Running
<1> QED BY <1>2, <1>3, <1>4, NoWorseKeeps DEF Worked

\* The watchdog keeps what it refreshes, so the main thread has no loss to hear of.
LEMMA WatchWorks ==
    ASSUME Steady, NEW p \in Pods, Watches(p) \/ AliveLapses(p) \/ KeyLapses
    PROVE  Worked'
<1>1. CASE Refresh(p)
  <2>1. owned[p] \in Attempts /\ Running(owned[p])
    BY <1>1, SteadyFacts DEF Refresh, OwnedRuns, TypeInv, TypeOK
  <2>2. Keeps(owned[p])
    BY <2>1, SteadyFacts DEF Keeps, Holds
  <2> QED BY <1>1, <2>2, UntouchedWorks DEF Refresh, queue
<1>2. CASE Touch(p) \/ AliveLapses(p) \/ KeyLapses
  BY <1>2, UntouchedWorks DEF Touch, AliveLapses, KeyLapses, queue, threads
<1> QED BY <1>1, <1>2 DEF Watches

LEMMA StallWorks == ASSUME Steady, Stall PROVE Worked'
<1>0. /\ runner \in Attempts /\ runner # None /\ job = "active"
      /\ stalls' = stalls + 1 /\ runner' = None /\ job' \in {"waiting", "failed"}
      /\ UNCHANGED <<att, active, owned, lost, marker>>
  BY SteadyFacts DEF Stall, threads
<1>1. NoWorse
  BY <1>0, SteadyFacts DEF NoWorse, Exposed, Cleared, Able, Past, PodOf, Tidy, AllTidy
<1>2. Hazard' <= Hazard + 0
  BY <1>1, NoWorseKeeps, HazardMoves
<1>3. stalls \in Int
  BY SteadyFacts, OwnershipAssumption DEF TypeInv, TypeOK
<1>4. Owing \in SUBSET Attempts /\ Owing' \in SUBSET Attempts
  BY DEF Owing
<1>5. Spent' = 0
  BY <1>0 DEF Spent
<1>6. Budget'
  <2>1. CASE att[runner].phase \in {"claiming", "labelling", "running"}
    <3>1. Spent = 0
      BY <1>0, <2>1 DEF Spent
    <3>2. Owing' \subseteq Owing \cup {runner}
      BY <1>0 DEF Owing
    <3>3. Cardinality(Owing') <= Cardinality(Owing) + 1
      BY <1>0, <1>4, <3>2, OwingFinite
    <3>4. stalls + Spent + (1 + 0) <= stalls' + Spent'
      BY <1>0, <1>3, <1>5, <3>1
    <3> QED BY <1>2, <3>3, <3>4, Booked, SteadyFacts
  <2>2. CASE att[runner].phase \notin {"claiming", "labelling", "running"}
    <3>1. Owing' \subseteq Owing
      BY <1>0, <2>2 DEF Owing
    <3>2. Cardinality(Owing') <= Cardinality(Owing) + 0
      BY <1>0, <1>4, <3>1, OwingFinite, FiniteAttempts
    <3>3. stalls + Spent + (0 + 0) <= stalls' + Spent'
      <4>1. CASE Spent = 0
        BY <1>0, <1>3, <1>5, <4>1
      <4>2. CASE Spent = 1
        BY <1>0, <1>3, <1>5, <4>2
      <4> QED BY <4>1, <4>2, SpentRange
    <3> QED BY <1>2, <3>2, <3>3, Booked, SteadyFacts
  <2> QED BY <2>1, <2>2
<1>7. OwnedRuns'
  BY <1>0, StillOwnedRuns DEF Running
<1> QED BY <1>0, <1>1, <1>6, <1>7, NoWorseKeeps DEF Worked

LEMMA CrashWorks == ASSUME Steady, NEW p \in Pods, Crash(p) PROVE Worked'
<1>0. /\ att' = [a \in Attempts |-> IF PodOf(a) = p THEN Over(a) ELSE att[a]]
      /\ owned' = [owned EXCEPT ![p] = None] /\ lost' = {a \in lost : PodOf(a) # p}
      /\ active' = [active EXCEPT ![p] = "none"]
      /\ UNCHANGED <<job, runner, stalls, marker>>
  BY DEF Crash, queue
<1>1. ASSUME NEW b \in Attempts
      PROVE  /\ PodOf(b) # p => att'[b] = att[b]
             /\ PodOf(b) = p => att'[b].phase = "over"
             /\ PodOf(b)' = PodOf(b)
  BY CrashMoves, SteadyFacts DEF Stays, PodOf
<1>2. \A q : q # p => active'[q] = active[q]
  BY <1>0, SteadyFacts
<1>3. NoWorse
  <2> SUFFICES ASSUME NEW b \in Attempts
               PROVE  /\ Exposed(b)' => Exposed(b)
                      /\ Cleared(b)' => Cleared(b)
                      /\ Able(b)' => Able(b) /\ att'[b].stage = att[b].stage
                      /\ Tidy(b)'
    BY DEF NoWorse
  <2>1. CASE PodOf(b) = p
    BY <1>1, <2>1 DEF Exposed, Cleared, Able, Past, Tidy
  <2>2. CASE PodOf(b) # p
    BY <1>1, <1>2, <2>2, SteadyFacts DEF Exposed, Cleared, Able, Past, Tidy, AllTidy
  <2> QED BY <2>1, <2>2
<1>4. Owing' \subseteq Owing
  <2> SUFFICES ASSUME NEW b \in Attempts, b \in Owing' PROVE b \in Owing
    BY DEF Owing
  <2>1. att'[b] = att[b]
    BY <1>1 DEF Owing
  <2> QED BY <1>0, <2>1 DEF Owing
<1>5. Spent <= Spent'
  <2>1. runner # None /\ att[runner].phase \in {"ending", "timedout", "over"}
           => att'[runner].phase \in {"ending", "timedout", "over"}
    BY <1>1, SteadyFacts
  <2> QED BY <1>0, <2>1 DEF Spent
<1>6. Budget'
  BY <1>0, <1>3, <1>4, <1>5, NoWorseKeeps, NothingNew
<1>7. OwnedRuns'
  <2>1. lost' = {}
    BY <1>0, SteadyFacts DEF OwnedRuns
  <2>2. ASSUME NEW q \in Pods, owned'[q] # None
        PROVE  att'[owned'[q]].phase \in {"running", "ending", "yielding", "timedout"}
    <3>1. q # p /\ owned'[q] = owned[q] /\ owned[q] \in Attempts
      BY <1>0, <2>2, SteadyFacts DEF TypeInv, TypeOK
    <3>2. Running(owned[q]) /\ PodOf(owned[q]) = q
      BY <2>2, <3>1, SteadyFacts DEF OwnedRuns, Known
    <3>3. att'[owned[q]] = att[owned[q]]
      BY <1>1, <3>1, <3>2
    <3> QED BY <3>1, <3>2, <3>3 DEF Running
  <2> QED BY <2>1, <2>2 DEF OwnedRuns, Running
<1> QED BY <1>0, <1>3, <1>6, <1>7, NoWorseKeeps DEF Worked

LEMMA PodWorks ==
    ASSUME Steady, NEW p \in Pods, Recovers(p) \/ Freeze(p) \/ Crash(p) \/ Cut(p)
    PROVE  Worked'
<1>1. CASE Recovers(p) \/ Freeze(p)
  BY <1>1, UntouchedWorks DEF Recovers, Thaw, Restart, Heal, Freeze, queue, threads
<1>2. CASE Crash(p)
  BY <1>2, CrashWorks
<1>3. CASE Cut(p)
  BY <1>3 DEF Cut, Steady
<1> QED BY <1>1, <1>2, <1>3

LEMMA InitWorks == Init => Worked
<1> SUFFICES ASSUME Init PROVE Worked
  OBVIOUS
<1>1. \A a \in Attempts : att[a].phase = "none"
  BY DEF Init
<1>2. Owing = {} /\ Hazard = 0 /\ Spent = 0
  BY <1>1 DEF Init, Owing, Hazard, Exposed, Cleared, Past, Spent
<1>3. Budget
  BY <1>2, FS_EmptySet DEF Init, Budget
<1>4. OwnedRuns
  BY DEF Init, OwnedRuns
<1>5. OneAble /\ Marked /\ AllTidy
  BY <1>1 DEF Init, OneAble, Marked, Able, AllTidy, Tidy
<1> QED BY <1>3, <1>4, <1>5 DEF Worked

\* What was lost once stays lost.
LEMMA PastGrows ==
    ASSUME [Next]_vars PROVE (wasCut => wasCut') /\ slipped \subseteq slipped'
<1>1. ASSUME NEW p \in Pods, Deliver(p) \/ Watches(p) \/ AliveLapses(p) \/ Recovers(p)
                             \/ Freeze(p) \/ Crash(p)
      PROVE  UNCHANGED <<wasCut, slipped>>
  BY <1>1 DEF past, Deliver, Watches, Refresh, Touch, AliveLapses, Recovers, Thaw, Restart, Heal,
              Freeze, Crash
<1>2. ASSUME NEW p \in Pods, Cut(p) PROVE wasCut' = TRUE /\ slipped' = slipped
  BY <1>2 DEF Cut
<1>3. ASSUME NEW a \in Attempts, Runs(a) \/ Hear(a) \/ Yield(a) \/ TimeOut(a)
      PROVE  UNCHANGED <<wasCut, slipped>>
  BY <1>3 DEF past, Runs, Claim, Register, Look, Finish, Mark, Tell, Close, Hear, Yield, TimeOut
<1>4. KeyLapses => (wasCut => wasCut') /\ slipped \subseteq slipped'
  <2>1. KeyLapses => wasCut' = wasCut
    BY DEF KeyLapses
  <2>2. KeyLapses => slipped \subseteq slipped'
    BY DEF KeyLapses
  <2> QED BY <2>1, <2>2, Zenon
<1>5. Stall => UNCHANGED <<wasCut, slipped>>
  BY DEF Stall, past
<1>6. UNCHANGED vars => UNCHANGED <<wasCut, slipped>>
  BY DEF vars, past
<1>7. CASE UNCHANGED <<wasCut, slipped>>
  BY <1>7
<1>8. \/ UNCHANGED <<wasCut, slipped>>
      \/ KeyLapses
      \/ \E p \in Pods : Cut(p)
  BY <1>1, <1>3, <1>5, <1>6 DEF Next, Lapses
<1>9. CASE KeyLapses
  BY <1>4, <1>9
<1>10. CASE \E p \in Pods : Cut(p)
  <2>1. PICK p \in Pods : Cut(p)
    BY <1>10
  <2>2. wasCut' = TRUE /\ slipped' = slipped
    BY <1>2, <2>1
  <2>3. slipped \subseteq slipped'
    BY <2>2
  <2>4. wasCut'
    BY <2>2, Zenon
  <2> QED BY <2>3, <2>4, Zenon
<1> QED BY <1>7, <1>8, <1>9, <1>10

LEMMA NextWorks == ASSUME MaxStalled <= 2, WorkInv, [Next]_vars PROVE WorkInv'
<1>1. OwnerInv /\ OwnerInv' /\ (~wasCut /\ slipped = {} => Worked)
  BY NextOwner DEF WorkInv
<1>2. SUFFICES ASSUME ~wasCut', slipped' = {} PROVE Worked'
  BY <1>1 DEF WorkInv
<1>3. Steady
  BY <1>1, <1>2, PastGrows DEF Steady
<1>4. ASSUME NEW a \in Attempts, Hear(a) PROVE Worked'
  BY <1>3, <1>4, SteadyFacts DEF Hear, OwnedRuns
<1>5. CASE KeyLapses
  <2>1. PICK p \in Pods : TRUE
    BY OwnershipAssumption
  <2> QED BY <1>3, <1>5, <2>1, WatchWorks
<1>6. CASE UNCHANGED vars
  BY <1>3, <1>6, UntouchedWorks DEF vars, queue, threads
<1> QED BY <1>3, <1>4, <1>5, <1>6, DeliverWorks, ClaimWorks, RegisterWorks, StepWorks, TellWorks,
           YieldWorks, TimeOutWorks, CloseWorks, WatchWorks, StallWorks, PodWorks
           DEF Next, Runs, Steps, Lapses

\* An attempt leaves its work by finishing it.
LEMMA OnlyFinish ==
    ASSUME TypeInv, [Next]_vars, NEW b \in Attempts,
           att[b].stage = "work", att'[b].stage = "mark"
    PROVE  Finish(b)
<1>0. att \in [Attempts -> AttRecords]
  BY DEF TypeInv, TypeOK, AttRecords
<1>1. ASSUME NEW a \in Attempts,
             \/ Gone(a)
             \/ \E ph \in Phases : Moved(a, ph)
      PROVE  FALSE
  BY <1>1 DEF Gone, Moved
<1>2. ASSUME NEW p \in Pods, Deliver(p) PROVE FALSE
  <2>1. PICK a \in Attempts :
          att' = [att EXCEPT ![a].pod = p, ![a].took = key, ![a].phase = "claiming"]
    BY <1>2 DEF Deliver
  <2> QED BY <1>0, <2>1 DEF AttRecords
<1>3. ASSUME NEW a \in Attempts, Claim(a) \/ Tell(a) \/ Yield(a) \/ Close(a) PROVE FALSE
  <2>1. \/ att' = [att EXCEPT ![a] = Over(a)]
        \/ att' = Claimed(a)
        \/ \E ph \in Phases : att' = Phase(a, ph)
    BY <1>3 DEF Claim, Tell, Ended, Yield, Close, Phases
  <2>2. "labelling" \in Phases
    BY DEF Phases
  <2> QED BY <1>0, <1>1, <2>1, <2>2, OverMoves, ClaimMoves, PhaseMoves
<1>4. ASSUME NEW a \in Attempts, Register(a) PROVE FALSE
  <2>1. (active[PodOf(a)] = "aborted") \in BOOLEAN
    OBVIOUS
  <2>2. att' = [att EXCEPT ![a].phase = "running", ![a].halted = (active[PodOf(a)] = "aborted")]
    BY <1>4 DEF Register
  <2> QED BY <1>0, <2>1, <2>2, RunMoves
<1>5. ASSUME NEW p \in Pods, NEW a \in Attempts, NEW ph \in Phases,
             \/ att' = [Halted(p) EXCEPT ![a].phase = ph, ![a].out = TRUE]
             \/ att' = [Halted(p) EXCEPT ![a].out = TRUE]
      PROVE  FALSE
  <2> DEFINE h == Halted(p)
  <2>1. h \in [Attempts -> AttRecords] /\ h[b].stage = "work"
    BY <1>0, HaltedKeeps
  <2>2. att' = [h EXCEPT ![a].phase = ph, ![a].out = TRUE] \/ att' = [h EXCEPT ![a].out = TRUE]
    BY <1>5
  <2> HIDE DEF h
  <2> QED BY <2>1, <2>2 DEF AttRecords
<1>6. ASSUME NEW a \in Attempts, TimeOut(a) \/ Hear(a) PROVE FALSE
  <2>1. PodOf(a) \in Pods
    BY <1>6 DEF TimeOut, Hear, Up, PodOf, TypeInv, TypeOK
  <2>2. \/ att' = [Halted(PodOf(a)) EXCEPT ![a].phase = "timedout", ![a].out = TRUE]
        \/ att' = [Halted(PodOf(a)) EXCEPT ![a].out = TRUE]
        \/ att' = att
    BY <1>6 DEF TimeOut, Hear
  <2> QED BY <1>5, <2>1, <2>2 DEF Phases
<1>7. ASSUME NEW p \in Pods,
             \/ Watches(p) \/ AliveLapses(p) \/ Recovers(p) \/ Freeze(p) \/ Cut(p)
             \/ KeyLapses \/ Stall \/ UNCHANGED vars
      PROVE  FALSE
  <2>1. att' = att
    BY <1>7 DEF Watches, Refresh, Touch, AliveLapses, Recovers, Thaw, Restart, Heal, Freeze, Cut,
                KeyLapses, Stall, vars
  <2> QED BY <2>1
<1>8. ASSUME NEW p \in Pods, Crash(p) PROVE FALSE
  BY <1>0, <1>8 DEF Crash, Over
<1>9. ASSUME NEW a \in Attempts, Look(a) \/ Finish(a) \/ Mark(a) PROVE Finish(b)
  <2>1. PICK st \in Stages : att' = Stage(a, st) /\ (st = "mark" => Finish(a))
    BY <1>9 DEF Look, Finish, Mark, Stages
  <2>2. Staged(a, st)
    BY <1>0, <2>1, StageMoves
  <2> QED BY <2>1, <2>2 DEF Staged
<1>10. PICK p \in Pods : TRUE
  BY OwnershipAssumption
<1>11. CASE KeyLapses \/ Stall \/ UNCHANGED vars
  BY <1>7, <1>10, <1>11
<1> QED BY <1>2, <1>3, <1>4, <1>6, <1>7, <1>8, <1>9, <1>11 DEF Next, Runs, Lapses

\* With the stalls the worker allows (maxStalledCount is 2): once an attempt has
\* written the marker in time, no attempt of a job whose payload carries an
\* idempotency key does the work any more, but one that could not read the
\* marker, while Redis is in reach and no pod froze between a claim and its
\* registration until the key lapsed: a later attempt finds the marker, an
\* earlier one can no longer end its work.
THEOREM WorkedOnce == ASSUME MaxStalled <= 2 PROVE Spec => WorkOnce
<1> DEFINE Once ==
      Keyed /\ ~wasCut /\ slipped = {} /\ marker = "kept"
          => \A a \in Attempts : ~(att[a].stage = "work" /\ att'[a].stage = "mark")
<1>1. Init => WorkInv
  BY InitTypes, InitOwner, InitWorks DEF WorkInv, OwnerInv
<1>2. WorkInv /\ [Next]_vars => WorkInv'
  BY NextWorks
<1>3. WorkInv /\ [Next]_vars => [Once]_vars
  <2> SUFFICES ASSUME WorkInv, [Next]_vars, Keyed, ~wasCut, slipped = {}, marker = "kept",
                      NEW a \in Attempts, att[a].stage = "work", att'[a].stage = "mark"
               PROVE  FALSE
    OBVIOUS
  <2>1. Finish(a)
    BY OnlyFinish DEF WorkInv, OwnerInv
  <2>2. Able(a)
    BY <2>1 DEF Finish, GoesOn, Able
  <2>3. Marked
    BY DEF WorkInv, Worked
  <2> QED BY <2>2, <2>3 DEF Marked
<1>4. Spec => []WorkInv
  BY <1>1, <1>2, PTL DEF Spec
<1> QED BY <1>3, <1>4, PTL DEF Spec, WorkOnce

=============================================================================
