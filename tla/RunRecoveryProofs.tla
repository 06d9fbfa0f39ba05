------------------------- MODULE RunRecoveryProofs -------------------------
(***************************************************************************)
(* Proofs about RunRecovery: its types, that the runtime is given no more  *)
(* attempts than the registration allows, that a root answers once and     *)
(* that a stopped one no longer answers, until a save overwrites another.  *)
(***************************************************************************)
EXTENDS RunRecovery, FiniteSetTheorems, TLAPS

-----------------------------------------------------------------------------
(* The states of a root, and what the handlers do to one *)

Same(st, new) == new \in States /\ new.used = st.used /\ new.status = st.status
Settled(st, new) == new \in States /\ new.used = st.used /\ new.status # "running"

LEMMA Follows ==
    /\ \A a, b, c : Same(a, b) /\ Same(b, c) => Same(a, c)
    /\ \A a, b, c : Same(a, b) /\ Settled(b, c) => Settled(a, c)
    /\ \A a, b, c : Settled(a, b) /\ Same(b, c) => Settled(a, c)
BY DEF Same, Settled

LEMMA SettledStates ==
    \A st \in States : Settled(st, Exhausted(st)) /\ Settled(st, Completed(st))
BY DEF Settled, Exhausted, Completed, States

LEMMA SameStates ==
    \A st \in States :
        /\ Same(st, Now(st)) /\ Same(st, [st EXCEPT !.scheduled = TRUE])
        /\ Same(st, Older(st)) /\ Same(st, LockDeferral(st)) /\ Same(st, BoxDeferral(st))
        /\ Same(st, [st EXCEPT !.age = "fresh"])
<1> SUFFICES ASSUME NEW st \in States
             PROVE  /\ Same(st, Now(st)) /\ Same(st, [st EXCEPT !.scheduled = TRUE])
                    /\ Same(st, Older(st)) /\ Same(st, LockDeferral(st)) /\ Same(st, BoxDeferral(st))
                    /\ Same(st, [st EXCEPT !.age = "fresh"])
  OBVIOUS
<1>1. Same(st, Now(st)) /\ Same(st, [st EXCEPT !.age = "fresh"])
  BY DEF Same, Now, States, Ages
<1>2. Same(st, [st EXCEPT !.scheduled = TRUE])
  BY DEF Same, States
<1>3. Same(st, Older(st))
  BY DEF Same, Older, States, Ages
<1>4. Same(st, LockDeferral(st))
  <2> DEFINE a == [st EXCEPT !.locks = st.locks + 1]
             b == [a EXCEPT !.scheduled = TRUE]
             c == [b EXCEPT !.age = "fresh"]
  <2>1. LockDeferral(st) = c
    BY DEF LockDeferral
  <2>2. Same(st, a)
    BY DEF Same, States
  <2> HIDE DEF a
  <2>3. Same(a, b)
    BY <2>2 DEF Same, States
  <2> HIDE DEF b
  <2>4. Same(b, c)
    BY <2>3 DEF Same, States, Ages
  <2> HIDE DEF c
  <2> QED BY <2>1, <2>2, <2>3, <2>4, Follows
<1>5. Same(st, BoxDeferral(st))
  <2> DEFINE a == [st EXCEPT !.boxes = st.boxes + 1]
             b == [a EXCEPT !.scheduled = TRUE]
             c == [b EXCEPT !.age = "fresh"]
  <2>1. BoxDeferral(st) = c
    BY DEF BoxDeferral
  <2>2. Same(st, a)
    BY DEF Same, States
  <2> HIDE DEF a
  <2>3. Same(a, b)
    BY <2>2 DEF Same, States
  <2> HIDE DEF b
  <2>4. Same(b, c)
    BY <2>3 DEF Same, States, Ages
  <2> HIDE DEF c
  <2> QED BY <2>1, <2>2, <2>3, <2>4, Follows
<1> QED BY <1>1, <1>2, <1>3, <1>4, <1>5

LEMMA AcceptedState ==
    ASSUME NEW st \in States, NEW s \in Attempts
    PROVE  Same(st, [st EXCEPT !.active = s, !.age = "fresh", !.scheduled = FALSE,
                               !.history = @ \cup {s}])
BY DEF Same, States, Ages

LEMMA CountedState ==
    ASSUME NEW st \in States
    PROVE  LET new == [st EXCEPT !.scheduled = FALSE, !.used = @ + 1]
           IN  new \in States /\ new.used = st.used + 1 /\ new.status = st.status
<1>1. [st EXCEPT !.scheduled = FALSE, !.used = @ + 1]
        = [[st EXCEPT !.scheduled = FALSE] EXCEPT !.used = st.used + 1]
  BY DEF States
<1>2. /\ [st EXCEPT !.scheduled = FALSE] \in States
      /\ [st EXCEPT !.scheduled = FALSE].status = st.status
  BY DEF States
<1>3. \A t \in States, n \in Nat : /\ [t EXCEPT !.used = n] \in States
                                   /\ [t EXCEPT !.used = n].used = n
                                   /\ [t EXCEPT !.used = n].status = t.status
  BY DEF States
<1>4. st.used + 1 \in Nat
  BY DEF States
<1> QED BY <1>1, <1>2, <1>3, <1>4

LEMMA UncountedState ==
    ASSUME NEW st \in States, st.used >= 1
    PROVE  LET new == [st EXCEPT !.used = @ - 1]
           IN  new \in States /\ new.used = st.used - 1 /\ new.status = st.status
BY DEF States

AllJobs == {Watchdog(s) : s \in Attempts} \cup {Dispatch}

LEMMA JobSets ==
    /\ \A js \in SUBSET AllJobs : /\ Beat(js) \subseteq js \ {Dispatch}
                                  /\ Processed(js, Dispatch) \subseteq AllJobs
                                  /\ Added(js, Dispatch) \subseteq AllJobs
    /\ \A js \in SUBSET AllJobs, s \in Attempts : /\ Added(js, Watchdog(s)) \subseteq AllJobs
                                                  /\ Processed(js, Watchdog(s)) \subseteq AllJobs
    /\ \A js \in SUBSET AllJobs, st \in States : Unwatched(js, st) \subseteq js
<1>1. Dispatch[1] # "watchdog"
  BY DEF Dispatch
<1>2. Dispatch \in AllJobs /\ \A s \in Attempts : Watchdog(s) \in AllJobs
  BY DEF AllJobs
<1> QED BY <1>1, <1>2 DEF Beat, Processed, Added, Unwatched

-----------------------------------------------------------------------------
(* Types *)

Classified == [session : Attempts, outcome : Outcomes,
               via : {"untracked", "initial", "continuation"}]
Messages == [session : Attempts, outcome : Outcomes]

StoreOK ==
    /\ rec \in States /\ rec.used <= MaxRetries
    /\ jobs \subseteq AllJobs /\ beaten \subseteq jobs \ {Dispatch}
\* a copy is taken of a root that runs; the retry a dispatch posts is counted
CopiesOK ==
    /\ post # None => post \in States /\ post.status = "running" /\ post.used \in 1 .. MaxRetries
    /\ touch # None => touch \in States /\ touch.status = "running" /\ touch.used <= MaxRetries
    /\ result # None => result \in Classified
RuntimeOK ==
    /\ run \in [Attempts -> {"none", "queued", "executing", "gone"}]
    /\ mapped \subseteq Attempts /\ callbacks \subseteq Messages
    /\ marker \in {"none", "answer", "empty"}
OutcomeOK ==
    /\ rows \in [Attempts -> {"none", "running", "completed", "failed"}]
    /\ delivered \in 0 .. 2 /\ told \subseteq {"failed", "apology", "queued"}
    /\ stopped \in BOOLEAN /\ owed \in BOOLEAN
RestOK == kind \in Kinds /\ clean \in BOOLEAN /\ restarts \in 0 .. MaxRestarts

TypeInv == StoreOK /\ CopiesOK /\ RuntimeOK /\ OutcomeOK /\ RestOK

DroppedOK == dropped \in BOOLEAN

LEMMA TypesFollow == TypeInv /\ DroppedOK => TypeOK
<1> SUFFICES ASSUME TypeInv, DroppedOK PROVE TypeOK
  OBVIOUS
<1>1. jobs \subseteq {Watchdog(s) : s \in Attempts} \cup {Dispatch}
  BY DEF TypeInv, StoreOK, AllJobs
<1>2. result = None \/ result \in [session : Attempts, outcome : Outcomes,
                                   via : {"untracked", "initial", "continuation"}]
  BY DEF TypeInv, CopiesOK, Classified
<1>3. callbacks \subseteq [session : Attempts, outcome : Outcomes]
  BY DEF TypeInv, RuntimeOK, Messages
<1> QED BY <1>1, <1>2, <1>3 DEF TypeInv, StoreOK, CopiesOK, RuntimeOK, OutcomeOK, RestOK, DroppedOK,
           TypeOK

LEMMA PartsKept ==
    /\ UNCHANGED store /\ StoreOK => StoreOK'
    /\ UNCHANGED copies /\ CopiesOK => CopiesOK'
    /\ UNCHANGED runtime /\ RuntimeOK => RuntimeOK'
    /\ UNCHANGED outcome /\ OutcomeOK => OutcomeOK'
    /\ UNCHANGED <<kind, clean, restarts>> /\ RestOK => RestOK'
BY DEF store, copies, runtime, outcome, StoreOK, CopiesOK, RuntimeOK, OutcomeOK, RestOK

LEMMA RootTyped == Root \in Attempts /\ 0 \in 0 .. MaxRestarts
BY RecoveryAssumption DEF Root, Attempts

LEMMA InitTypes == Init => TypeInv
<1> SUFFICES ASSUME Init PROVE TypeInv
  OBVIOUS
<1>1. rec \in States /\ rec.used = 0
  BY RootTyped DEF Init, States, Ages
<1>2. StoreOK
  <2>1. jobs \subseteq AllJobs /\ beaten \subseteq jobs \ {Dispatch}
    BY RootTyped DEF Init, AllJobs
  <2> QED BY <1>1, <2>1, RecoveryAssumption DEF StoreOK
<1>3. CopiesOK
  BY DEF Init, CopiesOK
<1>4. RuntimeOK
  BY RootTyped DEF Init, RuntimeOK
<1>5. OutcomeOK
  <2>1. rows \in [Attempts -> {"none", "running", "completed", "failed"}]
    BY RootTyped DEF Init
  <2>2. delivered \in 0 .. 2
    BY DEF Init
  <2> QED BY <2>1, <2>2 DEF Init, OutcomeOK
<1>6. RestOK
  BY RootTyped DEF Init, RestOK
<1> QED BY <1>2, <1>3, <1>4, <1>5, <1>6 DEF TypeInv

LEMMA CallsTyped ==
    ASSUME RuntimeOK, NEW s \in Attempts, NEW o \in Outcomes, Calls(s, o)
    PROVE  callbacks' \subseteq Messages
BY DEF RuntimeOK, Calls, Messages

\* The steps of the runtime.
LEMMA RuntimeTypes ==
    ASSUME TypeInv, NEW s \in Attempts, Start(s) \/ Complete(s) \/ Fail(s) \/ Die(s) \/ LoseCallback
    PROVE  TypeInv'
<1>0. UNCHANGED <<store, copies, outcome, kind, clean, restarts>>
  BY DEF Start, Complete, Fail, Die, LoseCallback, copies, store, outcome
<1>1. RuntimeOK'
  <2>0. RuntimeOK
    BY DEF TypeInv
  <2>1. CASE Start(s)
    <3>1. CASE marker = "none"
      BY <2>0, <2>1, <3>1 DEF Start, RuntimeOK
    <3>2. CASE marker # "none"
      <4>1. marker \in Outcomes /\ Calls(s, marker)
        BY <2>0, <2>1, <3>2 DEF Start, RuntimeOK, Outcomes
      <4> QED BY <2>0, <2>1, <3>2, <4>1, CallsTyped DEF Start, RuntimeOK
    <3> QED BY <3>1, <3>2
  <2>2. CASE Complete(s)
    <3>1. PICK o \in {"answer", "empty"} : Calls(s, o) /\ marker' \in {o, marker}
      BY <2>2 DEF Complete
    <3> QED BY <2>0, <2>2, <3>1, CallsTyped DEF Complete, RuntimeOK, Outcomes
  <2>3. CASE Fail(s)
    <3>1. PICK o \in {"failed", "locked", "sandbox", "fatal"} : Calls(s, o)
      BY <2>3 DEF Fail
    <3> QED BY <2>0, <2>3, <3>1, CallsTyped DEF Fail, RuntimeOK, Outcomes
  <2>4. CASE Die(s) \/ LoseCallback
    BY <2>0, <2>4 DEF Die, LoseCallback, RuntimeOK
  <2> QED BY <2>1, <2>2, <2>3, <2>4
<1> QED BY <1>0, <1>1, PartsKept DEF TypeInv

LEMMA TouchTypes ==
    ASSUME TypeInv, NEW s \in Attempts, TouchLoad(s) \/ TouchSave
    PROVE  TypeInv'
<1>1. CASE TouchLoad(s)
  <2>1. CopiesOK'
    BY <1>1 DEF TouchLoad, TypeInv, StoreOK, CopiesOK
  <2> QED BY <1>1, <2>1, PartsKept DEF TouchLoad, TypeInv
<1>2. CASE TouchSave
  <2>1. rec' = [touch EXCEPT !.age = "fresh"] /\ touch \in States /\ touch.used <= MaxRetries
    BY <1>2 DEF TouchSave, TypeInv, CopiesOK
  <2>2. rec' \in States /\ rec'.used <= MaxRetries
    BY <2>1, SameStates DEF Same
  <2>3. jobs' = jobs /\ beaten' = Beat(jobs) /\ jobs \subseteq AllJobs
    BY <1>2 DEF TouchSave, TypeInv, StoreOK
  <2>4. StoreOK'
    BY <2>2, <2>3, JobSets DEF StoreOK
  <2>5. CopiesOK' /\ RestOK'
    BY <1>2 DEF TouchSave, TypeInv, CopiesOK, RestOK
  <2> QED BY <1>2, <2>4, <2>5, PartsKept DEF TouchSave, TypeInv
<1> QED BY <1>1, <1>2

LEMMA ClassifyTypes ==
    ASSUME TypeInv, NEW c \in callbacks, Classify(c)
    PROVE  TypeInv' /\ (result' # None => result'.via = Disposition(c.session))
<1>1. c.session \in Attempts /\ c.outcome \in Outcomes
  BY DEF TypeInv, RuntimeOK, Messages
<1>2. Disposition(c.session) \in {"untracked", "stale", "continuation", "initial"}
  BY DEF Disposition
<1>3. CopiesOK' /\ (result' # None => result'.via = Disposition(c.session))
  <2>1. CASE Disposition(c.session) = "stale"
    BY <2>1 DEF Classify, TypeInv, CopiesOK
  <2>2. CASE Disposition(c.session) # "stale"
    <3> DEFINE r == [session |-> c.session, outcome |-> c.outcome, via |-> Disposition(c.session)]
    <3>1. r \in Classified /\ r.via = Disposition(c.session)
      BY <1>1, <1>2, <2>2 DEF Classified
    <3>2. result' = r /\ UNCHANGED <<post, touch>>
      BY <2>2 DEF Classify
    <3> HIDE DEF r
    <3> QED BY <3>1, <3>2 DEF TypeInv, CopiesOK
  <2> QED BY <2>1, <2>2
<1>4. OutcomeOK'
  <2>1. \/ rows' = rows
        \/ \E v \in {"completed", "failed"} : rows' = [rows EXCEPT ![c.session] = v]
    BY DEF Classify
  <2> QED BY <1>1, <2>1 DEF Classify, TypeInv, OutcomeOK
<1>5. RuntimeOK'
  BY DEF Classify, TypeInv, RuntimeOK
<1> QED BY <1>3, <1>4, <1>5, PartsKept DEF Classify, TypeInv

LEMMA ToldTyped ==
    ASSUME OutcomeOK, NEW st
    PROVE  /\ Announced(st) \subseteq {"failed", "apology", "queued"}
           /\ Surfaced \subseteq {"failed", "apology", "queued"}
           /\ \A t \in Enqueued : t \subseteq {"failed", "apology", "queued"}
           /\ told \cup {"apology"} \subseteq {"failed", "apology", "queued"}
BY DEF OutcomeOK, Announced, Surfaced, Enqueued

\* What a deferral leaves: a root that waits for its retry, or is given up.
LEMMA DeferringMoves ==
    ASSUME StoreOK, OutcomeOK, NEW st \in States, NEW deferred, NEW n, Same(st, deferred),
           Deferring(st, deferred, n)
    PROVE  /\ Same(st, rec') \/ Settled(st, rec')
           /\ jobs' \subseteq AllJobs /\ beaten' \subseteq jobs' \ {Dispatch}
           /\ told' \subseteq {"failed", "apology", "queued"}
<1>1. Settled(st, Exhausted(deferred)) /\ Unwatched(jobs, st) \subseteq AllJobs
  <2>1. deferred \in States /\ Unwatched(jobs, st) \subseteq jobs
    BY JobSets DEF Same, StoreOK
  <2> QED BY <2>1, SettledStates, Follows DEF StoreOK
<1>2. CASE n < MaxDeferrals
  <2>1. rec' = deferred /\ jobs' = Added(Unwatched(jobs, st), Dispatch) /\ beaten' = Beat(jobs') /\ told' = told
    BY <1>2 DEF Deferring
  <2>2. jobs' \subseteq AllJobs
    BY <1>1, <2>1, JobSets
  <2>3. beaten' \subseteq jobs' \ {Dispatch}
    BY <2>1, <2>2, JobSets
  <2> QED BY <2>1, <2>2, <2>3 DEF OutcomeOK
<1>3. CASE ~(n < MaxDeferrals)
  <2>1. jobs' = Unwatched(jobs, st) /\ beaten' = beaten \cap jobs' /\ told' = Announced(st)
    BY <1>3 DEF Deferring
  <2>2. rec' = Exhausted(deferred)
    BY <1>3 DEF Deferring
  <2> QED BY <1>1, <2>1, <2>2, ToldTyped DEF StoreOK
<1> QED BY <1>2, <1>3

\* What the result handler does to a root: it goes on with its retries counted
\* as they were, or is settled; an answer is posted for a root that runs and is
\* settled by it, or for a session that recovery does not track.
LEMMA SettleMoves ==
    ASSUME TypeInv, NEW s \in Attempts, Settle(s)
    PROVE  /\ Same(rec, rec') \/ Settled(rec, rec')
           /\ jobs' \subseteq AllJobs /\ beaten' \subseteq jobs' \ {Dispatch}
           /\ told' \subseteq {"failed", "apology", "queued"} /\ owed' \in BOOLEAN
           /\ delivered' \in {delivered, Answered}
           /\ delivered' # delivered =>
                \/ result.via = "untracked"
                \/ rec.status = "running" /\ rec'.status # "running"
<1>0. /\ StoreOK /\ OutcomeOK /\ rec \in States /\ Same(rec, rec)
      /\ owed \in BOOLEAN /\ told \subseteq {"failed", "apology", "queued"}
      /\ jobs \subseteq AllJobs /\ beaten \subseteq jobs \ {Dispatch}
  BY DEF TypeInv, StoreOK, OutcomeOK, Same
<1>1. CASE SettleUntracked(s)
  <2>1. told' \subseteq {"failed", "apology", "queued"}
    <3>1. told' \in {told, told \cup {"apology"}, Surfaced} \cup Enqueued
      BY <1>1 DEF SettleUntracked
    <3> QED BY <1>0, <3>1, ToldTyped
  <2> QED BY <1>0, <1>1, <2>1 DEF SettleUntracked, store, SettledBy
<1>2. CASE SettleStale(s)
  BY <1>0, <1>2 DEF SettleStale, store
<1>3. CASE SettleCompleted(s)
  <2>1. Settled(rec, Now(Completed(rec)))
    <3>1. Settled(rec, Completed(rec)) /\ Same(Completed(rec), Now(Completed(rec)))
      BY <1>0, SettledStates, SameStates DEF Settled
    <3> QED BY <3>1, Follows
  <2>2. /\ rec' = Now(Completed(rec)) /\ jobs' = Unwatched(jobs, rec) /\ beaten' = Beat(jobs')
        /\ delivered' = Answered /\ owed' = owed /\ told' \in {told, told \cup {"apology"}}
        /\ rec.status = "running"
    BY <1>3 DEF SettleCompleted, Settling, Stale
  <2>3. jobs' \subseteq AllJobs /\ beaten' \subseteq jobs' \ {Dispatch}
    BY <1>0, <2>2, JobSets
  <2> QED BY <1>0, <2>1, <2>2, <2>3, ToldTyped DEF Settled
<1>4. CASE SettleFailed(s)
  <2>1. CASE rec.used >= MaxRetries
    <3>1. Settled(rec, Now(Exhausted(rec)))
      <4>1. Settled(rec, Exhausted(rec)) /\ Same(Exhausted(rec), Now(Exhausted(rec)))
        BY <1>0, SettledStates, SameStates DEF Settled
      <4> QED BY <4>1, Follows
    <3>2. /\ rec' = Now(Exhausted(rec)) /\ jobs' = Unwatched(jobs, rec) /\ beaten' = Beat(jobs')
          /\ told' \in {Surfaced, Announced(rec)} /\ delivered' = delivered
      BY <1>4, <2>1 DEF SettleFailed
    <3>3. owed' \in BOOLEAN
      BY <1>0, <1>4 DEF SettleFailed
    <3>4. jobs' \subseteq AllJobs /\ beaten' \subseteq jobs' \ {Dispatch}
      BY <1>0, <3>2, JobSets
    <3> QED BY <1>0, <3>1, <3>2, <3>3, <3>4, ToldTyped
  <2>2. CASE ~(rec.used >= MaxRetries)
    <3>1. Same(rec, [Now(rec) EXCEPT !.scheduled = TRUE])
      <4>1. Same(rec, Now(rec)) /\ Same(Now(rec), [Now(rec) EXCEPT !.scheduled = TRUE])
        BY <1>0, SameStates DEF Same
      <4> QED BY <4>1, Follows
    <3>2. /\ rec' = [Now(rec) EXCEPT !.scheduled = TRUE]
          /\ jobs' \in {jobs, Added(jobs, Dispatch)} /\ beaten' = Beat(jobs')
          /\ told' = told /\ delivered' = delivered
      BY <1>4, <2>2 DEF SettleFailed
    <3>3. owed' \in BOOLEAN
      BY <1>0, <1>4 DEF SettleFailed
    <3>4. jobs' \subseteq AllJobs /\ beaten' \subseteq jobs' \ {Dispatch}
      BY <1>0, <3>2, JobSets
    <3> QED BY <1>0, <3>1, <3>2, <3>3, <3>4
  <2> QED BY <2>1, <2>2
<1>5. CASE SettleFatal(s)
  <2>1. Settled(rec, Exhausted(rec)) /\ Unwatched(jobs, rec) \subseteq jobs
    BY <1>0, SettledStates, JobSets
  <2>2. /\ rec' = Exhausted(rec) /\ jobs' \subseteq Unwatched(jobs, rec)
        /\ beaten' = beaten \cap jobs' /\ told' = Announced(rec)
        /\ UNCHANGED <<delivered, owed>>
    BY <1>5 DEF SettleFatal
  <2> QED BY <1>0, <2>1, <2>2, ToldTyped
<1>6. CASE SettleSandbox(s)
  <2>1. Same(rec, BoxDeferral(rec)) /\ Deferring(rec, BoxDeferral(rec), rec.boxes)
        /\ UNCHANGED <<delivered, owed>>
    BY <1>0, <1>6, SameStates DEF SettleSandbox
  <2> QED BY <1>0, <2>1, DeferringMoves
<1>7. CASE SettleLocked(s)
  <2>0. UNCHANGED <<delivered, owed>>
    BY <1>7 DEF SettleLocked
  <2>1. CASE Deferring(rec, LockDeferral(rec), rec.locks)
    <3>1. Same(rec, LockDeferral(rec))
      BY <1>0, SameStates
    <3> QED BY <1>0, <2>0, <2>1, <3>1, DeferringMoves
  <2>2. CASE /\ rec' = Now(Completed(rec))
             /\ jobs' = Unwatched(jobs, rec) /\ beaten' = Beat(jobs')
             /\ told' \in Enqueued
    <3>1. Settled(rec, Now(Completed(rec)))
      <4>1. Settled(rec, Completed(rec)) /\ Same(Completed(rec), Now(Completed(rec)))
        BY <1>0, SettledStates, SameStates DEF Settled
      <4> QED BY <4>1, Follows
    <3>2. jobs' \subseteq AllJobs /\ beaten' \subseteq jobs' \ {Dispatch}
      BY <1>0, <2>2, JobSets
    <3> QED BY <1>0, <2>0, <2>2, <3>1, <3>2, ToldTyped
  <2> QED BY <1>7, <2>1, <2>2 DEF SettleLocked
<1> QED BY <1>1, <1>2, <1>3, <1>4, <1>5, <1>6, <1>7 DEF Settle

LEMMA SettleTypes ==
    ASSUME TypeInv, NEW s \in Attempts, Settle(s)
    PROVE  TypeInv'
<1>1. StoreOK'
  BY SettleMoves DEF TypeInv, StoreOK, Same, Settled
<1>2. result' = None /\ UNCHANGED <<kind, post, touch, runtime, rows, stopped, clean, restarts>>
  BY DEF Settle, SettleUntracked, SettleStale, SettleCompleted, SettleFailed, SettleFatal,
         SettleSandbox, SettleLocked, Empty, Settling, SettledBy
<1>3. CopiesOK'
  BY <1>2 DEF TypeInv, CopiesOK
<1>4. OutcomeOK'
  <2>1. delivered' \in 0 .. 2
    BY SettleMoves DEF Answered, TypeInv, OutcomeOK
  <2> QED BY <1>2, <2>1, SettleMoves DEF TypeInv, OutcomeOK
<1> QED BY <1>1, <1>2, <1>3, <1>4, PartsKept DEF TypeInv

\* The watchdog of an attempt keeps the count of retries, and so does /stop.
LEMMA WatchdogMoves ==
    ASSUME TypeInv, NEW s \in Attempts, WatchdogFires(s)
    PROVE  TypeInv' /\ (Same(rec, rec') \/ Settled(rec, rec'))
<1>0. /\ StoreOK /\ OutcomeOK /\ rec \in States
      /\ jobs \subseteq AllJobs /\ beaten \subseteq jobs \ {Dispatch}
  BY DEF TypeInv, StoreOK
<1>1. /\ \/ UNCHANGED <<rec, told>>
         \/ rec' = Exhausted(rec) /\ told' = Announced(rec)
         \/ rec' = [rec EXCEPT !.scheduled = TRUE] /\ told' = told
      /\ jobs' \in {Processed(jobs, Watchdog(s)),
                    Processed(Added(jobs, Watchdog(s)), Watchdog(s)),
                    Processed(Added(jobs, Dispatch), Watchdog(s))}
      /\ beaten' = beaten \cap jobs'
      /\ UNCHANGED <<kind, copies, runtime, rows, delivered, stopped, owed, clean, restarts>>
  BY DEF WatchdogFires
<1>2. Same(rec, rec') \/ Settled(rec, rec')
  BY <1>0, <1>1, SameStates, SettledStates DEF Same
<1>3. jobs' \subseteq AllJobs /\ beaten' \subseteq jobs' \ {Dispatch}
  <2>1. Added(jobs, Watchdog(s)) \subseteq AllJobs /\ Added(jobs, Dispatch) \subseteq AllJobs
    BY <1>0, JobSets
  <2> QED BY <1>0, <1>1, <2>1, JobSets
<1>4. StoreOK'
  BY <1>0, <1>2, <1>3 DEF StoreOK, Same, Settled
<1>5. OutcomeOK'
  BY <1>0, <1>1, ToldTyped DEF OutcomeOK
<1> QED BY <1>1, <1>2, <1>4, <1>5, PartsKept DEF TypeInv

\* A dispatch settles the root, or counts a retry and posts it.
LEMMA DispatchMoves ==
    ASSUME TypeInv, DispatchFires
    PROVE  /\ TypeInv' /\ post = None
           /\ \/ /\ Same(rec, rec') \/ Settled(rec, rec')
                 /\ post' = None
              \/ rec'.used = rec.used + 1 /\ rec'.status = rec.status
<1>0. /\ StoreOK /\ OutcomeOK /\ rec \in States /\ rec.used <= MaxRetries /\ rec.used \in Nat
      /\ jobs \subseteq AllJobs /\ beaten \subseteq jobs \ {Dispatch}
  BY DEF TypeInv, StoreOK, States
<1>1. /\ beaten' = beaten \cap jobs' /\ post = None
      /\ UNCHANGED <<kind, touch, result, runtime, rows, delivered, stopped, owed, clean, restarts>>
  BY DEF DispatchFires
<1>2. CASE /\ rec' \in {rec, Completed(rec), Exhausted(rec)} /\ post' = post
           /\ jobs' \in {Processed(jobs, Dispatch), Processed(Unwatched(jobs, rec), Dispatch)}
           /\ told' \in {told, Announced(rec)}
  <2>1. Same(rec, rec') \/ Settled(rec, rec')
    BY <1>0, <1>2, SettledStates DEF Same
  <2>2. jobs' \subseteq AllJobs /\ beaten' \subseteq jobs' \ {Dispatch}
    <3>1. Unwatched(jobs, rec) \subseteq AllJobs
      BY <1>0, JobSets
    <3> QED BY <1>0, <1>1, <1>2, <3>1, JobSets
  <2>3. StoreOK'
    BY <1>0, <2>1, <2>2 DEF StoreOK, Same, Settled
  <2>4. OutcomeOK'
    BY <1>0, <1>1, <1>2, ToldTyped DEF OutcomeOK
  <2>5. CopiesOK'
    BY <1>1, <1>2 DEF TypeInv, CopiesOK
  <2> QED BY <1>1, <1>2, <2>1, <2>3, <2>4, <2>5, PartsKept DEF TypeInv
<1>3. CASE /\ rec.status = "running" /\ rec.used < MaxRetries
           /\ rec' = [rec EXCEPT !.scheduled = FALSE, !.used = @ + 1]
           /\ post' = rec' /\ UNCHANGED <<jobs, told>>
  <2>1. rec' \in States /\ rec'.used = rec.used + 1 /\ rec'.status = rec.status
    BY <1>0, <1>3, CountedState
  <2>2. rec'.used \in 1 .. MaxRetries
    BY <1>0, <1>3, <2>1, RecoveryAssumption
  <2>3. StoreOK'
    BY <1>0, <1>1, <1>3, <2>1, <2>2, RecoveryAssumption DEF StoreOK
  <2>4. CopiesOK'
    BY <1>1, <1>3, <2>1, <2>2 DEF TypeInv, CopiesOK
  <2>5. OutcomeOK'
    BY <1>0, <1>1, <1>3 DEF OutcomeOK
  <2> QED BY <1>1, <2>1, <2>3, <2>4, <2>5, PartsKept DEF TypeInv
<1>4. \/ rec.status # "running" /\ rec' = rec /\ post' = post /\ told' = told
         /\ jobs' = Processed(jobs, Dispatch)
      \/ rec' = Completed(rec) /\ post' = post /\ told' = told
         /\ jobs' = Processed(Unwatched(jobs, rec), Dispatch)
      \/ rec' = Exhausted(rec) /\ post' = post /\ told' = Announced(rec)
         /\ jobs' = Processed(Unwatched(jobs, rec), Dispatch)
      \/ /\ rec.status = "running" /\ rec.used < MaxRetries
         /\ rec' = [rec EXCEPT !.scheduled = FALSE, !.used = @ + 1]
         /\ post' = rec' /\ UNCHANGED <<jobs, told>>
  BY DEF DispatchFires
<1> QED BY <1>2, <1>3, <1>4

\* The answer to a retry's POST, applied to the copy: it goes on, is settled,
\* or, refused for the session's lock, its retry is given back.
LEMMA PostedFacts ==
    ASSUME TypeInv, PostAccepted \/ PostLocked \/ PostFails
    PROVE  /\ post \in States /\ post.status = "running" /\ post.used \in 1 .. MaxRetries
           /\ post # None /\ post' = None /\ (clean' => clean /\ rec = post)
           /\ UNCHANGED <<kind, touch, result, callbacks, marker, delivered, stopped, owed, restarts>>
           /\ StoreOK /\ RuntimeOK /\ OutcomeOK /\ RestOK /\ CopiesOK'
<1>1. /\ post # None /\ post' = None /\ (clean' => clean /\ rec = post)
      /\ UNCHANGED <<kind, touch, result, callbacks, marker, delivered, stopped, owed, restarts>>
  BY DEF PostAccepted, PostLocked, PostFails, Posted
<1>2. CopiesOK'
  BY <1>1 DEF TypeInv, CopiesOK
<1> QED BY <1>1, <1>2 DEF TypeInv, CopiesOK

LEMMA LaunchedTyped ==
    ASSUME RuntimeOK, OutcomeOK, NEW s \in Attempts, Launched(s)
    PROVE  /\ run' \in [Attempts -> {"none", "queued", "executing", "gone"}]
           /\ rows' \in [Attempts -> {"none", "running", "completed", "failed"}]
BY DEF Launched, RuntimeOK, OutcomeOK

LEMMA AcceptedMoves ==
    ASSUME TypeInv, PostAccepted
    PROVE  /\ TypeInv' /\ Same(post, rec')
           /\ \E s \in Unused : Launched(s) /\ mapped' = mapped \cup {s}
<1>0. /\ post \in States /\ post.used \in 1 .. MaxRetries
      /\ (clean' => clean /\ rec = post)
      /\ UNCHANGED <<kind, touch, result, callbacks, marker, delivered, stopped, owed, restarts>>
      /\ StoreOK /\ RuntimeOK /\ OutcomeOK /\ RestOK /\ CopiesOK'
  BY PostedFacts
<1>1. PICK s \in Unused :
        /\ Launched(s) /\ mapped' = mapped \cup {s}
        /\ rec' = [post EXCEPT !.active = s, !.age = "fresh", !.scheduled = FALSE,
                               !.history = @ \cup {s}]
        /\ jobs' = Processed(Added(jobs, Watchdog(s)), Dispatch)
        /\ beaten' = Beat(jobs) \ {Watchdog(s)}
  BY DEF PostAccepted
<1>2. s \in Attempts /\ Same(post, rec')
  BY <1>0, <1>1, AcceptedState DEF Unused
<1>3. StoreOK'
  <2>1. jobs \subseteq AllJobs /\ rec' \in States /\ rec'.used <= MaxRetries
    BY <1>0, <1>2 DEF StoreOK, Same
  <2>2. Added(jobs, Watchdog(s)) \subseteq AllJobs /\ Beat(jobs) \subseteq jobs \ {Dispatch}
    BY <1>2, <2>1, JobSets
  <2>3. jobs' \subseteq AllJobs
    BY <1>1, <2>2, JobSets
  <2>4. beaten' \subseteq jobs' \ {Dispatch}
    BY <1>1, <2>2 DEF Processed, Added
  <2> QED BY <2>1, <2>3, <2>4 DEF StoreOK
<1>4. RuntimeOK' /\ OutcomeOK'
  BY <1>0, <1>1, <1>2, LaunchedTyped DEF PostAccepted, RuntimeOK, OutcomeOK
<1>5. RestOK'
  BY <1>0 DEF PostAccepted, RestOK
<1> QED BY <1>0, <1>1, <1>2, <1>3, <1>4, <1>5 DEF TypeInv

LEMMA LockedMoves ==
    ASSUME TypeInv, PostLocked
    PROVE  /\ TypeInv' /\ rec'.used = post.used - 1
           /\ rec'.status = post.status \/ rec'.status # "running"
           /\ UNCHANGED <<run, mapped>>
<1>0. /\ post \in States /\ post.used \in 1 .. MaxRetries
      /\ (clean' => clean /\ rec = post)
      /\ UNCHANGED <<kind, touch, result, callbacks, marker, delivered, stopped, owed, restarts>>
      /\ StoreOK /\ RuntimeOK /\ OutcomeOK /\ RestOK /\ CopiesOK'
      /\ jobs \subseteq AllJobs /\ beaten \subseteq jobs \ {Dispatch}
  BY PostedFacts DEF StoreOK
<1> DEFINE st == [post EXCEPT !.used = @ - 1]
<1>1. st \in States /\ st.used = post.used - 1 /\ st.status = post.status
  BY <1>0, UncountedState
<1>2. /\ UNCHANGED <<run, rows, mapped>>
      /\ \/ /\ rec' = LockDeferral(st) /\ jobs' = Processed(Added(jobs, Dispatch), Dispatch)
            /\ beaten' = Beat(jobs') /\ told' = told
         \/ /\ rec' = Exhausted(LockDeferral(st)) /\ told' = Announced(st)
            /\ jobs' = Processed(Unwatched(jobs, st), Dispatch) /\ beaten' = beaten \cap jobs'
         \/ /\ rec' = Now(Completed(st)) /\ told' \in Enqueued
            /\ jobs' = Processed(Unwatched(jobs, st), Dispatch) /\ beaten' = Beat(jobs')
  BY DEF PostLocked
<1> HIDE DEF st
<1>3. /\ Same(st, LockDeferral(st)) /\ Settled(st, Exhausted(LockDeferral(st)))
      /\ Settled(st, Now(Completed(st)))
  <2>1. Same(st, LockDeferral(st)) /\ Settled(st, Completed(st))
    BY <1>1, SameStates, SettledStates
  <2>2. Settled(LockDeferral(st), Exhausted(LockDeferral(st)))
    BY <2>1, SettledStates DEF Same
  <2>3. Same(Completed(st), Now(Completed(st)))
    BY <2>1, SameStates DEF Settled
  <2> QED BY <2>1, <2>2, <2>3, Follows
<1>4. rec' \in States /\ rec'.used = st.used /\ (rec'.status = st.status \/ rec'.status # "running")
  BY <1>2, <1>3 DEF Same, Settled
<1>5. jobs' \subseteq AllJobs /\ beaten' \subseteq jobs' \ {Dispatch}
  <2>1. Added(jobs, Dispatch) \subseteq AllJobs /\ Unwatched(jobs, st) \subseteq AllJobs
    BY <1>0, <1>1, JobSets
  <2>2. jobs' \subseteq AllJobs
    BY <1>2, <2>1, JobSets
  <2> QED BY <1>0, <1>2, <2>2, JobSets
<1>6. StoreOK'
  <2>1. rec'.used <= MaxRetries
    BY <1>0, <1>1, <1>4, RecoveryAssumption
  <2> QED BY <1>4, <1>5, <2>1 DEF StoreOK
<1>7. OutcomeOK'
  <2>1. told' \subseteq {"failed", "apology", "queued"}
    BY <1>0, <1>2, ToldTyped DEF OutcomeOK
  <2> QED BY <1>0, <1>2, <2>1 DEF OutcomeOK
<1>8. RuntimeOK'
  BY <1>0, <1>2 DEF RuntimeOK
<1>9. RestOK'
  BY <1>0 DEF PostLocked, RestOK
<1> QED BY <1>0, <1>1, <1>2, <1>4, <1>6, <1>7, <1>8, <1>9 DEF TypeInv

LEMMA FailsMoves ==
    ASSUME TypeInv, PostFails
    PROVE  /\ TypeInv' /\ (Same(post, rec') \/ Settled(post, rec'))
           /\ mapped' = mapped
           /\ run' = run \/ (clean' = FALSE /\ \E s \in Unused : Launched(s))
<1>0. /\ post \in States /\ post.used \in 1 .. MaxRetries
      /\ (clean' => clean /\ rec = post)
      /\ UNCHANGED <<kind, touch, result, callbacks, marker, delivered, stopped, owed, restarts>>
      /\ StoreOK /\ RuntimeOK /\ OutcomeOK /\ RestOK /\ CopiesOK'
      /\ jobs \subseteq AllJobs /\ beaten \subseteq jobs \ {Dispatch}
  BY PostedFacts DEF StoreOK
<1>1. /\ \/ /\ rec' = Exhausted(post) /\ told' = Announced(post)
            /\ jobs' = Processed(Unwatched(jobs, post), Dispatch)
         \/ /\ rec' = [post EXCEPT !.scheduled = TRUE] /\ told' = told
            /\ jobs' = Processed(Added(jobs, Dispatch), Dispatch)
      /\ beaten' = beaten \cap jobs' /\ mapped' = mapped
      /\ \/ UNCHANGED <<run, rows>> /\ clean' = (clean /\ rec = post)
         \/ clean' = FALSE /\ \E s \in Unused : Launched(s)
  BY DEF PostFails
<1>2. Same(post, rec') \/ Settled(post, rec')
  BY <1>0, <1>1, SameStates, SettledStates
<1>3. jobs' \subseteq AllJobs /\ beaten' \subseteq jobs' \ {Dispatch}
  <2>1. Added(jobs, Dispatch) \subseteq AllJobs /\ Unwatched(jobs, post) \subseteq AllJobs
    BY <1>0, JobSets
  <2>2. jobs' \subseteq AllJobs
    BY <1>1, <2>1, JobSets
  <2> QED BY <1>0, <1>1, <2>2
<1>4. StoreOK'
  BY <1>0, <1>2, <1>3 DEF StoreOK, Same, Settled
<1>5. /\ run' \in [Attempts -> {"none", "queued", "executing", "gone"}]
      /\ rows' \in [Attempts -> {"none", "running", "completed", "failed"}]
  BY <1>0, <1>1, LaunchedTyped DEF Unused, RuntimeOK, OutcomeOK
<1>6. OutcomeOK'
  <2>1. told' \subseteq {"failed", "apology", "queued"}
    BY <1>0, <1>1, ToldTyped DEF OutcomeOK
  <2> QED BY <1>0, <1>5, <2>1 DEF OutcomeOK
<1>7. RuntimeOK'
  BY <1>0, <1>1, <1>5 DEF RuntimeOK
<1>8. RestOK'
  BY <1>0, <1>1 DEF RestOK
<1> QED BY <1>0, <1>1, <1>2, <1>4, <1>6, <1>7, <1>8 DEF TypeInv

\* /stop, a restart and the passing of time.
LEMMA StopMoves ==
    ASSUME TypeInv, Stop
    PROVE  /\ TypeInv' /\ Settled(rec, rec')
           /\ \A s \in Attempts : run'[s] = "none" <=> run[s] = "none"
           /\ UNCHANGED <<copies, mapped, callbacks, delivered, clean>>
<1>0. /\ StoreOK /\ RuntimeOK /\ OutcomeOK /\ rec \in States
      /\ jobs \subseteq AllJobs /\ beaten \subseteq jobs \ {Dispatch}
  BY DEF TypeInv, StoreOK
<1>1. /\ rec' = Exhausted(rec) /\ jobs' \subseteq jobs /\ beaten' = beaten \cap jobs'
      /\ stopped' = TRUE
      /\ UNCHANGED <<kind, copies, mapped, callbacks, marker, rows, delivered, told, owed,
                     clean, restarts>>
  BY DEF Stop
<1>2. PICK reached \in SUBSET {s \in Attempts : run[s] \in {"queued", "executing"}} :
        run' = [s \in Attempts |-> IF s \in reached THEN "gone" ELSE run[s]]
  BY DEF Stop
<1>3. Settled(rec, rec')
  BY <1>0, <1>1, SettledStates
<1>4. StoreOK'
  BY <1>0, <1>1, <1>3 DEF StoreOK, Settled
<1>5. RuntimeOK' /\ \A s \in Attempts : run'[s] = "none" <=> run[s] = "none"
  BY <1>0, <1>1, <1>2 DEF RuntimeOK
<1>6. OutcomeOK'
  BY <1>0, <1>1 DEF OutcomeOK
<1> QED BY <1>1, <1>3, <1>4, <1>5, <1>6, PartsKept DEF TypeInv

LEMMA RestartMoves ==
    ASSUME TypeInv, Restart
    PROVE  /\ TypeInv' /\ (Same(rec, rec') \/ Settled(rec, rec')) /\ post' = None
           /\ result' = None /\ (clean' => clean)
           /\ run' = run \/ (clean' = FALSE /\ \E s \in Unused : Launched(s))
           /\ UNCHANGED <<mapped, callbacks, delivered, stopped>>
<1>0. /\ StoreOK /\ RuntimeOK /\ OutcomeOK /\ RestOK /\ rec \in States /\ Same(rec, rec)
      /\ jobs \subseteq AllJobs /\ beaten \subseteq jobs \ {Dispatch}
  BY DEF TypeInv, StoreOK, Same
<1>1. /\ restarts < MaxRestarts /\ restarts' = restarts + 1
      /\ post' = None /\ touch' = None /\ result' = None
      /\ \/ UNCHANGED <<run, rows, clean>>
         \/ clean' = FALSE /\ \E s \in Unused : Launched(s)
      /\ UNCHANGED <<kind, mapped, callbacks, marker, delivered, told, stopped, owed>>
  BY DEF Restart
<1>2. PICK lost \in SUBSET jobs : Rearmed(jobs \ lost) /\ beaten' = (beaten \ lost) \cap jobs'
  BY DEF Restart
<1>3. /\ rec' \in {rec, Completed(rec), Exhausted(rec)}
      /\ \/ jobs' \in {jobs \ lost, Unwatched(jobs \ lost, rec), Added(jobs \ lost, Watchdog(rec.active))}
  BY <1>2 DEF Rearmed
<1>4. Same(rec, rec') \/ Settled(rec, rec')
  BY <1>0, <1>3, SettledStates
<1>5. jobs' \subseteq AllJobs /\ beaten' \subseteq jobs' \ {Dispatch}
  <2>1. jobs \ lost \subseteq AllJobs /\ rec.active \in Attempts
    BY <1>0 DEF States
  <2>2. /\ Unwatched(jobs \ lost, rec) \subseteq AllJobs
        /\ Added(jobs \ lost, Watchdog(rec.active)) \subseteq AllJobs
    BY <1>0, <2>1, JobSets
  <2> QED BY <1>0, <1>2, <1>3, <2>1, <2>2
<1>6. StoreOK'
  BY <1>0, <1>4, <1>5 DEF StoreOK, Same, Settled
<1>7. CopiesOK'
  BY <1>1 DEF CopiesOK
<1>8. /\ run' \in [Attempts -> {"none", "queued", "executing", "gone"}]
      /\ rows' \in [Attempts -> {"none", "running", "completed", "failed"}]
  BY <1>0, <1>1, LaunchedTyped DEF Unused, RuntimeOK, OutcomeOK
<1>9. RuntimeOK' /\ OutcomeOK'
  BY <1>0, <1>1, <1>8 DEF RuntimeOK, OutcomeOK
<1>10. RestOK'
  <2>1. restarts' \in 0 .. MaxRestarts
    <3>1. restarts \in Nat /\ MaxRestarts \in Nat
      BY <1>0, RecoveryAssumption DEF RestOK
    <3> QED BY <1>1, <3>1
  <2> QED BY <1>0, <1>1, <2>1 DEF RestOK
<1> QED BY <1>1, <1>4, <1>6, <1>7, <1>9, <1>10 DEF TypeInv

LEMMA ElapseMoves ==
    ASSUME TypeInv, Elapse
    PROVE  /\ TypeInv' /\ Same(rec, rec') /\ rec.status = "running"
           /\ post = None => post' = None
<1>1. /\ rec' = Older(rec) /\ rec.status = "running"
      /\ post' = (IF post = None THEN None ELSE Older(post))
      /\ touch' = (IF touch = None THEN None ELSE Older(touch))
      /\ UNCHANGED <<kind, jobs, beaten, result, runtime, outcome, clean, restarts>>
  BY DEF Elapse
<1>2. Same(rec, rec')
  BY <1>1, SameStates DEF TypeInv, StoreOK
<1>3. StoreOK'
  BY <1>1, <1>2 DEF TypeInv, StoreOK, Same
<1>4. CopiesOK'
  <2>1. post' # None => post' \in States /\ post'.status = "running" /\ post'.used \in 1 .. MaxRetries
    <3>1. CASE post = None
      BY <1>1, <3>1
    <3>2. CASE post # None
      <4>1. Same(post, Older(post)) /\ post.status = "running" /\ post.used \in 1 .. MaxRetries
        BY <3>2, SameStates DEF TypeInv, CopiesOK
      <4> QED BY <1>1, <3>2, <4>1 DEF Same
    <3> QED BY <3>1, <3>2
  <2>2. touch' # None => touch' \in States /\ touch'.status = "running" /\ touch'.used <= MaxRetries
    <3>1. CASE touch = None
      BY <1>1, <3>1
    <3>2. CASE touch # None
      <4>1. Same(touch, Older(touch)) /\ touch.status = "running" /\ touch.used <= MaxRetries
        BY <3>2, SameStates DEF TypeInv, CopiesOK
      <4> QED BY <1>1, <3>2, <4>1 DEF Same
    <3> QED BY <3>1, <3>2
  <2> QED BY <1>1, <2>1, <2>2 DEF TypeInv, CopiesOK
<1> QED BY <1>1, <1>2, <1>3, <1>4, PartsKept DEF TypeInv

LEMMA NextTypes == ASSUME TypeInv, [Next]_vars PROVE TypeInv'
<1>1. CASE UNCHANGED vars
  BY <1>1, PartsKept DEF vars, TypeInv
<1>2. CASE LoseCallback \/ TouchSave
  BY <1>2, RootTyped, RuntimeTypes, TouchTypes
<1> QED BY <1>1, <1>2, RuntimeTypes, TouchTypes, ClassifyTypes, SettleTypes, WatchdogMoves,
           DispatchMoves, AcceptedMoves, LockedMoves, FailsMoves, StopMoves, RestartMoves,
           ElapseMoves DEF Next, PostAnswered

\* What is kept of a job that was not taken is a truth value.
LEMMA NextDropped == ASSUME DroppedOK, [Next]_vars PROVE DroppedOK'
<1> SUFFICES dropped' \in BOOLEAN
  BY DEF DroppedOK
<1>0. dropped \in BOOLEAN
  BY DEF DroppedOK
<1>1. CASE UNCHANGED vars
  BY <1>0, <1>1 DEF vars, store
<1>2. ASSUME NEW s \in Attempts, Start(s) \/ Complete(s) \/ Fail(s) \/ Die(s) \/ TouchLoad(s)
      PROVE  dropped' = dropped
  BY <1>2 DEF Start, Complete, Fail, Die, TouchLoad, store
<1>3. ASSUME NEW s \in Attempts, Settle(s) PROVE dropped' \in BOOLEAN
  <2>1. CASE SettleUntracked(s) \/ SettleStale(s)
    BY <1>0, <2>1 DEF SettleUntracked, SettleStale, store
  <2>2. CASE SettleCompleted(s) \/ SettleFatal(s)
    BY <1>0, <2>2 DEF SettleCompleted, SettleFatal
  <2>3. CASE SettleFailed(s)
    <3>1. dropped' = dropped \/ dropped' = (dropped /\ rec.scheduled)
      BY <2>3 DEF SettleFailed
    <3> QED BY <1>0, <3>1
  <2>4. CASE SettleSandbox(s) \/ SettleLocked(s)
    BY <1>0, <2>4 DEF SettleSandbox, SettleLocked, Deferring
  <2> QED BY <1>3, <2>1, <2>2, <2>3, <2>4 DEF Settle
<1>4. ASSUME NEW s \in Attempts, WatchdogFires(s) PROVE dropped' \in BOOLEAN
  <2>1. dropped' = dropped \/ dropped' = FALSE \/ dropped' = (Dispatch \notin jobs)
    BY <1>4 DEF WatchdogFires
  <2> QED BY <1>0, <2>1
<1>5. ASSUME NEW c \in callbacks, Classify(c) PROVE dropped' = dropped
  BY <1>5 DEF Classify, store
<1>6. CASE TouchSave \/ LoseCallback \/ DispatchFires \/ Stop \/ Elapse
  BY <1>0, <1>6 DEF TouchSave, LoseCallback, DispatchFires, Stop, Elapse, store
<1>7. CASE PostAccepted \/ PostLocked \/ PostFails
  BY <1>0, <1>7 DEF PostAccepted, PostLocked, PostFails
<1>8. CASE Restart
  <2>1. dropped' = (rec.scheduled /\ Dispatch \notin jobs')
    BY <1>8 DEF Restart
  <2> QED BY <2>1
<1> QED BY <1>0, <1>1, <1>2, <1>3, <1>4, <1>5, <1>6, <1>7, <1>8 DEF Next, PostAnswered

\* The state of a root, the copies handlers hold of it, the jobs, the runtime
\* and the callbacks keep their types; no deferral gives back a retry that was
\* not counted, and no job but a watchdog or the dispatch is ever pending.
THEOREM TypesKept == Spec => []TypeOK
<1>1. Spec => []TypeInv
  BY InitTypes, NextTypes, PTL DEF Spec
<1>2. Spec => []DroppedOK
  <2>1. Init => DroppedOK
    BY DEF Init, DroppedOK
  <2> QED BY <2>1, NextDropped, PTL DEF Spec
<1> QED BY <1>1, <1>2, TypesFollow, PTL

-----------------------------------------------------------------------------
(* Attempts and answers *)

\* The attempts the runtime has been given.
Given == {s \in Attempts : run[s] # "none"}
Posting == IF post = None THEN 0 ELSE 1
Open == IF rec.status = "running" THEN 1 ELSE 0

\* Callbacks come from attempts that were given.
Sessions == \A c \in callbacks : c.session \in Given
\* Until a save overwrites another: every attempt is known to recovery, an
\* attempt given or about to be is the first or counted as a retry, and a root
\* that answered, or was stopped, is settled.
KnownAll == Given \subseteq mapped /\ (result # None => result.via # "untracked")
Counted == Cardinality(Given) + Posting <= 1 + rec.used
Once == delivered + Open <= 1 /\ (stopped => rec.status # "running")
RecInv == TypeInv /\ Sessions /\ (clean => KnownAll /\ Counted /\ Once)

LEMMA GivenFinite == \A S \in SUBSET Attempts : IsFiniteSet(S) /\ Cardinality(S) \in Nat
<1>1. IsFiniteSet(Attempts)
  BY FS_Interval, RecoveryAssumption DEF Attempts
<1> QED BY <1>1, FS_Subset, FS_CardinalityType

LEMMA InitRec == Init => RecInv
<1> SUFFICES ASSUME Init PROVE RecInv
  OBVIOUS
<1>1. Given = {Root}
  BY RootTyped DEF Init, Given
<1>2. Cardinality({Root}) = 1
  BY FS_Singleton
<1>3. Counted
  BY <1>1, <1>2 DEF Init, Counted, Posting
<1>4. KnownAll /\ Sessions
  BY <1>1 DEF Init, KnownAll, Sessions
<1>5. Once
  BY DEF Init, Once, Open
<1> QED BY <1>3, <1>4, <1>5, InitTypes DEF RecInv

\* The retries in hand are counted already: a step that gives the runtime
\* nothing, posts nothing and keeps the count of retries keeps the sum.
LEMMA CountKept ==
    ASSUME TypeInv, TypeInv', Counted, Given' = Given, rec'.used = rec.used, Posting' <= Posting
    PROVE  Counted'
<1>1. Cardinality(Given) \in Nat
  BY GivenFinite DEF Given
<1>2. rec.used \in Nat /\ Posting \in Int /\ Posting' \in Int
  BY DEF TypeInv, StoreOK, States, Posting
<1> QED BY <1>1, <1>2 DEF Counted

\* A step of a handler that, unless it overwrites a save, keeps the count of
\* retries, gives the runtime nothing and posts no answer.
LEMMA HandlerKeeps ==
    ASSUME RecInv, TypeInv', clean' => clean,
           Given \subseteq Given', \A c \in callbacks' : c \in callbacks \/ c.session \in Given,
           mapped' = mapped, post = None => post' = None, delivered' = delivered,
           clean' => /\ Same(rec, rec') \/ Settled(rec, rec')
                     /\ Given' = Given
                     /\ result' = None \/ result' = result \/ result'.via # "untracked"
                     /\ stopped' => stopped \/ rec'.status # "running"
    PROVE  RecInv'
<1>1. Sessions'
  BY DEF RecInv, Sessions
<1>2. ASSUME clean' PROVE KnownAll' /\ Counted' /\ Once'
  <2>1. KnownAll /\ Counted /\ Once /\ (Same(rec, rec') \/ Settled(rec, rec')) /\ Given' = Given
    BY <1>2 DEF RecInv
  <2>2. KnownAll'
    BY <1>2, <2>1 DEF KnownAll
  <2>3. Posting' <= Posting /\ rec'.used = rec.used
    BY <2>1 DEF Posting, Same, Settled
  <2>4. Counted'
    BY <2>1, <2>3, CountKept DEF RecInv
  <2>5. delivered' + Open' <= 1
    <3>1. Open' <= Open /\ Open \in {0, 1} /\ Open' \in {0, 1} /\ delivered \in 0 .. 2
      BY <2>1 DEF Open, Same, Settled, RecInv, TypeInv, OutcomeOK
    <3>2. \A d \in 0 .. 2, x, y \in {0, 1} : d + x <= 1 /\ y <= x => d + y <= 1
      OBVIOUS
    <3>3. delivered + Open <= 1 /\ delivered' = delivered
      BY <2>1 DEF Once
    <3>4. delivered + Open' <= 1
      BY <3>1, <3>2, <3>3
    <3> QED BY <3>3, <3>4
  <2>6. stopped' => rec'.status # "running"
    BY <1>2, <2>1 DEF Once, Same, Settled
  <2> QED BY <2>2, <2>4, <2>5, <2>6 DEF Once
<1> QED BY <1>1, <1>2 DEF RecInv

LEMMA SameRec == TypeInv => Same(rec, rec)
BY DEF TypeInv, StoreOK, Same

LEMMA RuntimeKeeps ==
    ASSUME RecInv, NEW s \in Attempts, Start(s) \/ Complete(s) \/ Fail(s) \/ Die(s) \/ LoseCallback
    PROVE  RecInv'
<1>1. TypeInv' /\ TypeInv
  BY RuntimeTypes DEF RecInv
<1>2. UNCHANGED <<store, copies, mapped, outcome, clean>>
  BY DEF Start, Complete, Fail, Die, LoseCallback
<1>3. Given' = Given
  BY <1>1 DEF Start, Complete, Fail, Die, LoseCallback, Given, TypeInv, RuntimeOK
<1>4. \A c \in callbacks' : c \in callbacks \/ c.session \in Given
  <2>1. CASE \E o \in Outcomes \cup {marker} : Calls(s, o) /\ s \in Given
    BY <2>1 DEF Calls
  <2>2. CASE callbacks' \subseteq callbacks
    BY <2>2
  <2>3. (Start(s) /\ marker # "none") \/ Complete(s) \/ Fail(s)
          => \E o \in Outcomes \cup {marker} : Calls(s, o) /\ s \in Given
    BY DEF Start, Complete, Fail, Given, Outcomes
  <2>4. (Start(s) /\ marker = "none") \/ Die(s) \/ LoseCallback => callbacks' \subseteq callbacks
    BY DEF Start, Die, LoseCallback
  <2> QED BY <2>1, <2>2, <2>3, <2>4
<1> QED BY <1>1, <1>2, <1>3, <1>4, HandlerKeeps, SameRec DEF store, copies, outcome

LEMMA TouchKeeps ==
    ASSUME RecInv, NEW s \in Attempts, TouchLoad(s) \/ TouchSave
    PROVE  RecInv'
<1>1. TypeInv' /\ TypeInv
  BY TouchTypes DEF RecInv
<1>2. CASE TouchLoad(s)
  BY <1>1, <1>2, HandlerKeeps, SameRec DEF TouchLoad, store, runtime, outcome, Given
<1>3. CASE TouchSave
  <2>1. clean' => clean /\ Same(rec, rec')
    BY <1>1, <1>3, SameStates DEF TouchSave, TypeInv, StoreOK
  <2> QED BY <1>1, <1>3, <2>1, HandlerKeeps DEF TouchSave, runtime, outcome, Given
<1> QED BY <1>2, <1>3

LEMMA ClassifyKeeps ==
    ASSUME RecInv, NEW c \in callbacks, Classify(c)
    PROVE  RecInv'
<1>1. TypeInv' /\ TypeInv /\ (result' # None => result'.via = Disposition(c.session))
  BY ClassifyTypes DEF RecInv
<1>2. clean => c.session \in mapped
  BY DEF RecInv, KnownAll, Sessions
<1>3. clean => Disposition(c.session) # "untracked"
  BY <1>2 DEF Disposition
<1>4. /\ UNCHANGED <<store, post, run, mapped, delivered, stopped, clean>>
      /\ callbacks' \subseteq callbacks
  BY DEF Classify
<1> QED BY <1>1, <1>3, <1>4, HandlerKeeps, SameRec DEF store, Given

\* Only an answer of the active attempt of a root that runs, or of a session
\* recovery does not know, is posted, and the first settles the root.
LEMMA SettleKeeps ==
    ASSUME RecInv, NEW s \in Attempts, Settle(s)
    PROVE  RecInv' /\ (stopped /\ clean' => delivered' = delivered)
<1>1. TypeInv' /\ TypeInv
  BY SettleTypes DEF RecInv
<1>2. /\ result # None /\ result' = None
      /\ UNCHANGED <<kind, post, touch, runtime, rows, stopped, clean, restarts>>
  BY DEF Settle, SettleUntracked, SettleStale, SettleCompleted, SettleFailed, SettleFatal,
         SettleSandbox, SettleLocked, Empty, Settling, SettledBy
<1>3. Same(rec, rec') \/ Settled(rec, rec')
  BY <1>1, SettleMoves
<1>4. CASE delivered' = delivered
  BY <1>1, <1>2, <1>3, <1>4, HandlerKeeps DEF runtime, Given
<1>5. CASE delivered' # delivered
  <2>1. /\ delivered' = Answered
        /\ result.via = "untracked" \/ (rec.status = "running" /\ rec'.status # "running")
    BY <1>1, <1>5, SettleMoves
  <2>2. Sessions'
    BY <1>2 DEF RecInv, Sessions, runtime, Given
  <2>3. ASSUME clean' PROVE KnownAll' /\ Counted' /\ Once' /\ ~stopped
    <3>1. KnownAll /\ Counted /\ Once
      BY <1>2, <2>3 DEF RecInv
    <3>2. rec.status = "running" /\ rec'.status # "running" /\ ~stopped
      BY <1>2, <2>1, <3>1 DEF KnownAll, Once
    <3>3. KnownAll'
      BY <1>2, <3>1 DEF KnownAll, runtime, Given
    <3>4. Counted'
      <4>1. Given' = Given /\ Posting' <= Posting /\ rec'.used = rec.used
        BY <1>2, <1>3 DEF runtime, Given, Posting, Same, Settled
      <4> QED BY <1>1, <3>1, <4>1, CountKept
    <3>5. Once'
      <4>1. delivered = 0
        BY <3>1, <3>2, <1>1 DEF Once, Open, TypeInv, OutcomeOK
      <4>2. delivered' <= 1 /\ Open' = 0
        BY <2>1, <3>2, <4>1 DEF Answered, Open
      <4>3. delivered' \in 0 .. 2
        BY <1>1 DEF TypeInv, OutcomeOK
      <4>4. \A d \in 0 .. 2 : d <= 1 => d + 0 <= 1
        OBVIOUS
      <4>5. delivered' + 0 <= 1
        BY <4>2, <4>3, <4>4
      <4> QED BY <3>2, <4>2, <4>5 DEF Once
    <3> QED BY <3>2, <3>3, <3>4, <3>5
  <2> QED BY <1>1, <2>2, <2>3 DEF RecInv
<1> QED BY <1>4, <1>5

LEMMA WatchdogKeeps == ASSUME RecInv, NEW s \in Attempts, WatchdogFires(s) PROVE RecInv'
<1>1. TypeInv' /\ (Same(rec, rec') \/ Settled(rec, rec'))
  BY WatchdogMoves DEF RecInv
<1>2. UNCHANGED <<copies, runtime, delivered, stopped, clean>>
  BY DEF WatchdogFires
<1> QED BY <1>1, <1>2, HandlerKeeps DEF copies, runtime, Given

LEMMA DispatchKeeps == ASSUME RecInv, DispatchFires PROVE RecInv'
<1>1. /\ TypeInv /\ TypeInv' /\ post = None
      /\ \/ /\ Same(rec, rec') \/ Settled(rec, rec')
            /\ post' = None
         \/ rec'.used = rec.used + 1 /\ rec'.status = rec.status
  BY DispatchMoves DEF RecInv
<1>2. UNCHANGED <<touch, result, runtime, delivered, stopped, clean>>
  BY DEF DispatchFires
<1>3. CASE (Same(rec, rec') \/ Settled(rec, rec')) /\ post' = None
  BY <1>1, <1>2, <1>3, HandlerKeeps DEF runtime, Given
<1>4. CASE rec'.used = rec.used + 1 /\ rec'.status = rec.status
  <2>1. Sessions'
    BY <1>2 DEF RecInv, Sessions, runtime, Given
  <2>2. ASSUME clean' PROVE KnownAll' /\ Counted' /\ Once'
    <3>1. KnownAll /\ Counted /\ Once
      BY <1>2, <2>2 DEF RecInv
    <3>2. KnownAll'
      BY <1>2, <3>1 DEF KnownAll, runtime, Given
    <3>3. Once'
      BY <1>2, <1>4, <3>1 DEF Once, Open
    <3>4. Counted'
      <4>1. Given' = Given /\ Posting = 0 /\ Posting' \in {0, 1}
        BY <1>1, <1>2 DEF runtime, Given, Posting
      <4>2. Cardinality(Given) \in Nat /\ rec.used \in Nat
        BY <1>1, GivenFinite DEF Given, TypeInv, StoreOK, States
      <4>3. Cardinality(Given) + 0 <= 1 + rec.used
        BY <3>1, <4>1 DEF Counted
      <4>4. \A g, u \in Nat, x \in {0, 1} : g + 0 <= 1 + u => g + x <= 1 + (u + 1)
        OBVIOUS
      <4>5. Cardinality(Given) + Posting' <= 1 + (rec.used + 1)
        BY <4>1, <4>2, <4>3, <4>4
      <4> QED BY <1>4, <4>1, <4>5 DEF Counted
    <3> QED BY <3>2, <3>3, <3>4
  <2> QED BY <1>1, <2>1, <2>2 DEF RecInv
<1> QED BY <1>1, <1>3, <1>4

\* A launch gives the runtime one attempt more.
LEMMA LaunchGives ==
    ASSUME RuntimeOK, NEW s \in Unused, Launched(s)
    PROVE  Given' = Given \cup {s} /\ Cardinality(Given') <= Cardinality(Given) + 1
<1>1. Given' = Given \cup {s}
  BY DEF Launched, Given, Unused, RuntimeOK
<1>2. IsFiniteSet(Given) /\ Cardinality(Given) \in Nat
  BY GivenFinite DEF Given
<1>3. Cardinality(Given \cup {s}) \in {Cardinality(Given), Cardinality(Given) + 1}
  BY <1>2, FS_AddElement
<1> QED BY <1>1, <1>2, <1>3

LEMMA AcceptedKeeps == ASSUME RecInv, PostAccepted PROVE RecInv'
<1>1. TypeInv' /\ TypeInv /\ Same(post, rec')
  BY AcceptedMoves DEF RecInv
<1>2. PICK s \in Unused : Launched(s) /\ mapped' = mapped \cup {s}
  BY AcceptedMoves DEF RecInv
<1>3. /\ post # None /\ post' = None /\ (clean' => clean /\ rec = post)
      /\ UNCHANGED <<result, callbacks, delivered, stopped>>
  BY <1>1, PostedFacts
<1>4. Given' = Given \cup {s} /\ Cardinality(Given') <= Cardinality(Given) + 1
  BY <1>1, <1>2, LaunchGives DEF TypeInv
<1>5. Sessions'
  BY <1>3, <1>4 DEF RecInv, Sessions
<1>6. ASSUME clean' PROVE KnownAll' /\ Counted' /\ Once'
  <2>1. KnownAll /\ Counted /\ Once /\ Same(rec, rec')
    BY <1>1, <1>3, <1>6 DEF RecInv
  <2>2. KnownAll'
    BY <1>2, <1>3, <1>4, <2>1 DEF KnownAll
  <2>3. Once'
    BY <1>3, <2>1 DEF Once, Open, Same
  <2>4. Counted'
    <3>1. Cardinality(Given) + 1 <= 1 + rec.used
      BY <1>3, <2>1 DEF Counted, Posting
    <3>2. Cardinality(Given) \in Nat /\ Cardinality(Given') \in Nat /\ rec.used \in Nat
      BY <1>1, GivenFinite DEF Given, TypeInv, StoreOK, States
    <3>3. \A g, h, u \in Nat : h <= g + 1 /\ g + 1 <= 1 + u => h + 0 <= 1 + u
      OBVIOUS
    <3>4. Cardinality(Given') + 0 <= 1 + rec.used
      BY <1>4, <3>1, <3>2, <3>3
    <3> QED BY <1>3, <2>1, <3>4 DEF Counted, Posting, Same
  <2> QED BY <2>2, <2>3, <2>4
<1> QED BY <1>1, <1>5, <1>6 DEF RecInv

\* A retry the runtime refused for the session's lock is given back: it was
\* counted, and in hand.
LEMMA LockedKeeps == ASSUME RecInv, PostLocked PROVE RecInv'
<1>1. /\ TypeInv' /\ TypeInv /\ rec'.used = post.used - 1
      /\ rec'.status = post.status \/ rec'.status # "running"
      /\ UNCHANGED <<run, mapped>>
  BY LockedMoves DEF RecInv
<1>2. /\ post # None /\ post' = None /\ (clean' => clean /\ rec = post)
      /\ UNCHANGED <<result, callbacks, delivered, stopped>>
  BY <1>1, PostedFacts
<1>3. Sessions'
  BY <1>1, <1>2 DEF RecInv, Sessions, Given
<1>4. ASSUME clean' PROVE KnownAll' /\ Counted' /\ Once'
  <2>1. KnownAll /\ Counted /\ Once /\ rec = post
    BY <1>2, <1>4 DEF RecInv
  <2>2. KnownAll'
    BY <1>1, <1>2, <2>1 DEF KnownAll, Given
  <2>3. Once'
    <3>1. CASE rec'.status = rec.status
      BY <1>2, <2>1, <3>1 DEF Once, Open
    <3>2. CASE rec'.status # "running"
      <4>1. delivered + Open <= 1 /\ delivered \in 0 .. 2 /\ Open \in {0, 1} /\ Open' = 0
        BY <1>1, <2>1, <3>2 DEF Once, Open, TypeInv, OutcomeOK
      <4>2. \A d \in 0 .. 2, x \in {0, 1} : d + x <= 1 => d + 0 <= 1
        OBVIOUS
      <4>3. delivered + 0 <= 1
        BY <4>1, <4>2
      <4> QED BY <1>2, <3>2, <4>1, <4>3 DEF Once
    <3> QED BY <1>1, <2>1, <3>1, <3>2
  <2>4. Counted'
    <3>1. Cardinality(Given) + 1 <= 1 + rec.used /\ Given' = Given
      BY <1>1, <1>2, <2>1 DEF Counted, Posting, Given
    <3>2. Cardinality(Given) \in Nat /\ rec.used \in Nat
      BY <1>1, GivenFinite DEF Given, TypeInv, StoreOK, States
    <3>3. \A g, u \in Nat : g + 1 <= 1 + u => g + 0 <= 1 + (u - 1)
      OBVIOUS
    <3>4. Cardinality(Given) + 0 <= 1 + (rec.used - 1)
      BY <3>1, <3>2, <3>3
    <3> QED BY <1>1, <1>2, <2>1, <3>1, <3>4 DEF Counted, Posting
  <2> QED BY <2>2, <2>3, <2>4
<1> QED BY <1>1, <1>3, <1>4 DEF RecInv

LEMMA FailsKeeps == ASSUME RecInv, PostFails PROVE RecInv'
<1>1. /\ TypeInv' /\ TypeInv /\ (Same(post, rec') \/ Settled(post, rec'))
      /\ mapped' = mapped
      /\ run' = run \/ (clean' = FALSE /\ \E s \in Unused : Launched(s))
  BY FailsMoves DEF RecInv
<1>2. /\ post' = None /\ (clean' => clean /\ rec = post)
      /\ UNCHANGED <<result, callbacks, delivered, stopped>>
  BY <1>1, PostedFacts
<1>3. Given \subseteq Given' /\ (clean' => Given' = Given)
  <2>1. CASE run' = run
    BY <2>1 DEF Given
  <2>2. CASE clean' = FALSE /\ \E s \in Unused : Launched(s)
    BY <1>1, <2>2, LaunchGives DEF TypeInv
  <2> QED BY <1>1, <2>1, <2>2
<1> QED BY <1>1, <1>2, <1>3, HandlerKeeps

LEMMA StopKeeps == ASSUME RecInv, Stop PROVE RecInv'
<1>1. /\ TypeInv' /\ TypeInv /\ Settled(rec, rec')
      /\ \A s \in Attempts : run'[s] = "none" <=> run[s] = "none"
      /\ UNCHANGED <<copies, mapped, callbacks, delivered, clean>>
  BY StopMoves DEF RecInv
<1>2. Given' = Given
  BY <1>1 DEF Given
<1> QED BY <1>1, <1>2, HandlerKeeps DEF copies, Settled

LEMMA RestartKeeps == ASSUME RecInv, Restart PROVE RecInv'
<1>1. /\ TypeInv' /\ TypeInv /\ (Same(rec, rec') \/ Settled(rec, rec')) /\ post' = None
      /\ result' = None /\ (clean' => clean)
      /\ run' = run \/ (clean' = FALSE /\ \E s \in Unused : Launched(s))
      /\ UNCHANGED <<mapped, callbacks, delivered, stopped>>
  BY RestartMoves DEF RecInv
<1>2. Given \subseteq Given' /\ (clean' => Given' = Given)
  <2>1. CASE run' = run
    BY <2>1 DEF Given
  <2>2. CASE clean' = FALSE /\ \E s \in Unused : Launched(s)
    BY <1>1, <2>2, LaunchGives DEF TypeInv
  <2> QED BY <1>1, <2>1, <2>2
<1> QED BY <1>1, <1>2, HandlerKeeps

LEMMA ElapseKeeps == ASSUME RecInv, Elapse PROVE RecInv'
<1>1. TypeInv' /\ Same(rec, rec') /\ (post = None => post' = None)
  BY ElapseMoves DEF RecInv
<1>2. UNCHANGED <<result, runtime, outcome, clean>>
  BY DEF Elapse
<1> QED BY <1>1, <1>2, HandlerKeeps DEF runtime, outcome, Given

LEMMA NextRec == ASSUME RecInv, [Next]_vars PROVE RecInv'
<1>1. CASE UNCHANGED vars
  <2>1. TypeInv'
    BY <1>1, NextTypes DEF RecInv
  <2> QED BY <1>1, <2>1 DEF vars, store, copies, runtime, outcome, RecInv, Sessions, KnownAll,
             Counted, Once, Given, Posting, Open
<1>2. CASE LoseCallback \/ TouchSave
  BY <1>2, RootTyped, RuntimeKeeps, TouchKeeps
<1> QED BY <1>1, <1>2, RuntimeKeeps, TouchKeeps, ClassifyKeeps, SettleKeeps, WatchdogKeeps,
           DispatchKeeps, AcceptedKeeps, LockedKeeps, FailsKeeps, StopKeeps, RestartKeeps,
           ElapseKeeps DEF Next, PostAnswered

LEMMA RecHolds == Spec => []RecInv
BY InitRec, NextRec, PTL DEF Spec

\* However often a root's attempts fail, are deferred, go silent or are lost
\* with a restart, the runtime is given no more than the first attempt and the
\* retries it was registered with, until one save overwrites another's.
THEOREM RetriesBounded == Spec => []AttemptsBounded
<1>1. RecInv => AttemptsBounded
  <2> SUFFICES ASSUME RecInv, clean PROVE Cardinality(Given) <= 1 + MaxRetries
    BY DEF AttemptsBounded, Given
  <2>1. Cardinality(Given) + Posting <= 1 + rec.used /\ rec.used <= MaxRetries /\ rec.used \in Nat
    BY DEF RecInv, Counted, TypeInv, StoreOK, States
  <2>2. Cardinality(Given) \in Nat /\ Posting \in {0, 1} /\ MaxRetries \in Nat
    BY GivenFinite, RecoveryAssumption DEF Given, Posting
  <2>3. \A g, u, m \in Nat, x \in {0, 1} : g + x <= 1 + u /\ u <= m => g <= 1 + m
    OBVIOUS
  <2> QED BY <2>1, <2>2, <2>3
<1> QED BY <1>1, RecHolds, PTL

\* A root answers once, whatever callbacks come twice, late or from attempts
\* it has replaced, until one save overwrites another's.
THEOREM OneAnswer == Spec => []AnswersOnce
<1>1. RecInv => AnswersOnce
  <2> SUFFICES ASSUME RecInv, clean PROVE delivered <= 1
    BY DEF AnswersOnce
  <2>1. delivered + Open <= 1 /\ delivered \in 0 .. 2 /\ Open \in {0, 1}
    BY DEF RecInv, Once, Open, TypeInv, OutcomeOK
  <2>2. \A d \in 0 .. 2, x \in {0, 1} : d + x <= 1 => d <= 1
    OBVIOUS
  <2> QED BY <2>1, <2>2
<1> QED BY <1>1, RecHolds, PTL

\* A root that /stop has cancelled answers no more, whatever was on its way.
THEOREM StoppedStaysSilent == Spec => StopHolds
<1>1. RecInv /\ [Next]_vars => (stopped /\ clean' => delivered' = delivered)
  <2> SUFFICES ASSUME RecInv, [Next]_vars, stopped, clean'
               PROVE  delivered' = delivered
    OBVIOUS
  <2>1. CASE UNCHANGED vars
    BY <2>1 DEF vars, outcome
  <2>2. ASSUME NEW s \in Attempts, Settle(s) PROVE delivered' = delivered
    BY <2>2, SettleKeeps
  <2>3. ASSUME NEW s \in Attempts,
               Start(s) \/ Complete(s) \/ Fail(s) \/ Die(s) \/ TouchLoad(s) \/ WatchdogFires(s)
        PROVE  delivered' = delivered
    BY <2>3 DEF Start, Complete, Fail, Die, TouchLoad, WatchdogFires, outcome
  <2>4. ASSUME NEW c \in callbacks, Classify(c) PROVE delivered' = delivered
    BY <2>4 DEF Classify
  <2>5. CASE \/ TouchSave \/ LoseCallback \/ DispatchFires \/ PostAccepted \/ PostLocked
             \/ PostFails \/ Stop \/ Restart \/ Elapse
    BY <2>5 DEF TouchSave, LoseCallback, DispatchFires, PostAccepted, PostLocked, PostFails,
                Posted, Stop, Restart, Elapse, outcome
  <2> QED BY <2>1, <2>2, <2>3, <2>4, <2>5 DEF Next, PostAnswered
<1>2. RecInv /\ [Next]_vars => [stopped /\ clean' => delivered' = delivered]_vars
  BY <1>1
<1> QED BY <1>2, RecHolds, PTL DEF Spec, StopHolds

=============================================================================
