---------------------------- MODULE RunRecovery ----------------------------
(***************************************************************************)
(* The recovery of one logical agent run (a root): claw-auth keeps a JSON  *)
(* state in Redis, two kinds of delayed BullMQ jobs (a watchdog per        *)
(* attempt, one dispatch per root) and re-dispatches an attempt that went  *)
(* silent or failed; the claw runtime executes attempts and calls back.    *)
(*                                                                         *)
(*   src/apps/xyne-claw-auth/backend/src/queue/run-recovery-worker.ts      *)
(*   src/apps/xyne-claw-auth/backend/src/routes/webhook.ts (result, /stop) *)
(*   src/apps/xyne-claw/src/routes/run.ts (marker, replay)                 *)
(*                                                                         *)
(* Every handler loads the whole state, changes its copy and writes it     *)
(* back.  The two that hold the copy longest or run most often are split   *)
(* where they wait: the retry dispatch around its POST, the heartbeat      *)
(* between its load and its save.  The other handlers are one step each.   *)
(***************************************************************************)
EXTENDS Naturals, FiniteSets

CONSTANTS
    None,            \* no copy, no callback in hand
    Kinds,           \* the kinds of root a run is registered with
    MaxRetries,      \* maxRetries of the registration
    MaxDeferrals,    \* MAX_LOCK_DEFERRALS and maxSandboxDeferrals
    MaxAttempts,     \* bound: physical attempts the runtime can be given
    MaxRestarts      \* bound: restarts of claw-auth

AllKinds == {"conversation", "approval", "scheduled"}

ASSUME RecoveryAssumption ==
    /\ Kinds \subseteq AllKinds /\ Kinds # {}
    /\ MaxRetries \in Nat /\ MaxDeferrals \in Nat /\ MaxRestarts \in Nat
    /\ MaxAttempts \in Nat \ {0}

Attempts == 1 .. MaxAttempts
Root == 1                               \* the session the root is named by

VARIABLES
    kind,        \* "conversation", "approval" (no notice, no FIFO), "scheduled"
    rec,         \* the RunRecoveryState in Redis
    jobs,        \* job ids BullMQ holds, waiting or being processed
    beaten,      \* the watchdogs whose root has beaten since they were added
    dropped,     \* the job the root was left with was not taken, or was lost
    post,        \* the copy dispatchRetry holds while its POST is out
    touch,       \* the copy touchRunRecovery holds between load and save
    result,      \* the callback the result handler has classified
    run,         \* the state of each physical attempt in the runtime
    mapped,      \* attempts whose session id is mapped to this root
    callbacks,   \* callbacks on their way to claw-auth
    marker,      \* the result marker in GCS: "none", "answer" or "empty"
    rows,        \* the status of each attempt's AgentRun row
    delivered,   \* answers posted for this root, 2 for more
    told,        \* notices posted for this root
    stopped,     \* cancelRunRecovery has cancelled the root
    owed,        \* an empty answer was left to recovery to announce
    clean,       \* no save overwrote another's, no attempt runs unknown
    restarts     \* restarts so far

store == <<rec, jobs, beaten, dropped>>
copies == <<post, touch, result>>
runtime == <<run, mapped, callbacks, marker>>
outcome == <<rows, delivered, told, stopped, owed>>
vars == <<kind, store, copies, runtime, outcome, clean, restarts>>

Watchdog(s) == <<"watchdog", s>>
Dispatch == <<"dispatch", Root>>

Ages == {"fresh", "silent", "old"}      \* of lastHeartbeatAt: within timeoutMs,
                                        \* past it, past MAX_REARM_AGE_MS
States ==
    [status : {"running", "completed", "exhausted"}, active : Attempts,
     used : Nat, scheduled : BOOLEAN, age : Ages,
     locks : Nat, boxes : Nat, history : SUBSET Attempts]
Outcomes == {"answer", "empty", "failed", "locked", "sandbox", "fatal"}

Init ==
    /\ kind \in Kinds
    /\ rec = [status |-> "running", active |-> Root, used |-> 0,
              scheduled |-> FALSE, age |-> "fresh", locks |-> 0, boxes |-> 0,
              history |-> {Root}]
    /\ jobs = {Watchdog(Root)} /\ beaten = {} /\ dropped = FALSE
    /\ post = None /\ touch = None /\ result = None
    /\ run = [s \in Attempts |-> IF s = Root THEN "queued" ELSE "none"]
    /\ mapped = {Root} /\ callbacks = {} /\ marker = "none"
    /\ rows = [s \in Attempts |-> IF s = Root THEN "running" ELSE "none"]
    /\ delivered = 0 /\ told = {}
    /\ stopped = FALSE /\ owed = FALSE /\ clean = TRUE /\ restarts = 0

(***************************************************************************)
(* The parts of the handlers.  BullMQ ignores an add whose job id it       *)
(* already holds, the id of the job being processed included, and drops a  *)
(* processed job when its handler returns: a handler that adds its own id  *)
(* leaves nothing behind.                                                  *)
(***************************************************************************)
Added(js, j) == js \cup {j}
Processed(js, j) == js \ {j}
Beat(js) == {j \in js : j[1] = "watchdog"}

Notifies == kind # "approval"
Defers == kind # "conversation"

\* a mutant: only the pending retry is dropped
DroppedRetry(st) == [st EXCEPT !.scheduled = FALSE]
Exhausted(st) == [st EXCEPT !.status = "exhausted", !.scheduled = FALSE]
Completed(st) == [st EXCEPT !.status = "completed", !.scheduled = FALSE]
Unwatched(js, st) == js \ {Watchdog(st.active)}

\* markExhausted: the notice is left out when an attempt delivered
Announced(st) ==
    IF Notifies /\ \A s \in st.history \cup {Root} : rows[s] # "completed"
    THEN told \cup {"failed"} ELSE told

\* the result handler's own notice of a failure recovery will not retry
Surfaced == IF Notifies THEN told \cup {"failed"} ELSE told

\* deferLockContentionRetry and deferSandboxRetry, whose counter is kept
LockDeferral(st) == [st EXCEPT !.locks = @ + 1, !.scheduled = TRUE, !.age = "fresh"]
\* a mutant: the deferral gives back the retry its dispatch counted
BoxRefunded(st) ==
    [st EXCEPT !.boxes = @ + 1, !.scheduled = TRUE, !.age = "fresh",
               !.used = IF @ > 0 THEN @ - 1 ELSE 0]
BoxDeferral(st) == [st EXCEPT !.boxes = @ + 1, !.scheduled = TRUE, !.age = "fresh"]

\* enqueueLockContentionRun: the FIFO takes the run, or is full
Enqueued == {told \cup {"queued"}, told}

Unused == {s \in Attempts : run[s] = "none"}

(***************************************************************************)
(* The runtime.  An attempt that starts when a marker exists replays it;   *)
(* a finished one writes the marker, best effort, before its callback.     *)
(***************************************************************************)
Calls(s, o) == callbacks' = callbacks \cup {[session |-> s, outcome |-> o]}

Start(s) ==
    /\ run[s] = "queued"
    /\ IF marker = "none"
       THEN run' = [run EXCEPT ![s] = "executing"] /\ UNCHANGED callbacks
       ELSE run' = [run EXCEPT ![s] = "gone"] /\ Calls(s, marker)
    /\ UNCHANGED <<kind, store, copies, mapped, marker, outcome, clean, restarts>>

Complete(s) ==
    /\ run[s] = "executing"
    /\ run' = [run EXCEPT ![s] = "gone"]
    /\ \E o \in {"answer", "empty"} :
        /\ Calls(s, o)
        /\ marker' \in {o, marker}
    /\ UNCHANGED <<kind, store, copies, mapped, outcome, clean, restarts>>

Fail(s) ==
    /\ run[s] = "executing"
    /\ run' = [run EXCEPT ![s] = "gone"]
    /\ \E o \in {"failed", "locked", "sandbox", "fatal"} : Calls(s, o)
    /\ UNCHANGED <<kind, store, copies, mapped, marker, outcome, clean, restarts>>

Die(s) ==
    /\ run[s] = "executing"
    /\ run' = [run EXCEPT ![s] = "gone"]
    /\ UNCHANGED <<kind, store, copies, mapped, callbacks, marker, outcome, clean, restarts>>

LoseCallback ==
    /\ \E c \in callbacks : callbacks' = callbacks \ {c}
    /\ UNCHANGED <<kind, store, copies, run, mapped, marker, outcome, clean, restarts>>

(***************************************************************************)
(* touchRunRecovery, on a progress callback of any attempt of the root.    *)
(***************************************************************************)
TouchLoad(s) ==
    /\ run[s] = "executing" /\ s \in mapped
    /\ rec.status = "running" /\ touch = None
    /\ touch' = rec
    /\ UNCHANGED <<kind, store, post, result, runtime, outcome, clean, restarts>>

TouchSave ==
    /\ touch # None
    /\ rec' = [touch EXCEPT !.age = "fresh"]
    /\ clean' = (clean /\ rec = touch)
    /\ beaten' = Beat(jobs)
    /\ touch' = None
    /\ UNCHANGED <<kind, jobs, dropped, post, result, runtime, outcome, restarts>>

(***************************************************************************)
(* The result handler: classify the callback and finalize the attempt's    *)
(* row, then let handleRunCompletion settle it.  A callback may be sent    *)
(* again after it was received.                                            *)
(***************************************************************************)
\* a mutant: a settled root is not checked for
Superseded(s) == rec.active # s
Stale(s) == rec.status # "running" \/ rec.active # s

Disposition(s) ==
    IF s \notin mapped THEN "untracked"
    ELSE IF Stale(s) THEN "stale"
    ELSE IF rec.used > 0 \/ rec.history # {Root} THEN "continuation"
    ELSE "initial"

Classify(c) ==
    /\ result = None
    /\ callbacks' \in {callbacks, callbacks \ {c}}
    /\ LET via == Disposition(c.session) IN
        /\ result' = IF via = "stale" THEN None
                     ELSE [session |-> c.session, outcome |-> c.outcome, via |-> via]
        /\ rows' =
            IF via = "stale" THEN rows
            ELSE [rows EXCEPT ![c.session] =
                    IF \/ c.outcome = "answer"
                       \/ c.outcome = "empty" /\ via # "continuation"
                    THEN "completed" ELSE "failed"]
    /\ UNCHANGED <<kind, store, post, touch, run, mapped, marker,
                   delivered, told, stopped, owed, clean, restarts>>

SettledBy(s) == result # None /\ result.session = s /\ result' = None
Now(st) == [st EXCEPT !.age = "fresh"]

Answered ==
    IF result.outcome = "answer" /\ delivered < 2 THEN delivered + 1 ELSE delivered

\* no recovery state: the outcome goes straight to the user
SettleUntracked(s) ==
    /\ SettledBy(s) /\ result.via = "untracked"
    /\ delivered' = Answered
    /\ told' \in CASE result.outcome = "answer" -> {told}
                   [] result.outcome = "empty" -> {told \cup {"apology"}}
                   [] result.outcome = "locked" -> Enqueued
                   [] OTHER -> {Surfaced}
    /\ UNCHANGED <<store, owed>>

SettleStale(s) ==
    /\ SettledBy(s) /\ result.via # "untracked" /\ Stale(s)
    /\ UNCHANGED <<store, delivered, told, owed>>

Settling(s, outs) ==
    SettledBy(s) /\ result.via # "untracked" /\ ~Stale(s) /\ result.outcome \in outs

Empty(s) == Settling(s, {"empty"}) /\ result.via = "continuation"

SettleCompleted(s) ==
    /\ Settling(s, {"answer", "empty"}) /\ ~Empty(s)
    /\ rec' = Now(Completed(rec))
    /\ jobs' = Unwatched(jobs, rec) /\ beaten' = Beat(jobs')
    /\ delivered' = Answered
    /\ told' = IF result.outcome = "empty" THEN told \cup {"apology"} ELSE told
    /\ UNCHANGED <<dropped, owed>>

\* a failure recovery may retry; an empty answer of a retry counts as one
SettleFailed(s) ==
    /\ Settling(s, {"failed"}) \/ Empty(s)
    /\ IF rec.used >= MaxRetries
       THEN /\ rec' = Now(Exhausted(rec))
            /\ jobs' = Unwatched(jobs, rec)
            /\ told' = IF result.outcome = "failed" THEN Surfaced
                       ELSE Announced(rec)
            /\ UNCHANGED dropped
       ELSE /\ rec' = [Now(rec) EXCEPT !.scheduled = TRUE]
            /\ jobs' = IF rec.scheduled THEN jobs ELSE Added(jobs, Dispatch)
            /\ dropped' = (dropped /\ rec.scheduled)
            /\ UNCHANGED told
    /\ beaten' = Beat(jobs')
    /\ owed' = (owed \/ result.outcome = "empty")
    /\ UNCHANGED delivered

\* refusals no retry can fix; a dispatch being processed cannot be removed
SettleFatal(s) ==
    /\ Settling(s, {"fatal"})
    /\ rec' = Exhausted(rec)
    /\ jobs' = Unwatched(jobs, rec) \ (IF post = None THEN {Dispatch} ELSE {})
    /\ beaten' = beaten \cap jobs'
    /\ told' = Announced(rec)
    /\ UNCHANGED <<dropped, delivered, owed>>

\* a deferral keeps the retry count; past the cap the root is exhausted
Deferring(st, deferred, count) ==
    IF count < MaxDeferrals
    THEN /\ rec' = deferred
         /\ jobs' = Added(Unwatched(jobs, st), Dispatch) /\ dropped' = FALSE
         /\ beaten' = Beat(jobs')
         /\ UNCHANGED told
    ELSE /\ rec' = Exhausted(deferred)
         /\ jobs' = Unwatched(jobs, st)
         /\ beaten' = beaten \cap jobs'
         /\ told' = Announced(st)
         /\ UNCHANGED dropped

SettleSandbox(s) ==
    /\ Settling(s, {"sandbox"})
    /\ Deferring(rec, BoxDeferral(rec), rec.boxes)
    /\ UNCHANGED <<delivered, owed>>

SettleLocked(s) ==
    /\ Settling(s, {"locked"})
    /\ \/ /\ Defers
          /\ Deferring(rec, LockDeferral(rec), rec.locks)
       \/ /\ ~Defers
          /\ rec' = Now(Completed(rec))
          /\ jobs' = Unwatched(jobs, rec) /\ beaten' = Beat(jobs')
          /\ told' \in Enqueued
          /\ UNCHANGED dropped
    /\ UNCHANGED <<delivered, owed>>

Settle(s) ==
    /\ \/ SettleUntracked(s) \/ SettleStale(s) \/ SettleCompleted(s)
       \/ SettleFailed(s) \/ SettleFatal(s) \/ SettleSandbox(s) \/ SettleLocked(s)
    /\ UNCHANGED <<kind, post, touch, runtime, rows, stopped, clean, restarts>>

(***************************************************************************)
(* The recovery worker.  A watchdog is due once timeoutMs have passed      *)
(* since it was added: if nothing has beaten since, the root is silent.    *)
(***************************************************************************)
Due(s) == rec.age # "fresh" \/ Watchdog(s) \in beaten

WatchdogFires(s) ==
    /\ Watchdog(s) \in jobs /\ Due(s)
    /\ LET self == Watchdog(s)
           again == Processed(Added(jobs, self), self)
       IN
        \/ /\ Stale(s)
           /\ jobs' = Processed(jobs, self) /\ UNCHANGED <<rec, told, dropped>>
        \/ /\ ~Stale(s)                                 \* look again later, or
           /\ rec.age = "fresh" \/ run[s] = "queued"    \* isRunWaitingInQueue
           /\ jobs' = again /\ dropped' = (Dispatch \notin jobs)
           /\ UNCHANGED <<rec, told>>
        \/ /\ ~Stale(s) /\ rec.age # "fresh" /\ run[s] # "queued"
           /\ \/ /\ rec.used >= MaxRetries
                 /\ rec' = Exhausted(rec) /\ told' = Announced(rec)
                 /\ jobs' = Processed(jobs, self) /\ UNCHANGED dropped
              \/ /\ rec.used < MaxRetries /\ rec.scheduled
                 /\ jobs' = Processed(jobs, self) /\ UNCHANGED <<rec, told, dropped>>
              \/ /\ rec.used < MaxRetries /\ ~rec.scheduled
                 /\ rec' = [rec EXCEPT !.scheduled = TRUE]
                 /\ jobs' = Processed(Added(jobs, Dispatch), self)
                 /\ dropped' = FALSE
                 /\ UNCHANGED told
    /\ beaten' = beaten \cap jobs'
    /\ UNCHANGED <<kind, copies, runtime, rows, delivered, stopped, owed,
                   clean, restarts>>

\* dispatchRetry up to its POST
DispatchFires ==
    /\ Dispatch \in jobs /\ post = None
    /\ \/ /\ rec.status # "running"
          /\ jobs' = Processed(jobs, Dispatch)
          /\ UNCHANGED <<rec, post, told>>
       \/ /\ rec.status = "running" /\ marker # "none"   \* runAlreadyCompleted
          /\ rec' = Completed(rec)
          /\ jobs' = Processed(Unwatched(jobs, rec), Dispatch)
          /\ UNCHANGED <<post, told>>
       \/ /\ rec.status = "running" /\ marker = "none" /\ rec.used >= MaxRetries
          /\ rec' = Exhausted(rec) /\ told' = Announced(rec)
          /\ jobs' = Processed(Unwatched(jobs, rec), Dispatch)
          /\ UNCHANGED post
       \/ /\ rec.status = "running" /\ marker = "none" /\ rec.used < MaxRetries
          /\ rec' = [rec EXCEPT !.scheduled = FALSE, !.used = @ + 1]
          /\ post' = rec'
          /\ UNCHANGED <<jobs, told>>
    /\ beaten' = beaten \cap jobs'
    /\ UNCHANGED <<kind, touch, result, runtime, rows, delivered, stopped,
                   owed, clean, restarts, dropped>>

\* the answer of /internal/run, applied to the copy taken before it was sent
Posted ==
    /\ post # None /\ post' = None
    /\ UNCHANGED <<kind, touch, result, callbacks, marker, delivered,
                   stopped, owed, restarts>>

\* the runtime queues a new attempt and claw-auth opens its row
Launched(s) ==
    /\ run' = [run EXCEPT ![s] = "queued"]
    /\ rows' = [rows EXCEPT ![s] = "running"]

PostAccepted ==
    /\ Posted
    /\ \E s \in Unused :
        /\ Launched(s)
        /\ mapped' = mapped \cup {s}
        /\ rec' = [post EXCEPT !.active = s, !.age = "fresh", !.scheduled = FALSE,
                               !.history = @ \cup {s}]
        /\ jobs' = Processed(Added(jobs, Watchdog(s)), Dispatch)
        /\ beaten' = Beat(jobs) \ {Watchdog(s)} /\ dropped' = FALSE
    /\ clean' = (clean /\ rec = post)
    /\ UNCHANGED told

\* session_locked: the attempt is not counted
PostLocked ==
    /\ Posted
    /\ LET st == [post EXCEPT !.used = @ - 1] IN
        \/ /\ Defers /\ st.locks < MaxDeferrals
           /\ rec' = LockDeferral(st)
           /\ jobs' = Processed(Added(jobs, Dispatch), Dispatch)
           /\ dropped' = TRUE
           /\ beaten' = Beat(jobs') /\ UNCHANGED told
        \/ /\ Defers /\ st.locks >= MaxDeferrals
           /\ rec' = Exhausted(LockDeferral(st)) /\ told' = Announced(st)
           /\ jobs' = Processed(Unwatched(jobs, st), Dispatch)
           /\ beaten' = beaten \cap jobs' /\ UNCHANGED dropped
        \/ /\ ~Defers
           /\ rec' = Now(Completed(st)) /\ told' \in Enqueued
           /\ jobs' = Processed(Unwatched(jobs, st), Dispatch)
           /\ beaten' = Beat(jobs') /\ UNCHANGED dropped
    /\ clean' = (clean /\ rec = post)
    /\ UNCHANGED <<run, rows, mapped>>

\* refused, failed or timed out; a timed out POST may have been accepted, and
\* the session it made is not known to recovery
PostFails ==
    /\ Posted
    /\ IF post.used >= MaxRetries
       THEN /\ rec' = Exhausted(post) /\ told' = Announced(post)
            /\ jobs' = Processed(Unwatched(jobs, post), Dispatch)
            /\ UNCHANGED dropped
       ELSE /\ rec' = [post EXCEPT !.scheduled = TRUE]
            /\ jobs' = Processed(Added(jobs, Dispatch), Dispatch)
            /\ dropped' = TRUE
            /\ UNCHANGED told
    /\ beaten' = beaten \cap jobs'
    /\ \/ UNCHANGED <<run, rows>> /\ clean' = (clean /\ rec = post)
       \/ /\ \E s \in Unused : Launched(s)
          /\ clean' = FALSE
    /\ UNCHANGED mapped

PostAnswered == PostAccepted \/ PostLocked \/ PostFails

(***************************************************************************)
(* /stop: cancelRunRecovery, then the cancel of the attempts found         *)
(* running, which reaches those it reaches.  A dispatch being processed    *)
(* cannot be removed.                                                      *)
(***************************************************************************)
Stop ==
    /\ rec.status = "running"
    /\ \E s \in mapped : rows[s] = "running"
    /\ rec' = Exhausted(rec)
    /\ jobs' = (jobs \ {Watchdog(s) : s \in rec.history \cup {rec.active}})
               \ (IF post = None THEN {Dispatch} ELSE {})
    /\ \E reached \in SUBSET {s \in Attempts : run[s] \in {"queued", "executing"}} :
        run' = [s \in Attempts |-> IF s \in reached THEN "gone" ELSE run[s]]
    /\ beaten' = beaten \cap jobs'
    /\ stopped' = TRUE
    /\ UNCHANGED <<kind, dropped, copies, mapped, callbacks, marker, rows,
                   delivered, told, owed, clean, restarts>>

Rearmed(js) ==
    \/ rec.status # "running" /\ jobs' = js /\ UNCHANGED rec
    \/ /\ rec.status = "running" /\ marker # "none"
       /\ rec' = Completed(rec) /\ jobs' = Unwatched(js, rec)
    \/ /\ rec.status = "running" /\ marker = "none" /\ rec.age = "old"
       /\ rec' = Exhausted(rec) /\ jobs' = Unwatched(js, rec)
    \/ /\ rec.status = "running" /\ marker = "none" /\ rec.age # "old"
       /\ jobs' = Added(js, Watchdog(rec.active)) /\ UNCHANGED rec

Restart ==
    /\ restarts < MaxRestarts /\ restarts' = restarts + 1
    /\ post' = None /\ touch' = None /\ result' = None
    /\ \/ UNCHANGED <<run, rows, clean>>
       \/ /\ post # None /\ clean' = FALSE
          /\ \E s \in Unused : Launched(s)
    /\ \E lost \in SUBSET jobs :
        Rearmed(jobs \ lost) /\ beaten' = (beaten \ lost) \cap jobs'
    /\ dropped' = (rec.scheduled /\ Dispatch \notin jobs')
    /\ UNCHANGED <<kind, mapped, callbacks, marker, delivered, told, stopped, owed>>

\* time passes without a heartbeat, for the copies as for the state
Older(st) == [st EXCEPT !.age = IF @ = "fresh" THEN "silent" ELSE "old"]
Elapse ==
    /\ rec.status = "running" /\ rec.age # "old"
    /\ rec' = Older(rec)
    /\ post' = IF post = None THEN None ELSE Older(post)
    /\ touch' = IF touch = None THEN None ELSE Older(touch)
    /\ UNCHANGED <<kind, jobs, beaten, dropped, result, runtime, outcome, clean, restarts>>

Next ==
    \/ \E s \in Attempts :
        \/ Start(s) \/ Complete(s) \/ Fail(s) \/ Die(s)
        \/ TouchLoad(s) \/ Settle(s) \/ WatchdogFires(s)
    \/ \E c \in callbacks : Classify(c)
    \/ TouchSave \/ LoseCallback
    \/ DispatchFires \/ PostAnswered
    \/ Stop \/ Restart \/ Elapse

Spec == Init /\ [][Next]_vars

\* BullMQ runs what is due, a request in flight ends, and time passes
Fairness ==
    /\ \A s \in Attempts : WF_vars(WatchdogFires(s))
    /\ WF_vars(DispatchFires) /\ WF_vars(PostAnswered)
    /\ WF_vars(Elapse)

FairSpec == Spec /\ Fairness

-----------------------------------------------------------------------------

\* Types; that no deferral gives back a retry that was not counted (used stays a
\* natural number), and that only watchdogs of known attempts are pending.
TypeOK ==
    /\ kind \in Kinds
    /\ rec \in States
    /\ jobs \subseteq {Watchdog(s) : s \in Attempts} \cup {Dispatch}
    /\ beaten \subseteq jobs \ {Dispatch}
    /\ post \in States \cup {None} /\ touch \in States \cup {None}
    /\ result = None \/ result \in [session : Attempts, outcome : Outcomes,
                            via : {"untracked", "initial", "continuation"}]
    /\ run \in [Attempts -> {"none", "queued", "executing", "gone"}]
    /\ rows \in [Attempts -> {"none", "running", "completed", "failed"}]
    /\ mapped \subseteq Attempts
    /\ callbacks \subseteq [session : Attempts, outcome : Outcomes]
    /\ marker \in {"none", "answer", "empty"}
    /\ delivered \in 0 .. 2 /\ told \subseteq {"failed", "apology", "queued"}
    /\ {stopped, owed, clean, dropped} \subseteq BOOLEAN /\ restarts \in 0 .. MaxRestarts

\* A superseded attempt or a callback sent again never posts a second answer:
\* only a save over another handler's save, or an attempt recovery does not
\* know of, can make a root answer twice.  (handleRunCompletion's stale check,
\* the marker read before a retry and replayed by the runtime.)
AnswersOnce == clean => delivered <= 1

\* After cancelRunRecovery nothing more is answered, whatever jobs and
\* callbacks were already under way, unless a copy taken before it is saved
\* over it.
StopHolds == [][stopped /\ clean' => delivered' = delivered]_vars

\* Over restarts, lost jobs, deferrals and repeated failures the runtime is given
\* no more attempts than the registration allows: the first and MaxRetries.
AttemptsBounded ==
    clean => Cardinality({s \in Attempts : run[s] # "none"}) <= 1 + MaxRetries


\* A retry's empty answer is left to recovery, which "owns the one terminal
\* notice": a root settled after that has answered or told the user so.  (Kept to
\* the case where the runtime recorded the empty answer as its result.)
RecoveryOwnsTheNotice ==
    owed /\ marker = "empty" /\ clean /\ rec.status # "running" /\ Notifies /\ ~stopped
        => delivered > 0 \/ told # {}
=============================================================================
