---------------------------- MODULE RunOwnership ----------------------------
(***************************************************************************)
(* One run in the claw runtime's queue: BullMQ delivers its job to a pod   *)
(* and delivers it again when the pod stalls; the owner key in Redis says  *)
(* which attempt may speak for the run.  A pod has two threads: the main   *)
(* one, which runs attempts and may freeze, and the watchdog, which keeps  *)
(* the pod's alive key and the owner keys fresh and reports a lost one.    *)
(*                                                                         *)
(*   src/apps/xyne-claw/src/run-ownership.ts                               *)
(*   src/apps/xyne-claw/src/run-queue-worker.ts                            *)
(*   src/apps/xyne-claw/src/loop-watchdog.ts                               *)
(*   src/apps/xyne-claw/src/routes/run.ts (callback, abort, marker)        *)
(*                                                                         *)
(* An attempt is its owner token.  The maps a pod keeps per session        *)
(* (ownedSessions, the watchdog's owned, fencedSessions, activeRuns) are   *)
(* one cell each here, since there is one session.                         *)
(***************************************************************************)
EXTENDS Naturals, FiniteSets

CONSTANTS
    None,
    Pods,
    MaxAttempts,     \* bound: deliveries of the job
    MaxStalled,      \* maxStalledCount
    MaxAccidents,    \* bound: freezes, crashes, cuts, drains, time-outs
    CutCosts,        \* bound: accidents that a pod's losing Redis counts for
    Keyed            \* whether the payload carries an idempotencyKey

Attempts == 1 .. MaxAttempts

ASSUME OwnershipAssumption ==
    /\ None \notin Pods \cup Attempts /\ Pods # {}
    /\ MaxAttempts \in Nat \ {0} /\ MaxStalled \in Nat /\ MaxAccidents \in Nat
    /\ CutCosts \in Nat \ {0} /\ Keyed \in BOOLEAN

VARIABLES
    job,        \* BullMQ: "waiting", "active", "done" or "failed"
    runner,     \* the attempt that holds the job's lock
    stalls,     \* how often the job was found stalled
    key,        \* claw:run-owner:<session>, the token of an attempt
    alive,      \* the pods whose claw:pod-alive key exists
    pods,       \* each pod: "up", "frozen" or "dead"
    cut,        \* the pods that cannot reach Redis
    owned,      \* the watchdog's token, per pod
    sessions,   \* ownedSessions: the main thread's token, per pod
    lost,       \* losses the watchdog has reported and the main thread not read
    fenced,     \* the pods whose session is fenced
    active,     \* activeRuns: "none", "live" or "aborted", per pod
    att,        \* each attempt: its pod, the dead holder it saw, its phase in
                \* runClaimedJob and its stage in the run, fencedOut, and
                \* whether its abort signal is set
    marker,     \* the result marker: "none", "late" when only attempts that had
                \* timed out have written it, or "kept"
    wasCut,     \* some pod has lost Redis
    slipped,    \* pods that froze between a claim and its registration until
                \* the key lapsed
    accidents

registry == <<key, alive>>
threads == <<owned, sessions, lost, fenced, active>>
queue == <<job, runner, stalls>>
past == <<wasCut, slipped>>
vars == <<queue, registry, pods, cut, threads, att, marker, past, accidents>>

\* "claiming" has inspected; "labelling" has claimed and posts its progress
\* label; "gone" timed out and not yet told so; "ending", "yielding" and
\* "timedout" are before the finally of runClaimedJob
Phases == {"none", "claiming", "labelling", "running", "ending", "yielding",
           "timedout", "gone", "over"}

\* of the run: before the marker is looked for, at work, at work although there
\* is a marker, which could not be read, the work done and the marker being
\* written, the callback owed
Stages == {"start", "work", "again", "mark", "tell"}

Init ==
    /\ job = "waiting" /\ runner = None /\ stalls = 0
    /\ key = None /\ alive = Pods
    /\ pods = [p \in Pods |-> "up"] /\ cut = {}
    /\ owned = [p \in Pods |-> None] /\ sessions = [p \in Pods |-> None]
    /\ lost = {} /\ fenced = {} /\ active = [p \in Pods |-> "none"]
    /\ att = [a \in Attempts |-> [pod |-> None, took |-> None, phase |-> "none",
                                  stage |-> "start", out |-> FALSE, halted |-> FALSE]]
    /\ marker = "none"
    /\ wasCut = FALSE /\ slipped = {} /\ accidents = 0

Accident == accidents < MaxAccidents /\ accidents' = accidents + 1
PodOf(a) == att[a].pod
Running(a) == att[a].phase \in {"running", "ending", "yielding", "timedout"}
Labelling(a) == att[a].phase = "labelling"
Up(a) == PodOf(a) # None /\ pods[PodOf(a)] = "up"
Phase(a, ph) == [att EXCEPT ![a].phase = ph]
\* an attempt that is over remembers nothing
Over(a) == [pod |-> PodOf(a), took |-> None, phase |-> "over", stage |-> "start",
            out |-> FALSE, halted |-> FALSE]
Stage(a, st) == [att EXCEPT ![a].stage = st]
\* the run goes on, whether or not runClaimedJob still waits for it
GoesOn(a) == att[a].phase \in {"running", "gone"} /\ Up(a)

(***************************************************************************)
(* The scripts of run-ownership.ts.                                        *)
(***************************************************************************)
\* OWNERSHIP_CLAIM_SCRIPT
\* a mutant: whoever found a dead holder may replace any holder
ClaimsFromAnyone(a) == key \in {None, a} \/ att[a].took # None
Claims(a) == key \in {None, a} \/ (att[a].took # None /\ key = att[a].took)

\* OWNERSHIP_REFRESH_SCRIPT
Keeps(a) == key \in {None, a}

\* inspectOwner: a holder is alive while the alive key of its pod exists
\* a mutant: a holder whose main thread does not answer counts as dead
AnswersOnly == key # None /\ pods[PodOf(key)] = "up"
AliveOther == key # None /\ PodOf(key) \in alive

(***************************************************************************)
(* The worker.  A delivery whose holder is alive is delayed and comes      *)
(* again, which leaves nothing behind and is no step here; so is one under *)
(* pressure or over the concurrency limit.                                 *)
(***************************************************************************)
Deliver(p) ==
    /\ job = "waiting" /\ pods[p] = "up" /\ p \notin cut /\ ~AliveOther
    /\ \E a \in Attempts :
        /\ att[a].phase = "none" /\ \A b \in Attempts : b < a => att[b].phase # "none"
        /\ att' = [att EXCEPT ![a].pod = p, ![a].took = key, ![a].phase = "claiming"]
        /\ job' = "active" /\ runner' = a
    /\ UNCHANGED <<stalls, registry, pods, cut, threads, marker, past, accidents>>

Claimed(a) == [att EXCEPT ![a].phase = "labelling", ![a].took = None]
Claim(a) ==
    /\ att[a].phase = "claiming" /\ Up(a)
    /\ \/ /\ PodOf(a) \notin cut /\ Claims(a)
          /\ key' = a /\ att' = Claimed(a) /\ UNCHANGED queue
       \/ /\ PodOf(a) \in cut                       \* fails open
          /\ att' = Claimed(a) /\ UNCHANGED <<key, queue>>
       \/ /\ PodOf(a) \notin cut /\ ~Claims(a)       \* another was first
          /\ att' = [att EXCEPT ![a] = Over(a)]
          /\ job' = (IF runner = a THEN "waiting" ELSE job)
          /\ runner' = (IF runner = a THEN None ELSE runner)
          /\ UNCHANGED <<stalls, key>>
    /\ UNCHANGED <<alive, pods, cut, threads, marker, past, accidents>>

\* the label is posted: registerOwnedSession tells the watchdog, and the run
\* starts; a second attempt of a pod shares the activeRuns entry it finds, and
\* its abort signal
Register(a) ==
    LET p == PodOf(a) IN
    /\ Labelling(a) /\ Up(a)
    /\ sessions' = [sessions EXCEPT ![p] = a] /\ owned' = [owned EXCEPT ![p] = a]
    /\ att' = [att EXCEPT ![a].phase = "running", ![a].halted = (active[p] = "aborted")]
    /\ active' = [active EXCEPT ![p] = IF @ = "none" THEN "live" ELSE @]
    /\ UNCHANGED <<queue, registry, pods, cut, lost, fenced, marker, past, accidents>>

\* a payload with an idempotencyKey whose marker exists is replayed; a marker
\* that cannot be read counts as none
Found == Keyed /\ marker # "none"
Look(a) ==
    /\ GoesOn(a) /\ att[a].stage = "start"
    /\ \/ Found /\ att' = Stage(a, "tell") /\ UNCHANGED accidents
       \/ ~Found /\ att' = Stage(a, "work") /\ UNCHANGED accidents
       \/ Found /\ Accident /\ att' = Stage(a, "again")
    /\ UNCHANGED <<queue, registry, pods, cut, threads, marker, past>>

AtWork(a) == att[a].stage \in {"work", "again"}
Finish(a) ==
    /\ GoesOn(a) /\ AtWork(a) /\ ~att[a].halted /\ att' = Stage(a, "mark")
    /\ UNCHANGED <<queue, registry, pods, cut, threads, marker, past, accidents>>

\* the marker is written before the callback, if its upload succeeds; a run that
\* ends in a terminal tool writes none
Mark(a) ==
    /\ GoesOn(a) /\ att[a].stage = "mark" /\ att' = Stage(a, "tell")
    /\ \/ UNCHANGED marker
       \/ marker' = IF att[a].phase = "running" \/ marker = "kept" THEN "kept" ELSE "late"
    /\ UNCHANGED <<queue, registry, pods, cut, threads, past, accidents>>

\* the terminal callback, of a run that worked, replays or was aborted, unless
\* the session is fenced; the run's activeRuns entry goes
Speaks(a) == PodOf(a) \notin fenced
Ended(a) == IF att[a].phase = "gone" THEN [att EXCEPT ![a] = Over(a)] ELSE Phase(a, "ending")
Tell(a) ==
    /\ GoesOn(a) /\ (att[a].stage = "tell" \/ (AtWork(a) /\ att[a].halted))
    /\ active' = [active EXCEPT ![PodOf(a)] = "none"]
    /\ att' = Ended(a)
    /\ UNCHANGED <<queue, registry, pods, cut, owned, sessions, lost, fenced,
                   marker, past, accidents>>

\* a draining pod stops the run at a turn; the job goes back to the queue
Yield(a) ==
    /\ att[a].phase = "running" /\ Up(a) /\ AtWork(a) /\ ~att[a].halted /\ Accident
    /\ active' = [active EXCEPT ![PodOf(a)] = "none"]
    /\ att' = Phase(a, "yielding")
    /\ UNCHANGED <<queue, registry, pods, cut, owned, sessions, lost, fenced, marker, past>>

\* abortRunForOwnershipLoss: the signal of the entry in activeRuns
Halted(p) ==
    [a \in Attempts |->
        IF active[p] = "live" /\ PodOf(a) = p /\ att[a].phase = "running"
        THEN [att[a] EXCEPT !.halted = TRUE] ELSE att[a]]
Aborted(p) == [active EXCEPT ![p] = IF @ = "live" THEN "aborted" ELSE @]

TimeOut(a) ==
    /\ att[a].phase = "running" /\ Up(a) /\ Accident
    /\ att' = [Halted(PodOf(a)) EXCEPT ![a].phase = "timedout", ![a].out = TRUE]
    /\ active' = Aborted(PodOf(a))
    /\ UNCHANGED <<queue, registry, pods, cut, owned, sessions, lost, fenced, marker, past>>

\* the finally of runClaimedJob and what follows it: it clears the cells of
\* the session whoever filled them, and BullMQ takes the outcome only from
\* the attempt that holds the job
\* a mutant: the watchdog is not told
StillOwned(p) == owned
Disowned(p) == [owned EXCEPT ![p] = None]
Close(a) ==
    LET p == PodOf(a) IN
    /\ att[a].phase \in {"ending", "yielding", "timedout"} /\ Up(a)
    /\ sessions' = [sessions EXCEPT ![p] = None] /\ owned' = Disowned(p)
    /\ fenced' = fenced \ {p}
    /\ key' = IF key = a /\ p \notin cut /\ (~att[a].out \/ att[a].phase = "timedout")
              THEN None ELSE key
    /\ IF runner = a /\ p \notin cut
       THEN /\ runner' = None
            /\ job' = IF att[a].phase = "yielding" THEN "waiting" ELSE "done"
       ELSE UNCHANGED <<job, runner>>
    /\ att' = IF att[a].phase = "timedout" THEN Phase(a, "gone") ELSE [att EXCEPT ![a] = Over(a)]
    /\ UNCHANGED <<stalls, alive, pods, cut, lost, active, marker, past, accidents>>

(***************************************************************************)
(* The watchdog thread, which a frozen main thread does not stop, and the  *)
(* main thread that reads its reports.                                     *)
(***************************************************************************)
Reaches(p) == pods[p] # "dead" /\ p \notin cut

Refresh(p) ==
    /\ Reaches(p) /\ owned[p] # None
    /\ IF Keeps(owned[p])
       THEN key' = owned[p] /\ UNCHANGED <<owned, lost>>
       ELSE /\ lost' = lost \cup {owned[p]}
            /\ owned' = [owned EXCEPT ![p] = None] /\ UNCHANGED key
    /\ UNCHANGED <<queue, alive, pods, cut, sessions, fenced, active, att, marker, past, accidents>>

Touch(p) ==
    /\ Reaches(p) /\ alive' = alive \cup {p}
    /\ UNCHANGED <<queue, key, pods, cut, threads, att, marker, past, accidents>>

\* handleOwnershipLoss: the session is fenced
FenceSession(a) == PodOf(a)
Hear(a) ==
    LET p == PodOf(a) IN
    /\ a \in lost /\ Up(a)
    /\ lost' = lost \ {a}
    /\ sessions' = IF sessions[p] = a THEN [sessions EXCEPT ![p] = None] ELSE sessions
    /\ IF sessions[p] = a /\ ~att[a].out
       THEN /\ fenced' = fenced \cup {FenceSession(a)} /\ active' = Aborted(p)
            /\ att' = [Halted(p) EXCEPT ![a].out = TRUE]
       ELSE UNCHANGED <<fenced, active, att>>
    /\ UNCHANGED <<queue, registry, pods, cut, owned, marker, past, accidents>>

(***************************************************************************)
(* Time: keys that nobody refreshes lapse, a job whose lock nobody renews  *)
(* is found stalled.                                                       *)
(***************************************************************************)
Refreshed == key # None /\ Reaches(PodOf(key)) /\ owned[PodOf(key)] = key
\* a label takes five seconds at most, a key lasts three minutes
Fresh == key # None /\ Labelling(key) /\ Up(key)

KeyLapses ==
    /\ key # None /\ ~Refreshed /\ ~Fresh /\ key' = None
    /\ slipped' = IF Labelling(key) THEN slipped \cup {PodOf(key)} ELSE slipped
    /\ UNCHANGED <<queue, alive, pods, cut, threads, att, marker, wasCut, accidents>>

AliveLapses(p) ==
    /\ p \in alive /\ ~Reaches(p) /\ alive' = alive \ {p}
    /\ UNCHANGED <<queue, key, pods, cut, threads, att, marker, past, accidents>>

Renewed(a) == Up(a) /\ PodOf(a) \notin cut /\ att[a].phase # "over"

\* the error of a job that stalled too often is posted if no marker exists
Stall ==
    /\ job = "active" /\ runner # None /\ ~Renewed(runner)
    /\ stalls' = stalls + 1 /\ runner' = None
    /\ job' = IF stalls < MaxStalled THEN "waiting" ELSE "failed"
    /\ UNCHANGED <<registry, pods, cut, threads, att, marker, past, accidents>>

(***************************************************************************)
(* The pods.                                                               *)
(***************************************************************************)
Freeze(p) ==
    /\ pods[p] = "up" /\ Accident /\ pods' = [pods EXCEPT ![p] = "frozen"]
    /\ UNCHANGED <<queue, registry, cut, threads, att, marker, past>>

Thaw(p) ==
    /\ pods[p] = "frozen" /\ pods' = [pods EXCEPT ![p] = "up"]
    /\ UNCHANGED <<queue, registry, cut, threads, att, marker, past, accidents>>

Crash(p) ==
    /\ pods[p] # "dead" /\ Accident /\ pods' = [pods EXCEPT ![p] = "dead"]
    /\ att' = [a \in Attempts |-> IF PodOf(a) = p THEN Over(a) ELSE att[a]]
    /\ owned' = [owned EXCEPT ![p] = None] /\ sessions' = [sessions EXCEPT ![p] = None]
    /\ lost' = {a \in lost : PodOf(a) # p} /\ fenced' = fenced \ {p}
    /\ active' = [active EXCEPT ![p] = "none"]
    /\ UNCHANGED <<queue, registry, cut, marker, past>>

\* a pod that starts again keeps its name and writes its alive key
Restart(p) ==
    /\ pods[p] = "dead" /\ p \notin cut
    /\ pods' = [pods EXCEPT ![p] = "up"] /\ alive' = alive \cup {p}
    /\ UNCHANGED <<queue, key, cut, threads, att, marker, past, accidents>>

Cut(p) ==
    /\ p \notin cut /\ accidents + CutCosts <= MaxAccidents /\ accidents' = accidents + CutCosts
    /\ cut' = cut \cup {p} /\ wasCut' = TRUE
    /\ UNCHANGED <<queue, registry, pods, threads, att, marker, slipped>>

Heal(p) ==
    /\ p \in cut /\ cut' = cut \ {p}
    /\ UNCHANGED <<queue, registry, pods, threads, att, marker, past, accidents>>

Runs(a) ==
    Claim(a) \/ Register(a) \/ Look(a) \/ Finish(a) \/ Mark(a) \/ Tell(a) \/ Close(a)
Watches(p) == Refresh(p) \/ Touch(p)
Lapses == KeyLapses \/ \E p \in Pods : AliveLapses(p)
Recovers(p) == Thaw(p) \/ Restart(p) \/ Heal(p)

Next ==
    \/ \E p \in Pods : \/ Deliver(p) \/ Watches(p) \/ Recovers(p)
                      \/ Freeze(p) \/ Crash(p) \/ Cut(p)
    \/ \E a \in Attempts : Runs(a) \/ Hear(a) \/ Yield(a) \/ TimeOut(a)
    \/ Lapses \/ Stall

Spec == Init /\ [][Next]_vars

\* the threads run, keys lapse, stalled jobs are found, pods come back; a run
\* ends because raceRunDeadline bounds it
FairSpec ==
    /\ Spec
    /\ \A p \in Pods : WF_vars(Watches(p)) /\ WF_vars(Recovers(p))
    /\ \A a \in Attempts : WF_vars(Runs(a) \/ Hear(a))
    /\ WF_vars(\E p \in Pods : Deliver(p)) /\ WF_vars(Lapses) /\ WF_vars(Stall)

-----------------------------------------------------------------------------

\* Types; that what is fenced is a pod's session and never a token, and that a job
\* is found stalled at most once more than MaxStalled.
TypeOK ==
    /\ job \in {"waiting", "active", "done", "failed"}
    /\ runner \in Attempts \cup {None} /\ stalls \in 0 .. MaxStalled + 1
    /\ key \in Attempts \cup {None} /\ alive \subseteq Pods
    /\ pods \in [Pods -> {"up", "frozen", "dead"}] /\ cut \subseteq Pods
    /\ owned \in [Pods -> Attempts \cup {None}]
    /\ sessions \in [Pods -> Attempts \cup {None}]
    /\ lost \subseteq Attempts /\ fenced \subseteq Pods
    /\ active \in [Pods -> {"none", "live", "aborted"}]
    /\ att \in [Attempts -> [pod : Pods \cup {None}, took : Attempts \cup {None},
                            phase : Phases, stage : Stages,
                            out : BOOLEAN, halted : BOOLEAN]]
    /\ marker \in {"none", "late", "kept"}
    /\ wasCut \in BOOLEAN /\ slipped \subseteq Pods /\ accidents \in 0 .. MaxAccidents

\* "two workers racing for the same session cannot both win" (run-ownership.ts,
\* header): as long as no pod has lost Redis, an attempt that has claimed the run
\* or runs, its pod frozen or not, is the holder.  Left out are the attempts of a
\* pod that froze between a claim and its registration, when the watchdog does
\* not know the key, for as long as the key lasts.
RunnerOwns ==
    ~wasCut => \A a \in Attempts :
                  (Labelling(a) \/ Running(a)) /\ PodOf(a) \notin slipped => key = a

\* "this run already finished ... replay the cached result instead of
\* re-executing" (run.ts, the idempotency check): once an attempt that has not
\* timed out has written the marker, freezes, stalls, crashes and time-outs let
\* no attempt do the work any more but one that could not read the marker; with
\* a key, Redis in reach, and no key lapsed before its registration.
WorkOnce ==
    [][Keyed /\ ~wasCut /\ slipped = {} /\ marker = "kept"
          => \A a \in Attempts : ~(att[a].stage = "work" /\ att'[a].stage = "mark")]_vars

\* An attempt whose main thread has learned that it lost the run posts
\* nothing more, also after its pod has run another attempt.
FencedSilent ==
    [][\A a \in Attempts : Tell(a) /\ Speaks(a) /\ att[a].out => att[a].phase = "gone"]_vars

\* The job ends: no freeze, crash, cut, drain or time-out leaves it deferred
\* to an owner that will never finish (while deliveries are left).
JobEnds == <>(job \in {"done", "failed"} \/ \A a \in Attempts : att[a].phase # "none")

\* "a frozen pod keeps its ownership even while its main thread is stuck"
\* (run-ownership.ts, header), from the claim on: without RunnerOwns' exception.
FrozenKeeps ==
    ~wasCut => \A a \in Attempts : Labelling(a) \/ Running(a) => key = a

\* "the moment the key is held by ANOTHER runner every output channel goes
\* silent" (run-ownership.ts, header).
StaleSilent == [][\A a \in Attempts : Tell(a) /\ Speaks(a) => key \in {None, a}]_vars

=============================================================================
