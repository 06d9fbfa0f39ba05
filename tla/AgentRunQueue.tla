--------------------------- MODULE AgentRunQueue ---------------------------
(***************************************************************************)
(* How many runs of one write-enabled agent are at work at a time: the     *)
(* slots, the queue of automations that found none, and the drainers, one  *)
(* per process, that free the slots of settled runs and dispatch what      *)
(* waits.                                                                  *)
(*                                                                         *)
(*   src/apps/xyne-claw-auth/backend/src/lib/agent-run-queue.ts            *)
(*   src/apps/xyne-claw-auth/backend/src/routes/webhook.ts (automations)   *)
(*   src/apps/xyne-claw-auth/backend/src/queue/scheduled-jobs-worker.ts    *)
(*                                                                         *)
(* A Lua script is one step, each await of a handler or a drainer ends     *)
(* one.  A scheduled run's slot keeps its name here when it is rebound to  *)
(* the session the run was given.                                          *)
(***************************************************************************)
EXTENDS Naturals, FiniteSets, Sequences

CONSTANTS
    Null,
    Tasks,           \* automations and scheduled runs of the agent
    Scheduled,       \* those that a scheduled job starts
    Processes,       \* each has a drainer
    MaxConcurrent,   \* WRITE_AUTOMATION_MAX_CONCURRENT
    QueueCap,        \* AGENT_RUN_QUEUE_CAP
    MaxTries,        \* MAX_DISPATCH_ATTEMPTS
    Mishaps,         \* which of Kinds can happen
    MaxMishaps       \* bound

Kinds == {"outage", "unanswered", "unrecorded", "lapse", "resend", "crash"}

ASSUME AgentAssumption ==
    /\ IsFiniteSet(Tasks) /\ Scheduled \subseteq Tasks /\ Null \notin Tasks
    /\ MaxConcurrent \in Nat \ {0} /\ QueueCap \in Nat /\ MaxTries \in Nat \ {0}
    /\ Mishaps \subseteq Kinds /\ MaxMishaps \in Nat
    /\ Null \notin Nat /\ Processes \cap {"listed", "left", "started"} = {}

VARIABLES
    slots,      \* the members of claw:agent-runq:slots
    fifo,       \* claw:agent-runq:queue
    payload,    \* claw:agent-runq:payloads: attempts of a waiting run, or Null
    registered, \* the agent is in claw:agent-runq:agents
    ingress,    \* each run at its handler: "new", "held" (may dispatch),
                \* "refused" (about to queue), "over"
    work,       \* the run itself: "none", "running", "dark" (no row), "ended"
    at,         \* where each drainer is
    settled,    \* the runs it has read as settled
    taken,      \* the run it has popped, or Null
    tries,      \* and how often it was tried
    fate,       \* runs that left otherwise: handed over, dropped, turned away
    mishaps,
    happened    \* kinds of mishap so far

drainer == <<at, settled, taken, tries>>
agentVars == <<slots, fifo, payload, registered, ingress, work, drainer,
               fate, mishaps, happened>>

AgentInit ==
    /\ slots = {} /\ fifo = <<>> /\ payload = [r \in Tasks |-> Null]
    /\ registered = FALSE
    /\ ingress = [r \in Tasks |-> "new"] /\ work = [r \in Tasks |-> "none"]
    /\ at = [p \in Processes |-> "idle"] /\ settled = [p \in Processes |-> {}]
    /\ taken = [p \in Processes |-> Null] /\ tries = [p \in Processes |-> 0]
    /\ fate = {} /\ mishaps = 0 /\ happened = {}

Mishap(kind) ==
    /\ kind \in Mishaps /\ mishaps < MaxMishaps
    /\ mishaps' = mishaps + 1 /\ happened' = happened \cup {kind}
Well == UNCHANGED <<mishaps, happened>>

Waits(r) == payload[r] # Null
Carries(p, r) == at[p] = "dispatching" /\ taken[p] = r
InDispatch(r) == ingress[r] = "held" \/ \E p \in Processes : Carries(p, r)
AtWork(r) == work[r] \in {"running", "dark"}

(***************************************************************************)
(* ADMIT_LUA, ENQUEUE_LUA and their callers.                               *)
(***************************************************************************)
Admits(r) == r \in slots \/ Cardinality(slots) < MaxConcurrent

\* a scheduled job that is refused waits and asks again
Admit(r) ==
    /\ ingress[r] = "new"
    /\ \/ /\ Admits(r) /\ Well
          /\ slots' = slots \cup {r} /\ registered' = TRUE
          /\ ingress' = [ingress EXCEPT ![r] = "held"]
       \/ /\ ~Admits(r) /\ r \notin Scheduled /\ Well
          /\ ingress' = [ingress EXCEPT ![r] = "refused"]
          /\ UNCHANGED <<slots, registered>>
       \/ /\ Mishap("outage")                            \* fails open
          /\ ingress' = [ingress EXCEPT ![r] = "held"]
          /\ UNCHANGED <<slots, registered>>
    /\ UNCHANGED <<fifo, payload, work, drainer, fate>>

Known(r) == Waits(r) \/ r \in slots

Enqueue(r) ==
    /\ ingress[r] = "refused"
    /\ ingress' = [ingress EXCEPT ![r] = "over"]
    /\ IF Known(r)
       THEN UNCHANGED <<fifo, payload, registered, fate>>
       ELSE IF Len(fifo) >= QueueCap
       THEN fate' = fate \cup {r} /\ UNCHANGED <<fifo, payload, registered>>
       ELSE /\ payload' = [payload EXCEPT ![r] = 0] /\ fifo' = Append(fifo, r)
            /\ registered' = TRUE /\ UNCHANGED fate
    /\ Well /\ UNCHANGED <<slots, work, drainer>>

\* what comes of posting /internal/run, for r and the slot it frees: accepted,
\* refused, or accepted and not answered within the time-out; the row of an
\* accepted run is written without waiting
Took(r) ==
    \/ work' = [work EXCEPT ![r] = "running"] /\ Well
    \/ work' = [work EXCEPT ![r] = "dark"] /\ Mishap("unrecorded")
Failed(r) ==
    \/ UNCHANGED work /\ Well
    \/ work' = [work EXCEPT ![r] = "running"] /\ Mishap("unanswered")

DispatchHeld(r) ==
    /\ ingress[r] = "held" /\ ingress' = [ingress EXCEPT ![r] = "over"]
    /\ \/ Took(r) /\ UNCHANGED <<slots, fate>>
       \/ Failed(r) /\ slots' = slots \ {r} /\ fate' = fate \cup {r}
    /\ UNCHANGED <<fifo, payload, registered, drainer>>

End(r) ==
    /\ AtWork(r) /\ work' = [work EXCEPT ![r] = "ended"]
    /\ Well /\ UNCHANGED <<slots, fifo, payload, registered, ingress, drainer, fate>>

(***************************************************************************)
(* The drainer of a process (drainAgent).                                  *)
(***************************************************************************)
Go(p, pc) == at' = [at EXCEPT ![p] = pc]
\* the drainer is done with the run it popped
Done(p) == taken' = [taken EXCEPT ![p] = Null] /\ tries' = [tries EXCEPT ![p] = 0]

\* runSettled; an undispatched run's slot is given UNDISPATCHED_GRACE_MS, which
\* outlasts a dispatch
\* mutants: no grace; a slot whose run has no row is never given back
EndedOnly(r) == work[r] = "ended"
SettledNow(r) == work[r] \in {"ended", "none", "dark"}
Settled(r) == work[r] = "ended" \/ (work[r] \in {"none", "dark"} /\ ~InDispatch(r))

Wake(p) ==
    /\ at[p] = "idle" /\ registered /\ Go(p, "settling")
    /\ settled' = [settled EXCEPT ![p] = {r \in slots : Settled(r)}]
    /\ Well /\ UNCHANGED <<slots, fifo, payload, registered, ingress, work, taken, tries, fate>>

Sweep(p) ==
    /\ at[p] = "settling" /\ Go(p, "popping")
    /\ slots' = slots \ settled[p] /\ settled' = [settled EXCEPT ![p] = {}]
    /\ Well /\ UNCHANGED <<fifo, payload, registered, ingress, work, taken, tries, fate>>

\* POP_LUA: the first entry that has a payload, the ones before it are dropped
Poppable == {i \in 1 .. Len(fifo) : Waits(fifo[i])}

Pop(p) ==
    /\ at[p] = "popping"
    /\ \/ /\ Cardinality(slots) < MaxConcurrent
          /\ \E i \in Poppable : LET r == fifo[i] IN
             /\ \A j \in Poppable : i <= j
             /\ Go(p, "dispatching") /\ taken' = [taken EXCEPT ![p] = r]
             /\ tries' = [tries EXCEPT ![p] = payload[r]]
             /\ slots' = slots \cup {r} /\ payload' = [payload EXCEPT ![r] = Null]
             /\ fifo' = SubSeq(fifo, i + 1, Len(fifo))
       \/ /\ Cardinality(slots) >= MaxConcurrent \/ Poppable = {}
          /\ fifo' = IF Cardinality(slots) < MaxConcurrent THEN <<>> ELSE fifo
          /\ Go(p, "counting") /\ UNCHANGED <<slots, payload, taken, tries>>
    /\ Well /\ UNCHANGED <<registered, ingress, work, settled, fate>>

\* a mutant: off by one
OneTryMore(p) == tries[p] + 1 <= MaxTries
TriesLeft(p) == tries[p] + 1 < MaxTries

\* the automation is dispatched: accepted; absorbed, because a newer attempt of
\* its step has come; moved to the queue of its conversation, or refused; or
\* failed, which is tried MaxTries times
Accepted(r) == Took(r) /\ UNCHANGED <<slots, fate>>
Absorbed(r) == Well /\ UNCHANGED <<slots, work>> /\ fate' = fate \cup {r}
HandedOff(r) == Well /\ UNCHANGED work /\ slots' = slots \ {r} /\ fate' = fate \cup {r}
PutBack(r) == Failed(r) /\ slots' = slots \ {r} /\ UNCHANGED fate
Dropped(r) == Failed(r) /\ slots' = slots \ {r} /\ fate' = fate \cup {r}

Outcome(p) ==
    LET r == taken[p] IN
    /\ at[p] = "dispatching"
    /\ \/ /\ \/ Accepted(r) \/ Absorbed(r) \/ HandedOff(r)
             \/ ~TriesLeft(p) /\ Dropped(r)
          /\ Go(p, "popping") /\ Done(p)
       \/ TriesLeft(p) /\ PutBack(r) /\ Go(p, "requeueing") /\ UNCHANGED <<taken, tries>>
    /\ UNCHANGED <<fifo, payload, registered, ingress, settled>>

\* requeueAtHead
\* a mutant: only the identifier is pushed back
Unpacked(p) == payload
Repacked(p) == [payload EXCEPT ![taken[p]] = tries[p] + 1]

PutAtHead(p) ==
    /\ at[p] = "requeueing" /\ Go(p, "counting") /\ Done(p)
    /\ fifo' = <<taken[p]>> \o fifo /\ payload' = Repacked(p)
    /\ Well /\ UNCHANGED <<slots, registered, ingress, work, settled, fate>>

\* the two counts are read, then the agent may be taken off the list
Count(p) ==
    /\ at[p] = "counting"
    /\ Go(p, IF slots = {} /\ fifo = <<>> THEN "leaving" ELSE "idle")
    /\ Well /\ UNCHANGED <<slots, fifo, payload, registered, ingress, work,
                           settled, taken, tries, fate>>

Leave(p) ==
    /\ at[p] = "leaving" /\ Go(p, "idle") /\ registered' = FALSE
    /\ Well /\ UNCHANGED <<slots, fifo, payload, ingress, work, settled, taken, tries, fate>>

(***************************************************************************)
(* Mishaps: a slot's lease runs out under a long run, the same dispatch id *)
(* or job comes again, a process ends or loses Redis.                      *)
(***************************************************************************)
Lapse(r) ==
    /\ r \in slots /\ Mishap("lapse") /\ slots' = slots \ {r}
    /\ UNCHANGED <<fifo, payload, registered, ingress, work, drainer, fate>>

Resend(r) ==
    /\ ingress[r] = "over" /\ Mishap("resend")
    /\ ingress' = [ingress EXCEPT ![r] = "new"]
    /\ UNCHANGED <<slots, fifo, payload, registered, work, drainer, fate>>

Abandon(r) ==
    /\ ingress[r] \in {"held", "refused"} /\ Mishap("crash")
    /\ ingress' = [ingress EXCEPT ![r] = "over"]
    /\ UNCHANGED <<slots, fifo, payload, registered, work, drainer, fate>>

DrainerEnds(p) ==
    /\ at[p] # "idle" /\ Mishap("crash")
    /\ Go(p, "idle") /\ settled' = [settled EXCEPT ![p] = {}] /\ Done(p)
    /\ UNCHANGED <<slots, fifo, payload, registered, ingress, work, fate>>

Handler(r) == Admit(r) \/ Enqueue(r) \/ DispatchHeld(r)
Drain(p) == \/ Wake(p) \/ Sweep(p) \/ Pop(p) \/ Outcome(p)
            \/ PutAtHead(p) \/ Count(p) \/ Leave(p)

AgentNext ==
    \/ \E r \in Tasks : Handler(r) \/ End(r) \/ Lapse(r) \/ Resend(r) \/ Abandon(r)
    \/ \E p \in Processes : Drain(p) \/ DrainerEnds(p)

AgentSpec == AgentInit /\ [][AgentNext]_agentVars

\* every process drains every DRAIN_INTERVAL_MS, handlers go on, runs end
AgentFairSpec ==
    /\ AgentSpec
    /\ \A r \in Tasks : WF_agentVars(Enqueue(r) \/ DispatchHeld(r)) /\ WF_agentVars(End(r))
    /\ \A p \in Processes : WF_agentVars(Drain(p))

-----------------------------------------------------------------------------

\* Types, and the bound on the attempts a payload or a drainer carries: one that
\* has failed MaxTries times is dropped and never put back.
AgentTypeOK ==
    /\ slots \subseteq Tasks /\ fifo \in Seq(Tasks)
    /\ payload \in [Tasks -> 0 .. MaxTries - 1 \cup {Null}]
    /\ registered \in BOOLEAN
    /\ ingress \in [Tasks -> {"new", "held", "refused", "over"}]
    /\ work \in [Tasks -> {"none", "running", "dark", "ended"}]
    /\ at \in [Processes -> {"idle", "settling", "popping", "dispatching",
                             "requeueing", "counting", "leaving"}]
    /\ settled \in [Processes -> SUBSET Tasks]
    /\ taken \in [Processes -> Tasks \cup {Null}]
    /\ tries \in [Processes -> 0 .. MaxTries - 1]
    /\ fate \subseteq Tasks /\ mishaps \in 0 .. MaxMishaps /\ happened \subseteq Mishaps

\* "at most 3 write-enabled automation and scheduled runs per agent"
\* (CHANGELOG.md): the runs at work or being dispatched are never more than the
\* slots, however handlers and the drainers of all processes interleave and
\* wherever one of them ends, unless Redis fails open, a lease lapses, a
\* dispatch goes unanswered, a row is lost or an id comes again.
CapHeld ==
    happened \subseteq {"crash"} =>
        Cardinality({r \in Tasks : AtWork(r) \/ InDispatch(r)}) <= MaxConcurrent

Listed(r) == Waits(r) /\ \E i \in 1 .. Len(fifo) : fifo[i] = r
Requeues(p, r) == at[p] = "requeueing" /\ taken[p] = r

\* A run whose request was answered is in one place: waiting with its payload,
\* or with one drainer, or dispatched, or given up; never lost between the
\* list, the hash and the slots, never in two drainers' hands, never queued
\* and at work at once, unless a process ended or its dispatch was doubtful.
InOnePlace ==
    happened \cap {"crash", "resend", "unanswered"} = {} =>
        \A r \in Tasks : ingress[r] = "over" =>
            Cardinality({x \in {"listed", "left", "started"} \cup Processes :
                \/ x = "listed" /\ Listed(r)
                \/ x = "left" /\ r \in fate
                \/ x = "started" /\ work[r] # "none"
                \/ x \in Processes /\ (Carries(x, r) \/ Requeues(x, r))}) = 1

\* A waiting run is taken from the queue, or a drainer has taken the agent off
\* the list of queues to drain.
WaitingServed == \A r \in Tasks : Listed(r) ~> (~Waits(r) \/ ~registered)

\* In no run: a waiting run's agent is on the list of queues to drain.  A drainer
\* takes the agent off the list by counts read one await earlier, so a run queued
\* between the two is waiting and not listed.
WaitingRegistered == (\E r \in Tasks : Listed(r)) => registered

=============================================================================
