-------------------------- MODULE ConversationQueue --------------------------
(***************************************************************************)
(* One conversation with one agent: the busy slot that lets one run be     *)
(* active, the FIFO of the messages that arrive meanwhile, and the         *)
(* finalizer of each run, which hands the slot on, releases it, or keeps   *)
(* it for the next turn of a goal or the next epoch of an experiment.      *)
(*                                                                         *)
(*   src/apps/xyne-claw-auth/backend/src/lib/message-queue.ts              *)
(*   src/apps/xyne-claw-auth/backend/src/lib/conversation-gate.ts          *)
(*   src/apps/xyne-claw-auth/backend/src/routes/webhook.ts                 *)
(*   src/apps/xyne-claw-auth/backend/src/routes/flow-action.ts             *)
(*   src/apps/xyne-claw/src/session-lock.ts                                *)
(*                                                                         *)
(* The slot and the FIFO are shared by the users of the conversation; the  *)
(* runtime's session lock is per user.  Every Redis script is one step,    *)
(* and so is every handler between two of them: the gate asks for the slot *)
(* and then queues, a drain pops and then dispatches or releases.          *)
(***************************************************************************)
EXTENDS Naturals, Sequences, FiniteSets

CONSTANTS
    None,
    NoClaim,       \* the token of a claim that Redis did not answer
    Messages,      \* the messages that mention the agent
    Plans,         \* the approvals of a plan, dispatched without the slot
    Users,
    UserOf,        \* who asked
    MaxRuns,       \* bound: runs the runtime is given
    Cap,           \* QUEUE_CAP
    MaxAccidents   \* bound: accidents, and the one /stop among them

Askers == Messages \cup Plans
Runs == 1 .. MaxRuns

ASSUME QueueAssumption ==
    /\ Messages \cap Plans = {} /\ None \notin Askers \cup Users
    /\ NoClaim \notin Messages \cup {None}
    /\ Askers \cap Nat = {}
    /\ UserOf \in [Askers -> Users]
    /\ MaxRuns \in Nat \ {0} /\ Cap \in Nat \ {0}
    /\ MaxAccidents \in Nat

\* a QueuedMessage: a message's own, or the one its locked run left behind,
\* whose eventId names that run
Entries == [of : Askers, lock : Runs \cup {0}]
Waiting(m) == [of |-> m, lock |-> 0]

Tokens == Messages \cup {None, NoClaim}
Hands == [token : Tokens, entry : Entries \cup {None}]
StopHandler == 0
Handlers == Askers \cup Runs \cup {StopHandler}

ASSUME NoneAssumption == None \notin Entries \cup Hands

VARIABLES
    slot,      \* the busy marker: the message whose dispatch claimed it
    queue,     \* the FIFO
    seen,      \* its dedupe set, which outlives the entries
    gate,      \* how far the handler of each asker has come
    drain,     \* what drainNextQueued holds in each handler, None outside it
    run,       \* each run: whom it is of, which claim it runs under, its phase
    due,       \* how often the terminal callback of a run has yet to arrive
    lock,      \* the session lock of each user: the run that holds it
    heard,     \* askers an answer or a notice was posted to
    disturbed, \* a run began or a slot was given up outside the chain
    stop,      \* how far the handler of /stop has come
    accidents  \* refusals, repeats, crashes, silences and /stop so far

vars == <<slot, queue, seen, gate, drain, run, due, lock, heard, disturbed, stop, accidents>>

\* of a run whose terminal callback was handled: nothing follows; the next
\* turn of its goal is being sent, or was lost; recovery will try again
Handled == {"over", "continued", "unsent", "retrying"}
Phases == {"none", "starting", "running", "answered", "locked", "gone",
           "dropped"} \cup Handled
Idle == [of |-> None, token |-> None, phase |-> "none"]

Init ==
    /\ slot = None /\ queue = <<>> /\ seen = {}
    /\ gate = [a \in Askers |-> "out"]
    /\ drain = [h \in Handlers |-> None]
    /\ run = [r \in Runs |-> Idle] /\ due = [r \in Runs |-> 0]
    /\ lock = [u \in Users |-> None]
    /\ heard = {} /\ disturbed = FALSE /\ stop = "out" /\ accidents = 0

Accident == accidents < MaxAccidents /\ accidents' = accidents + 1

Live(r) == run[r].phase \in {"starting", "running"}
Tells(r) == run[r].phase \in {"answered", "locked"}
Turns(r) == run[r].phase = "continued"

\* a message that was let through, with a claim or without
Passed(m) == gate[m] \in {"claimed", "open"}
TokenOf(m) == IF gate[m] = "claimed" THEN m ELSE NoClaim

(***************************************************************************)
(* The scripts of message-queue.ts.                                        *)
(***************************************************************************)
\* ENQUEUE_LUA: whether the message enters, and the list with it
\* a mutant: the depth is compared with the cap after the push
AcceptsOneMore(e) == e \notin seen /\ Len(queue) <= Cap
Accepts(e) == e \notin seen /\ Len(queue) < Cap
Deduped(e) == e \in seen
Enqueued(e) == IF Accepts(e) THEN Append(queue, e) ELSE queue
Noted(e) == IF Accepts(e) THEN seen \cup {e} ELSE seen

\* tryAcquireSlot: SET NX
Claimable(m) == slot = None

\* releaseSlot: compare-and-delete with a token, DEL without one
\* a mutant: the tokenless release of a finalizer is taken for a stale one
ReleasedByToken(token) == IF token = slot THEN None ELSE slot
Released(token) == IF token \in {None, slot} THEN None ELSE slot

\* dequeueMessage in drainNextQueued: the head, or nothing
\* a mutant: the finalizer only releases
Ended(token) == [token |-> token, entry |-> None]
Popped(token) ==
    [token |-> token, entry |-> IF queue = <<>> THEN None ELSE Head(queue)]
\* a mutant: the head is read and not popped
Peeked == queue
Rest == IF queue = <<>> THEN queue ELSE Tail(queue)

\* POST /internal/run: the next session
NextSession(r) ==
    run[r].phase = "none" /\ \A q \in Runs : q < r => run[q].phase # "none"
Dispatched(a, token) ==
    \E r \in Runs :
        /\ NextSession(r)
        /\ run' = [run EXCEPT ![r] = [of |-> a, token |-> token, phase |-> "starting"]]
\* ... for the asker of a run that is over with it
Follows(q, token) ==
    \E r \in Runs :
        /\ NextSession(r)
        /\ run' = [run EXCEPT
              ![r] = [of |-> run[q].of, token |-> token, phase |-> "starting"],
              ![q].phase = "over"]

(***************************************************************************)
(* The gate: claimOrQueue asks for the slot, and queues when refused.      *)
(***************************************************************************)
Arrive(m) ==
    /\ m \in Messages
    /\ \/ gate[m] = "out" /\ UNCHANGED accidents
       \/ gate[m] = "done" /\ Accident          \* Spaces sends it again
    /\ drain[m] = None
    /\ IF Claimable(m)
       THEN slot' = m /\ gate' = [gate EXCEPT ![m] = "claimed"]
       ELSE UNCHANGED slot /\ gate' = [gate EXCEPT ![m] = "refused"]
    /\ UNCHANGED <<queue, seen, drain, run, due, lock, heard, disturbed, stop>>

\* tryAcquireSlot fails open: Redis is out of reach, and the message goes on
FailOpen(m) ==
    /\ gate[m] \in {"out", "done"} /\ drain[m] = None /\ Accident
    /\ gate' = [gate EXCEPT ![m] = "open"] /\ disturbed' = TRUE
    /\ UNCHANGED <<slot, queue, seen, drain, run, due, lock, heard, stop>>

\* the user is told when the FIFO is full
Queue(m) ==
    /\ gate[m] = "refused"
    /\ queue' = Enqueued(Waiting(m)) /\ seen' = Noted(Waiting(m))
    /\ gate' = [gate EXCEPT ![m] = "done"]
    /\ heard' = IF Accepts(Waiting(m)) \/ Deduped(Waiting(m))
                THEN heard ELSE heard \cup {m}
    /\ UNCHANGED <<slot, drain, run, due, lock, disturbed, stop, accidents>>

Dispatch(m) ==
    /\ Passed(m)
    /\ Dispatched(m, TokenOf(m))
    /\ gate' = [gate EXCEPT ![m] = "done"]
    /\ UNCHANGED <<slot, queue, seen, drain, due, lock, heard, disturbed, stop, accidents>>

\* a refused dispatch drains with its token and tells the user
Refuse(m) ==
    /\ Passed(m) /\ Accident
    /\ drain' = [drain EXCEPT ![m] = Popped(TokenOf(m))] /\ queue' = Rest
    /\ gate' = [gate EXCEPT ![m] = "done"] /\ heard' = heard \cup {m}
    /\ UNCHANGED <<slot, seen, run, due, lock, disturbed, stop>>

(***************************************************************************)
(* The approval of a plan looks at the slot and later dispatches; it never *)
(* claims.  A look that Redis does not answer takes the slot for free.     *)
(***************************************************************************)
Approve(p) ==
    /\ p \in Plans /\ gate[p] = "out"
    /\ \/ slot = None /\ UNCHANGED accidents
       \/ slot # None /\ Accident
    /\ gate' = [gate EXCEPT ![p] = "approved"]
    /\ UNCHANGED <<slot, queue, seen, drain, run, due, lock, heard, disturbed, stop>>

Continue(p) ==
    /\ gate[p] = "approved"
    /\ Dispatched(p, None)
    /\ gate' = [gate EXCEPT ![p] = "done"] /\ disturbed' = TRUE
    /\ UNCHANGED <<slot, queue, seen, drain, due, lock, heard, stop, accidents>>

(***************************************************************************)
(* The runtime: a run waits SESSION_LOCK_WAIT_MS for the lock of its user, *)
(* works under it, frees it and calls back.                                *)
(***************************************************************************)
Lock(r) ==
    LET u == UserOf[run[r].of] IN
    /\ run[r].phase = "starting" /\ lock[u] = None
    /\ lock' = [lock EXCEPT ![u] = r]
    /\ run' = [run EXCEPT ![r].phase = "running"]
    /\ UNCHANGED <<slot, queue, seen, gate, drain, due, heard, disturbed, stop, accidents>>

GiveUp(r) ==
    /\ run[r].phase = "starting"
    /\ \/ lock[UserOf[run[r].of]] # None /\ UNCHANGED accidents
       \/ lock[UserOf[run[r].of]] = None /\ Accident   \* the lock service fails
    /\ run' = [run EXCEPT ![r].phase = "locked"] /\ due' = [due EXCEPT ![r] = 1]
    /\ UNCHANGED <<slot, queue, seen, gate, drain, lock, heard, disturbed, stop>>

Freed(r) == [u \in Users |-> IF lock[u] = r THEN None ELSE lock[u]]

Finish(r) ==
    /\ run[r].phase = "running"
    /\ run' = [run EXCEPT ![r].phase = "answered"]
    /\ \/ due' = [due EXCEPT ![r] = 1] /\ UNCHANGED accidents
       \/ due' = [due EXCEPT ![r] = 2] /\ Accident     \* its reply was lost
    /\ lock' = Freed(r)
    /\ UNCHANGED <<slot, queue, seen, gate, drain, heard, disturbed, stop>>

\* the pod dies; the lock of the run goes with its heartbeat, later
Crash(r) ==
    /\ Live(r) /\ Accident
    /\ run' = [run EXCEPT ![r].phase = "gone"]
    /\ UNCHANGED <<slot, queue, seen, gate, drain, due, lock, heard, disturbed, stop>>

LockLapses(r) ==
    /\ run[r].phase \in {"gone"} \cup Handled /\ Freed(r) # lock
    /\ lock' = Freed(r)
    /\ UNCHANGED <<slot, queue, seen, gate, drain, run, due, heard, disturbed, stop, accidents>>

(***************************************************************************)
(* /webhook/result.  The finalizer runs on every way out of the handler    *)
(* and knows no token; it leaves the slot alone when the run goes on.      *)
(***************************************************************************)
Called(r) ==
    /\ due[r] > 0 /\ due' = [due EXCEPT ![r] = @ - 1]
    /\ UNCHANGED <<slot, seen, gate, lock, stop>>
Drains(r) ==
    /\ drain[r] = None
    /\ drain' = [drain EXCEPT ![r] = Popped(None)] /\ queue' = Rest
\* a mutant: the finalizer of a goal's turn drains as any other
KeepsAndDrains(r) == Drains(r)
Keeps(r) == UNCHANGED <<queue, drain>>

Finalize(r) ==
    /\ run[r].phase = "answered" /\ Called(r) /\ Drains(r)
    /\ run' = [run EXCEPT ![r].phase = "over"]
    /\ heard' = heard \cup {run[r].of}
    /\ UNCHANGED <<disturbed, accidents>>

\* a goal or an experiment continues: the slot is kept for its next turn
GoOn(r) ==
    /\ run[r].phase \in {"answered", "over"} /\ Called(r) /\ Keeps(r)
    /\ run' = [run EXCEPT ![r].phase = "continued"]
    /\ heard' = heard \cup {run[r].of}
    /\ disturbed' = (disturbed \/ run[r].phase = "over")
    /\ UNCHANGED accidents

\* a failed attempt that recovery takes up again drains like an answer
FailToRecovery(r) ==
    /\ run[r].phase = "answered" /\ Called(r) /\ Drains(r) /\ Accident
    /\ run' = [run EXCEPT ![r].phase = "retrying"]
    /\ UNCHANGED <<heard, disturbed>>

\* a repeated callback drains again, unless it is known for a repeated break
Repeat(r) ==
    /\ run[r].phase \in Handled /\ Called(r)
    /\ \/ Drains(r) /\ disturbed' = TRUE
       \/ UNCHANGED <<queue, drain, disturbed>>
    /\ UNCHANGED <<run, heard, accidents>>

\* the next turn is posted, under the slot as it stands
Turn(r) ==
    /\ Turns(r) /\ Follows(r, slot)
    /\ UNCHANGED <<slot, queue, seen, gate, drain, due, lock, heard, disturbed, stop, accidents>>

\* nobody looks at the answer to a goal's next turn
LoseTurn(r) ==
    /\ Turns(r) /\ Accident
    /\ run' = [run EXCEPT ![r].phase = "unsent"]
    /\ UNCHANGED <<slot, queue, seen, gate, drain, due, lock, heard, disturbed, stop>>

\* the checker of an experiment's findings works beside its next epoch
Check(r) ==
    /\ Turns(r) /\ Accident
    /\ Dispatched(run[r].of, None) /\ disturbed' = TRUE
    /\ UNCHANGED <<slot, queue, seen, gate, drain, due, lock, heard, stop>>

\* dispatchRetry posts another attempt, of a run that failed or of one whose
\* watchdog fired, and claims nothing
Retry(r) ==
    /\ run[r].phase \in {"retrying", "gone"} /\ Follows(r, None)
    /\ disturbed' = TRUE
    /\ UNCHANGED <<slot, queue, seen, gate, drain, due, lock, heard, stop, accidents>>

\* the session_locked branch queues the run again and releases; it does not
\* drain.  A run the FIFO cannot take is dropped without a word.
Requeue(r) ==
    LET e == [of |-> run[r].of, lock |-> r] IN
    /\ run[r].phase = "locked" /\ drain[r] = None
    /\ queue' = Enqueued(e) /\ seen' = Noted(e)
    /\ run' = [run EXCEPT ![r].phase = IF Accepts(e) THEN "over" ELSE "dropped"]
    /\ due' = [due EXCEPT ![r] = 0]
    /\ drain' = [drain EXCEPT ![r] = [token |-> None, entry |-> None]]
    /\ UNCHANGED <<slot, gate, lock, heard, disturbed, stop, accidents>>

(***************************************************************************)
(* The second half of a drain.                                             *)
(***************************************************************************)
Release(h) ==
    /\ drain[h] # None /\ drain[h].entry = None
    /\ slot' = Released(drain[h].token)
    /\ drain' = [drain EXCEPT ![h] = None]
    /\ UNCHANGED <<queue, seen, gate, run, due, lock, heard, disturbed, stop, accidents>>

\* the new run inherits the slot as it stands
Redispatch(h) ==
    /\ drain[h] # None /\ drain[h].entry # None
    /\ Dispatched(drain[h].entry.of, slot)
    /\ drain' = [drain EXCEPT ![h] = None]
    /\ UNCHANGED <<slot, queue, seen, gate, due, lock, heard, disturbed, stop, accidents>>

\* the message is dropped with a notice; the rest of the FIFO stays
RedispatchFails(h) ==
    /\ drain[h] # None /\ drain[h].entry # None /\ Accident
    /\ slot' = Released(drain[h].token)
    /\ heard' = heard \cup {drain[h].entry.of}
    /\ drain' = [drain EXCEPT ![h] = None]
    /\ UNCHANGED <<queue, seen, gate, run, due, lock, disturbed, stop>>

\* a dispatch, a run, a callback or a drain that will come to the slot
Outstanding ==
    \/ \E m \in Messages : Passed(m)
    \/ \E r \in Runs : Live(r) \/ Tells(r) \/ Turns(r) \/ due[r] > 0
    \/ \E h \in Handlers : drain[h] # None

(***************************************************************************)
(* /stop empties the FIFO, cancels the live runs (they call back early) and *)
(* finalizes as orphans the runs whose row says running and that no pod    *)
(* knows: their slot is drained.                                           *)
(***************************************************************************)
Orphans == {r \in Runs : run[r].phase \in {"gone", "answered", "locked"}}

Clear ==
    /\ stop = "out" /\ Accident
    /\ queue' = <<>> /\ seen' = {}
    /\ heard' = heard \cup {queue[i].of : i \in 1 .. Len(queue)}
    /\ stop' = "cleared"
    /\ UNCHANGED <<slot, gate, drain, run, due, lock, disturbed>>

Reconcile ==
    /\ stop = "cleared"
    /\ IF Orphans = {}
       THEN UNCHANGED <<queue, drain, run, heard, disturbed>>
       ELSE /\ drain' = [drain EXCEPT ![StopHandler] = Popped(None)]
            /\ queue' = Rest
            /\ run' = [r \in Runs |-> IF run[r].phase = "gone"
                                      THEN [run[r] EXCEPT !.phase = "over"] ELSE run[r]]
            /\ heard' = heard \cup {run[r].of : r \in Orphans}
            /\ disturbed' = TRUE
    /\ stop' = "done"
    /\ UNCHANGED <<slot, seen, gate, due, lock, accidents>>

(***************************************************************************)
(* The busy marker lapses BUSY_TTL_MS after the last progress: when nobody *)
(* is left to release it, or under a run that stays silent that long.      *)
(***************************************************************************)
\* a mutant: the marker is set without its TTL
ExpireNever == FALSE /\ UNCHANGED vars

Expire ==
    /\ slot # None /\ ~Outstanding
    /\ slot' = None
    /\ UNCHANGED <<queue, seen, gate, drain, run, due, lock, heard, disturbed, stop, accidents>>

Silence ==
    /\ slot # None /\ Outstanding /\ Accident
    /\ slot' = None /\ disturbed' = TRUE
    /\ UNCHANGED <<queue, seen, gate, drain, run, due, lock, heard, stop>>

Handle(h) == Release(h) \/ Redispatch(h) \/ RedispatchFails(h)
Answer(r) == Finalize(r) \/ GoOn(r) \/ FailToRecovery(r) \/ Repeat(r) \/ Requeue(r)
Work(r) == Lock(r) \/ GiveUp(r) \/ Finish(r) \/ LockLapses(r) \/ Answer(r) \/ Turn(r)
Fall(r) == Crash(r) \/ LoseTurn(r) \/ Check(r) \/ Retry(r)

Next ==
    \/ \E m \in Messages : Arrive(m) \/ FailOpen(m) \/ Queue(m) \/ Dispatch(m) \/ Refuse(m)
    \/ \E p \in Plans : Approve(p) \/ Continue(p)
    \/ \E r \in Runs : Work(r) \/ Fall(r)
    \/ \E h \in Handlers : Handle(h)
    \/ Clear \/ Reconcile \/ Expire \/ Silence

Spec == Init /\ [][Next]_vars

\* what claw-auth and the runtime do by themselves; nobody has to write,
\* approve, stop or crash
FairSpec ==
    /\ Spec
    /\ \A m \in Messages : WF_vars(Queue(m)) /\ WF_vars(Dispatch(m) \/ Refuse(m))
    /\ \A p \in Plans : WF_vars(Continue(p))
    /\ \A r \in Runs : WF_vars(Work(r))
    /\ \A h \in Handlers : WF_vars(Handle(h))
    /\ WF_vars(Reconcile) /\ WF_vars(Expire)

-----------------------------------------------------------------------------

\* Types, and the cap of the FIFO, which the script and every pop keep.
TypeOK ==
    /\ slot \in Messages \cup {None}
    /\ queue \in Seq(Entries) /\ Len(queue) <= Cap
    /\ seen \subseteq Entries
    /\ gate \in [Askers -> {"out", "refused", "claimed", "open", "approved", "done"}]
    /\ drain \in [Handlers -> Hands \cup {None}]
    /\ run \in [Runs -> [of : Askers \cup {None}, token : Tokens, phase : Phases]]
    /\ due \in [Runs -> 0 .. 2]
    /\ lock \in [Users -> Runs \cup {None}]
    /\ heard \subseteq Askers /\ disturbed \in BOOLEAN
    /\ stop \in {"out", "cleared", "done"}

\* "phantom slot" (webhook.ts, the branches that drain after a refusal, and
\* the session_locked branch): while the marker is set, a dispatch, a run, a
\* callback or a drain is under way that ends in releasing it or in another
\* run, unless a pod died with the run, or the next turn of a goal that keeps
\* the slot was lost on its way.
NoPhantomSlot ==
    slot # None =>
        Outstanding \/ \E r \in Runs : run[r].phase \in {"gone", "unsent"}

\* The slot lets one run be active, over the turns of a goal too: at most one
\* dispatch, live run, turn on its way or popped message exists, as long as
\* nobody works outside the slot.  Outside it are an approved plan, an
\* attempt that recovery posts, the checker of an experiment, a message let
\* through without Redis, a repeated callback, the orphans /stop drains for
\* and a run under whose silence the marker lapsed.
Active ==
    {<<"gate", m>> : m \in {k \in Messages : Passed(k)}}
        \cup {<<"run", r>> : r \in {q \in Runs : Live(q) \/ Turns(q)}}
        \cup {<<"drain", h>> : h \in {k \in Handlers : drain[k] # None /\ drain[k].entry # None}}
OneRunAtATime == ~disturbed => \A x, y \in Active : x = y

\* No message is lost between the gate, the FIFO, a drain and a run: one the
\* handler is done with was answered or told about, waits in the FIFO or in a
\* drain, or is of a run that will call back, goes on, is for recovery to take
\* up again, died with its pod, or found the session locked and the FIFO full.
InHand(a) ==
    \/ \E i \in 1 .. Len(queue) : queue[i].of = a
    \/ \E h \in Handlers : drain[h] # None /\ drain[h].entry # None /\ drain[h].entry.of = a
    \/ \E r \in Runs : run[r].of = a /\ run[r].phase # "over"
NothingLost == \A a \in Askers : gate[a] = "done" => a \in heard \/ InHand(a)

\* "The lock holder's own completion drains this queue" (webhook.ts, the
\* session_locked branch): what is at the head while a run works leaves it,
\* unless the run's pod dies, the next turn of its goal is lost or finds the
\* session locked, or the turns go on until no session is left to give.
HeadIsOf(a) == queue # <<>> /\ Head(queue).of = a
HolderDrains ==
    \A a \in Askers :
        HeadIsOf(a) /\ (\E r \in Runs : run[r].phase = "running") ~>
            \/ ~HeadIsOf(a)
            \/ \E r \in Runs : run[r].phase \in {"gone", "unsent", "locked"}
            \/ ~\E q \in Runs : NextSession(q)

\* The slot is not held for ever: every claim ends, with its TTL if the pod
\* of its run died (and while the runtime has a session left to give).
ClaimsEnd == \A m \in Messages : (slot = m) ~> (slot # m \/ ~\E q \in Runs : NextSession(q))

\* "I'll get to it as soon as I'm done" (conversation-gate.ts, the notice of
\* a queued message): while a message waits, something is under way that will
\* come to it.
QueuedIsHeard == queue # <<>> => Outstanding

\* "the finalizer that fires is the current owner" (message-queue.ts,
\* releaseSlot): nobody but its TTL takes the slot from a run that works
\* under it.
OwnerReleases ==
    [][\A r \in Runs : run[r].phase = "running" /\ run[r].token # None
            /\ slot = run[r].token /\ slot' # slot => Silence]_vars

=============================================================================
