------------------------- MODULE FieldOfflineQueue -------------------------
(***************************************************************************)
(* The offline queue of the field application: screens that capture a      *)
(* mutation they could not deliver, hook instances that drain the queue,   *)
(* the one storage entry per actor they all read, change and write back    *)
(* without a lock, the module-level scope that names the entry, and the    *)
(* server's mutation receipts.  Every await of the code is a step of its   *)
(* own.  The order of a queue, the migration of version 3 entries and the  *)
(* length of a backoff are left out: a retrying operation may be due or    *)
(* not.                                                                    *)
(***************************************************************************)
EXTENDS Naturals, FiniteSets

CONSTANTS
  Actors,        \* authenticated field agents of this installation
  Captures,      \* presses of a submit button; each mints its own key
  Drains,        \* instances of the hook useFieldOfflineSync
  Intents,       \* business intents: what a fingerprint identifies
  Located,       \* intents whose payload carries a location reading
  None,
  MaxAttempts, Capacity,       \* MAX_ATTEMPTS, MAX_QUEUE_OPERATIONS
  MaxFaults,     \* bound on answers lost by a drain, rejected storage writes and
                 \* the application being killed
  MaxLogins      \* bound on sign-ins

ASSUME QueueAssumption ==
  /\ MaxAttempts \in Nat \ {0} /\ Capacity \in Nat
  /\ MaxFaults \in Nat /\ MaxLogins \in Nat
  /\ None \notin Actors \cup Captures \cup Drains \cup Intents
  /\ Drains \cap Captures = {}
  /\ Located \subseteq Intents

VARIABLES
  session,       \* actor whose token requests carry, or None
  scope,         \* activeScope: whose entry the queue functions address
  mounted,       \* the hook instance on screen, or None
  drain,         \* drainQueue of each instance
  capture,       \* each press: how far its handler is
  rmw,           \* what a process read, and what it is about to write back
  queue,         \* the stored queue of each actor
  archive,       \* the corrupt archive of each actor
  quarantine,    \* the recovery quarantine of each actor
  receipts,      \* dsh_field_readiness_operation_receipts: <<actor, key>>
  inflight,      \* requests given up by the client, still on their way
  stale,         \* captures whose location the server now finds too old
  overlapped,    \* history: a write replaced an entry changed since its read
  crowded,       \* history: a run began while another instance was running
  doubt,         \* history: marked unknown and not reconciled since
  faults, logins

identity == <<session, scope, mounted>>
store == <<queue, archive, quarantine>>
server == <<receipts, inflight, stale>>
history == <<overlapped, crowded, doubt>>
bounds == <<faults, logins>>
vars == <<identity, drain, capture, rmw, store, server, history, bounds>>

Processes == Drains \cup Captures
Live == {"pending", "retrying", "unknown", "synced", "failed_permanent"}
Operation == [status : Live \cup {"absent"}, attempts : 0..MaxAttempts]
Absent == [status |-> "absent", attempts |-> 0]
Entry == [Captures -> Operation]
Empty == [c \in Captures |-> Absent]
Content(q) == {c \in Captures : q[c] # Absent}
With(q, status) == {c \in Captures : q[c].status = status}
\* Mutant: a purge also drops what failed for good.
WithoutFailed(q, status) ==
  [c \in Captures |-> IF q[c].status \in {status, "failed_permanent"} THEN Absent ELSE q[c]]

Without(q, status) == [c \in Captures |-> IF q[c].status = status THEN Absent ELSE q[c]]

Steps == {"idle", "start", "unknown", "gather", "due", "mark", "store", "ask",
          "purge", "drop", "evacuate", "recovery", "quarantine", "remove", "recover"}
Marks == {"synced", "retrying", "unknown", "failed", "refused"}
Resting == [pc |-> "idle", loop |-> "unknown", todo |-> {}, op |-> None,
            mark |-> "synced", asked |-> FALSE]
NoWrite == [from |-> None, base |-> Empty, out |-> Empty]

Init ==
  /\ session = None /\ scope = None /\ mounted = None
  /\ drain = [d \in Drains |-> [actor |-> None, run |-> Resting]]
  /\ capture = [c \in Captures |->
                  [stage |-> "new", intent |-> None, owner |-> None, as |-> c]]
  /\ rmw = [p \in Processes |-> NoWrite]
  /\ queue = [a \in Actors |-> Empty]
  /\ archive = [a \in Actors |-> {}]
  /\ quarantine = [a \in Actors |-> {}]
  /\ receipts = {} /\ inflight = {} /\ stale = {}
  /\ overlapped = FALSE /\ crowded = FALSE /\ doubt = {}
  /\ faults = 0 /\ logins = 0

-----------------------------------------------------------------------------
(* The storage entry: readQueue, then writeQueue.                          *)

\* An entry that holds an operation of another actor fails isOperation.
Foreign(a) == \E c \in Content(queue[a]) : capture[c].owner # a

ReadFails == scope # None => Foreign(scope)

\* A failed read of a corrupt entry archives it; nothing else changes.
ReadThrows ==
  /\ archive' = IF scope = None THEN archive
                ELSE [archive EXCEPT ![scope] = Content(queue[scope])]
  /\ UNCHANGED <<queue, quarantine>>

\* The process p holds what it read and what it is going to write.
Hold(p, out) ==
  rmw' = [rmw EXCEPT ![p] = [from |-> scope, base |-> queue[scope], out |-> out]]

LetGo(p) == rmw' = [rmw EXCEPT ![p] = NoWrite]

\* writeQueue names the entry by the scope at the time of the write.
Write(p) ==
  /\ scope # None
  /\ queue' = [queue EXCEPT ![scope] = rmw[p].out]
  /\ overlapped' = (overlapped \/ scope # rmw[p].from \/ queue[scope] # rmw[p].base)
  /\ LetGo(p)

\* It throws without a scope, and when the platform rejects the write.
WriteThrows(p) ==
  /\ \/ scope = None /\ UNCHANGED faults
     \/ faults < MaxFaults /\ faults' = faults + 1
  /\ LetGo(p)
  /\ UNCHANGED <<queue, overlapped>>

-----------------------------------------------------------------------------
(* The server.  A mutation and its receipt are one transaction, so that a   *)
(* receipt stands for a mutation performed for an actor and a key.         *)

Perform(a, c) == receipts' = receipts \cup {<<a, c>>}

\* Mutant: the receipt of a key is found whoever asks.
ReceiptOfAnyone(a, c) == \E b \in Actors : <<b, c>> \in receipts

Receipt(a, c) == <<a, c>> \in receipts

\* Location readings are checked before the receipt is looked up.
Accepted(c) == session # None /\ c \notin stale /\ Perform(session, c)

\* A request without an answer: it never arrives, was answered, or is on its way.
Lost(c) ==
  \/ UNCHANGED <<receipts, inflight>>
  \/ Accepted(c) /\ UNCHANGED inflight
  \/ /\ session # None
     /\ inflight' = inflight \cup {<<session, c>>}
     /\ UNCHANGED receipts

\* A request the client gave up after its timeout still arrives, or never does.
Arrive(a, c) ==
  /\ <<a, c>> \in inflight
  /\ inflight' = inflight \ {<<a, c>>}
  /\ \/ c \notin stale /\ Perform(a, c)
     \/ UNCHANGED receipts
  /\ UNCHANGED <<identity, drain, capture, rmw, store, stale, history, bounds>>

\* MaxLocationAgeSeconds pass since the reading was taken.
Age(c) ==
  /\ capture[c].intent \in Located /\ c \notin stale
  /\ stale' = stale \cup {c}
  /\ UNCHANGED <<identity, drain, capture, rmw, store, receipts, inflight, history, bounds>>

-----------------------------------------------------------------------------
(* A screen: one request, and enqueueFieldOperation when it got no answer. *)

Goes(c, stage) == capture' = [capture EXCEPT ![c].stage = stage]

Press(c, i) ==
  /\ mounted # None /\ capture[c].stage = "new"
  /\ \E stage \in {"closed", "offline"} :
       /\ capture' = [capture EXCEPT ![c].stage = stage, ![c].intent = i]
       /\ \/ /\ stage = "closed" /\ UNCHANGED inflight
             /\ Accepted(c) \/ UNCHANGED receipts
          \/ stage = "offline" /\ Lost(c)
  /\ UNCHANGED <<identity, drain, rmw, store, stale, history, bounds>>

\* An operation of the same intent that is already stored stands for this one.
Intent(c) == capture[c].intent
\* Mutant: operations are told apart by their keys.
SameKey(c) == {e \in Content(queue[scope]) : e = c}

Same(c) == {e \in Content(queue[scope]) : Intent(e) = Intent(c)}

EnqueueRead(c) ==
  /\ capture[c].stage = "offline"
  /\ \/ ReadFails /\ ReadThrows /\ Goes(c, "closed") /\ UNCHANGED rmw
     \/ /\ ~ReadFails
        /\ \/ \E e \in Same(c) :
                /\ capture' = [capture EXCEPT ![c].stage = "queued", ![c].as = e]
                /\ UNCHANGED rmw
           \/ /\ Same(c) = {}
              /\ capture' = [capture EXCEPT ![c].stage = "writing", ![c].owner = scope]
              /\ Hold(c, [queue[scope] EXCEPT
                            ![c] = [status |-> "pending", attempts |-> 0]])
        /\ UNCHANGED store
  /\ UNCHANGED <<identity, drain, server, history, bounds>>

EnqueueWrite(c) ==
  /\ capture[c].stage = "writing"
  /\ \/ /\ Cardinality(Content(rmw[c].out)) <= Capacity
        /\ Write(c) /\ Goes(c, "queued") /\ UNCHANGED faults
     \/ /\ Cardinality(Content(rmw[c].out)) > Capacity
        /\ LetGo(c) /\ Goes(c, "closed") /\ UNCHANGED <<queue, overlapped, faults>>
     \/ WriteThrows(c) /\ Goes(c, "closed")
  /\ UNCHANGED <<identity, drain, archive, quarantine, server, crowded, doubt, logins>>

-----------------------------------------------------------------------------
(* The drain.  At(d, s): the instance d is at step s of drainQueue.        *)

Run(d) == drain[d].run
At(d, s) == Run(d).pc = s
Become(d, run) == drain' = [drain EXCEPT ![d].run = run]
Go(d, s) == drain' = [drain EXCEPT ![d].run.pc = s]
Abort(d) == Become(d, Resting)

Crowd(d) == crowded' = (crowded \/ \E e \in Drains \ {d} : ~At(e, "idle"))

\* drainQueue: one run per instance, and it claims the scope for its actor.
Begin(d) ==
  /\ scope' = drain[d].actor
  /\ Go(d, "start")
  /\ Crowd(d)

Wake(d) ==
  /\ mounted = d /\ At(d, "idle")
  /\ Begin(d)
  /\ UNCHANGED <<session, mounted, capture, rmw, store, server, overlapped, doubt, bounds>>

\* getUnknownOperations and getDueOperations; a retrying one may not be due yet.
Gather(d) ==
  /\ At(d, "start") \/ At(d, "gather")
  /\ \/ ReadFails /\ ReadThrows /\ Abort(d)
     \/ /\ ~ReadFails /\ UNCHANGED store
        /\ IF At(d, "start")
           THEN Become(d, [Run(d) EXCEPT !.pc = "unknown", !.loop = "unknown",
                                         !.todo = With(queue[scope], "unknown")])
           ELSE \E later \in SUBSET With(queue[scope], "retrying") :
                  Become(d, [Run(d) EXCEPT !.pc = "due", !.loop = "due",
                      !.todo = With(queue[scope], "pending") \cup later])
  /\ UNCHANGED <<identity, capture, rmw, server, history, bounds>>

Finished(d) ==
  /\ Run(d).todo = {}
  /\ \/ At(d, "unknown") /\ Go(d, "gather")
     \/ At(d, "due") /\ Go(d, "purge")
  /\ UNCHANGED <<identity, capture, rmw, store, server, history, bounds>>

\* The mark an operation gets, and whether a reconciler decided it.
Mark(d, c, mark, asked) ==
  Become(d, [Run(d) EXCEPT !.pc = "mark", !.op = c, !.mark = mark, !.asked = asked,
                           !.todo = @ \ {c}])

\* reconcileFieldMutation: the receipt of whoever is signed in now decides.
Reconcile(d, c) ==
  /\ \/ At(d, "unknown") /\ c \in Run(d).todo
     \/ At(d, "ask") /\ c = Run(d).op
  /\ \/ /\ session # None /\ Receipt(session, c)
        /\ Mark(d, c, "synced", TRUE) /\ UNCHANGED <<doubt, faults>>
     \/ /\ session # None /\ ~Receipt(session, c)
        /\ Mark(d, c, "retrying", TRUE) /\ doubt' = doubt \ {c} /\ UNCHANGED faults
     \/ /\ \/ session = None /\ UNCHANGED faults
           \/ faults < MaxFaults /\ faults' = faults + 1
        /\ Become(d, [Run(d) EXCEPT !.pc = Run(d).loop, !.todo = @ \ {c}])
        /\ UNCHANGED doubt
  /\ UNCHANGED <<identity, capture, rmw, store, server, overlapped, crowded, logins>>

\* An executor sends with the token of whoever is signed in now; without one the
\* client answers itself with 401, which is not retryable.
Execute(d, c) ==
  /\ At(d, "due") /\ c \in Run(d).todo
  /\ \/ Accepted(c) /\ Mark(d, c, "synced", FALSE) /\ UNCHANGED <<inflight, faults>>
     \/ /\ \/ Mark(d, c, "refused", FALSE)
           \/ session # None /\ Mark(d, c, "failed", FALSE)
        /\ UNCHANGED <<receipts, inflight, faults>>
     \/ /\ faults < MaxFaults /\ faults' = faults + 1
        /\ Lost(c) /\ Mark(d, c, "unknown", FALSE)
  /\ UNCHANGED <<identity, capture, rmw, store, stale, history, logins>>

Capped(n) == IF n < MaxAttempts THEN n ELSE MaxAttempts

\* Mutant: a lost answer counts as a success.
MarkedOptimistic(op, mark) ==
  LET count == Capped(op.attempts + 1) IN
  IF mark \in {"synced", "unknown"} THEN [op EXCEPT !.status = "synced"]
  ELSE [status |-> "failed_permanent", attempts |-> count]

\* Mutant: a lost answer is retried like any failure.
MarkedRetried(op, mark) ==
  [status |-> CASE mark = "unknown" -> "retrying" [] mark = "refused" -> "failed_permanent"
                [] mark = "failed" -> "retrying" [] OTHER -> mark,
   attempts |-> Capped(op.attempts + 1)]

Marked(op, mark) ==
  LET count == Capped(op.attempts + 1) IN
  CASE mark \in {"synced", "retrying"} -> [op EXCEPT !.status = mark]
    [] mark = "unknown" -> [status |-> "unknown", attempts |-> count]
    [] mark = "refused" -> [status |-> "failed_permanent", attempts |-> count]
    [] mark = "failed" ->
         [status |-> IF count = MaxAttempts THEN "failed_permanent" ELSE "retrying",
          attempts |-> count]

\* What drainQueue does with an exception of a mark.
Thrown(d) ==
  IF Run(d).asked THEN Go(d, Run(d).loop)
  ELSE IF Run(d).mark = "synced"
       THEN Become(d, [Run(d) EXCEPT !.pc = "mark", !.mark = "failed"])
       ELSE Abort(d)

MarkRead(d) ==
  /\ At(d, "mark")
  /\ \/ ReadFails /\ ReadThrows /\ Thrown(d) /\ UNCHANGED rmw
     \/ /\ ~ReadFails /\ UNCHANGED store
        /\ LET c == Run(d).op IN
           Hold(d, [queue[scope] EXCEPT
                      ![c] = IF @ = Absent THEN @ ELSE Marked(@, Run(d).mark)])
        /\ Go(d, "store")
  /\ UNCHANGED <<identity, capture, server, history, bounds>>

MarkWrite(d) ==
  /\ At(d, "store")
  /\ \/ /\ Write(d) /\ UNCHANGED faults
        /\ Go(d, IF Run(d).mark = "unknown" THEN "ask" ELSE Run(d).loop)
        /\ doubt' = IF Run(d).mark = "unknown"
                       /\ rmw[d].out[Run(d).op] # Absent
                    THEN doubt \cup {Run(d).op} ELSE doubt
     \/ WriteThrows(d) /\ Thrown(d) /\ UNCHANGED doubt
  /\ UNCHANGED <<identity, capture, archive, quarantine, server, crowded, logins>>

\* purgeSyncedOperations.
PurgeRead(d) ==
  /\ At(d, "purge")
  /\ \/ ReadFails /\ ReadThrows /\ Abort(d) /\ UNCHANGED rmw
     \/ /\ ~ReadFails /\ UNCHANGED store
        /\ Hold(d, Without(queue[scope], "synced")) /\ Go(d, "drop")
  /\ UNCHANGED <<identity, capture, server, history, bounds>>

PurgeWrite(d) ==
  /\ At(d, "drop")
  /\ \/ Write(d) /\ Go(d, "evacuate") /\ UNCHANGED faults
     \/ WriteThrows(d) /\ Abort(d)
  /\ UNCHANGED <<identity, capture, archive, quarantine, server, crowded, doubt, logins>>

\* evacuateTerminalOperations: quarantine first, then remove.
EvacuateRead(d) ==
  /\ At(d, "evacuate")
  /\ \/ ReadFails /\ ReadThrows /\ Abort(d) /\ UNCHANGED rmw
     \/ /\ ~ReadFails /\ UNCHANGED store
        /\ \/ /\ With(queue[scope], "failed_permanent") = {}
              /\ Abort(d) /\ UNCHANGED rmw
           \/ /\ With(queue[scope], "failed_permanent") # {}
              /\ Hold(d, Without(queue[scope], "failed_permanent"))
              /\ Go(d, "recovery")
  /\ UNCHANGED <<identity, capture, server, history, bounds>>

QuarantineRead(d) ==
  /\ At(d, "recovery")
  /\ Become(d, [Run(d) EXCEPT !.pc = "quarantine", !.todo = quarantine[rmw[d].from]])
  /\ UNCHANGED <<identity, capture, rmw, store, server, history, bounds>>

QuarantineWrite(d) ==
  /\ At(d, "quarantine")
  /\ \/ LET a == rmw[d].from IN
        /\ quarantine' = [quarantine EXCEPT
              ![a] = Run(d).todo \cup With(rmw[d].base, "failed_permanent")]
        /\ overlapped' = (overlapped \/ quarantine[a] # Run(d).todo)
        /\ Become(d, [Run(d) EXCEPT !.pc = "remove", !.todo = {}])
        /\ UNCHANGED <<rmw, faults>>
     \/ /\ faults < MaxFaults /\ faults' = faults + 1
        /\ Abort(d) /\ LetGo(d) /\ UNCHANGED <<quarantine, overlapped>>
  /\ UNCHANGED <<identity, capture, queue, archive, server, crowded, doubt, logins>>

EvacuateWrite(d) ==
  /\ At(d, "remove")
  /\ \/ Write(d) /\ UNCHANGED faults
     \/ WriteThrows(d)
  /\ Abort(d)
  /\ UNCHANGED <<identity, capture, archive, quarantine, server, crowded, doubt, logins>>

\* recover: the corrupt entry is archived, then removed, then the queue is drained.
RecoverRead(d) ==
  /\ mounted = d /\ At(d, "idle") /\ Foreign(drain[d].actor)
  /\ LET a == drain[d].actor IN
     /\ scope' = a
     /\ archive' = [archive EXCEPT ![a] = Content(queue[a])]
     /\ rmw' = [rmw EXCEPT ![d] = [from |-> a, base |-> queue[a], out |-> Empty]]
  /\ Go(d, "recover")
  /\ UNCHANGED <<session, mounted, capture, queue, quarantine, server, history, bounds>>

RecoverWrite(d) ==
  /\ At(d, "recover")
  /\ LET a == rmw[d].from IN
     /\ queue' = [queue EXCEPT ![a] = Empty]
     /\ overlapped' = (overlapped \/ queue[a] # rmw[d].base)
  /\ LetGo(d) /\ Begin(d)
  /\ UNCHANGED <<session, mounted, capture, archive, quarantine, server, doubt, bounds>>

-----------------------------------------------------------------------------
(* Sessions, and the life of the application.                              *)

\* The field surface mounts when its gate sees an authenticated actor: a new
\* instance of the hook, with no run of its own, claims the scope and drains.
Login(a, d) ==
  /\ session = None /\ mounted = None /\ At(d, "idle")
  /\ logins < MaxLogins /\ logins' = logins + 1
  /\ session' = a /\ scope' = a /\ mounted' = d
  /\ drain' = [drain EXCEPT ![d] = [actor |-> a, run |-> [Resting EXCEPT !.pc = "start"]]]
  /\ Crowd(d)
  /\ UNCHANGED <<capture, rmw, store, server, overlapped, doubt, faults>>

\* Logout runs the session-end hook, which detaches the scope; a session the
\* server ends, or an identity outage, does not.
EndSession(detach) ==
  /\ session # None
  /\ session' = None
  /\ scope' = IF detach THEN None ELSE scope
  /\ UNCHANGED <<mounted, drain, capture, rmw, store, server, history, bounds>>

\* The gate takes the surface off the screen; a run under way goes on.
Unmount ==
  /\ mounted # None /\ session = None
  /\ mounted' = None
  /\ UNCHANGED <<session, scope, drain, capture, rmw, store, server, history, bounds>>

\* The application is killed: only storage and the server remember.
Restart ==
  /\ faults < MaxFaults /\ faults' = faults + 1
  /\ session' = None /\ scope' = None /\ mounted' = None
  /\ drain' = [d \in Drains |-> [actor |-> None, run |-> Resting]]
  /\ capture' = [c \in Captures |->
       IF capture[c].stage \in {"offline", "writing"}
       THEN [capture[c] EXCEPT !.stage = "closed"] ELSE capture[c]]
  /\ rmw' = [p \in Processes |-> NoWrite]
  /\ UNCHANGED <<store, server, history, logins>>

DrainStep(d) ==
  \/ Wake(d) \/ Gather(d) \/ Finished(d) \/ MarkRead(d) \/ MarkWrite(d)
  \/ PurgeRead(d) \/ PurgeWrite(d)
  \/ EvacuateRead(d) \/ QuarantineRead(d) \/ QuarantineWrite(d) \/ EvacuateWrite(d)
  \/ RecoverRead(d) \/ RecoverWrite(d)
  \/ \E c \in Captures : Reconcile(d, c) \/ Execute(d, c)

Next ==
  \/ \E d \in Drains : DrainStep(d)
  \/ \E c \in Captures : EnqueueRead(c) \/ EnqueueWrite(c) \/ Age(c)
  \/ \E c \in Captures, i \in Intents : Press(c, i)
  \/ \E a \in Actors, c \in Captures : Arrive(a, c)
  \/ \E a \in Actors, d \in Drains : Login(a, d)
  \/ \E detach \in BOOLEAN : EndSession(detach)
  \/ Unmount
  \/ Restart

Spec == Init /\ [][Next]_vars

-----------------------------------------------------------------------------
(* Properties.                                                             *)

\* Every variable keeps its type; runs, marks and queue entries are those of the hook.
TypeOK ==
  /\ session \in Actors \cup {None} /\ scope \in Actors \cup {None}
  /\ mounted \in Drains \cup {None}
  /\ drain \in [Drains -> [actor : Actors \cup {None},
       run : [pc : Steps, loop : {"unknown", "due"}, todo : SUBSET Captures,
              op : Captures \cup {None}, mark : Marks, asked : BOOLEAN]]]
  /\ capture \in [Captures -> [stage : {"new", "offline", "writing", "queued", "closed"},
                               intent : Intents \cup {None}, owner : Actors \cup {None}, as : Captures]]
  /\ rmw \in [Processes -> [from : Actors \cup {None}, base : Entry, out : Entry]]
  /\ queue \in [Actors -> Entry]
  /\ archive \in [Actors -> SUBSET Captures]
  /\ quarantine \in [Actors -> SUBSET Captures]
  /\ receipts \in SUBSET (Actors \X Captures)
  /\ inflight \in SUBSET (Actors \X Captures)
  /\ stale \in SUBSET Captures /\ doubt \in SUBSET Captures
  /\ overlapped \in BOOLEAN /\ crowded \in BOOLEAN
  /\ faults \in Nat /\ logins \in Nat

Committed(c) == \E a \in Actors : <<a, c>> \in receipts

\* What the queue of an agent calls synced, and is about to purge, was performed for
\* that agent, although presses, runs and requests outlive sessions and are served
\* with the token of whoever is signed in then; unless two writes or two runs overlap.
SyncedForItsAgent ==
  overlapped \/ crowded \/
    \A a \in Actors, c \in Captures : queue[a][c].status = "synced" => <<a, c>> \in receipts

\* Where the work behind an acknowledgement can be found; an entry the queue calls
\* synced, and is about to purge, counts only when it was performed.
Kept(c) ==
  \/ Committed(c)
  \/ \E a \in Actors : c \in (Content(queue[a]) \ With(queue[a], "synced")) \cup archive[a] \cup quarantine[a]

\* Work a screen reported as saved for later is in the queue, in an archive, in
\* the quarantine or performed, unless two processes wrote the same entry.
SavedWorkKept ==
  overlapped \/ \A c \in Captures : capture[c].stage = "queued" => Kept(capture[c].as)

\* The same without the exception.
SavedWorkNeverLost ==
  \A c \in Captures : capture[c].stage = "queued" => Kept(capture[c].as)

\* One intent has one live operation in the queue of its actor, although each
\* press has a key of its own.
OneOperationPerIntent ==
  \A a \in Actors : \A c, e \in Content(queue[a]) : Intent(c) = Intent(e) => c = e

Sends(d, c) == At(d, "due") /\ drain'[d].run.pc = "mark" /\ drain'[d].run.op = c

\* An operation whose last result is unknown is not sent again before a
\* reconciliation found no receipt, unless two runs shared the queue.
NotDeliveredBlindly ==
  [][\A d \in Drains, c \in Captures :
       Sends(d, c) => c \notin doubt \/ overlapped \/ crowded]_vars
=============================================================================
