----------------------- MODULE FieldOfflineQueueProofs -----------------------
(***************************************************************************)
(* Proofs about FieldOfflineQueue, for any actors, captures, hook          *)
(* instances, intents, capacity and bounds: an intent has one operation,   *)
(* saved work is kept, an operation in doubt is not sent again, and what   *)
(* the queue of an agent calls synced was performed for that agent.        *)
(***************************************************************************)
EXTENDS FieldOfflineQueue, TLAPS

RunRecord == [pc : Steps, loop : {"unknown", "due"}, todo : SUBSET Captures,
              op : Captures \cup {None}, mark : Marks, asked : BOOLEAN]
DrainRecord == [actor : Actors \cup {None}, run : RunRecord]
CaptureRecord == [stage : {"new", "offline", "writing", "queued", "closed"},
                  intent : Intents \cup {None}, owner : Actors \cup {None}, as : Captures]
HoldRecord == [from : Actors \cup {None}, base : Entry, out : Entry]

\* The stages of a run that is about to write what it holds.
Holding == {"store", "drop", "recovery", "quarantine", "remove", "recover"}

\* A process holds something exactly when its stage says so.
RunsFit ==
  /\ \A d \in Drains :
       /\ Run(d).pc \in {"mark", "store", "ask"} => Run(d).op \in Captures
       /\ IF Run(d).pc \in Holding THEN rmw[d].from \in Actors ELSE rmw[d] = NoWrite
       /\ mounted = d => drain[d].actor \in Actors
  /\ \A c \in Captures :
       IF capture[c].stage = "writing" THEN rmw[c].from \in Actors ELSE rmw[c] = NoWrite

Typed == TypeOK /\ RunsFit

\* A capture is nobody's operation before its own write.
Landed ==
  \A c \in Captures : capture[c].stage \in {"new", "offline", "writing"} =>
    /\ \A a \in Actors : queue[a][c] = Absent
    /\ \A p \in Processes \ {c} : rmw[p].out[c] = Absent /\ rmw[p].base[c] = Absent

\* What each process is about to write, against what it read.
CaptureHolds(c) ==
  capture[c].stage = "writing" =>
    /\ \A e \in Captures \ {c} : rmw[c].out[e] = rmw[c].base[e]
    /\ rmw[c].out[c] = [status |-> "pending", attempts |-> 0]
    /\ \A e \in Content(rmw[c].base) : Intent(e) # Intent(c)
    /\ capture[c].owner = rmw[c].from

DrainHolds(d) ==
  /\ Run(d).pc = "store" =>
       /\ \A e \in Captures \ {Run(d).op} : rmw[d].out[e] = rmw[d].base[e]
       /\ rmw[d].out[Run(d).op] =
            IF rmw[d].base[Run(d).op] = Absent THEN Absent
            ELSE Marked(rmw[d].base[Run(d).op], Run(d).mark)
  /\ Run(d).pc = "drop" => rmw[d].out = Without(rmw[d].base, "synced")
  /\ Run(d).pc \in {"recovery", "quarantine", "remove"} =>
       rmw[d].out = Without(rmw[d].base, "failed_permanent")
  /\ Run(d).pc = "recover" => rmw[d].out = Empty

Holds == (\A c \in Captures : CaptureHolds(c)) /\ (\A d \in Drains : DrainHolds(d))

OneEach(q) == \A c, e \in Content(q) : Intent(c) = Intent(e) => c = e

Distinct ==
  /\ \A a \in Actors : OneEach(queue[a])
  /\ \A p \in Processes : OneEach(rmw[p].base) /\ OneEach(rmw[p].out)

Done(q) == \A c \in Captures : q[c].status = "synced" => Committed(c)

\* An operation is called synced only when the service performed it.
SyncedDone ==
  /\ \A a \in Actors : Done(queue[a])
  /\ \A p \in Processes : Done(rmw[p].base) /\ Done(rmw[p].out)
  /\ \A d \in Drains : Run(d).pc \in {"mark", "store"} /\ Run(d).mark = "synced" => Committed(Run(d).op)

\* Without overlapping writes each entry holds operations of its actor only.
Owned ==
  /\ \A a \in Actors, c \in Captures : queue[a][c] # Absent => capture[c].owner = a
  /\ \A d \in Drains : Run(d).pc # "recover"

Somewhere(c) ==
  \/ Committed(c)
  \/ \E a \in Actors : queue[a][c] # Absent \/ c \in archive[a] \/ c \in quarantine[a]

Saved ==
  /\ \A c \in Captures : capture[c].stage = "queued" => Somewhere(capture[c].as)
  /\ \A c \in Captures : capture[c].stage # "queued" => capture[c].as = c
  /\ \A d \in Drains : Run(d).pc = "remove" =>
       With(rmw[d].base, "failed_permanent") \subseteq quarantine[rmw[d].from]

\* With one run at a time, an operation in doubt waits for a reconciliation.
Waiting == {"unknown", "synced", "absent"}

Alone == \A d, e \in Drains : d # e => At(d, "idle") \/ At(e, "idle")

RunDoubted(d) ==
  /\ Run(d).loop = "due" /\ Run(d).pc \in {"due", "mark", "store", "ask"} =>
       Run(d).todo \cap doubt = {}
  /\ Run(d).pc \in {"unknown", "due"} => Run(d).loop = Run(d).pc
  /\ Run(d).pc \in {"mark", "store"} =>
       Run(d).op \notin doubt \/ (Run(d).asked /\ Run(d).mark = "synced")
  /\ Run(d).pc \in {"mark", "store", "ask"} => Run(d).op \notin Run(d).todo

Doubted ==
  /\ \A a \in Actors, c \in doubt : queue[a][c].status \in Waiting
  /\ \A c \in doubt : capture[c].stage \notin {"new", "offline", "writing"}
  /\ \A d \in Drains : RunDoubted(d)

Orderly == ~overlapped => Owned /\ Saved
Blind == ~overlapped /\ ~crowded => Alone /\ Doubted

-----------------------------------------------------------------------------
(* Types, one part of the state at a time.                                 *)

DrainTyped == drain \in [Drains -> DrainRecord]
CaptureTyped == capture \in [Captures -> CaptureRecord]
HoldTyped == rmw \in [Processes -> HoldRecord]
QueueTyped == queue \in [Actors -> Entry]
AsideTyped == archive \in [Actors -> SUBSET Captures] /\ quarantine \in [Actors -> SUBSET Captures]
IdentityTyped ==
  session \in Actors \cup {None} /\ scope \in Actors \cup {None} /\ mounted \in Drains \cup {None}
ServerTyped ==
  /\ receipts \in SUBSET (Actors \X Captures) /\ inflight \in SUBSET (Actors \X Captures)
  /\ stale \in SUBSET Captures
BooksTyped ==
  /\ doubt \in SUBSET Captures /\ overlapped \in BOOLEAN /\ crowded \in BOOLEAN
  /\ faults \in Nat /\ logins \in Nat

RunFit(d) ==
  /\ Run(d).pc \in {"mark", "store", "ask"} => Run(d).op \in Captures
  /\ IF Run(d).pc \in Holding THEN rmw[d].from \in Actors ELSE rmw[d] = NoWrite
CaptureFit(c) ==
  IF capture[c].stage = "writing" THEN rmw[c].from \in Actors ELSE rmw[c] = NoWrite
MountFit == \A d \in Drains : mounted = d => drain[d].actor \in Actors
RunsFitAll == (\A d \in Drains : RunFit(d)) /\ (\A c \in Captures : CaptureFit(c)) /\ MountFit

\* The parts of Typed.
LEMMA Parts ==
  Typed <=> /\ DrainTyped /\ CaptureTyped /\ HoldTyped /\ QueueTyped /\ AsideTyped
            /\ IdentityTyped /\ ServerTyped /\ BooksTyped /\ RunsFitAll
BY DEF Typed, TypeOK, RunsFit, DrainTyped, CaptureTyped, HoldTyped, QueueTyped, AsideTyped,
       IdentityTyped, ServerTyped, BooksTyped, RunsFitAll, RunFit, CaptureFit, MountFit,
       DrainRecord, RunRecord, CaptureRecord, HoldRecord

LEMMA PartsNext ==
  Typed' <=> /\ DrainTyped' /\ CaptureTyped' /\ HoldTyped' /\ QueueTyped' /\ AsideTyped'
             /\ IdentityTyped' /\ ServerTyped' /\ BooksTyped' /\ RunsFitAll'
BY DEF Typed, TypeOK, RunsFit, DrainTyped, CaptureTyped, HoldTyped, QueueTyped, AsideTyped,
       IdentityTyped, ServerTyped, BooksTyped, RunsFitAll, RunFit, CaptureFit, MountFit,
       DrainRecord, RunRecord, CaptureRecord, HoldRecord

\* Nothing is read or written in the name of None, and processes of two kinds differ.
LEMMA Names ==
  /\ \A d \in Drains : d \in Processes /\ d \notin Captures /\ d # None
  /\ \A c \in Captures : c \in Processes /\ c \notin Drains /\ c # None
  /\ None \notin Actors
BY QueueAssumption DEF Processes

LEMMA EntryTyped ==
  /\ Absent \in Operation /\ Empty \in Entry /\ NoWrite \in HoldRecord
  /\ NoWrite.from = None /\ NoWrite.base = Empty /\ NoWrite.out = Empty
  /\ [status |-> "pending", attempts |-> 0] \in Operation
  /\ \A c \in Captures : Empty[c] = Absent
<1>1. Absent \in Operation /\ [status |-> "pending", attempts |-> 0] \in Operation
  BY QueueAssumption DEF Absent, Operation, Live
<1> QED BY <1>1 DEF Empty, Entry, NoWrite, HoldRecord

\* What a mark makes of an operation.
LEMMA MarkedTyped ==
  ASSUME NEW op \in Operation, NEW mark \in Marks
  PROVE /\ Marked(op, mark) \in Operation
        /\ op.status # "absent" => Marked(op, mark).status # "absent"
        /\ Marked(op, mark).status = "synced" => mark = "synced"
        /\ mark = "unknown" => Marked(op, mark).status = "unknown"
        /\ mark = "synced" => Marked(op, mark).status = "synced"
<1>1. Capped(op.attempts + 1) \in 0..MaxAttempts
  BY QueueAssumption DEF Capped, Operation
<1>2. CASE mark \in {"synced", "retrying"} BY <1>2 DEF Marked, Operation, Live
<1>3. CASE mark = "unknown" BY <1>1, <1>3 DEF Marked, Operation, Live
<1>4. CASE mark = "refused" BY <1>1, <1>4 DEF Marked, Operation, Live
<1>5. CASE mark = "failed" BY <1>1, <1>5 DEF Marked, Operation, Live
<1> QED BY <1>2, <1>3, <1>4, <1>5 DEF Marks

\* An operation is absent exactly when its status says so: nothing stores another one.
LEMMA WithoutTyped ==
  ASSUME NEW q \in Entry, NEW status
  PROVE /\ Without(q, status) \in Entry
        /\ \A c \in Captures : Without(q, status)[c] \in {q[c], Absent}
        /\ \A c \in Captures : Without(q, status)[c] = IF q[c].status = status THEN Absent ELSE q[c]
BY EntryTyped DEF Without, Entry

-----------------------------------------------------------------------------
(* What a run, a hold and a write of one process do.                       *)

Ran(d, r) ==
  /\ DrainTyped'
  /\ drain'[d].run = r /\ drain'[d].actor = drain[d].actor
  /\ \A e \in Drains \ {d} : drain'[e] = drain[e]

LEMMA Becomes ==
  ASSUME DrainTyped, NEW d \in Drains, NEW r \in RunRecord, drain' = [drain EXCEPT ![d].run = r]
  PROVE Ran(d, r)
BY DEF DrainTyped, DrainRecord, Ran

LEMMA GoMoves ==
  ASSUME DrainTyped, NEW d \in Drains, NEW s \in Steps, Go(d, s)
  PROVE /\ DrainTyped'
        /\ drain'[d].run.pc = s
        /\ drain'[d].run.op = drain[d].run.op /\ drain'[d].run.mark = drain[d].run.mark
        /\ drain'[d].run.loop = drain[d].run.loop /\ drain'[d].run.todo = drain[d].run.todo
        /\ drain'[d].run.asked = drain[d].run.asked
        /\ drain'[d].actor = drain[d].actor
        /\ \A e \in Drains \ {d} : drain'[e] = drain[e]
BY DEF DrainTyped, DrainRecord, RunRecord, Go

\* A process takes hold of the queue of a, or lets go of what it held.
TakesHold(p, a, out) == rmw' = [rmw EXCEPT ![p] = [from |-> a, base |-> queue[a], out |-> out]]

LEMMA HoldStep ==
  ASSUME HoldTyped, QueueTyped, NEW p \in Processes, NEW a \in Actors, NEW out \in Entry,
         TakesHold(p, a, out)
  PROVE /\ HoldTyped'
        /\ rmw'[p].from = a /\ rmw'[p].base = queue[a] /\ rmw'[p].out = out
        /\ \A q \in Processes \ {p} : rmw'[q] = rmw[q]
BY DEF HoldTyped, QueueTyped, HoldRecord, TakesHold

LEMMA LetGoStep ==
  ASSUME HoldTyped, NEW p \in Processes, LetGo(p)
  PROVE HoldTyped' /\ rmw'[p] = NoWrite /\ \A q \in Processes \ {p} : rmw'[q] = rmw[q]
BY EntryTyped DEF HoldTyped, LetGo

-----------------------------------------------------------------------------
(* Every step settles, fetches an entry, drafts an operation or stores one *)
(* of the entries held: what it does to the queues, the holds, the runs    *)
(* and the captures.                                                       *)

Unwritten == {"new", "offline", "writing"}
Leaving == {"recovery", "quarantine", "remove"}

HoldOn(p) == rmw'[p] \in {rmw[p], NoWrite}

DrainOn(d) ==
  drain'[d].run.pc \in Holding =>
    /\ drain[d].run.pc \in Holding /\ rmw'[d] = rmw[d]
    /\ drain'[d].run.op = drain[d].run.op /\ drain'[d].run.mark = drain[d].run.mark
    /\ \/ drain'[d].run.pc = drain[d].run.pc
       \/ drain'[d].run.pc \in Leaving /\ drain[d].run.pc \in Leaving

CaptureOn(c) ==
  /\ capture'[c].stage \in Unwritten => capture[c].stage \in Unwritten
  /\ capture'[c].stage = "writing" => capture'[c] = capture[c] /\ rmw'[c] = rmw[c]
  /\ capture'[c].intent # capture[c].intent => capture[c].stage = "new"
  /\ capture'[c].owner = capture[c].owner

On ==
  /\ \A p \in Processes : HoldOn(p)
  /\ \A d \in Drains : DrainOn(d)
  /\ \A c \in Captures : CaptureOn(c)

Settle == queue' = queue /\ On

Stores(p, a) ==
  /\ On
  /\ queue' = [queue EXCEPT ![a] = rmw[p].out]
  /\ overlapped' = (overlapped \/ a # rmw[p].from \/ queue[a] # rmw[p].base)
  /\ p \in Drains => drain[p].run.pc \in {"store", "drop", "remove", "recover"}
  /\ p \in Captures => capture[p].stage = "writing" /\ capture'[p].stage = "queued"

\* What a run makes of the entry it read, at the step s.
Makes(d, s, base, out) ==
  \/ /\ s = "store" /\ drain[d].run.pc = "mark"
     /\ out = [base EXCEPT ![drain[d].run.op] =
                 IF @ = Absent THEN @ ELSE Marked(@, drain[d].run.mark)]
  \/ s = "drop" /\ out = Without(base, "synced")
  \/ s = "recovery" /\ out = Without(base, "failed_permanent")
  \/ s = "recover" /\ out = Empty

Fetches(d, a, out) ==
  /\ TakesHold(d, a, out)
  /\ UNCHANGED <<queue, capture>>
  /\ drain'[d].run.pc \in Holding
  /\ Makes(d, drain'[d].run.pc, queue[a], out)
  /\ drain'[d].run.op = drain[d].run.op /\ drain'[d].run.mark = drain[d].run.mark
  /\ \A e \in Drains \ {d} : drain'[e] = drain[e]
  /\ drain'[d].run.pc = "recover" => Foreign(a)
  /\ drain[d].run.pc = "mark" => a = scope

Drafts(c, a) ==
  /\ capture[c].stage = "offline"
  /\ \A e \in Content(queue[a]) : Intent(e) # Intent(c)
  /\ capture' = [capture EXCEPT ![c].stage = "writing", ![c].owner = a]
  /\ TakesHold(c, a, [queue[a] EXCEPT ![c] = [status |-> "pending", attempts |-> 0]])
  /\ UNCHANGED <<queue, drain>>

Step ==
  \/ Settle
  \/ \E p \in Processes, a \in Actors : Stores(p, a)
  \/ \E d \in Drains, a \in Actors, out \in Entry : Fetches(d, a, out)
  \/ \E c \in Captures, a \in Actors : Drafts(c, a)

\* The step is of the run d alone.
RunOnly(d) ==
  /\ \A e \in Drains \ {d} : drain'[e] = drain[e]
  /\ drain'[d].actor = drain[d].actor
  /\ UNCHANGED <<capture, mounted>>
  /\ drain'[d].run.pc \in {"mark", "store", "ask"} => drain'[d].run.op \in Captures

\* A run goes on with what it holds, or goes on without.
Continues(d) ==
  /\ drain'[d].run.pc \in Holding <=> drain[d].run.pc \in Holding
  /\ drain[d].run.pc \in Holding =>
       /\ drain'[d].run.op = drain[d].run.op /\ drain'[d].run.mark = drain[d].run.mark
       /\ \/ drain'[d].run.pc = drain[d].run.pc
          \/ drain'[d].run.pc \in Leaving /\ drain[d].run.pc \in Leaving

LEMMA Plain ==
  ASSUME RunsFitAll, NEW d \in Drains, RunOnly(d), Continues(d), rmw' = rmw
  PROVE RunsFitAll' /\ On
<1>1. RunFit(d)' BY DEF RunsFitAll, RunFit, RunOnly, Continues, Run
<1>2. \A e \in Drains \ {d} : RunFit(e)' BY DEF RunsFitAll, RunFit, RunOnly, Run
<1>3. (\A c \in Captures : CaptureFit(c)') /\ MountFit'
  BY DEF RunsFitAll, CaptureFit, MountFit, RunOnly
<1>4. (\A p \in Processes : HoldOn(p)) /\ \A c \in Captures : CaptureOn(c)
  BY DEF HoldOn, CaptureOn, RunOnly
<1>5. \A e \in Drains : DrainOn(e) BY DEF DrainOn, RunOnly, Continues
<1> QED BY <1>1, <1>2, <1>3, <1>4, <1>5 DEF RunsFitAll, On

LEMMA Freed ==
  ASSUME RunsFitAll, HoldTyped, NEW d \in Drains, RunOnly(d), drain'[d].run.pc \notin Holding,
         LetGo(d)
  PROVE RunsFitAll' /\ On
<1>0. d \in Processes /\ d \notin Captures /\ \A c \in Captures : c \in Processes BY Names
<1>a. rmw'[d] = NoWrite /\ \A q \in Processes \ {d} : rmw'[q] = rmw[q] BY <1>0, LetGoStep
<1>1. RunFit(d)' BY <1>a DEF RunFit, RunOnly, Run
<1>2. \A e \in Drains \ {d} : RunFit(e)' BY <1>a DEF RunsFitAll, RunFit, RunOnly, Run, Processes
<1>3. (\A c \in Captures : CaptureFit(c)') /\ MountFit'
  BY <1>0, <1>a DEF RunsFitAll, CaptureFit, MountFit, RunOnly
<1>4. (\A p \in Processes : HoldOn(p)) /\ \A c \in Captures : CaptureOn(c)
  BY <1>0, <1>a DEF HoldOn, CaptureOn, RunOnly
<1>5. \A e \in Drains : DrainOn(e)
  <2>1. DrainOn(d) BY DEF DrainOn
  <2>2. ASSUME NEW e \in Drains \ {d} PROVE DrainOn(e)
    BY <1>a DEF DrainOn, RunOnly, Processes
  <2> QED BY <2>1, <2>2
<1> QED BY <1>1, <1>2, <1>3, <1>4, <1>5 DEF RunsFitAll, On

LEMMA Fetched ==
  ASSUME RunsFitAll, HoldTyped, QueueTyped, NEW d \in Drains, NEW a \in Actors, NEW out \in Entry,
         RunOnly(d), TakesHold(d, a, out), drain'[d].run.pc \in Holding
  PROVE RunsFitAll'
<1>0. d \in Processes /\ d \notin Captures /\ \A c \in Captures : c \in Processes BY Names
<1>a. rmw'[d].from = a /\ \A q \in Processes \ {d} : rmw'[q] = rmw[q] BY <1>0, HoldStep
<1>1. RunFit(d)' BY <1>a DEF RunFit, RunOnly, Run
<1>2. \A e \in Drains \ {d} : RunFit(e)' BY <1>a DEF RunsFitAll, RunFit, RunOnly, Run, Processes
<1>3. (\A c \in Captures : CaptureFit(c)') /\ MountFit'
  BY <1>0, <1>a DEF RunsFitAll, CaptureFit, MountFit, RunOnly
<1> QED BY <1>1, <1>2, <1>3 DEF RunsFitAll

-----------------------------------------------------------------------------
(* The steps of a run.                                                     *)

ByRun(d) == Typed' /\ Step

LEMMA ReadTyped ==
  ASSUME AsideTyped, QueueTyped, IdentityTyped, ReadThrows
  PROVE AsideTyped' /\ queue' = queue /\ quarantine' = quarantine
BY DEF AsideTyped, QueueTyped, IdentityTyped, ReadThrows, Content

LEMMA RunTyped ==
  ASSUME DrainTyped, NEW d \in Drains
  PROVE /\ drain[d].run \in RunRecord /\ drain[d].actor \in Actors \cup {None}
        /\ Run(d) = drain[d].run
BY DEF DrainTyped, DrainRecord, Run

LEMMA RestingTyped == Resting \in RunRecord /\ Resting.pc = "idle"
BY DEF Resting, RunRecord, Steps, Marks

LEMMA AbortStep ==
  ASSUME DrainTyped, NEW d \in Drains, Abort(d), UNCHANGED <<capture, mounted>>
  PROVE DrainTyped' /\ RunOnly(d) /\ drain'[d].run = Resting
<1>1. Ran(d, Resting) BY RestingTyped, Becomes DEF Abort, Become
<1> QED BY <1>1, RestingTyped DEF Ran, RunOnly

\* A step that only moves the run d to the stage s.
LEMMA MoveStep ==
  ASSUME DrainTyped, RunsFitAll, NEW d \in Drains, NEW s \in Steps, Go(d, s),
         UNCHANGED <<capture, mounted>>,
         s \in {"mark", "store", "ask"} => drain[d].run.pc \in {"mark", "store", "ask"}
  PROVE DrainTyped' /\ RunOnly(d) /\ drain'[d].run.pc = s
BY GoMoves DEF RunOnly, RunsFitAll, RunFit, Run

LEMMA WakeStep == ASSUME Typed, NEW d \in Drains, Wake(d) PROVE ByRun(d)
<1>0. DrainTyped /\ RunsFitAll BY Parts
<1>1. Go(d, "start") /\ drain[d].run.pc = "idle" /\ mounted = d
  BY DEF Wake, Begin, At, Run
<1>2. DrainTyped' /\ RunOnly(d) /\ drain'[d].run.pc = "start"
  <2>1. "start" \in Steps BY DEF Steps
  <2> QED BY <1>0, <1>1, <2>1, MoveStep DEF Wake
<1>3. Continues(d) BY <1>1, <1>2 DEF Continues, Holding
<1>4. rmw' = rmw /\ queue' = queue BY DEF Wake, store
<1>5. RunsFitAll' /\ On BY <1>0, <1>2, <1>3, <1>4, Plain
<1>6. drain[d].actor \in Actors BY <1>0, <1>1 DEF RunsFitAll, MountFit
<1>7. /\ CaptureTyped' /\ HoldTyped' /\ QueueTyped' /\ AsideTyped'
      /\ IdentityTyped' /\ ServerTyped' /\ BooksTyped'
  BY <1>6, Parts DEF Wake, Begin, Crowd, CaptureTyped, HoldTyped, QueueTyped, AsideTyped,
     IdentityTyped, ServerTyped, BooksTyped, store, server, bounds
<1>8. Typed' BY <1>2, <1>5, <1>7, PartsNext
<1> QED BY <1>4, <1>5, <1>8 DEF ByRun, Step, Settle

LEMMA GatherStep == ASSUME Typed, NEW d \in Drains, Gather(d) PROVE ByRun(d)
<1>0. DrainTyped /\ RunsFitAll /\ AsideTyped /\ QueueTyped /\ IdentityTyped BY Parts
<1>1. drain[d].run.pc \in {"start", "gather"} /\ UNCHANGED <<capture, mounted, rmw>>
  BY DEF Gather, At, Run, identity
<1>2. DrainTyped' /\ AsideTyped' /\ queue' = queue /\ RunOnly(d) /\ drain'[d].run.pc \notin Holding
  <2>1. CASE ReadFails
    BY <2>1, <1>0, <1>1, ReadTyped, AbortStep, RestingTyped DEF Holding, Gather
  <2>2. CASE ~ReadFails /\ UNCHANGED store
    <3>a. queue' = queue /\ AsideTyped' BY <2>2, <1>0 DEF store, AsideTyped
    <3>1. CASE Become(d, [Run(d) EXCEPT !.pc = "unknown", !.loop = "unknown",
                                        !.todo = With(queue[scope], "unknown")])
      <4> DEFINE r == [drain[d].run EXCEPT !.pc = "unknown", !.loop = "unknown",
                                           !.todo = With(queue[scope], "unknown")]
      <4>1. r \in RunRecord /\ r.pc = "unknown" BY <1>0, RunTyped DEF RunRecord, Steps, With
      <4>2. drain' = [drain EXCEPT ![d].run = r] BY <3>1 DEF Become, Run
      <4>3. Ran(d, r) BY <1>0, <4>1, <4>2, Becomes
      <4> QED BY <3>a, <4>1, <4>3, <1>1 DEF Ran, RunOnly, Holding
    <3>2. CASE \E later \in SUBSET With(queue[scope], "retrying") :
                 Become(d, [Run(d) EXCEPT !.pc = "due", !.loop = "due",
                     !.todo = With(queue[scope], "pending") \cup later])
      <4>0. PICK later \in SUBSET With(queue[scope], "retrying") :
              Become(d, [Run(d) EXCEPT !.pc = "due", !.loop = "due",
                     !.todo = With(queue[scope], "pending") \cup later]) BY <3>2
      <4> DEFINE r == [drain[d].run EXCEPT !.pc = "due", !.loop = "due",
                                           !.todo = With(queue[scope], "pending") \cup later]
      <4>1. r \in RunRecord /\ r.pc = "due" BY <1>0, RunTyped DEF RunRecord, Steps, With
      <4>2. drain' = [drain EXCEPT ![d].run = r] BY <4>0 DEF Become, Run
      <4>3. Ran(d, r) BY <1>0, <4>1, <4>2, Becomes
      <4> QED BY <3>a, <4>1, <4>3, <1>1 DEF Ran, RunOnly, Holding
    <3> QED BY <2>2, <3>1, <3>2 DEF Gather
  <2> QED BY <2>1, <2>2 DEF Gather
<1>3. Continues(d) BY <1>1, <1>2 DEF Continues, Holding
<1>4. RunsFitAll' /\ On BY <1>0, <1>1, <1>2, <1>3, Plain
<1>5. CaptureTyped' /\ HoldTyped' /\ QueueTyped' /\ IdentityTyped' /\ ServerTyped' /\ BooksTyped'
  BY <1>1, <1>2, Parts DEF Gather, CaptureTyped, HoldTyped, QueueTyped, IdentityTyped, ServerTyped,
     BooksTyped, identity, server, history, bounds
<1>6. Typed' BY <1>2, <1>4, <1>5, PartsNext
<1> QED BY <1>2, <1>4, <1>6 DEF ByRun, Step, Settle

LEMMA FinishedStep == ASSUME Typed, NEW d \in Drains, Finished(d) PROVE ByRun(d)
<1>0. DrainTyped /\ RunsFitAll BY Parts
<1>1. /\ drain[d].run.pc \in {"unknown", "due"}
      /\ UNCHANGED <<capture, mounted, rmw, queue>>
  BY DEF Finished, At, Run, identity, store
<1>2. DrainTyped' /\ RunOnly(d) /\ drain'[d].run.pc \in {"gather", "purge"}
  <2>1. "gather" \in Steps /\ "purge" \in Steps BY DEF Steps
  <2> QED BY <1>0, <1>1, <2>1, MoveStep DEF Finished
<1>3. Continues(d) BY <1>1, <1>2 DEF Continues, Holding
<1>4. RunsFitAll' /\ On BY <1>0, <1>1, <1>2, <1>3, Plain
<1>5. /\ CaptureTyped' /\ HoldTyped' /\ QueueTyped' /\ AsideTyped' /\ IdentityTyped'
      /\ ServerTyped' /\ BooksTyped'
  BY Parts DEF Finished, CaptureTyped, HoldTyped, QueueTyped, AsideTyped, IdentityTyped,
     ServerTyped, BooksTyped, identity, store, server, history, bounds
<1>6. Typed' BY <1>2, <1>4, <1>5, PartsNext
<1> QED BY <1>1, <1>4, <1>6 DEF ByRun, Step, Settle

LEMMA MarkStep ==
  ASSUME DrainTyped, NEW d \in Drains, NEW c \in Captures, NEW mark \in Marks,
         NEW asked \in BOOLEAN, Mark(d, c, mark, asked), UNCHANGED <<capture, mounted>>
  PROVE /\ DrainTyped' /\ RunOnly(d) /\ drain'[d].run.pc = "mark"
        /\ drain'[d].run.op = c /\ drain'[d].run.mark = mark /\ drain'[d].run.asked = asked
        /\ drain'[d].run.loop = drain[d].run.loop
        /\ drain'[d].run.todo = drain[d].run.todo \ {c}
<1> DEFINE r == [drain[d].run EXCEPT !.pc = "mark", !.op = c, !.mark = mark, !.asked = asked,
                                     !.todo = @ \ {c}]
<1>0. "mark" \in Steps BY DEF Steps
<1>1. drain[d].run \in RunRecord BY RunTyped
<1>2. /\ r \in RunRecord /\ r.pc = "mark" /\ r.op = c /\ r.mark = mark /\ r.asked = asked
      /\ r.loop = drain[d].run.loop /\ r.todo = drain[d].run.todo \ {c}
  BY <1>0, <1>1 DEF RunRecord
<1>3. drain' = [drain EXCEPT ![d].run = r] BY DEF Mark, Become, Run
<1>4. Ran(d, r) BY <1>2, <1>3, Becomes
<1> QED BY <1>2, <1>4 DEF Ran, RunOnly

\* A question without an answer: the run goes back to its loop.
LEMMA BackStep ==
  ASSUME DrainTyped, NEW d \in Drains, NEW c \in Captures, UNCHANGED <<capture, mounted>>,
         Become(d, [Run(d) EXCEPT !.pc = Run(d).loop, !.todo = @ \ {c}])
  PROVE /\ DrainTyped' /\ RunOnly(d) /\ drain'[d].run.pc = drain[d].run.loop
        /\ drain'[d].run.pc \in {"unknown", "due"}
        /\ drain'[d].run.loop = drain[d].run.loop
        /\ drain'[d].run.todo = drain[d].run.todo \ {c}
<1> DEFINE r == [drain[d].run EXCEPT !.pc = drain[d].run.loop, !.todo = @ \ {c}]
<1>0. "unknown" \in Steps /\ "due" \in Steps BY DEF Steps
<1>1. drain[d].run \in RunRecord BY RunTyped
<1>2. /\ r \in RunRecord /\ r.pc = drain[d].run.loop /\ r.pc \in {"unknown", "due"}
      /\ r.loop = drain[d].run.loop /\ r.todo = drain[d].run.todo \ {c}
  BY <1>0, <1>1 DEF RunRecord
<1>3. drain' = [drain EXCEPT ![d].run = r] BY DEF Become, Run
<1>4. Ran(d, r) BY <1>2, <1>3, Becomes
<1> QED BY <1>2, <1>4 DEF Ran, RunOnly

LEMMA PerformTyped ==
  ASSUME ServerTyped, NEW a \in Actors, NEW c \in Captures, Perform(a, c),
         inflight' \in SUBSET (Actors \X Captures), stale' \in SUBSET Captures
  PROVE ServerTyped' /\ receipts \subseteq receipts' /\ <<a, c>> \in receipts'
BY DEF ServerTyped, Perform

LEMMA LostTyped ==
  ASSUME ServerTyped, IdentityTyped, NEW c \in Captures, Lost(c), stale' = stale
  PROVE ServerTyped' /\ receipts \subseteq receipts'
<1>1. CASE UNCHANGED <<receipts, inflight>> BY <1>1 DEF ServerTyped
<1>2. CASE Accepted(c) /\ UNCHANGED inflight
  <2>1. session \in Actors /\ Perform(session, c) BY <1>2 DEF Accepted, IdentityTyped
  <2> QED BY <1>2, <2>1, PerformTyped DEF ServerTyped
<1>3. CASE /\ session # None /\ inflight' = inflight \cup {<<session, c>>}
           /\ UNCHANGED receipts
  BY <1>3 DEF ServerTyped, IdentityTyped
<1> QED BY <1>1, <1>2, <1>3 DEF Lost

LEMMA ReconcileStep ==
  ASSUME Typed, NEW d \in Drains, NEW c \in Captures, Reconcile(d, c) PROVE ByRun(d)
<1>0. DrainTyped /\ RunsFitAll /\ BooksTyped BY Parts
<1>1. /\ drain[d].run.pc \in {"unknown", "ask"}
      /\ UNCHANGED <<capture, mounted, rmw, queue>>
  BY DEF Reconcile, At, Run, identity, store
<1>2. DrainTyped' /\ RunOnly(d) /\ drain'[d].run.pc \notin Holding /\ BooksTyped'
  <2>a. overlapped' = overlapped /\ crowded' = crowded /\ logins' = logins BY DEF Reconcile
  <2>b. {"synced", "retrying"} \subseteq Marks BY DEF Marks
  <2>1. CASE /\ Mark(d, c, "synced", TRUE) /\ UNCHANGED <<doubt, faults>>
    BY <1>0, <1>1, <2>1, <2>a, <2>b, MarkStep DEF Holding, BooksTyped
  <2>2. CASE /\ Mark(d, c, "retrying", TRUE) /\ doubt' = doubt \ {c} /\ UNCHANGED faults
    BY <1>0, <1>1, <2>2, <2>a, <2>b, MarkStep DEF Holding, BooksTyped
  <2>3. CASE /\ \/ session = None /\ UNCHANGED faults
                \/ faults < MaxFaults /\ faults' = faults + 1
             /\ Become(d, [Run(d) EXCEPT !.pc = Run(d).loop, !.todo = @ \ {c}])
             /\ UNCHANGED doubt
    <3>1. BooksTyped' BY <1>0, <2>3, <2>a DEF BooksTyped
    <3>2. DrainTyped' /\ RunOnly(d) /\ drain'[d].run.pc \in {"unknown", "due"}
      BY <1>0, <1>1, <2>3, BackStep
    <3> QED BY <3>1, <3>2 DEF Holding
  <2> QED BY <2>1, <2>2, <2>3 DEF Reconcile
<1>3. Continues(d) BY <1>1, <1>2 DEF Continues, Holding
<1>4. RunsFitAll' /\ On BY <1>0, <1>1, <1>2, <1>3, Plain
<1>5. CaptureTyped' /\ HoldTyped' /\ QueueTyped' /\ AsideTyped' /\ IdentityTyped' /\ ServerTyped'
  BY Parts DEF Reconcile, CaptureTyped, HoldTyped, QueueTyped, AsideTyped, IdentityTyped,
     ServerTyped, identity, store, server
<1>6. Typed' BY <1>2, <1>4, <1>5, PartsNext
<1> QED BY <1>1, <1>4, <1>6 DEF ByRun, Step, Settle

LEMMA ExecuteStep ==
  ASSUME Typed, NEW d \in Drains, NEW c \in Captures, Execute(d, c) PROVE ByRun(d)
<1>0. DrainTyped /\ RunsFitAll /\ BooksTyped /\ ServerTyped /\ IdentityTyped BY Parts
<1>1. /\ drain[d].run.pc = "due"
      /\ UNCHANGED <<capture, mounted, rmw, queue, stale>>
  BY DEF Execute, At, Run, identity, store
<1>2. /\ DrainTyped' /\ RunOnly(d) /\ drain'[d].run.pc \notin Holding /\ BooksTyped' /\ ServerTyped'
  <2>a. overlapped' = overlapped /\ crowded' = crowded /\ logins' = logins /\ doubt' = doubt
    BY DEF Execute, history
  <2>b. {"synced", "refused", "failed", "unknown"} \subseteq Marks BY DEF Marks
  <2>1. CASE Accepted(c) /\ Mark(d, c, "synced", FALSE) /\ UNCHANGED <<inflight, faults>>
    <3>1. session \in Actors /\ Perform(session, c) BY <2>1, <1>0 DEF Accepted, IdentityTyped
    <3>2. ServerTyped' BY <3>1, <2>1, <1>0, <1>1, PerformTyped DEF ServerTyped
    <3> QED BY <3>2, <1>0, <1>1, <2>1, <2>a, <2>b, MarkStep DEF Holding, BooksTyped
  <2>2. CASE /\ Mark(d, c, "refused", FALSE)
             /\ UNCHANGED <<receipts, inflight, faults>>
    BY <1>0, <1>1, <2>2, <2>a, <2>b, MarkStep DEF Holding, BooksTyped, ServerTyped
  <2>3. CASE /\ Mark(d, c, "failed", FALSE)
             /\ UNCHANGED <<receipts, inflight, faults>>
    BY <1>0, <1>1, <2>3, <2>a, <2>b, MarkStep DEF Holding, BooksTyped, ServerTyped
  <2>4. CASE /\ faults < MaxFaults /\ faults' = faults + 1
             /\ Lost(c) /\ Mark(d, c, "unknown", FALSE)
    <3>1. ServerTyped' BY <2>4, <1>0, <1>1, LostTyped
    <3>2. BooksTyped' BY <1>0, <2>4, <2>a DEF BooksTyped
    <3> QED BY <3>1, <3>2, <1>0, <1>1, <2>4, <2>b, MarkStep DEF Holding
  <2> QED BY <2>1, <2>2, <2>3, <2>4 DEF Execute
<1>3. Continues(d) BY <1>1, <1>2 DEF Continues, Holding
<1>4. RunsFitAll' /\ On BY <1>0, <1>1, <1>2, <1>3, Plain
<1>5. CaptureTyped' /\ HoldTyped' /\ QueueTyped' /\ AsideTyped' /\ IdentityTyped'
  BY Parts DEF Execute, CaptureTyped, HoldTyped, QueueTyped, AsideTyped, IdentityTyped,
     identity, store
<1>6. Typed' BY <1>2, <1>4, <1>5, PartsNext
<1> QED BY <1>1, <1>4, <1>6 DEF ByRun, Step, Settle

LEMMA WriteStep ==
  ASSUME HoldTyped, QueueTyped, IdentityTyped, BooksTyped, NEW p \in Processes, Write(p)
  PROVE /\ scope \in Actors /\ QueueTyped' /\ LetGo(p) /\ overlapped' \in BOOLEAN
        /\ queue' = [queue EXCEPT ![scope] = rmw[p].out]
        /\ overlapped' = (overlapped \/ scope # rmw[p].from \/ queue[scope] # rmw[p].base)
BY DEF HoldTyped, QueueTyped, IdentityTyped, BooksTyped, Write, HoldRecord

LEMMA ThrowsStep ==
  ASSUME BooksTyped, NEW p, WriteThrows(p)
  PROVE LetGo(p) /\ queue' = queue /\ overlapped' = overlapped /\ faults' \in Nat
BY DEF WriteThrows, BooksTyped

LEMMA ThrownStep ==
  ASSUME DrainTyped, RunsFitAll, NEW d \in Drains, drain[d].run.pc \in {"mark", "store"},
         Thrown(d), UNCHANGED <<capture, mounted>>
  PROVE /\ DrainTyped' /\ RunOnly(d)
        /\ drain'[d].run.pc \in {"unknown", "due", "mark", "idle"}
        /\ drain'[d].run.pc = "mark" =>
             /\ drain'[d].run.mark = "failed" /\ drain'[d].run.op = drain[d].run.op
             /\ drain'[d].run.loop = drain[d].run.loop
             /\ drain'[d].run.todo = drain[d].run.todo
        /\ drain'[d].run.pc \in {"unknown", "due"} =>
             /\ drain'[d].run.pc = drain[d].run.loop /\ drain'[d].run.loop = drain[d].run.loop
             /\ drain'[d].run.todo = drain[d].run.todo
        /\ drain'[d].run.pc = "idle" => drain'[d].run = Resting
<1>0. drain[d].run \in RunRecord BY RunTyped
<1>1. drain[d].run.loop \in Steps /\ "mark" \in Steps /\ "failed" \in Marks
  BY <1>0 DEF Steps, RunRecord, Marks
<1>2. CASE Go(d, Run(d).loop)
  <2>1. drain[d].run.loop \in {"unknown", "due"} BY <1>0 DEF RunRecord
  <2>2. DrainTyped' /\ RunOnly(d) /\ drain'[d].run.pc = drain[d].run.loop
    BY <1>1, <1>2, <2>1, MoveStep DEF Run
  <2> QED BY <1>1, <1>2, <2>1, <2>2, GoMoves DEF Run
<1>3. CASE Become(d, [Run(d) EXCEPT !.pc = "mark", !.mark = "failed"])
  <2> DEFINE r == [drain[d].run EXCEPT !.pc = "mark", !.mark = "failed"]
  <2>1. /\ r \in RunRecord /\ r.pc = "mark" /\ r.op = drain[d].run.op /\ r.mark = "failed"
        /\ r.loop = drain[d].run.loop /\ r.todo = drain[d].run.todo
    BY <1>0, <1>1 DEF RunRecord
  <2>2. drain' = [drain EXCEPT ![d].run = r] BY <1>3 DEF Become, Run
  <2>3. Ran(d, r) BY <2>1, <2>2, Becomes
  <2>4. drain[d].run.op \in Captures BY DEF RunsFitAll, RunFit, Run
  <2> QED BY <2>1, <2>3, <2>4 DEF Ran, RunOnly
<1>4. CASE Abort(d) BY <1>4, AbortStep, RestingTyped
<1> QED BY <1>2, <1>3, <1>4 DEF Thrown

\* What a run writes back is an entry.
LEMMA MakesTyped ==
  ASSUME DrainTyped, NEW d \in Drains, drain[d].run.op \in Captures, NEW q \in Entry
  PROVE [q EXCEPT ![drain[d].run.op] =
           IF @ = Absent THEN @ ELSE Marked(@, drain[d].run.mark)] \in Entry
<1>1. drain[d].run.mark \in Marks BY RunTyped DEF RunRecord
<1>2. q[drain[d].run.op] \in Operation BY DEF Entry
<1>3. Marked(q[drain[d].run.op], drain[d].run.mark) \in Operation BY <1>1, <1>2, MarkedTyped
<1> QED BY <1>2, <1>3 DEF Entry

LEMMA MarkReadStep == ASSUME Typed, NEW d \in Drains, MarkRead(d) PROVE ByRun(d)
<1>0. DrainTyped /\ RunsFitAll /\ AsideTyped /\ QueueTyped /\ HoldTyped /\ IdentityTyped BY Parts
<1>1. drain[d].run.pc = "mark" /\ UNCHANGED <<capture, mounted>> /\ drain[d].run.op \in Captures
  BY <1>0 DEF MarkRead, At, Run, identity, RunsFitAll, RunFit
<1>2. CaptureTyped' /\ IdentityTyped' /\ ServerTyped' /\ BooksTyped'
  BY Parts DEF MarkRead, CaptureTyped, IdentityTyped, ServerTyped, BooksTyped,
     identity, server, history, bounds
<1>3. CASE ReadFails
  <2>1. AsideTyped' /\ queue' = queue /\ rmw' = rmw /\ Thrown(d)
    BY <1>0, <1>3, ReadTyped DEF MarkRead
  <2>2. /\ DrainTyped' /\ RunOnly(d) /\ drain'[d].run.pc \in {"unknown", "due", "mark", "idle"}
    BY <1>0, <1>1, <2>1, ThrownStep
  <2>3. Continues(d) BY <1>1, <2>2 DEF Continues, Holding
  <2>4. RunsFitAll' /\ On BY <1>0, <2>1, <2>2, <2>3, Plain
  <2>5. HoldTyped' /\ QueueTyped' BY <1>0, <2>1 DEF HoldTyped, QueueTyped
  <2>6. Typed' BY <1>2, <2>1, <2>2, <2>4, <2>5, PartsNext
  <2> QED BY <2>1, <2>4, <2>6 DEF ByRun, Step, Settle
<1>4. CASE ~ReadFails
  <2> DEFINE out == [queue[scope] EXCEPT ![drain[d].run.op] =
                       IF @ = Absent THEN @ ELSE Marked(@, drain[d].run.mark)]
  <2>0. scope \in Actors BY <1>0, <1>4 DEF ReadFails, IdentityTyped
  <2>1. /\ TakesHold(d, scope, out) /\ Go(d, "store") /\ UNCHANGED <<queue, archive, quarantine>>
    BY <1>4 DEF MarkRead, Hold, TakesHold, Run, store
  <2>2. out \in Entry BY <1>0, <1>1, <2>0, MakesTyped DEF QueueTyped
  <2>3. "store" \in Steps BY DEF Steps
  <2>4. DrainTyped' /\ RunOnly(d) /\ drain'[d].run.pc = "store"
    BY <1>0, <1>1, <2>1, <2>3, MoveStep
  <2>5. drain'[d].run.op = drain[d].run.op /\ drain'[d].run.mark = drain[d].run.mark
    BY <1>0, <2>1, <2>3, GoMoves
  <2>6. HoldTyped' BY <1>0, <2>0, <2>1, <2>2, Names, HoldStep
  <2>7. RunsFitAll' BY <1>0, <2>0, <2>1, <2>2, <2>4, Fetched DEF Holding
  <2>8. QueueTyped' /\ AsideTyped' BY <1>0, <2>1 DEF QueueTyped, AsideTyped
  <2>9. Fetches(d, scope, out)
    BY <1>1, <2>1, <2>4, <2>5 DEF Fetches, RunOnly, Holding, Makes
  <2>10. Typed' BY <1>2, <2>4, <2>6, <2>7, <2>8, PartsNext
  <2> QED BY <2>0, <2>2, <2>9, <2>10 DEF ByRun, Step
<1> QED BY <1>3, <1>4

LEMMA Written ==
  ASSUME Typed, NEW d \in Drains, drain[d].run.pc \in {"store", "drop", "remove"}, Write(d),
         RunOnly(d), drain'[d].run.pc \notin Holding
  PROVE RunsFitAll' /\ HoldTyped' /\ QueueTyped' /\ Step /\ overlapped' \in BOOLEAN
<1>0. HoldTyped /\ QueueTyped /\ IdentityTyped /\ BooksTyped /\ RunsFitAll BY Parts
<1>1. d \in Processes /\ d \notin Captures BY Names
<1>2. /\ scope \in Actors /\ QueueTyped' /\ LetGo(d) /\ overlapped' \in BOOLEAN
      /\ queue' = [queue EXCEPT ![scope] = rmw[d].out]
      /\ overlapped' = (overlapped \/ scope # rmw[d].from \/ queue[scope] # rmw[d].base)
  BY <1>0, <1>1, WriteStep
<1>3. RunsFitAll' /\ On BY <1>0, <1>2, Freed
<1>4. HoldTyped' BY <1>0, <1>1, <1>2, LetGoStep
<1>5. Stores(d, scope) BY <1>1, <1>2, <1>3 DEF Stores
<1> QED BY <1>1, <1>2, <1>3, <1>4, <1>5 DEF Step

LEMMA Threw ==
  ASSUME Typed, NEW d \in Drains, WriteThrows(d), RunOnly(d), drain'[d].run.pc \notin Holding
  PROVE /\ RunsFitAll' /\ HoldTyped' /\ QueueTyped' /\ Step
        /\ overlapped' = overlapped /\ faults' \in Nat
<1>0. HoldTyped /\ QueueTyped /\ BooksTyped /\ RunsFitAll BY Parts
<1>1. LetGo(d) /\ queue' = queue /\ overlapped' = overlapped /\ faults' \in Nat
  BY <1>0, ThrowsStep
<1>2. RunsFitAll' /\ On BY <1>0, <1>1, Freed
<1>3. HoldTyped' BY <1>0, <1>1, Names, LetGoStep
<1>4. QueueTyped' BY <1>0, <1>1 DEF QueueTyped
<1> QED BY <1>1, <1>2, <1>3, <1>4 DEF Step, Settle

LEMMA MarkWriteStep == ASSUME Typed, NEW d \in Drains, MarkWrite(d) PROVE ByRun(d)
<1>0. DrainTyped /\ RunsFitAll /\ BooksTyped BY Parts
<1>1. drain[d].run.pc = "store" /\ UNCHANGED <<capture, mounted>> /\ drain[d].run.op \in Captures
  BY <1>0 DEF MarkWrite, At, Run, identity, RunsFitAll, RunFit
<1>2. CaptureTyped' /\ IdentityTyped' /\ ServerTyped' /\ AsideTyped'
  BY Parts DEF MarkWrite, CaptureTyped, IdentityTyped, ServerTyped, AsideTyped, identity, server
<1>a. crowded' = crowded /\ logins' = logins BY DEF MarkWrite
<1>3. CASE /\ Write(d) /\ UNCHANGED faults
           /\ Go(d, IF Run(d).mark = "unknown" THEN "ask" ELSE Run(d).loop)
           /\ doubt' = IF Run(d).mark = "unknown" /\ rmw[d].out[Run(d).op] # Absent
                       THEN doubt \cup {Run(d).op} ELSE doubt
  <2> DEFINE s == IF Run(d).mark = "unknown" THEN "ask" ELSE Run(d).loop
  <2>1. s \in {"ask", "unknown", "due"} /\ s \in Steps
    <3>1. Run(d).loop \in {"unknown", "due"} BY <1>0, RunTyped DEF RunRecord
    <3> QED BY <3>1 DEF Steps
  <2>2. DrainTyped' /\ RunOnly(d) /\ drain'[d].run.pc = s
    BY <1>0, <1>1, <1>3, <2>1, MoveStep
  <2>3. RunsFitAll' /\ HoldTyped' /\ QueueTyped' /\ Step /\ overlapped' \in BOOLEAN
    BY <1>1, <1>3, <2>1, <2>2, Written DEF Holding
  <2>4. BooksTyped' BY <1>0, <1>1, <1>a, <1>3, <2>3 DEF BooksTyped, Run
  <2>5. Typed' BY <1>2, <2>2, <2>3, <2>4, PartsNext
  <2> QED BY <2>3, <2>5 DEF ByRun
<1>4. CASE WriteThrows(d) /\ Thrown(d) /\ UNCHANGED doubt
  <2>1. DrainTyped' /\ RunOnly(d) /\ drain'[d].run.pc \in {"unknown", "due", "mark", "idle"}
    BY <1>0, <1>1, <1>4, ThrownStep
  <2>2. /\ RunsFitAll' /\ HoldTyped' /\ QueueTyped' /\ Step
        /\ overlapped' = overlapped /\ faults' \in Nat
    BY <1>4, <2>1, Threw DEF Holding
  <2>3. BooksTyped' BY <1>0, <1>a, <1>4, <2>2 DEF BooksTyped
  <2>4. Typed' BY <1>2, <2>1, <2>2, <2>3, PartsNext
  <2> QED BY <2>2, <2>4 DEF ByRun
<1> QED BY <1>3, <1>4 DEF MarkWrite

\* A read of the entry in scope from which one status is taken away.
LEMMA PurgeFetch ==
  ASSUME Typed, NEW d \in Drains, NEW status, NEW s \in {"drop", "recovery"}, ~ReadFails,
         Hold(d, Without(queue[scope], status)), Go(d, s),
         UNCHANGED <<store, capture, mounted>>,
         drain[d].run.pc \notin Holding,
         status = IF s = "drop" THEN "synced" ELSE "failed_permanent"
  PROVE DrainTyped' /\ RunsFitAll' /\ HoldTyped' /\ QueueTyped' /\ AsideTyped' /\ Step
<1> DEFINE out == Without(queue[scope], status)
<1>0. DrainTyped /\ RunsFitAll /\ AsideTyped /\ QueueTyped /\ HoldTyped /\ IdentityTyped BY Parts
<1>1. scope \in Actors BY <1>0 DEF ReadFails, IdentityTyped
<1>2. TakesHold(d, scope, out) BY DEF Hold, TakesHold
<1>3. out \in Entry BY <1>0, <1>1, WithoutTyped DEF QueueTyped
<1>4. s \in Steps BY DEF Steps
<1>5. DrainTyped' /\ RunOnly(d) /\ drain'[d].run.pc = s
  BY <1>0, <1>4, MoveStep
<1>6. drain'[d].run.op = drain[d].run.op /\ drain'[d].run.mark = drain[d].run.mark
  BY <1>0, <1>4, GoMoves
<1>7. HoldTyped' BY <1>0, <1>1, <1>2, <1>3, Names, HoldStep
<1>8. RunsFitAll' BY <1>0, <1>1, <1>2, <1>3, <1>5, Fetched DEF Holding
<1>9. QueueTyped' /\ AsideTyped' BY <1>0 DEF QueueTyped, AsideTyped, store
<1>10. Fetches(d, scope, out)
  BY <1>2, <1>5, <1>6 DEF Fetches, RunOnly, Holding, Makes, store
<1> QED BY <1>1, <1>3, <1>5, <1>7, <1>8, <1>9, <1>10 DEF Step

\* A step that gives the run up and writes nothing.
LEMMA GivenUp ==
  ASSUME Typed, NEW d \in Drains, Abort(d), UNCHANGED <<capture, mounted, rmw, queue>>,
         drain[d].run.pc \notin Holding
  PROVE DrainTyped' /\ RunsFitAll' /\ HoldTyped' /\ QueueTyped' /\ Step
<1>0. DrainTyped /\ RunsFitAll /\ HoldTyped /\ QueueTyped BY Parts
<1>1. DrainTyped' /\ RunOnly(d) /\ drain'[d].run.pc = "idle" BY <1>0, AbortStep, RestingTyped
<1>2. Continues(d) BY <1>1 DEF Continues, Holding
<1>3. RunsFitAll' /\ On BY <1>0, <1>1, <1>2, Plain
<1> QED BY <1>0, <1>1, <1>3 DEF Step, Settle, HoldTyped, QueueTyped

LEMMA PurgeReadStep == ASSUME Typed, NEW d \in Drains, PurgeRead(d) PROVE ByRun(d)
<1>0. AsideTyped /\ QueueTyped /\ IdentityTyped BY Parts
<1>1. /\ drain[d].run.pc = "purge" /\ UNCHANGED <<capture, mounted>>
      /\ drain[d].run.pc \notin Holding
  BY DEF PurgeRead, At, Run, identity, Holding
<1>2. CaptureTyped' /\ IdentityTyped' /\ ServerTyped' /\ BooksTyped'
  BY Parts DEF PurgeRead, CaptureTyped, IdentityTyped, ServerTyped, BooksTyped,
     identity, server, history, bounds
<1>3. CASE ReadFails
  <2>1. AsideTyped' /\ queue' = queue /\ rmw' = rmw /\ Abort(d)
    BY <1>0, <1>3, ReadTyped DEF PurgeRead
  <2>2. DrainTyped' /\ RunsFitAll' /\ HoldTyped' /\ QueueTyped' /\ Step
    BY <1>1, <2>1, GivenUp
  <2> QED BY <1>2, <2>1, <2>2, PartsNext DEF ByRun
<1>4. CASE ~ReadFails
  <2>1. /\ Hold(d, Without(queue[scope], "synced")) /\ Go(d, "drop") /\ UNCHANGED store
    BY <1>4 DEF PurgeRead
  <2>2. DrainTyped' /\ RunsFitAll' /\ HoldTyped' /\ QueueTyped' /\ AsideTyped' /\ Step
    BY <1>1, <1>4, <2>1, PurgeFetch
  <2> QED BY <1>2, <2>2, PartsNext DEF ByRun
<1> QED BY <1>3, <1>4

LEMMA EvacuateReadStep == ASSUME Typed, NEW d \in Drains, EvacuateRead(d) PROVE ByRun(d)
<1>0. AsideTyped /\ QueueTyped /\ IdentityTyped BY Parts
<1>1. /\ drain[d].run.pc = "evacuate" /\ UNCHANGED <<capture, mounted>>
      /\ drain[d].run.pc \notin Holding
  BY DEF EvacuateRead, At, Run, identity, Holding
<1>2. CaptureTyped' /\ IdentityTyped' /\ ServerTyped' /\ BooksTyped'
  BY Parts DEF EvacuateRead, CaptureTyped, IdentityTyped, ServerTyped, BooksTyped,
     identity, server, history, bounds
<1>3. CASE ReadFails
  <2>1. AsideTyped' /\ queue' = queue /\ rmw' = rmw /\ Abort(d)
    BY <1>0, <1>3, ReadTyped DEF EvacuateRead
  <2>2. DrainTyped' /\ RunsFitAll' /\ HoldTyped' /\ QueueTyped' /\ Step
    BY <1>1, <2>1, GivenUp
  <2> QED BY <1>2, <2>1, <2>2, PartsNext DEF ByRun
<1>4. CASE ~ReadFails /\ Abort(d) /\ UNCHANGED rmw
  <2>1. UNCHANGED store BY <1>4 DEF EvacuateRead
  <2>2. AsideTyped' /\ queue' = queue BY <1>0, <2>1 DEF store, AsideTyped
  <2>3. DrainTyped' /\ RunsFitAll' /\ HoldTyped' /\ QueueTyped' /\ Step
    BY <1>1, <1>4, <2>2, GivenUp
  <2> QED BY <1>2, <2>2, <2>3, PartsNext DEF ByRun
<1>5. CASE /\ ~ReadFails /\ Go(d, "recovery")
           /\ Hold(d, Without(queue[scope], "failed_permanent"))
  <2>1. UNCHANGED store BY <1>5 DEF EvacuateRead
  <2>2. DrainTyped' /\ RunsFitAll' /\ HoldTyped' /\ QueueTyped' /\ AsideTyped' /\ Step
    BY <1>1, <1>5, <2>1, PurgeFetch
  <2> QED BY <1>2, <2>2, PartsNext DEF ByRun
<1> QED BY <1>3, <1>4, <1>5 DEF EvacuateRead

\* A step that ends the run after its write, or after the write was rejected.
LEMMA EndedStep ==
  ASSUME Typed, NEW d \in Drains, drain[d].run.pc \in {"drop", "remove"},
         DrainTyped', RunOnly(d), drain'[d].run.pc \notin Holding,
         (Write(d) /\ UNCHANGED faults) \/ WriteThrows(d),
         UNCHANGED <<identity, capture, archive, quarantine, server, crowded, doubt, logins>>
  PROVE ByRun(d)
<1>0. BooksTyped BY Parts
<1>1. CaptureTyped' /\ IdentityTyped' /\ ServerTyped' /\ AsideTyped'
  BY Parts DEF CaptureTyped, IdentityTyped, ServerTyped, AsideTyped, identity, server
<1>2. /\ RunsFitAll' /\ HoldTyped' /\ QueueTyped' /\ Step /\ BooksTyped'
  <2>1. CASE Write(d) /\ UNCHANGED faults
    BY <1>0, <2>1, Written DEF BooksTyped
  <2>2. CASE WriteThrows(d)
    <3>1. /\ RunsFitAll' /\ HoldTyped' /\ QueueTyped' /\ Step
          /\ overlapped' = overlapped /\ faults' \in Nat BY <2>2, Threw
    <3> QED BY <1>0, <3>1 DEF BooksTyped
  <2> QED BY <2>1, <2>2
<1> QED BY <1>1, <1>2, PartsNext DEF ByRun

LEMMA PurgeWriteStep == ASSUME Typed, NEW d \in Drains, PurgeWrite(d) PROVE ByRun(d)
<1>0. DrainTyped /\ RunsFitAll BY Parts
<1>1. /\ drain[d].run.pc = "drop"
      /\ UNCHANGED <<identity, capture, archive, quarantine, server, crowded, doubt, logins>>
      /\ (Write(d) /\ UNCHANGED faults) \/ WriteThrows(d)
      /\ Go(d, "evacuate") \/ Abort(d)
  BY DEF PurgeWrite, At, Run
<1>2. UNCHANGED <<capture, mounted>> BY <1>1 DEF identity
<1>3. DrainTyped' /\ RunOnly(d) /\ drain'[d].run.pc \in {"evacuate", "idle"}
  <2>1. "evacuate" \in Steps BY DEF Steps
  <2>2. CASE Go(d, "evacuate") BY <1>0, <1>2, <2>1, <2>2, MoveStep
  <2>3. CASE Abort(d) BY <1>0, <1>2, <2>3, AbortStep, RestingTyped
  <2> QED BY <1>1, <2>2, <2>3
<1> QED BY <1>1, <1>3, EndedStep DEF Holding

LEMMA EvacuateWriteStep == ASSUME Typed, NEW d \in Drains, EvacuateWrite(d) PROVE ByRun(d)
<1>0. DrainTyped BY Parts
<1>1. /\ drain[d].run.pc = "remove" /\ Abort(d)
      /\ UNCHANGED <<identity, capture, archive, quarantine, server, crowded, doubt, logins>>
      /\ (Write(d) /\ UNCHANGED faults) \/ WriteThrows(d)
  BY DEF EvacuateWrite, At, Run
<1>2. UNCHANGED <<capture, mounted>> BY <1>1 DEF identity
<1>3. DrainTyped' /\ RunOnly(d) /\ drain'[d].run.pc = "idle"
  BY <1>0, <1>1, <1>2, AbortStep, RestingTyped
<1> QED BY <1>1, <1>3, EndedStep DEF Holding

LEMMA QuarantineReadStep == ASSUME Typed, NEW d \in Drains, QuarantineRead(d) PROVE ByRun(d)
<1>0. DrainTyped /\ RunsFitAll /\ AsideTyped BY Parts
<1>1. /\ drain[d].run.pc = "recovery" /\ UNCHANGED <<capture, mounted, rmw, queue>>
  BY DEF QuarantineRead, At, Run, identity, store
<1>2. rmw[d].from \in Actors BY <1>0, <1>1 DEF RunsFitAll, RunFit, Run, Holding
<1> DEFINE r == [drain[d].run EXCEPT !.pc = "quarantine", !.todo = quarantine[rmw[d].from]]
<1>3. /\ r \in RunRecord /\ r.pc = "quarantine" /\ r.op = drain[d].run.op
      /\ r.mark = drain[d].run.mark
  <2>1. drain[d].run \in RunRecord BY <1>0, RunTyped
  <2>2. quarantine[rmw[d].from] \in SUBSET Captures BY <1>0, <1>2 DEF AsideTyped
  <2>3. "quarantine" \in Steps BY DEF Steps
  <2> QED BY <2>1, <2>2, <2>3 DEF RunRecord
<1>4. Ran(d, r)
  <2>1. drain' = [drain EXCEPT ![d].run = r] BY DEF QuarantineRead, Become, Run
  <2> QED BY <1>0, <1>3, <2>1, Becomes
<1>5. DrainTyped' /\ RunOnly(d) /\ Continues(d)
  BY <1>1, <1>3, <1>4 DEF Ran, RunOnly, Continues, Holding, Leaving
<1>6. RunsFitAll' /\ On BY <1>0, <1>1, <1>5, Plain
<1>7. /\ CaptureTyped' /\ HoldTyped' /\ QueueTyped' /\ AsideTyped' /\ IdentityTyped'
      /\ ServerTyped' /\ BooksTyped'
  BY Parts DEF QuarantineRead, CaptureTyped, HoldTyped, QueueTyped, AsideTyped, IdentityTyped,
     ServerTyped, BooksTyped, identity, store, server, history, bounds
<1>8. Typed' BY <1>5, <1>6, <1>7, PartsNext
<1> QED BY <1>1, <1>6, <1>8 DEF ByRun, Step, Settle

LEMMA QuarantineWriteStep == ASSUME Typed, NEW d \in Drains, QuarantineWrite(d) PROVE ByRun(d)
<1>0. DrainTyped /\ RunsFitAll /\ AsideTyped /\ HoldTyped /\ BooksTyped BY Parts
<1>1. /\ drain[d].run.pc = "quarantine" /\ UNCHANGED <<capture, mounted, queue, archive>>
      /\ UNCHANGED <<crowded, doubt, logins>>
  BY DEF QuarantineWrite, At, Run, identity
<1>2. rmw[d].from \in Actors BY <1>0, <1>1 DEF RunsFitAll, RunFit, Run, Holding
<1>3. CaptureTyped' /\ QueueTyped' /\ IdentityTyped' /\ ServerTyped'
  BY Parts DEF QuarantineWrite, CaptureTyped, QueueTyped, IdentityTyped, ServerTyped,
     identity, server
<1>4. CASE /\ quarantine' = [quarantine EXCEPT ![rmw[d].from] =
                               Run(d).todo \cup With(rmw[d].base, "failed_permanent")]
           /\ overlapped' = (overlapped \/ quarantine[rmw[d].from] # Run(d).todo)
           /\ Become(d, [Run(d) EXCEPT !.pc = "remove", !.todo = {}])
           /\ UNCHANGED <<rmw, faults>>
  <2> DEFINE r == [drain[d].run EXCEPT !.pc = "remove", !.todo = {}]
  <2>1. drain[d].run \in RunRecord BY <1>0, RunTyped
  <2>2. /\ r \in RunRecord /\ r.pc = "remove" /\ r.op = drain[d].run.op
        /\ r.mark = drain[d].run.mark
    <3>1. "remove" \in Steps BY DEF Steps
    <3> QED BY <2>1, <3>1 DEF RunRecord
  <2>3. Ran(d, r)
    <3>1. drain' = [drain EXCEPT ![d].run = r] BY <1>4 DEF Become, Run
    <3> QED BY <1>0, <2>2, <3>1, Becomes
  <2>4. DrainTyped' /\ RunOnly(d) /\ Continues(d)
    BY <1>1, <2>2, <2>3 DEF Ran, RunOnly, Continues, Holding, Leaving
  <2>5. RunsFitAll' /\ On BY <1>0, <1>1, <1>4, <2>4, Plain
  <2>6. AsideTyped'
    <3>1. Run(d).todo \cup With(rmw[d].base, "failed_permanent") \in SUBSET Captures
      BY <2>1 DEF RunRecord, With, Run
    <3> QED BY <1>0, <1>1, <1>4, <3>1 DEF AsideTyped
  <2>7. BooksTyped' /\ HoldTyped' BY <1>0, <1>1, <1>4 DEF BooksTyped, HoldTyped
  <2>8. Typed' BY <1>3, <2>4, <2>5, <2>6, <2>7, PartsNext
  <2> QED BY <1>1, <2>5, <2>8 DEF ByRun, Step, Settle
<1>5. CASE /\ faults < MaxFaults /\ faults' = faults + 1
           /\ Abort(d) /\ LetGo(d) /\ UNCHANGED <<quarantine, overlapped>>
  <2>1. DrainTyped' /\ RunOnly(d) /\ drain'[d].run.pc = "idle"
    BY <1>0, <1>1, <1>5, AbortStep, RestingTyped
  <2>2. RunsFitAll' /\ On BY <1>0, <1>5, <2>1, Freed DEF Holding
  <2>3. HoldTyped' BY <1>0, <1>5, Names, LetGoStep
  <2>4. BooksTyped' /\ AsideTyped' BY <1>0, <1>1, <1>5 DEF BooksTyped, AsideTyped
  <2>5. Typed' BY <1>3, <2>1, <2>2, <2>3, <2>4, PartsNext
  <2> QED BY <1>1, <2>2, <2>5 DEF ByRun, Step, Settle
<1> QED BY <1>4, <1>5 DEF QuarantineWrite

LEMMA RecoverReadStep == ASSUME Typed, NEW d \in Drains, RecoverRead(d) PROVE ByRun(d)
<1>0. DrainTyped /\ RunsFitAll /\ AsideTyped /\ HoldTyped /\ QueueTyped BY Parts
<1> DEFINE a == drain[d].actor
<1>1. /\ mounted = d /\ drain[d].run.pc = "idle" /\ Foreign(a) /\ scope' = a
      /\ archive' = [archive EXCEPT ![a] = Content(queue[a])]
      /\ TakesHold(d, a, Empty) /\ Go(d, "recover")
      /\ UNCHANGED <<session, mounted, capture, queue, quarantine>>
  BY DEF RecoverRead, TakesHold, At, Run
<1>2. a \in Actors BY <1>0, <1>1 DEF RunsFitAll, MountFit
<1>3. "recover" \in Steps BY DEF Steps
<1>4. DrainTyped' /\ RunOnly(d) /\ drain'[d].run.pc = "recover"
  BY <1>0, <1>1, <1>3, MoveStep
<1>5. drain'[d].run.op = drain[d].run.op /\ drain'[d].run.mark = drain[d].run.mark
  BY <1>0, <1>1, <1>3, GoMoves
<1>6. HoldTyped' BY <1>0, <1>1, <1>2, Names, EntryTyped, HoldStep
<1>7. RunsFitAll' BY <1>0, <1>1, <1>2, <1>4, EntryTyped, Fetched DEF Holding
<1>8. CaptureTyped' /\ QueueTyped' /\ AsideTyped' /\ IdentityTyped' /\ ServerTyped' /\ BooksTyped'
  BY <1>1, <1>2, Parts DEF RecoverRead, CaptureTyped, QueueTyped, AsideTyped, IdentityTyped,
     ServerTyped, BooksTyped, server, history, bounds, Content
<1>9. Typed' BY <1>4, <1>6, <1>7, <1>8, PartsNext
<1>10. Fetches(d, a, Empty)
  BY <1>1, <1>4, <1>5 DEF Fetches, Makes, RunOnly, Holding
<1> QED BY <1>2, <1>9, <1>10, EntryTyped DEF ByRun, Step

LEMMA RecoverWriteStep ==
  ASSUME Typed, Holds, NEW d \in Drains, RecoverWrite(d) PROVE ByRun(d)
<1>0. DrainTyped /\ RunsFitAll /\ HoldTyped /\ QueueTyped /\ BooksTyped BY Parts
<1> DEFINE a == rmw[d].from
<1>1. /\ drain[d].run.pc = "recover" /\ LetGo(d) /\ Go(d, "start")
      /\ scope' = drain[d].actor /\ crowded' \in BOOLEAN
      /\ queue' = [queue EXCEPT ![a] = Empty]
      /\ overlapped' = (overlapped \/ queue[a] # rmw[d].base)
      /\ UNCHANGED <<session, mounted, capture, archive, quarantine, server, doubt, bounds>>
  BY <1>0 DEF RecoverWrite, Begin, Crowd, At, Run, BooksTyped
<1>2. a \in Actors BY <1>0, <1>1 DEF RunsFitAll, RunFit, Run, Holding
<1>3. rmw[d].out = Empty BY <1>1 DEF Holds, DrainHolds, Run
<1>4. "start" \in Steps BY DEF Steps
<1>5. DrainTyped' /\ RunOnly(d) /\ drain'[d].run.pc = "start"
  BY <1>0, <1>1, <1>4, MoveStep
<1>6. RunsFitAll' /\ On BY <1>0, <1>1, <1>5, Freed DEF Holding
<1>7. HoldTyped' BY <1>0, <1>1, Names, LetGoStep
<1>8. CaptureTyped' /\ QueueTyped' /\ AsideTyped' /\ IdentityTyped' /\ ServerTyped' /\ BooksTyped'
  <2>1. drain[d].actor \in Actors \cup {None} BY <1>0, RunTyped
  <2> QED
    BY <1>1, <1>2, <2>1, EntryTyped, Parts DEF CaptureTyped, QueueTyped, AsideTyped,
       IdentityTyped, ServerTyped, BooksTyped, server, bounds
<1>9. Typed' BY <1>5, <1>6, <1>7, <1>8, PartsNext
<1>10. Stores(d, a) BY <1>1, <1>3, <1>6, Names DEF Stores
<1> QED BY <1>2, <1>9, <1>10, Names DEF ByRun, Step

-----------------------------------------------------------------------------
(* The steps of a screen, the server, the session and the application.     *)

\* A press or the end of an attempt to save: nothing is held before or after.
LEMMA Closed ==
  ASSUME RunsFitAll, HoldTyped, NEW c \in Captures, UNCHANGED <<drain, mounted>>,
         \A e \in Captures \ {c} : capture'[e] = capture[e],
         capture'[c].stage # "writing", capture'[c].owner = capture[c].owner,
         capture'[c].stage \in Unwritten => capture[c].stage \in Unwritten,
         capture'[c].intent = capture[c].intent \/ capture[c].stage = "new",
         (rmw' = rmw /\ capture[c].stage # "writing") \/ LetGo(c)
  PROVE RunsFitAll' /\ On
<1>0. c \in Processes /\ c \notin Drains /\ \A d \in Drains : d \in Processes BY Names
<1>a. rmw'[c] = NoWrite /\ \A q \in Processes \ {c} : rmw'[q] = rmw[q]
  BY <1>0, LetGoStep DEF RunsFitAll, CaptureFit
<1>1. \A d \in Drains : RunFit(d)' BY <1>0, <1>a DEF RunsFitAll, RunFit, Run
<1>2. \A e \in Captures : CaptureFit(e)' BY <1>a, Names DEF RunsFitAll, CaptureFit
<1>3. MountFit' BY DEF RunsFitAll, MountFit
<1>4. \A p \in Processes : HoldOn(p) BY <1>a DEF HoldOn
<1>5. \A d \in Drains : DrainOn(d) BY <1>0, <1>a DEF DrainOn
<1>6. \A e \in Captures : CaptureOn(e)
  <2>1. CaptureOn(c) BY DEF CaptureOn
  <2>2. ASSUME NEW e \in Captures \ {c} PROVE CaptureOn(e) BY <1>a, Names DEF CaptureOn
  <2> QED BY <2>1, <2>2
<1> QED BY <1>1, <1>2, <1>3, <1>4, <1>5, <1>6 DEF RunsFitAll, On

LEMMA GoesStep ==
  ASSUME CaptureTyped, NEW c \in Captures,
         NEW stage \in {"new", "offline", "writing", "queued", "closed"}, Goes(c, stage)
  PROVE /\ CaptureTyped'
        /\ capture'[c].stage = stage /\ capture'[c].owner = capture[c].owner
        /\ capture'[c].intent = capture[c].intent /\ capture'[c].as = capture[c].as
        /\ \A e \in Captures \ {c} : capture'[e] = capture[e]
BY DEF CaptureTyped, CaptureRecord, Goes

\* A capture that becomes the record r.
LEMMA Recorded ==
  ASSUME CaptureTyped, NEW c \in Captures, NEW r \in CaptureRecord,
         capture' = [capture EXCEPT ![c] = r]
  PROVE CaptureTyped' /\ capture'[c] = r /\ \A e \in Captures \ {c} : capture'[e] = capture[e]
BY DEF CaptureTyped

LEMMA PressStep ==
  ASSUME Typed, NEW c \in Captures, NEW i \in Intents, Press(c, i) PROVE Typed' /\ Step
<1>0. CaptureTyped /\ HoldTyped /\ ServerTyped /\ IdentityTyped /\ RunsFitAll BY Parts
<1>1. capture[c].stage = "new" /\ UNCHANGED <<drain, mounted, rmw, queue, stale>>
  BY DEF Press, identity, store
<1>2. PICK stage \in {"closed", "offline"} :
        /\ capture' = [capture EXCEPT ![c].stage = stage, ![c].intent = i]
        /\ \/ /\ stage = "closed" /\ UNCHANGED inflight
              /\ Accepted(c) \/ UNCHANGED receipts
           \/ stage = "offline" /\ Lost(c)
  BY DEF Press
<1>3. /\ CaptureTyped' /\ capture'[c].stage = stage /\ capture'[c].owner = capture[c].owner
      /\ \A e \in Captures \ {c} : capture'[e] = capture[e]
  <2> DEFINE r == [capture[c] EXCEPT !.stage = stage, !.intent = i]
  <2>1. capture[c] \in CaptureRecord BY <1>0 DEF CaptureTyped
  <2>2. r \in CaptureRecord /\ r.stage = stage /\ r.owner = capture[c].owner
    BY <2>1 DEF CaptureRecord
  <2>3. capture' = [capture EXCEPT ![c] = r] BY <1>2
  <2> QED BY <1>0, <2>2, <2>3, Recorded
<1>4. RunsFitAll' /\ On BY <1>0, <1>1, <1>3, Closed DEF Unwritten
<1>5. ServerTyped'
  <2>1. CASE Accepted(c) /\ UNCHANGED inflight
    <3>1. session \in Actors /\ Perform(session, c) BY <2>1, <1>0 DEF Accepted, IdentityTyped
    <3> QED BY <3>1, <2>1, <1>0, <1>1, PerformTyped DEF ServerTyped
  <2>2. CASE UNCHANGED <<receipts, inflight>> BY <2>2, <1>0, <1>1 DEF ServerTyped
  <2>3. CASE Lost(c) BY <2>3, <1>0, <1>1, LostTyped
  <2> QED BY <1>2, <2>1, <2>2, <2>3
<1>6. DrainTyped' /\ HoldTyped' /\ QueueTyped' /\ AsideTyped' /\ IdentityTyped' /\ BooksTyped'
  BY Parts DEF Press, DrainTyped, HoldTyped, QueueTyped, AsideTyped, IdentityTyped, BooksTyped,
     identity, store, history, bounds
<1>7. Typed' BY <1>3, <1>4, <1>5, <1>6, PartsNext
<1> QED BY <1>1, <1>4, <1>7 DEF Step, Settle

LEMMA EnqueueReadStep ==
  ASSUME Typed, NEW c \in Captures, EnqueueRead(c) PROVE Typed' /\ Step
<1>0. /\ CaptureTyped /\ HoldTyped /\ QueueTyped /\ AsideTyped /\ IdentityTyped /\ RunsFitAll
  BY Parts
<1>1. capture[c].stage = "offline" /\ UNCHANGED <<drain, mounted>>
  BY DEF EnqueueRead, identity
<1>2. DrainTyped' /\ IdentityTyped' /\ ServerTyped' /\ BooksTyped'
  BY Parts DEF EnqueueRead, DrainTyped, IdentityTyped, ServerTyped, BooksTyped,
     identity, server, history, bounds
<1>3. CASE ReadFails /\ ReadThrows /\ Goes(c, "closed") /\ UNCHANGED rmw
  <2>1. AsideTyped' /\ queue' = queue BY <1>0, <1>3, ReadTyped
  <2>2. /\ CaptureTyped' /\ capture'[c].stage = "closed" /\ capture'[c].owner = capture[c].owner
        /\ capture'[c].intent = capture[c].intent
        /\ \A e \in Captures \ {c} : capture'[e] = capture[e]
    BY <1>0, <1>3, GoesStep
  <2>3. RunsFitAll' /\ On BY <1>0, <1>1, <1>3, <2>2, Closed DEF Unwritten
  <2>4. Typed' BY <1>0, <1>2, <1>3, <2>1, <2>2, <2>3, PartsNext DEF HoldTyped, QueueTyped
  <2> QED BY <2>1, <2>3, <2>4 DEF Step, Settle
<1>4. ASSUME ~ReadFails, UNCHANGED <<rmw, store>>, NEW e \in Same(c),
             capture' = [capture EXCEPT ![c].stage = "queued", ![c].as = e]
      PROVE Typed' /\ Step
  <2>1. queue' = queue BY <1>4 DEF store
  <2>2. e \in Captures BY <1>4 DEF Same, Content
  <2>3. /\ CaptureTyped' /\ capture'[c].stage = "queued" /\ capture'[c].owner = capture[c].owner
        /\ capture'[c].intent = capture[c].intent
        /\ \A x \in Captures \ {c} : capture'[x] = capture[x]
    <3> DEFINE r == [capture[c] EXCEPT !.stage = "queued", !.as = e]
    <3>1. capture[c] \in CaptureRecord BY <1>0 DEF CaptureTyped
    <3>2. /\ r \in CaptureRecord /\ r.stage = "queued" /\ r.owner = capture[c].owner
          /\ r.intent = capture[c].intent
      BY <2>2, <3>1 DEF CaptureRecord
    <3>3. capture' = [capture EXCEPT ![c] = r] BY <1>4
    <3> QED BY <1>0, <3>2, <3>3, Recorded
  <2>4. RunsFitAll' /\ On BY <1>0, <1>1, <1>4, <2>3, Closed DEF Unwritten
  <2>5. HoldTyped' /\ QueueTyped' /\ AsideTyped' BY <1>0, <1>4 DEF HoldTyped, QueueTyped, AsideTyped, store
  <2>6. Typed' BY <1>2, <2>3, <2>4, <2>5, PartsNext
  <2> QED BY <2>1, <2>4, <2>6 DEF Step, Settle
<1>5. CASE /\ ~ReadFails /\ UNCHANGED store /\ Same(c) = {}
           /\ capture' = [capture EXCEPT ![c].stage = "writing", ![c].owner = scope]
           /\ Hold(c, [queue[scope] EXCEPT ![c] = [status |-> "pending", attempts |-> 0]])
  <2> DEFINE out == [queue[scope] EXCEPT ![c] = [status |-> "pending", attempts |-> 0]]
  <2>1. scope \in Actors BY <1>0, <1>5 DEF ReadFails, IdentityTyped
  <2>2. TakesHold(c, scope, out) /\ queue' = queue BY <1>5 DEF Hold, TakesHold, store
  <2>3. out \in Entry BY <1>0, <2>1, EntryTyped DEF QueueTyped, Entry
  <2>4. /\ CaptureTyped' /\ capture'[c].stage = "writing"
        /\ \A x \in Captures \ {c} : capture'[x] = capture[x]
    <3> DEFINE r == [capture[c] EXCEPT !.stage = "writing", !.owner = scope]
    <3>1. capture[c] \in CaptureRecord BY <1>0 DEF CaptureTyped
    <3>2. r \in CaptureRecord /\ r.stage = "writing" BY <2>1, <3>1 DEF CaptureRecord
    <3>3. capture' = [capture EXCEPT ![c] = r] BY <1>5
    <3> QED BY <1>0, <3>2, <3>3, Recorded
  <2>5. /\ HoldTyped' /\ rmw'[c].from = scope
        /\ \A q \in Processes \ {c} : rmw'[q] = rmw[q]
    BY <1>0, <2>1, <2>2, <2>3, Names, HoldStep
  <2>6. RunsFitAll'
    <3>1. \A d \in Drains : RunFit(d)' BY <1>0, <1>1, <2>5, Names DEF RunsFitAll, RunFit, Run
    <3>2. \A x \in Captures : CaptureFit(x)'
      BY <1>0, <2>1, <2>4, <2>5, Names DEF RunsFitAll, CaptureFit
    <3> QED BY <1>0, <1>1, <3>1, <3>2 DEF RunsFitAll, MountFit
  <2>7. QueueTyped' /\ AsideTyped' BY <1>0, <1>5 DEF QueueTyped, AsideTyped, store
  <2>8. Typed' BY <1>2, <2>4, <2>5, <2>6, <2>7, PartsNext
  <2>9. Drafts(c, scope)
    <3>1. \A e \in Content(queue[scope]) : Intent(e) # Intent(c) BY <1>5 DEF Same
    <3> QED BY <1>1, <1>5, <2>2, <3>1 DEF Drafts
  <2> QED BY <2>1, <2>8, <2>9 DEF Step
<1> QED BY <1>3, <1>4, <1>5 DEF EnqueueRead

LEMMA EnqueueWriteStep ==
  ASSUME Typed, NEW c \in Captures, EnqueueWrite(c) PROVE Typed' /\ Step
<1>0. /\ CaptureTyped /\ HoldTyped /\ QueueTyped /\ IdentityTyped /\ BooksTyped /\ RunsFitAll
  BY Parts
<1>1. /\ capture[c].stage = "writing" /\ UNCHANGED <<drain, mounted>>
      /\ UNCHANGED <<crowded, doubt, logins>>
  BY DEF EnqueueWrite, identity
<1>2. DrainTyped' /\ IdentityTyped' /\ ServerTyped' /\ AsideTyped'
  BY Parts DEF EnqueueWrite, DrainTyped, IdentityTyped, ServerTyped, AsideTyped, identity, server
<1>n. c \in Processes /\ c \notin Drains BY Names
<1>3. CASE Write(c) /\ Goes(c, "queued") /\ UNCHANGED faults
  <2>1. /\ scope \in Actors /\ QueueTyped' /\ LetGo(c) /\ overlapped' \in BOOLEAN
        /\ queue' = [queue EXCEPT ![scope] = rmw[c].out]
        /\ overlapped' = (overlapped \/ scope # rmw[c].from \/ queue[scope] # rmw[c].base)
    BY <1>0, <1>n, <1>3, WriteStep
  <2>2. /\ CaptureTyped' /\ capture'[c].stage = "queued" /\ capture'[c].owner = capture[c].owner
        /\ capture'[c].intent = capture[c].intent
        /\ \A e \in Captures \ {c} : capture'[e] = capture[e]
    BY <1>0, <1>3, GoesStep
  <2>3. RunsFitAll' /\ On BY <1>0, <1>1, <2>1, <2>2, Closed DEF Unwritten
  <2>4. HoldTyped' BY <1>0, <1>n, <2>1, LetGoStep
  <2>5. BooksTyped' BY <1>0, <1>1, <1>3, <2>1 DEF BooksTyped
  <2>6. Typed' BY <1>2, <2>1, <2>2, <2>3, <2>4, <2>5, PartsNext
  <2>7. Stores(c, scope) BY <1>1, <1>n, <2>1, <2>2, <2>3 DEF Stores
  <2> QED BY <1>n, <2>1, <2>6, <2>7 DEF Step
<1>4. ASSUME Goes(c, "closed"), LetGo(c), UNCHANGED <<queue, overlapped>>, faults' \in Nat
      PROVE Typed' /\ Step
  <2>2. /\ CaptureTyped' /\ capture'[c].stage = "closed" /\ capture'[c].owner = capture[c].owner
        /\ capture'[c].intent = capture[c].intent
        /\ \A e \in Captures \ {c} : capture'[e] = capture[e]
    BY <1>0, <1>4, GoesStep
  <2>3. RunsFitAll' /\ On BY <1>0, <1>1, <1>4, <2>2, Closed DEF Unwritten
  <2>4. HoldTyped' BY <1>0, <1>n, <1>4, LetGoStep
  <2>5. BooksTyped' /\ QueueTyped' BY <1>0, <1>1, <1>4 DEF BooksTyped, QueueTyped
  <2>6. Typed' BY <1>2, <2>2, <2>3, <2>4, <2>5, PartsNext
  <2> QED BY <1>4, <2>3, <2>6 DEF Step, Settle
<1>5. CASE WriteThrows(c) /\ Goes(c, "closed")
  <2>1. LetGo(c) /\ queue' = queue /\ overlapped' = overlapped /\ faults' \in Nat
    BY <1>0, <1>5, ThrowsStep
  <2> QED BY <1>4, <1>5, <2>1
<1>6. CASE LetGo(c) /\ Goes(c, "closed") /\ UNCHANGED <<queue, overlapped, faults>>
  BY <1>0, <1>4, <1>6 DEF BooksTyped
<1> QED BY <1>3, <1>5, <1>6 DEF EnqueueWrite

LEMMA Untouched ==
  ASSUME UNCHANGED <<drain, capture, rmw, queue>>
  PROVE /\ Step /\ (DrainTyped => DrainTyped') /\ (CaptureTyped => CaptureTyped')
        /\ (HoldTyped => HoldTyped') /\ (QueueTyped => QueueTyped')
        /\ (RunsFitAll /\ (mounted' = mounted \/ mounted' = None) => RunsFitAll')
<1>1. On BY DEF On, HoldOn, DrainOn, CaptureOn
<1>2. ASSUME RunsFitAll, mounted' = mounted \/ mounted' = None PROVE RunsFitAll'
  <2>1. (\A d \in Drains : RunFit(d)') /\ \A c \in Captures : CaptureFit(c)'
    BY <1>2 DEF RunsFitAll, RunFit, CaptureFit, Run
  <2>2. MountFit' BY <1>2, Names DEF RunsFitAll, MountFit
  <2> QED BY <2>1, <2>2 DEF RunsFitAll
<1> QED BY <1>1, <1>2 DEF Step, Settle, DrainTyped, CaptureTyped, HoldTyped, QueueTyped

LEMMA AgeStep == ASSUME Typed, NEW c \in Captures, Age(c) PROVE Typed' /\ Step
<1>1. UNCHANGED <<drain, capture, rmw, queue, mounted>> BY DEF Age, identity, store
<1>2. AsideTyped' /\ IdentityTyped' /\ ServerTyped' /\ BooksTyped'
  BY Parts DEF Age, AsideTyped, IdentityTyped, ServerTyped, BooksTyped, identity, store,
     history, bounds
<1> QED BY <1>1, <1>2, Untouched, Parts, PartsNext

LEMMA ArriveStep ==
  ASSUME Typed, NEW a \in Actors, NEW c \in Captures, Arrive(a, c) PROVE Typed' /\ Step
<1>0. ServerTyped BY Parts
<1>1. UNCHANGED <<drain, capture, rmw, queue, mounted, stale>> BY DEF Arrive, identity, store
<1>2. AsideTyped' /\ IdentityTyped' /\ BooksTyped'
  BY Parts DEF Arrive, AsideTyped, IdentityTyped, BooksTyped, identity, store, history, bounds
<1>3. inflight' \in SUBSET (Actors \X Captures) BY <1>0 DEF Arrive, ServerTyped
<1>4. ServerTyped'
  <2>1. CASE Perform(a, c) BY <2>1, <1>0, <1>1, <1>3, PerformTyped DEF ServerTyped
  <2>2. CASE UNCHANGED receipts BY <2>2, <1>0, <1>1, <1>3 DEF ServerTyped
  <2> QED BY <2>1, <2>2 DEF Arrive
<1> QED BY <1>1, <1>2, <1>4, Untouched, Parts, PartsNext

LEMMA SessionStep ==
  ASSUME Typed, (\E detach \in BOOLEAN : EndSession(detach)) \/ Unmount PROVE Typed' /\ Step
<1>1. UNCHANGED <<drain, capture, rmw, queue>> /\ (mounted' = mounted \/ mounted' = None)
  BY DEF EndSession, Unmount, store
<1>2. AsideTyped' /\ IdentityTyped' /\ ServerTyped' /\ BooksTyped'
  BY Parts DEF EndSession, Unmount, AsideTyped, IdentityTyped, ServerTyped, BooksTyped, store,
     server, history, bounds
<1> QED BY <1>1, <1>2, Untouched, Parts, PartsNext

LEMMA LoginStep ==
  ASSUME Typed, NEW a \in Actors, NEW d \in Drains, Login(a, d) PROVE Typed' /\ Step
<1>0. DrainTyped /\ RunsFitAll /\ BooksTyped BY Parts
<1> DEFINE r == [actor |-> a, run |-> [Resting EXCEPT !.pc = "start"]]
<1>1. /\ drain[d].run.pc = "idle" /\ mounted' = d
      /\ drain' = [drain EXCEPT ![d] = r]
      /\ UNCHANGED <<capture, rmw, queue, archive, quarantine>>
      /\ session' = a /\ scope' = a
  BY DEF Login, At, Run, store
<1>2. r \in DrainRecord /\ r.actor = a /\ r.run.pc = "start"
  <2>1. "start" \in Steps BY DEF Steps
  <2>2. Resting \in RunRecord BY RestingTyped
  <2>3. [Resting EXCEPT !.pc = "start"] \in RunRecord /\ [Resting EXCEPT !.pc = "start"].pc = "start"
    BY <2>1, <2>2 DEF RunRecord
  <2> QED BY <2>3 DEF DrainRecord
<1>3. /\ DrainTyped' /\ drain'[d].actor = a /\ drain'[d].run.pc = "start"
      /\ \A e \in Drains \ {d} : drain'[e] = drain[e]
  BY <1>0, <1>1, <1>2 DEF DrainTyped
<1>4. RunsFitAll'
  <2>1. RunFit(d)' BY <1>0, <1>1, <1>3 DEF RunsFitAll, RunFit, Run, Holding
  <2>2. \A e \in Drains \ {d} : RunFit(e)' BY <1>0, <1>1, <1>3 DEF RunsFitAll, RunFit, Run
  <2>3. \A c \in Captures : CaptureFit(c)' BY <1>0, <1>1 DEF RunsFitAll, CaptureFit
  <2>4. MountFit' BY <1>1, <1>3 DEF MountFit
  <2> QED BY <2>1, <2>2, <2>3, <2>4 DEF RunsFitAll
<1>5. On
  <2>1. \A e \in Drains : DrainOn(e) BY <1>1, <1>3 DEF DrainOn, Holding
  <2> QED BY <1>1, <2>1 DEF On, HoldOn, CaptureOn
<1>6. /\ CaptureTyped' /\ HoldTyped' /\ QueueTyped' /\ AsideTyped' /\ IdentityTyped'
      /\ ServerTyped' /\ BooksTyped'
  BY <1>1, Parts DEF Login, Crowd, CaptureTyped, HoldTyped, QueueTyped, AsideTyped, IdentityTyped,
     ServerTyped, BooksTyped, server
<1>7. Typed' BY <1>3, <1>4, <1>6, PartsNext
<1> QED BY <1>1, <1>5, <1>7 DEF Step, Settle

LEMMA RestartStep == ASSUME Typed, Restart PROVE Typed' /\ Step
<1>0. CaptureTyped /\ RunsFitAll /\ BooksTyped /\ HoldTyped BY Parts
<1>1. /\ mounted' = None /\ UNCHANGED <<queue, archive, quarantine>>
      /\ drain' = [d \in Drains |-> [actor |-> None, run |-> Resting]]
      /\ rmw' = [p \in Processes |-> NoWrite]
      /\ capture' = [c \in Captures |->
            IF capture[c].stage \in {"offline", "writing"}
            THEN [capture[c] EXCEPT !.stage = "closed"] ELSE capture[c]]
  BY DEF Restart, store
<1>2. DrainTyped' /\ \A d \in Drains : drain'[d].run.pc = "idle"
  BY <1>1, RestingTyped DEF DrainTyped, DrainRecord
<1>3. HoldTyped' /\ \A p \in Processes : rmw'[p] = NoWrite BY <1>1, EntryTyped DEF HoldTyped
<1>4. /\ CaptureTyped'
      /\ \A c \in Captures :
           /\ capture'[c].stage \notin {"offline", "writing"}
           /\ capture'[c].owner = capture[c].owner /\ capture'[c].intent = capture[c].intent
           /\ capture'[c].stage = "new" => capture[c].stage = "new"
  BY <1>0, <1>1 DEF CaptureTyped, CaptureRecord
<1>5. RunsFitAll'
  <2>1. \A d \in Drains : RunFit(d)' BY <1>2, <1>3, Names DEF RunFit, Run, Holding
  <2>2. \A c \in Captures : CaptureFit(c)' BY <1>3, <1>4, Names DEF CaptureFit
  <2>3. MountFit' BY <1>1, Names DEF MountFit
  <2> QED BY <2>1, <2>2, <2>3 DEF RunsFitAll
<1>6. On
  <2>1. \A d \in Drains : DrainOn(d) BY <1>2 DEF DrainOn, Holding
  <2>2. \A c \in Captures : CaptureOn(c) BY <1>4 DEF CaptureOn, Unwritten
  <2> QED BY <1>3, <2>1, <2>2 DEF On, HoldOn
<1>7. QueueTyped' /\ AsideTyped' /\ IdentityTyped' /\ ServerTyped' /\ BooksTyped'
  BY <1>0, <1>1, Parts DEF Restart, QueueTyped, AsideTyped, IdentityTyped, ServerTyped, BooksTyped,
     server, history
<1>8. Typed' BY <1>2, <1>3, <1>4, <1>5, <1>7, PartsNext
<1> QED BY <1>1, <1>6, <1>8 DEF Step, Settle

LEMMA RunStep == ASSUME Typed, Holds, NEW d \in Drains, DrainStep(d) PROVE Typed' /\ Step
BY WakeStep, GatherStep, FinishedStep, MarkReadStep, MarkWriteStep, PurgeReadStep, PurgeWriteStep,
   EvacuateReadStep, QuarantineReadStep, QuarantineWriteStep, EvacuateWriteStep, RecoverReadStep,
   RecoverWriteStep, ReconcileStep, ExecuteStep DEF DrainStep, ByRun

LEMMA NextStep == ASSUME Typed, Holds, [Next]_vars PROVE Typed' /\ Step
<1>1. CASE UNCHANGED vars
  <2>1. UNCHANGED <<drain, capture, rmw, queue, mounted>> BY <1>1 DEF vars, identity, store
  <2>2. AsideTyped' /\ IdentityTyped' /\ ServerTyped' /\ BooksTyped'
    BY <1>1, Parts DEF vars, AsideTyped, IdentityTyped, ServerTyped, BooksTyped, identity, store,
       server, history, bounds
  <2> QED BY <2>1, <2>2, Untouched, Parts, PartsNext
<1>2. CASE \E d \in Drains : DrainStep(d) BY <1>2, RunStep
<1>3. CASE \E c \in Captures : EnqueueRead(c) \/ EnqueueWrite(c) \/ Age(c)
  BY <1>3, EnqueueReadStep, EnqueueWriteStep, AgeStep
<1>4. CASE \E c \in Captures, i \in Intents : Press(c, i) BY <1>4, PressStep
<1>5. CASE \E a \in Actors, c \in Captures : Arrive(a, c) BY <1>5, ArriveStep
<1>6. CASE \E a \in Actors, d \in Drains : Login(a, d) BY <1>6, LoginStep
<1>7. CASE (\E detach \in BOOLEAN : EndSession(detach)) \/ Unmount BY <1>7, SessionStep
<1>8. CASE Restart BY <1>8, RestartStep
<1> QED BY <1>1, <1>2, <1>3, <1>4, <1>5, <1>6, <1>7, <1>8 DEF Next

-----------------------------------------------------------------------------
(* The invariants of the entries that are stored and held.                 *)

\* A run adds no operation to what it read.
LEMMA MakesLess ==
  ASSUME DrainTyped, RunsFitAll, NEW d \in Drains, NEW s, NEW base \in Entry, NEW out,
         Makes(d, s, base, out)
  PROVE \A c \in Captures : base[c] = Absent => out[c] = Absent
<1>1. CASE /\ s = "store" /\ drain[d].run.pc = "mark"
           /\ out = [base EXCEPT ![drain[d].run.op] =
                 IF @ = Absent THEN @ ELSE Marked(@, drain[d].run.mark)]
  <2>1. drain[d].run.op \in Captures BY <1>1 DEF RunsFitAll, RunFit, Run
  <2> QED BY <1>1, <2>1 DEF Entry
<1>2. CASE out = Without(base, "synced") BY <1>2, WithoutTyped
<1>3. CASE out = Without(base, "failed_permanent") BY <1>3, WithoutTyped
<1>4. CASE out = Empty BY <1>4, EntryTyped
<1> QED BY <1>1, <1>2, <1>3, <1>4 DEF Makes

\* What a process held stays, or is gone.
LEMMA HeldOn ==
  ASSUME HoldTyped, On, NEW p \in Processes, NEW c \in Captures
  PROVE /\ rmw'[p].base[c] \in {rmw[p].base[c], Absent}
        /\ rmw'[p].out[c] \in {rmw[p].out[c], Absent}
BY EntryTyped DEF On, HoldOn

LEMMA StoredOn ==
  ASSUME HoldTyped, QueueTyped, NEW p \in Processes, NEW a \in Actors, Stores(p, a)
  PROVE queue'[a] = rmw[p].out /\ \A b \in Actors \ {a} : queue'[b] = queue[b]
BY DEF Stores, QueueTyped

LEMMA LandedStep == ASSUME Typed, Landed, Step PROVE Landed'
<1>0. /\ DrainTyped /\ CaptureTyped /\ HoldTyped /\ QueueTyped /\ RunsFitAll BY Parts
<1>1. ASSUME On, NEW c \in Captures, capture'[c].stage \in Unwritten
      PROVE \A p \in Processes \ {c} : rmw'[p].out[c] = Absent /\ rmw'[p].base[c] = Absent
  <2>1. capture[c].stage \in Unwritten BY <1>1 DEF On, CaptureOn
  <2>2. \A p \in Processes \ {c} : rmw[p].out[c] = Absent /\ rmw[p].base[c] = Absent
    BY <2>1 DEF Landed, Unwritten
  <2> QED BY <1>0, <1>1, <2>2, HeldOn
<1>2. CASE Settle
  <2>1. On /\ queue' = queue BY <1>2 DEF Settle
  <2>2. \A c \in Captures : capture'[c].stage \in Unwritten => capture[c].stage \in Unwritten
    BY <2>1 DEF On, CaptureOn
  <2> QED BY <1>1, <2>1, <2>2 DEF Landed, Unwritten
<1>3. ASSUME NEW p \in Processes, NEW a \in Actors, Stores(p, a) PROVE Landed'
  <2>1. On BY <1>3 DEF Stores
  <2>2. ASSUME NEW c \in Captures, capture'[c].stage \in Unwritten, NEW b \in Actors
        PROVE queue'[b][c] = Absent
    <3>1. capture[c].stage \in Unwritten BY <2>1, <2>2 DEF On, CaptureOn
    <3>2. c # p BY <1>3, <2>2 DEF Stores, Unwritten
    <3>3. rmw[p].out[c] = Absent /\ queue[b][c] = Absent BY <3>1, <3>2 DEF Landed, Unwritten
    <3> QED BY <1>0, <1>3, <3>3, StoredOn
  <2> QED BY <1>1, <2>1, <2>2 DEF Landed, Unwritten
<1>4. ASSUME NEW d \in Drains, NEW a \in Actors, NEW out \in Entry, Fetches(d, a, out) PROVE Landed'
  <2>1. /\ rmw'[d].base = queue[a] /\ rmw'[d].out = out
        /\ \A q \in Processes \ {d} : rmw'[q] = rmw[q]
    BY <1>0, <1>4, Names, HoldStep DEF Fetches
  <2>2. \A c \in Captures : queue[a][c] = Absent => out[c] = Absent
    <3>1. Makes(d, drain'[d].run.pc, queue[a], out) BY <1>4 DEF Fetches
    <3>2. queue[a] \in Entry BY <1>0 DEF QueueTyped
    <3> QED BY <1>0, <3>1, <3>2, MakesLess
  <2>3. UNCHANGED <<queue, capture>> BY <1>4 DEF Fetches
  <2> QED BY <2>1, <2>2, <2>3 DEF Landed
<1>5. ASSUME NEW c \in Captures, NEW a \in Actors, Drafts(c, a) PROVE Landed'
  <2> DEFINE out == [queue[a] EXCEPT ![c] = [status |-> "pending", attempts |-> 0]]
  <2>0. out \in Entry BY <1>0, EntryTyped DEF QueueTyped, Entry
  <2>1. /\ rmw'[c].base = queue[a] /\ rmw'[c].out = out
        /\ \A q \in Processes \ {c} : rmw'[q] = rmw[q]
    BY <1>0, <1>5, <2>0, Names, HoldStep DEF Drafts
  <2>2. \A e \in Captures \ {c} : out[e] = queue[a][e] BY <1>0 DEF QueueTyped, Entry
  <2>3. queue' = queue /\ \A e \in Captures \ {c} : capture'[e] = capture[e]
    BY <1>0, <1>5 DEF Drafts, CaptureTyped
  <2>4. capture[c].stage = "offline" BY <1>5 DEF Drafts
  <2>5. ASSUME NEW e \in Captures, capture'[e].stage \in Unwritten
        PROVE /\ \A b \in Actors : queue'[b][e] = Absent
              /\ \A p \in Processes \ {e} : rmw'[p].out[e] = Absent /\ rmw'[p].base[e] = Absent
    <3>1. capture[e].stage \in Unwritten BY <2>3, <2>4, <2>5 DEF Unwritten
    <3>2. /\ \A b \in Actors : queue[b][e] = Absent
          /\ \A p \in Processes \ {e} : rmw[p].out[e] = Absent /\ rmw[p].base[e] = Absent
      BY <3>1 DEF Landed, Unwritten
    <3>3. ASSUME NEW p \in Processes \ {e}
          PROVE rmw'[p].out[e] = Absent /\ rmw'[p].base[e] = Absent
      <4>1. CASE p = c
        <5>1. e \in Captures \ {c} BY <4>1, <3>3
        <5>2. out[e] = Absent /\ queue[a][e] = Absent BY <5>1, <2>2, <3>2
        <5> HIDE DEF out
        <5> QED BY <2>1, <4>1, <5>2
      <4>2. CASE p # c BY <2>1, <3>2, <3>3, <4>2
      <4> QED BY <4>1, <4>2
    <3> QED BY <2>3, <3>2, <3>3
  <2> QED BY <2>5 DEF Landed, Unwritten
<1> QED BY <1>2, <1>3, <1>4, <1>5 DEF Step

LEMMA HoldsStep == ASSUME Typed, Landed, Holds, Step PROVE Holds'
<1>0. /\ DrainTyped /\ CaptureTyped /\ HoldTyped /\ QueueTyped /\ RunsFitAll BY Parts
<1>1. ASSUME On PROVE Holds'
  <2>1. ASSUME NEW c \in Captures PROVE CaptureHolds(c)'
    <3>1. SUFFICES ASSUME capture'[c].stage = "writing" PROVE CaptureHolds(c)'
      BY DEF CaptureHolds
    <3>2. capture'[c] = capture[c] /\ rmw'[c] = rmw[c] BY <1>1, <3>1 DEF On, CaptureOn
    <3>3. CaptureHolds(c) /\ capture[c].stage = "writing" BY <3>1, <3>2 DEF Holds
    <3>4. \A e \in Content(rmw[c].base) : e \in Captures /\ Intent(e) # Intent(c)
      BY <3>3 DEF CaptureHolds, Content
    <3>5. \A e \in Content(rmw[c].base) : capture'[e].intent # Intent(c)
      <4>1. SUFFICES ASSUME NEW e \in Content(rmw[c].base) PROVE capture'[e].intent # Intent(c)
        OBVIOUS
      <4>2. e \in Captures /\ e # c /\ rmw[c].base[e] # Absent BY <3>4 DEF Content
      <4>3. capture[e].stage # "new" BY <4>2, Names DEF Landed
      <4>4. capture'[e].intent = capture[e].intent BY <1>1, <4>2, <4>3 DEF On, CaptureOn
      <4> QED BY <3>4, <4>4 DEF Intent
    <3> QED BY <3>2, <3>3, <3>5 DEF CaptureHolds, Intent
  <2>2. ASSUME NEW d \in Drains PROVE DrainHolds(d)'
    <3>1. CASE drain'[d].run.pc \notin Holding BY <3>1 DEF DrainHolds, Holding, Run
    <3>2. CASE drain'[d].run.pc \in Holding
      <4>1. DrainOn(d) /\ DrainHolds(d) BY <1>1 DEF On, Holds
      <4>2. /\ rmw'[d] = rmw[d] /\ drain[d].run.pc \in Holding
            /\ drain'[d].run.op = drain[d].run.op /\ drain'[d].run.mark = drain[d].run.mark
            /\ \/ drain'[d].run.pc = drain[d].run.pc
               \/ drain'[d].run.pc \in Leaving /\ drain[d].run.pc \in Leaving
        BY <3>2, <4>1 DEF DrainOn
      <4> QED BY <4>1, <4>2 DEF DrainHolds, Run, Leaving
    <3> QED BY <3>1, <3>2
  <2> QED BY <2>1, <2>2 DEF Holds
<1>2. CASE Settle BY <1>1, <1>2 DEF Settle
<1>3. ASSUME NEW p \in Processes, NEW a \in Actors, Stores(p, a) PROVE Holds'
  BY <1>1, <1>3 DEF Stores
<1>4. ASSUME NEW d \in Drains, NEW a \in Actors, NEW out \in Entry, Fetches(d, a, out) PROVE Holds'
  <2>1. /\ rmw'[d].base = queue[a] /\ rmw'[d].out = out
        /\ \A q \in Processes \ {d} : rmw'[q] = rmw[q]
    BY <1>0, <1>4, Names, HoldStep DEF Fetches
  <2>2. capture' = capture /\ \A e \in Drains \ {d} : drain'[e] = drain[e] BY <1>4 DEF Fetches
  <2>3. \A c \in Captures : CaptureHolds(c)'
    BY <2>1, <2>2, Names DEF Holds, CaptureHolds, Intent
  <2>4. \A e \in Drains \ {d} : DrainHolds(e)'
    BY <2>1, <2>2, Names DEF Holds, DrainHolds, Run
  <2>5. DrainHolds(d)'
    <3>1. /\ Makes(d, drain'[d].run.pc, queue[a], out)
          /\ drain'[d].run.op = drain[d].run.op /\ drain'[d].run.mark = drain[d].run.mark
      BY <1>4 DEF Fetches
    <3>2. CASE drain'[d].run.pc = "store"
      <4>1. /\ out = [queue[a] EXCEPT ![drain[d].run.op] =
                        IF @ = Absent THEN @ ELSE Marked(@, drain[d].run.mark)]
            /\ drain[d].run.pc = "mark"
        BY <3>1, <3>2 DEF Makes
      <4>2. drain[d].run.op \in Captures BY <1>0, <4>1 DEF RunsFitAll, RunFit, Run
      <4>3. queue[a] \in [Captures -> Operation] BY <1>0 DEF QueueTyped, Entry
      <4>4. /\ \A e \in Captures \ {drain[d].run.op} : out[e] = queue[a][e]
            /\ out[drain[d].run.op] =
                 IF queue[a][drain[d].run.op] = Absent THEN Absent
                 ELSE Marked(queue[a][drain[d].run.op], drain[d].run.mark)
        BY <4>1, <4>2, <4>3
      <4> QED BY <2>1, <3>1, <3>2, <4>4 DEF DrainHolds, Run
    <3>3. CASE drain'[d].run.pc # "store"
      BY <2>1, <3>1, <3>3 DEF DrainHolds, Run, Makes, Holding
    <3> QED BY <3>2, <3>3
  <2> QED BY <2>3, <2>4, <2>5 DEF Holds
<1>5. ASSUME NEW c \in Captures, NEW a \in Actors, Drafts(c, a) PROVE Holds'
  <2> DEFINE out == [queue[a] EXCEPT ![c] = [status |-> "pending", attempts |-> 0]]
  <2>0. out \in Entry BY <1>0, EntryTyped DEF QueueTyped, Entry
  <2>1. /\ rmw'[c].from = a /\ rmw'[c].base = queue[a] /\ rmw'[c].out = out
        /\ \A q \in Processes \ {c} : rmw'[q] = rmw[q]
    BY <1>0, <1>5, <2>0, Names, HoldStep DEF Drafts
  <2>2. /\ \A e \in Captures \ {c} : out[e] = queue[a][e]
        /\ out[c] = [status |-> "pending", attempts |-> 0]
    BY <1>0 DEF QueueTyped, Entry
  <2>3. /\ drain' = drain /\ \A e \in Captures \ {c} : capture'[e] = capture[e]
        /\ capture'[c].owner = a /\ \A e \in Captures : capture'[e].intent = capture[e].intent
    BY <1>0, <1>5 DEF Drafts, CaptureTyped, CaptureRecord
  <2>4. \A e \in Content(queue[a]) : e \in Captures /\ Intent(e) # Intent(c)
    BY <1>5 DEF Drafts, Content
  <2>5. CaptureHolds(c)' BY <2>1, <2>2, <2>3, <2>4 DEF CaptureHolds, Intent
  <2>6. \A e \in Captures \ {c} : CaptureHolds(e)'
    BY <2>1, <2>3, Names DEF Holds, CaptureHolds, Intent, Content
  <2>7. \A d \in Drains : DrainHolds(d)' BY <2>1, <2>3, Names DEF Holds, DrainHolds, Run
  <2> QED BY <2>5, <2>6, <2>7 DEF Holds
<1> QED BY <1>2, <1>3, <1>4, <1>5 DEF Step

\* The operations of q are told apart after the step too.
OneEachNext(q) ==
  \A c, e \in Content(q) : capture'[c].intent = capture'[e].intent => c = e

\* Intents change only for captures that nobody holds.
LEMMA StillDistinct ==
  ASSUME On, NEW q, OneEach(q), \A c \in Captures : capture[c].stage = "new" => q[c] = Absent
  PROVE OneEachNext(q)
BY DEF On, CaptureOn, OneEach, OneEachNext, Intent, Content

LEMMA FewerDistinct ==
  ASSUME NEW q, NEW out, OneEachNext(q), \A c \in Captures : q[c] = Absent => out[c] = Absent
  PROVE OneEachNext(out)
BY DEF OneEachNext, Content

LEMMA EmptyDistinct == OneEachNext(Empty)
BY EntryTyped DEF OneEachNext, Content

LEMMA DistinctStep == ASSUME Typed, Landed, Holds, Distinct, Step PROVE Distinct'
<1>0. /\ DrainTyped /\ CaptureTyped /\ HoldTyped /\ QueueTyped /\ RunsFitAll BY Parts
<1>n. \A c \in Captures : capture[c].stage = "new" =>
        /\ \A a \in Actors : queue[a][c] = Absent
        /\ \A p \in Processes : rmw[p].out[c] = Absent /\ rmw[p].base[c] = Absent
  <2>1. SUFFICES ASSUME NEW c \in Captures, capture[c].stage = "new"
        PROVE /\ \A a \in Actors : queue[a][c] = Absent
              /\ \A p \in Processes : rmw[p].out[c] = Absent /\ rmw[p].base[c] = Absent
    OBVIOUS
  <2>2. rmw[c] = NoWrite BY <1>0, <2>1 DEF RunsFitAll, CaptureFit
  <2>3. rmw[c].out[c] = Absent /\ rmw[c].base[c] = Absent BY <2>2, EntryTyped
  <2> QED BY <2>1, <2>3 DEF Landed
<1>e. ASSUME On
      PROVE /\ \A a \in Actors : OneEachNext(queue[a])
            /\ \A p \in Processes : OneEachNext(rmw[p].base) /\ OneEachNext(rmw[p].out)
  BY <1>e, <1>n, StillDistinct DEF Distinct
<1>h. ASSUME On
      PROVE \A p \in Processes : OneEachNext(rmw'[p].base) /\ OneEachNext(rmw'[p].out)
  <2>1. SUFFICES ASSUME NEW p \in Processes
        PROVE OneEachNext(rmw'[p].base) /\ OneEachNext(rmw'[p].out) OBVIOUS
  <2>2. rmw'[p] \in {rmw[p], NoWrite} BY <1>h DEF On, HoldOn
  <2>3. OneEachNext(NoWrite.base) /\ OneEachNext(NoWrite.out) BY EntryTyped, EmptyDistinct
  <2> QED BY <1>e, <1>h, <2>2, <2>3
<1>f. ASSUME \A a \in Actors : OneEachNext(queue'[a]),
             \A p \in Processes : OneEachNext(rmw'[p].base) /\ OneEachNext(rmw'[p].out)
      PROVE Distinct'
  BY <1>f DEF Distinct, OneEach, OneEachNext, Intent, Content
<1>1. CASE Settle BY <1>1, <1>e, <1>h, <1>f DEF Settle
<1>2. ASSUME NEW p \in Processes, NEW a \in Actors, Stores(p, a) PROVE Distinct'
  <2>1. On BY <1>2 DEF Stores
  <2>2. queue'[a] = rmw[p].out /\ \A b \in Actors \ {a} : queue'[b] = queue[b]
    BY <1>0, <1>2, StoredOn
  <2> QED BY <2>1, <2>2, <1>e, <1>h, <1>f
<1>3. ASSUME NEW d \in Drains, NEW a \in Actors, NEW out \in Entry, Fetches(d, a, out) PROVE Distinct'
  <2>1. /\ rmw'[d].base = queue[a] /\ rmw'[d].out = out
        /\ \A q \in Processes \ {d} : rmw'[q] = rmw[q]
    BY <1>0, <1>3, Names, HoldStep DEF Fetches
  <2>2. \A c \in Captures : queue[a][c] = Absent => out[c] = Absent
    <3>1. Makes(d, drain'[d].run.pc, queue[a], out) BY <1>3 DEF Fetches
    <3>2. queue[a] \in Entry BY <1>0 DEF QueueTyped
    <3> QED BY <1>0, <3>1, <3>2, MakesLess
  <2>3. UNCHANGED <<queue, capture>> BY <1>3 DEF Fetches
  <2>4. /\ \A b \in Actors : OneEachNext(queue[b])
        /\ \A p \in Processes : OneEachNext(rmw[p].base) /\ OneEachNext(rmw[p].out)
    BY <2>3 DEF Distinct, OneEach, OneEachNext, Intent
  <2>5. OneEachNext(out) BY <2>2, <2>4, FewerDistinct
  <2>6. \A b \in Actors : OneEachNext(queue'[b]) BY <2>3, <2>4
  <2>7. \A p \in Processes : OneEachNext(rmw'[p].base) /\ OneEachNext(rmw'[p].out)
    BY <2>1, <2>4, <2>5
  <2> QED BY <2>6, <2>7, <1>f
<1>4. ASSUME NEW c \in Captures, NEW a \in Actors, Drafts(c, a) PROVE Distinct'
  <2> DEFINE out == [queue[a] EXCEPT ![c] = [status |-> "pending", attempts |-> 0]]
  <2>0. out \in Entry BY <1>0, EntryTyped DEF QueueTyped, Entry
  <2>1. /\ rmw'[c].base = queue[a] /\ rmw'[c].out = out
        /\ \A q \in Processes \ {c} : rmw'[q] = rmw[q]
    BY <1>0, <1>4, <2>0, Names, HoldStep DEF Drafts
  <2>2. \A e \in Captures \ {c} : out[e] = queue[a][e] BY <1>0 DEF QueueTyped, Entry
  <2>3. queue' = queue /\ \A e \in Captures : capture'[e].intent = capture[e].intent
    BY <1>0, <1>4 DEF Drafts, CaptureTyped, CaptureRecord
  <2>4. \A e \in Content(queue[a]) : Intent(e) # Intent(c) BY <1>4 DEF Drafts
  <2>5. /\ \A b \in Actors : OneEachNext(queue[b])
        /\ \A p \in Processes : OneEachNext(rmw[p].base) /\ OneEachNext(rmw[p].out)
    BY <2>3 DEF Distinct, OneEach, OneEachNext, Intent, Content
  <2>6. OneEachNext(out)
    <3>1. \A e \in Content(out) \ {c} : e \in Content(queue[a]) BY <2>2 DEF Content
    <3>2. \A e \in Content(out) : e \in Captures BY DEF Content
    <3> HIDE DEF out
    <3> QED BY <3>1, <3>2, <2>3, <2>4, <2>5 DEF OneEachNext, Intent
  <2>7. \A b \in Actors : OneEachNext(queue'[b]) BY <2>3, <2>5
  <2>8. \A p \in Processes : OneEachNext(rmw'[p].base) /\ OneEachNext(rmw'[p].out)
    <3> HIDE DEF out
    <3> QED BY <2>1, <2>5, <2>6
  <2> QED BY <2>7, <2>8, <1>f
<1> QED BY <1>1, <1>2, <1>3, <1>4 DEF Step

\* The inductive invariant: types, and what is stored and held.
Entries == Typed /\ Landed /\ Holds /\ Distinct

LEMMA InitEntries == Init => Entries
<1> SUFFICES ASSUME Init PROVE Entries OBVIOUS
<1>1. /\ \A d \in Drains : drain[d] = [actor |-> None, run |-> Resting]
      /\ \A c \in Captures : capture[c] = [stage |-> "new", intent |-> None, owner |-> None, as |-> c]
      /\ \A p \in Processes : rmw[p] = NoWrite
      /\ \A a \in Actors : queue[a] = Empty
  BY DEF Init
<1>s. \A c \in Captures : capture[c].stage = "new"
  <2>1. TAKE c \in Captures
  <2>2. capture[c] = [stage |-> "new", intent |-> None, owner |-> None, as |-> c] BY <1>1
  <2>3. capture[c].stage = "new" BY <2>2
  <2> QED BY <2>3
<1>2. Typed
  <2>1. DrainTyped BY RestingTyped DEF Init, DrainTyped, DrainRecord
  <2>2. CaptureTyped BY DEF Init, CaptureTyped, CaptureRecord
  <2>3. HoldTyped /\ QueueTyped BY EntryTyped DEF Init, HoldTyped, QueueTyped
  <2>4. AsideTyped /\ IdentityTyped /\ ServerTyped /\ BooksTyped
    BY DEF Init, AsideTyped, IdentityTyped, ServerTyped, BooksTyped
  <2>5. RunsFitAll
    <3>1. \A d \in Drains : Run(d).pc = "idle" BY <1>1, RestingTyped DEF Run
    <3>2. \A d \in Drains : RunFit(d) BY <1>1, <3>1, Names DEF RunFit, Holding
    <3>3. \A c \in Captures : CaptureFit(c) BY <1>1, <1>s, Names DEF CaptureFit
    <3>4. MountFit BY Names DEF MountFit, Init
    <3> QED BY <3>2, <3>3, <3>4 DEF RunsFitAll
  <2> QED BY <2>1, <2>2, <2>3, <2>4, <2>5, Parts
<1>3. Landed BY <1>1, EntryTyped DEF Landed
<1>4. Holds
  <2>1. \A d \in Drains : Run(d).pc = "idle" BY <1>1, RestingTyped DEF Run
  <2>2. \A c \in Captures : CaptureHolds(c) BY <1>s DEF CaptureHolds
  <2>3. \A d \in Drains : DrainHolds(d) BY <2>1 DEF DrainHolds
  <2> QED BY <2>2, <2>3 DEF Holds
<1>5. Distinct
  <2>1. OneEach(Empty) BY EntryTyped DEF OneEach, Content
  <2> QED BY <1>1, <2>1, EntryTyped DEF Distinct
<1> QED BY <1>2, <1>3, <1>4, <1>5 DEF Entries

LEMMA NextEntries == Entries /\ [Next]_vars => Entries'
BY NextStep, LandedStep, HoldsStep, DistinctStep DEF Entries

LEMMA EntriesKept == Spec => []Entries
BY InitEntries, NextEntries, PTL DEF Spec

\* Runs, captures, entries and receipts keep their types, for any actors,
\* captures, hook instances and bounds.
THEOREM TypeCorrect == Spec => []TypeOK
<1>1. Entries => TypeOK BY DEF Entries, Typed
<1> QED BY <1>1, EntriesKept, PTL

\* The queue of an actor never holds two operations of one intent.
THEOREM IntentOnce == Spec => []OneOperationPerIntent
<1>1. Entries => OneOperationPerIntent BY DEF Entries, Distinct, OneEach, OneOperationPerIntent
<1> QED BY <1>1, EntriesKept, PTL

-----------------------------------------------------------------------------
(* The receipts of the service.                                            *)

\* A step performs one mutation at the service, or none.
Serves == UNCHANGED receipts \/ \E a \in Actors, c \in Captures : Perform(a, c)

LEMMA AcceptedServes ==
  ASSUME IdentityTyped, NEW c \in Captures, Accepted(c) PROVE Serves
BY DEF Accepted, IdentityTyped, Serves

LEMMA LostServes == ASSUME IdentityTyped, NEW c \in Captures, Lost(c) PROVE Serves
BY AcceptedServes DEF Lost, Serves

LEMMA NextServes == Typed /\ [Next]_vars => Serves
<1> SUFFICES ASSUME Typed, [Next]_vars PROVE Serves OBVIOUS
<1>0. IdentityTyped BY Parts
<1>1. CASE UNCHANGED vars BY <1>1 DEF vars, server, Serves
<1>2. ASSUME NEW d \in Drains, DrainStep(d) PROVE Serves
  <2>1. ASSUME NEW c \in Captures, Execute(d, c) PROVE Serves
    BY <1>0, <2>1, AcceptedServes, LostServes DEF Execute, Serves
  <2>2. CASE \E c \in Captures : Reconcile(d, c) BY <2>2 DEF Reconcile, server, Serves
  <2>3. CASE \/ Wake(d) \/ Gather(d) \/ Finished(d) \/ MarkRead(d) \/ MarkWrite(d)
             \/ PurgeRead(d) \/ PurgeWrite(d)
    BY <2>3 DEF Wake, Gather, Finished, MarkRead, MarkWrite, PurgeRead, PurgeWrite, server, Serves
  <2>4. CASE \/ EvacuateRead(d) \/ QuarantineRead(d) \/ QuarantineWrite(d) \/ EvacuateWrite(d)
             \/ RecoverRead(d) \/ RecoverWrite(d)
    BY <2>4 DEF EvacuateRead, QuarantineRead, QuarantineWrite, EvacuateWrite, RecoverRead,
       RecoverWrite, server, Serves
  <2> QED BY <1>2, <2>1, <2>2, <2>3, <2>4 DEF DrainStep
<1>3. CASE \E c \in Captures : EnqueueRead(c) \/ EnqueueWrite(c) \/ Age(c)
  BY <1>3 DEF EnqueueRead, EnqueueWrite, Age, server, Serves
<1>4. ASSUME NEW c \in Captures, NEW i \in Intents, Press(c, i) PROVE Serves
  BY <1>0, <1>4, AcceptedServes, LostServes DEF Press, Serves
<1>5. CASE \E a \in Actors, c \in Captures : Arrive(a, c) BY <1>5 DEF Arrive, Serves
<1>6. CASE \E a \in Actors, d \in Drains : Login(a, d) BY <1>6 DEF Login, server, Serves
<1>7. CASE (\E detach \in BOOLEAN : EndSession(detach)) \/ Unmount \/ Restart
  BY <1>7 DEF EndSession, Unmount, Restart, server, Serves
<1> QED BY <1>1, <1>2, <1>3, <1>4, <1>5, <1>6, <1>7 DEF Next

-----------------------------------------------------------------------------
(* What the runs know: an operation called synced was performed.           *)

CommittedNext(c) == \E a \in Actors : <<a, c>> \in receipts'

LEMMA ReceiptsGrow == ASSUME Typed, [Next]_vars PROVE \A c : Committed(c) => CommittedNext(c)
<1>1. Serves BY NextServes
<1>2. receipts \subseteq receipts' BY <1>1 DEF Serves, Perform
<1> QED BY <1>2 DEF Committed, CommittedNext

LEMMA GatherRun ==
  ASSUME Typed, NEW d \in Drains, Gather(d)
  PROVE /\ \A e \in Drains \ {d} : drain'[e] = drain[e]
        /\ \/ drain'[d].run = Resting
           \/ drain'[d].run.pc = "unknown" /\ drain'[d].run.loop = "unknown"
           \/ /\ ~ReadFails /\ drain'[d].run.pc = "due" /\ drain'[d].run.loop = "due"
              /\ drain'[d].run.todo \subseteq With(queue[scope], "pending") \cup With(queue[scope], "retrying")
<1>0. DrainTyped BY Parts
<1>1. CASE Abort(d)
  <2>1. Ran(d, Resting) BY <1>0, <1>1, RestingTyped, Becomes DEF Abort, Become
  <2> QED BY <2>1 DEF Ran
<1>2. CASE Become(d, [Run(d) EXCEPT !.pc = "unknown", !.loop = "unknown",
                                    !.todo = With(queue[scope], "unknown")])
  <2> DEFINE r == [drain[d].run EXCEPT !.pc = "unknown", !.loop = "unknown",
                                       !.todo = With(queue[scope], "unknown")]
  <2>1. r \in RunRecord /\ r.pc = "unknown" /\ r.loop = "unknown"
    BY <1>0, RunTyped DEF RunRecord, Steps, With
  <2>2. drain' = [drain EXCEPT ![d].run = r] BY <1>2 DEF Become, Run
  <2>3. Ran(d, r) BY <1>0, <2>1, <2>2, Becomes
  <2> QED BY <2>1, <2>3 DEF Ran
<1>3. ASSUME ~ReadFails, NEW later \in SUBSET With(queue[scope], "retrying"),
             Become(d, [Run(d) EXCEPT !.pc = "due", !.loop = "due",
                                      !.todo = With(queue[scope], "pending") \cup later])
      PROVE /\ \A e \in Drains \ {d} : drain'[e] = drain[e]
            /\ drain'[d].run.pc = "due" /\ drain'[d].run.loop = "due"
            /\ drain'[d].run.todo \subseteq With(queue[scope], "pending") \cup With(queue[scope], "retrying")
  <2> DEFINE r == [drain[d].run EXCEPT !.pc = "due", !.loop = "due",
                                       !.todo = With(queue[scope], "pending") \cup later]
  <2>1. /\ r \in RunRecord /\ r.pc = "due" /\ r.loop = "due"
        /\ r.todo = With(queue[scope], "pending") \cup later
    BY <1>0, RunTyped DEF RunRecord, Steps, With
  <2>2. drain' = [drain EXCEPT ![d].run = r] BY <1>3 DEF Become, Run
  <2>3. Ran(d, r) BY <1>0, <2>1, <2>2, Becomes
  <2> QED BY <2>1, <2>3 DEF Ran
<1> QED BY <1>1, <1>2, <1>3 DEF Gather

\* Stages in which a run has no operation at hand and none to do.
Aside == {"idle", "start", "gather", "purge", "drop", "evacuate", "recovery", "quarantine",
          "remove", "recover"}

AsideStep(d) ==
  \/ Wake(d) \/ Finished(d) \/ PurgeRead(d) \/ PurgeWrite(d) \/ EvacuateRead(d)
  \/ QuarantineRead(d) \/ QuarantineWrite(d) \/ EvacuateWrite(d) \/ RecoverRead(d)
  \/ RecoverWrite(d)

LEMMA AsideRun ==
  ASSUME Typed, NEW d \in Drains, AsideStep(d)
  PROVE /\ \A e \in Drains \ {d} : drain'[e] = drain[e]
        /\ drain'[d].run.pc \in Aside
<1>0. DrainTyped /\ RunsFitAll /\ AsideTyped BY Parts
<1>1. ASSUME NEW s \in Aside, Go(d, s)
      PROVE /\ \A e \in Drains \ {d} : drain'[e] = drain[e]
            /\ drain'[d].run.pc \in Aside
  BY <1>0, <1>1, GoMoves DEF Aside, Steps
<1>2. ASSUME Abort(d)
      PROVE /\ \A e \in Drains \ {d} : drain'[e] = drain[e]
            /\ drain'[d].run.pc \in Aside
  <2>1. Ran(d, Resting) BY <1>0, <1>2, RestingTyped, Becomes DEF Abort, Become
  <2> QED BY <2>1, RestingTyped DEF Ran, Aside
<1>3. CASE QuarantineRead(d)
  <2> DEFINE r == [drain[d].run EXCEPT !.pc = "quarantine", !.todo = quarantine[rmw[d].from]]
  <2>1. rmw[d].from \in Actors BY <1>0, <1>3 DEF QuarantineRead, RunsFitAll, RunFit, Run, At, Holding
  <2>2. quarantine[rmw[d].from] \in SUBSET Captures BY <1>0, <2>1 DEF AsideTyped
  <2>3. r \in RunRecord /\ r.pc = "quarantine" BY <1>0, <2>2, RunTyped DEF RunRecord, Steps
  <2>4. drain' = [drain EXCEPT ![d].run = r] BY <1>3 DEF QuarantineRead, Become, Run
  <2>5. Ran(d, r) BY <1>0, <2>3, <2>4, Becomes
  <2> QED BY <2>3, <2>5 DEF Ran, Aside
<1>4. CASE Become(d, [Run(d) EXCEPT !.pc = "remove", !.todo = {}])
  <2> DEFINE r == [drain[d].run EXCEPT !.pc = "remove", !.todo = {}]
  <2>1. r \in RunRecord /\ r.pc = "remove" BY <1>0, RunTyped DEF RunRecord, Steps
  <2>2. drain' = [drain EXCEPT ![d].run = r] BY <1>4 DEF Become, Run
  <2>3. Ran(d, r) BY <1>0, <2>1, <2>2, Becomes
  <2> QED BY <2>1, <2>3 DEF Ran, Aside
<1>5. \/ QuarantineRead(d) \/ Become(d, [Run(d) EXCEPT !.pc = "remove", !.todo = {}])
      \/ Abort(d) \/ \E s \in {"start", "gather", "purge", "drop", "evacuate", "recovery", "recover"} : Go(d, s)
  BY DEF AsideStep, Wake, Begin, Finished, PurgeRead, PurgeWrite, EvacuateRead, QuarantineWrite,
     EvacuateWrite, RecoverRead, RecoverWrite
<1> QED BY <1>1, <1>2, <1>3, <1>4, <1>5 DEF Aside

Sure == \A d \in Drains : Run(d).pc \in {"mark", "store"} /\ Run(d).mark = "synced" => Committed(Run(d).op)

LEMMA ReconcileSure ==
  ASSUME Typed, Sure, NEW d \in Drains, NEW c \in Captures, Reconcile(d, c),
         \A x : Committed(x) => CommittedNext(x)
  PROVE Sure'
<1>0. DrainTyped /\ IdentityTyped BY Parts
<1>a. UNCHANGED <<capture, mounted>> BY DEF Reconcile, identity
<1>b. {"synced", "retrying"} \subseteq Marks BY DEF Marks
<1>1. CASE session # None /\ Receipt(session, c) /\ Mark(d, c, "synced", TRUE)
  <2>1. Committed(c) BY <1>0, <1>1 DEF Committed, Receipt, IdentityTyped
  <2>2. drain'[d].run.op = c /\ \A e \in Drains \ {d} : drain'[e] = drain[e]
    BY <1>0, <1>1, <1>a, <1>b, MarkStep DEF RunOnly
  <2> QED BY <2>1, <2>2 DEF Sure, Run, CommittedNext, Committed
<1>2. CASE Mark(d, c, "retrying", TRUE)
  <2>1. drain'[d].run.mark = "retrying" /\ \A e \in Drains \ {d} : drain'[e] = drain[e]
    BY <1>0, <1>2, <1>a, <1>b, MarkStep DEF RunOnly
  <2> QED BY <2>1 DEF Sure, Run, CommittedNext, Committed
<1>3. CASE Become(d, [Run(d) EXCEPT !.pc = Run(d).loop, !.todo = @ \ {c}])
  <2>1. drain'[d].run.pc \in {"unknown", "due"} /\ \A e \in Drains \ {d} : drain'[e] = drain[e]
    BY <1>0, <1>3, <1>a, BackStep DEF RunOnly
  <2> QED BY <2>1 DEF Sure, Run, CommittedNext, Committed
<1> QED BY <1>1, <1>2, <1>3 DEF Reconcile

LEMMA ExecuteSure ==
  ASSUME Typed, Sure, NEW d \in Drains, NEW c \in Captures, Execute(d, c),
         \A x : Committed(x) => CommittedNext(x)
  PROVE Sure'
<1>0. DrainTyped /\ IdentityTyped /\ ServerTyped BY Parts
<1>a. UNCHANGED <<capture, mounted, stale>> BY DEF Execute, identity
<1>b. {"synced", "refused", "failed", "unknown"} \subseteq Marks BY DEF Marks
<1>1. CASE Accepted(c) /\ Mark(d, c, "synced", FALSE)
  <2>1. CommittedNext(c)
    BY <1>0, <1>1 DEF Accepted, Perform, IdentityTyped, CommittedNext
  <2>2. drain'[d].run.op = c /\ \A e \in Drains \ {d} : drain'[e] = drain[e]
    BY <1>0, <1>1, <1>a, <1>b, MarkStep DEF RunOnly
  <2> QED BY <2>1, <2>2 DEF Sure, Run, CommittedNext, Committed
<1>2. ASSUME NEW mark \in {"refused", "failed", "unknown"}, Mark(d, c, mark, FALSE) PROVE Sure'
  <2>0. mark \in Marks /\ FALSE \in BOOLEAN BY <1>2, <1>b
  <2>1. drain'[d].run.mark = mark /\ \A e \in Drains \ {d} : drain'[e] = drain[e]
    <3>1. drain'[d].run.mark = mark /\ RunOnly(d) BY <1>0, <1>2, <1>a, <2>0, MarkStep
    <3> QED BY <3>1 DEF RunOnly
  <2> QED BY <1>2, <2>1 DEF Sure, Run, CommittedNext, Committed
<1> QED BY <1>1, <1>2 DEF Execute

LEMMA ThrownSure ==
  ASSUME Typed, Sure, NEW d \in Drains, drain[d].run.pc \in {"mark", "store"}, Thrown(d),
         UNCHANGED <<capture, mounted>>, \A x : Committed(x) => CommittedNext(x)
  PROVE Sure'
<1>0. DrainTyped /\ RunsFitAll BY Parts
<1>1. /\ \A e \in Drains \ {d} : drain'[e] = drain[e]
      /\ drain'[d].run.pc \in {"unknown", "due", "mark", "idle"}
      /\ drain'[d].run.pc = "mark" => drain'[d].run.mark = "failed"
  BY <1>0, ThrownStep DEF RunOnly
<1> QED BY <1>1 DEF Sure, Run, CommittedNext, Committed

LEMMA NextSure == ASSUME Typed, Sure, [Next]_vars PROVE Sure'
<1>0. DrainTyped /\ RunsFitAll BY Parts
<1>g. \A x : Committed(x) => CommittedNext(x) BY ReceiptsGrow
<1>1. CASE UNCHANGED drain BY <1>1, <1>g DEF Sure, Run, CommittedNext, Committed
<1>2. ASSUME NEW d \in Drains, \A e \in Drains \ {d} : drain'[e] = drain[e],
             drain'[d].run.pc \notin {"mark", "store"}
      PROVE Sure'
  BY <1>2, <1>g DEF Sure, Run, CommittedNext, Committed
<1>3. ASSUME NEW d \in Drains, DrainStep(d) PROVE Sure'
  <2>1. CASE AsideStep(d) BY <1>2, <2>1, AsideRun DEF Aside
  <2>2. CASE Gather(d) BY <1>2, <2>2, GatherRun, RestingTyped
  <2>3. CASE \E c \in Captures : Reconcile(d, c) BY <2>3, <1>g, ReconcileSure
  <2>4. CASE \E c \in Captures : Execute(d, c) BY <2>4, <1>g, ExecuteSure
  <2>5. CASE MarkRead(d)
    <3>1. drain[d].run.pc = "mark" /\ UNCHANGED <<capture, mounted>>
      BY <2>5 DEF MarkRead, At, Run, identity
    <3>2. CASE Thrown(d) BY <3>1, <3>2, <1>g, ThrownSure
    <3>3. CASE Go(d, "store")
      <4>1. "store" \in Steps BY DEF Steps
      <4>2. /\ drain'[d].run.op = drain[d].run.op /\ drain'[d].run.mark = drain[d].run.mark
            /\ \A e \in Drains \ {d} : drain'[e] = drain[e]
        BY <1>0, <3>3, <4>1, GoMoves
      <4> QED BY <3>1, <4>2, <1>g DEF Sure, Run, CommittedNext, Committed
    <3> QED BY <2>5, <3>2, <3>3 DEF MarkRead
  <2>6. CASE MarkWrite(d)
    <3>1. drain[d].run.pc = "store" /\ UNCHANGED <<capture, mounted>>
      BY <2>6 DEF MarkWrite, At, Run, identity
    <3>2. CASE Thrown(d) BY <3>1, <3>2, <1>g, ThrownSure
    <3>3. CASE Go(d, IF Run(d).mark = "unknown" THEN "ask" ELSE Run(d).loop)
      <4> DEFINE s == IF Run(d).mark = "unknown" THEN "ask" ELSE Run(d).loop
      <4>1. s \in Steps /\ s \in {"ask", "unknown", "due"}
        <5>1. Run(d).loop \in {"unknown", "due"} BY <1>0, RunTyped DEF RunRecord
        <5> QED BY <5>1 DEF Steps
      <4>2. drain'[d].run.pc = s /\ \A e \in Drains \ {d} : drain'[e] = drain[e]
        BY <1>0, <3>3, <4>1, GoMoves
      <4> QED BY <1>2, <4>1, <4>2
    <3> QED BY <2>6, <3>2, <3>3 DEF MarkWrite
  <2> QED BY <1>3, <2>1, <2>2, <2>3, <2>4, <2>5, <2>6 DEF DrainStep, AsideStep
<1>4. ASSUME NEW a \in Actors, NEW d \in Drains, Login(a, d) PROVE Sure'
  <2>1. drain' = [drain EXCEPT ![d] = [actor |-> a, run |-> [Resting EXCEPT !.pc = "start"]]]
    BY <1>4 DEF Login
  <2>2. [Resting EXCEPT !.pc = "start"].pc = "start" BY DEF Resting
  <2>3. drain'[d].run.pc = "start" /\ \A e \in Drains \ {d} : drain'[e] = drain[e]
    BY <1>0, <2>1, <2>2 DEF DrainTyped
  <2> QED BY <1>2, <2>3
<1>5. CASE Restart
  <2>1. \A d \in Drains : drain'[d].run.pc = "idle" BY <1>5, RestingTyped DEF Restart
  <2> QED BY <2>1 DEF Sure, Run
<1>6. \/ UNCHANGED drain \/ (\E d \in Drains : DrainStep(d)) \/ Restart
      \/ \E a \in Actors, d \in Drains : Login(a, d)
  BY DEF Next, vars, EnqueueRead, EnqueueWrite, Age, Press, Arrive, EndSession, Unmount
<1> QED BY <1>1, <1>3, <1>4, <1>5, <1>6

DoneNext(q) == \A c \in Captures : q[c].status = "synced" => CommittedNext(c)

DoneEntries ==
  /\ \A a \in Actors : Done(queue[a])
  /\ \A p \in Processes : Done(rmw[p].base) /\ Done(rmw[p].out)

LEMMA EmptyDone == DoneNext(Empty) /\ Done(Empty)
BY EntryTyped DEF DoneNext, Done, Absent

\* A run calls an operation synced only when it was performed.
LEMMA MakesDone ==
  ASSUME DrainTyped, RunsFitAll, Sure, NEW d \in Drains, NEW s, NEW base \in Entry, NEW out,
         Makes(d, s, base, out), Done(base)
  PROVE Done(out)
<1>1. CASE /\ s = "store" /\ drain[d].run.pc = "mark"
           /\ out = [base EXCEPT ![drain[d].run.op] =
                 IF @ = Absent THEN @ ELSE Marked(@, drain[d].run.mark)]
  <2>1. drain[d].run.op \in Captures BY <1>1 DEF RunsFitAll, RunFit, Run
  <2>2. drain[d].run.mark \in Marks BY RunTyped DEF RunRecord
  <2>3. base[drain[d].run.op] \in Operation BY <2>1 DEF Entry
  <2>4. Marked(base[drain[d].run.op], drain[d].run.mark).status = "synced" => drain[d].run.mark = "synced"
    BY <2>2, <2>3, MarkedTyped
  <2>5. drain[d].run.mark = "synced" => Committed(drain[d].run.op) BY <1>1 DEF Sure, Run
  <2>6. \A c \in Captures : c # drain[d].run.op => out[c] = base[c] BY <1>1, <2>1 DEF Entry
  <2>7. out[drain[d].run.op].status = "synced" => Committed(drain[d].run.op)
    BY <1>1, <2>1, <2>4, <2>5 DEF Entry, Done
  <2> QED BY <2>6, <2>7 DEF Done
<1>2. CASE out = Without(base, "synced") BY <1>2, WithoutTyped DEF Done, Absent
<1>3. CASE out = Without(base, "failed_permanent") BY <1>3, WithoutTyped DEF Done, Absent
<1>4. CASE out = Empty BY <1>4, EmptyDone
<1> QED BY <1>1, <1>2, <1>3, <1>4 DEF Makes

LEMMA NextDone == ASSUME Typed, DoneEntries, Sure, Step, [Next]_vars PROVE DoneEntries'
<1>0. /\ DrainTyped /\ CaptureTyped /\ HoldTyped /\ QueueTyped /\ RunsFitAll BY Parts
<1>g. \A q : Done(q) => DoneNext(q) BY ReceiptsGrow DEF Done, DoneNext
<1>e. /\ \A a \in Actors : DoneNext(queue[a])
      /\ \A p \in Processes : DoneNext(rmw[p].base) /\ DoneNext(rmw[p].out)
  BY <1>g DEF DoneEntries
<1>h. ASSUME On PROVE \A p \in Processes : DoneNext(rmw'[p].base) /\ DoneNext(rmw'[p].out)
  <2>1. SUFFICES ASSUME NEW p \in Processes
        PROVE DoneNext(rmw'[p].base) /\ DoneNext(rmw'[p].out) OBVIOUS
  <2>2. rmw'[p] \in {rmw[p], NoWrite} BY <1>h DEF On, HoldOn
  <2> QED BY <1>e, <2>2, EntryTyped, EmptyDone
<1>f. ASSUME \A a \in Actors : DoneNext(queue'[a]),
             \A p \in Processes : DoneNext(rmw'[p].base) /\ DoneNext(rmw'[p].out)
      PROVE DoneEntries'
  BY <1>f DEF DoneEntries, Done, DoneNext, Committed, CommittedNext
<1>1. CASE Settle BY <1>1, <1>e, <1>h, <1>f DEF Settle
<1>2. ASSUME NEW p \in Processes, NEW a \in Actors, Stores(p, a) PROVE DoneEntries'
  <2>1. On BY <1>2 DEF Stores
  <2>2. queue'[a] = rmw[p].out /\ \A b \in Actors \ {a} : queue'[b] = queue[b]
    BY <1>0, <1>2, StoredOn
  <2> QED BY <2>1, <2>2, <1>e, <1>h, <1>f
<1>3. ASSUME NEW d \in Drains, NEW a \in Actors, NEW out \in Entry, Fetches(d, a, out)
      PROVE DoneEntries'
  <2>1. /\ rmw'[d].base = queue[a] /\ rmw'[d].out = out
        /\ \A q \in Processes \ {d} : rmw'[q] = rmw[q]
    BY <1>0, <1>3, Names, HoldStep DEF Fetches
  <2>2. DoneNext(out)
    <3>1. Makes(d, drain'[d].run.pc, queue[a], out) BY <1>3 DEF Fetches
    <3>2. queue[a] \in Entry /\ Done(queue[a]) BY <1>0 DEF QueueTyped, DoneEntries
    <3> QED BY <1>0, <1>3, <1>g, <3>1, <3>2, MakesDone
  <2> QED BY <2>1, <2>2, <1>3, <1>e, <1>f DEF Fetches
<1>4. ASSUME NEW c \in Captures, NEW a \in Actors, Drafts(c, a) PROVE DoneEntries'
  <2> DEFINE out == [queue[a] EXCEPT ![c] = [status |-> "pending", attempts |-> 0]]
  <2>0. out \in Entry BY <1>0, EntryTyped DEF QueueTyped, Entry
  <2>1. /\ rmw'[c].base = queue[a] /\ rmw'[c].out = out
        /\ \A q \in Processes \ {c} : rmw'[q] = rmw[q]
    BY <1>0, <1>4, <2>0, Names, HoldStep DEF Drafts
  <2>2. DoneNext(out)
    <3>1. \A e \in Captures \ {c} : out[e] = queue[a][e] BY <1>0 DEF QueueTyped, Entry
    <3>2. out[c].status = "pending" BY <1>0 DEF QueueTyped, Entry
    <3> HIDE DEF out
    <3> QED BY <1>e, <3>1, <3>2 DEF DoneNext
  <2>3. \A p \in Processes : DoneNext(rmw'[p].base) /\ DoneNext(rmw'[p].out)
    <3> HIDE DEF out
    <3> QED BY <2>1, <2>2, <1>e
  <2> QED BY <2>3, <1>4, <1>e, <1>f DEF Drafts
<1> QED BY <1>1, <1>2, <1>3, <1>4 DEF Step

-----------------------------------------------------------------------------
(* Saved work, as long as no write overlaps another.                       *)

\* A run does not write an operation that it did not read.
LEMMA OutLess ==
  ASSUME Typed, Holds, NEW d \in Drains, drain[d].run.pc \in {"store", "drop", "remove", "recover"}
  PROVE \A c \in Captures : rmw[d].base[c] = Absent => rmw[d].out[c] = Absent
<1>0. HoldTyped /\ RunsFitAll BY Parts
<1>1. rmw[d].base \in Entry BY <1>0, Names DEF HoldTyped, HoldRecord
<1>2. DrainHolds(d) BY DEF Holds
<1>3. CASE drain[d].run.pc = "store"
  BY <1>2, <1>3 DEF DrainHolds, Run
<1>4. CASE drain[d].run.pc = "drop"
  <2>1. rmw[d].out = Without(rmw[d].base, "synced") BY <1>2, <1>4 DEF DrainHolds, Run
  <2> QED BY <1>1, <2>1, WithoutTyped
<1>5. CASE drain[d].run.pc = "remove"
  <2>1. rmw[d].out = Without(rmw[d].base, "failed_permanent") BY <1>2, <1>5 DEF DrainHolds, Run
  <2> QED BY <1>1, <2>1, WithoutTyped
<1>6. CASE drain[d].run.pc = "recover"
  <2>1. rmw[d].out = Empty BY <1>2, <1>6 DEF DrainHolds, Run
  <2> QED BY <2>1, EntryTyped
<1> QED BY <1>3, <1>4, <1>5, <1>6

LEMMA OverlapStays == [Next]_vars /\ ~overlapped' => ~overlapped
<1> SUFFICES ASSUME [Next]_vars, overlapped PROVE overlapped' OBVIOUS
<1>1. CASE UNCHANGED vars BY <1>1 DEF vars, history
<1>2. ASSUME NEW d \in Drains, DrainStep(d) PROVE overlapped'
  BY <1>2 DEF DrainStep, Wake, Gather, Finished, MarkRead, MarkWrite, PurgeRead, PurgeWrite,
     EvacuateRead, QuarantineRead, QuarantineWrite, EvacuateWrite, RecoverRead, RecoverWrite,
     Reconcile, Execute, history, Write, WriteThrows
<1>3. CASE \E c \in Captures : EnqueueRead(c) \/ EnqueueWrite(c) \/ Age(c)
  BY <1>3 DEF EnqueueRead, EnqueueWrite, Age, history, Write, WriteThrows
<1>4. CASE \/ \E c \in Captures, i \in Intents : Press(c, i)
           \/ \E a \in Actors, c \in Captures : Arrive(a, c)
           \/ \E a \in Actors, d \in Drains : Login(a, d)
           \/ \E detach \in BOOLEAN : EndSession(detach)
           \/ Unmount \/ Restart
  BY <1>4 DEF Press, Arrive, Login, EndSession, Unmount, Restart, history
<1> QED BY <1>1, <1>2, <1>3, <1>4 DEF Next

LEMMA OwnedStep ==
  ASSUME Typed, Typed', Landed, Holds, Owned, Step, ~overlapped' PROVE Owned'
<1>0. /\ DrainTyped /\ CaptureTyped /\ HoldTyped /\ QueueTyped /\ RunsFitAll BY Parts
<1>1. ASSUME On PROVE \A d \in Drains : drain'[d].run.pc # "recover"
  BY <1>1 DEF On, DrainOn, Owned, Run, Holding, Leaving
<1>2. CASE Settle
  BY <1>1, <1>2 DEF Settle, On, CaptureOn, Owned, Run
<1>3. ASSUME NEW p \in Processes, NEW a \in Actors, Stores(p, a) PROVE Owned'
  <2>1. On /\ a = rmw[p].from /\ queue[a] = rmw[p].base BY <1>3 DEF Stores
  <2>2. queue'[a] = rmw[p].out /\ \A b \in Actors \ {a} : queue'[b] = queue[b]
    BY <1>0, <1>3, StoredOn
  <2>3. \A c \in Captures : capture'[c].owner = capture[c].owner BY <2>1 DEF On, CaptureOn
  <2>4. ASSUME NEW c \in Captures, rmw[p].out[c] # Absent PROVE capture[c].owner = a
    <3>1. CASE p \in Drains
      <4>1. queue[a][c] # Absent BY <1>3, <2>1, <2>4, <3>1, OutLess DEF Stores
      <4> QED BY <4>1 DEF Owned
    <3>2. CASE p \in Captures
      <4>1. CaptureHolds(p) /\ capture[p].stage = "writing" BY <1>3, <3>2 DEF Holds, Stores
      <4>2. CASE c = p BY <2>1, <4>1, <4>2 DEF CaptureHolds
      <4>3. CASE c # p
        <5>1. queue[a][c] # Absent BY <2>1, <2>4, <4>1, <4>3 DEF CaptureHolds
        <5> QED BY <5>1 DEF Owned
      <4> QED BY <4>2, <4>3
    <3> QED BY <3>1, <3>2 DEF Processes
  <2>5. \A b \in Actors, c \in Captures : queue'[b][c] # Absent => capture'[c].owner = b
    BY <2>2, <2>3, <2>4 DEF Owned
  <2> QED BY <1>1, <2>1, <2>5 DEF Owned, Run
<1>4. ASSUME NEW d \in Drains, NEW a \in Actors, NEW out \in Entry, Fetches(d, a, out) PROVE Owned'
  <2>1. drain'[d].run.pc # "recover" BY <1>4 DEF Fetches, Foreign, Owned, Content
  <2> QED BY <1>4, <2>1 DEF Fetches, Owned, Run
<1>5. ASSUME NEW c \in Captures, NEW a \in Actors, Drafts(c, a) PROVE Owned'
  <2>1. /\ queue' = queue /\ drain' = drain /\ capture[c].stage = "offline"
        /\ \A e \in Captures \ {c} : capture'[e] = capture[e]
    BY <1>0, <1>5 DEF Drafts, CaptureTyped
  <2>2. \A b \in Actors : queue[b][c] = Absent BY <2>1 DEF Landed
  <2> QED BY <2>1, <2>2 DEF Owned, Run
<1> QED BY <1>2, <1>3, <1>4, <1>5 DEF Step

\* What was put aside stays there: nobody archives over an archive.
Grows == \A a \in Actors : archive[a] \subseteq archive'[a] /\ quarantine[a] \subseteq quarantine'[a]

LEMMA ReadGrows ==
  ASSUME IdentityTyped, AsideTyped, Owned, ReadFails, ReadThrows PROVE Grows
BY DEF ReadFails, ReadThrows, Foreign, Owned, Content, Grows, IdentityTyped

LEMMA NextGrows == ASSUME Typed, Owned, [Next]_vars, ~overlapped' PROVE Grows
<1>0. /\ DrainTyped /\ IdentityTyped /\ AsideTyped /\ HoldTyped /\ RunsFitAll BY Parts
<1>1. CASE UNCHANGED <<archive, quarantine>> BY <1>1 DEF Grows
<1>2. CASE ReadFails /\ ReadThrows BY <1>0, <1>2, ReadGrows
<1>3. ASSUME NEW d \in Drains, QuarantineWrite(d) PROVE Grows
  <2>1. CASE UNCHANGED quarantine BY <1>1, <1>3, <2>1 DEF QuarantineWrite
  <2>2. CASE /\ quarantine' = [quarantine EXCEPT ![rmw[d].from] =
                               Run(d).todo \cup With(rmw[d].base, "failed_permanent")]
             /\ overlapped' = (overlapped \/ quarantine[rmw[d].from] # Run(d).todo)
    <3>1. Run(d).todo = quarantine[rmw[d].from] BY <2>2
    <3>2. archive' = archive BY <1>3 DEF QuarantineWrite
    <3> QED BY <1>0, <2>2, <3>1, <3>2 DEF Grows, AsideTyped
  <2> QED BY <1>3, <2>1, <2>2 DEF QuarantineWrite
<1>4. ASSUME NEW d \in Drains, RecoverRead(d) PROVE Grows
  <2>1. drain[d].actor \in Actors BY <1>0, <1>4 DEF RecoverRead, RunsFitAll, MountFit
  <2>2. ~Foreign(drain[d].actor) BY <2>1 DEF Foreign, Owned, Content
  <2> QED BY <1>4, <2>2 DEF RecoverRead
<1>5. ASSUME NEW d \in Drains, DrainStep(d) PROVE Grows
  <2>1. CASE Gather(d) \/ MarkRead(d) \/ PurgeRead(d) \/ EvacuateRead(d)
    BY <1>1, <1>2, <2>1 DEF Gather, MarkRead, PurgeRead, EvacuateRead, store
  <2>2. CASE \/ Wake(d) \/ Finished(d) \/ MarkWrite(d) \/ PurgeWrite(d)
             \/ QuarantineRead(d) \/ EvacuateWrite(d) \/ RecoverWrite(d)
             \/ \E c \in Captures : Reconcile(d, c) \/ Execute(d, c)
    BY <1>1, <2>2 DEF Wake, Finished, MarkWrite, PurgeWrite, QuarantineRead, EvacuateWrite,
       RecoverWrite, Reconcile, Execute, store
  <2> QED BY <1>3, <1>4, <1>5, <2>1, <2>2 DEF DrainStep
<1>6. CASE \E c \in Captures : EnqueueRead(c) \/ EnqueueWrite(c) \/ Age(c)
  BY <1>1, <1>2, <1>6 DEF EnqueueRead, EnqueueWrite, Age, store
<1>7. CASE \/ UNCHANGED vars
           \/ \E c \in Captures, i \in Intents : Press(c, i)
           \/ \E a \in Actors, c \in Captures : Arrive(a, c)
           \/ \E a \in Actors, d \in Drains : Login(a, d)
           \/ \E detach \in BOOLEAN : EndSession(detach)
           \/ Unmount \/ Restart
  BY <1>1, <1>7 DEF vars, Press, Arrive, Login, EndSession, Unmount, Restart, store
<1> QED BY <1>5, <1>6, <1>7 DEF Next

\* A capture is called saved when its own write was made, or when an operation of
\* its intent was found in the entry.
Unsaved == \A c \in Captures : capture[c].stage # "queued" => capture[c].as = c

LEMMA NextQueued ==
  ASSUME Typed, Holds, Unsaved, [Next]_vars, NEW c \in Captures
  PROVE /\ capture'[c].stage = "queued" =>
             \/ capture[c].stage = "queued" /\ capture'[c].as = capture[c].as
             \/ \E a \in Actors : queue'[a][capture'[c].as] # Absent
        /\ capture'[c].stage # "queued" => capture'[c].as = c
<1> DEFINE P == /\ capture'[c].stage = "queued" =>
                     \/ capture[c].stage = "queued" /\ capture'[c].as = capture[c].as
                     \/ \E a \in Actors : queue'[a][capture'[c].as] # Absent
                /\ capture'[c].stage # "queued" => capture'[c].as = c
<1>0. CaptureTyped /\ HoldTyped /\ QueueTyped /\ IdentityTyped /\ BooksTyped BY Parts
<1>u. capture[c].stage # "queued" => capture[c].as = c BY DEF Unsaved
<1>r. \A e \in Captures : capture[e] \in CaptureRecord BY <1>0 DEF CaptureTyped
<1>1. CASE capture'[c] = capture[c] BY <1>1, <1>u
<1>2. ASSUME NEW e \in Captures, NEW stage \in {"closed", "offline"}, Goes(e, stage),
             capture[e].stage # "queued"
      PROVE P
  <2>1. /\ capture'[e].stage = stage /\ capture'[e].as = capture[e].as
        /\ \A x \in Captures \ {e} : capture'[x] = capture[x]
    BY <1>0, <1>2, GoesStep
  <2> QED BY <1>1, <1>2, <1>u, <2>1
<1>3. ASSUME NEW e \in Captures, NEW i \in Intents, Press(e, i) PROVE P
  <2>1. PICK stage \in {"closed", "offline"} :
          capture' = [capture EXCEPT ![e].stage = stage, ![e].intent = i]
    BY <1>3 DEF Press
  <2> DEFINE r == [capture[e] EXCEPT !.stage = stage, !.intent = i]
  <2>r. capture[e] \in CaptureRecord BY <1>r
  <2>2. r \in CaptureRecord /\ r.stage = stage /\ r.as = capture[e].as
    BY <2>r DEF CaptureRecord
  <2>3. capture' = [capture EXCEPT ![e] = r] BY <2>1
  <2>4. capture'[e] = r /\ \A x \in Captures \ {e} : capture'[x] = capture[x]
    BY <1>0, <2>2, <2>3, Recorded
  <2>5. capture[e].stage = "new" BY <1>3 DEF Press
  <2> HIDE DEF r
  <2> QED BY <1>1, <1>u, <2>2, <2>4, <2>5
<1>4. ASSUME NEW e \in Captures, EnqueueRead(e) PROVE P
  <2>0. capture[e].stage = "offline" BY <1>4 DEF EnqueueRead
  <2>1. CASE Goes(e, "closed") BY <1>2, <2>0, <2>1
  <2>2. ASSUME ~ReadFails, UNCHANGED store, NEW x \in Same(e),
               capture' = [capture EXCEPT ![e].stage = "queued", ![e].as = x]
        PROVE P
    <3>1. scope \in Actors BY <1>0, <2>2 DEF ReadFails, IdentityTyped
    <3>2. x \in Captures /\ queue[scope][x] # Absent BY <2>2 DEF Same, Content
    <3> DEFINE r == [capture[e] EXCEPT !.stage = "queued", !.as = x]
    <3>r. capture[e] \in CaptureRecord BY <1>r
    <3>3. r \in CaptureRecord /\ r.stage = "queued" /\ r.as = x
      BY <3>r, <3>2 DEF CaptureRecord
    <3>4. capture' = [capture EXCEPT ![e] = r] BY <2>2
    <3>5. capture'[e] = r /\ \A y \in Captures \ {e} : capture'[y] = capture[y]
      BY <1>0, <3>3, <3>4, Recorded
    <3>6. queue' = queue BY <2>2 DEF store
    <3> HIDE DEF r
    <3> QED BY <1>1, <3>1, <3>2, <3>3, <3>5, <3>6
  <2>3. CASE capture' = [capture EXCEPT ![e].stage = "writing", ![e].owner = scope] /\ ~ReadFails
    <3>1. scope \in Actors BY <1>0, <2>3 DEF ReadFails, IdentityTyped
    <3> DEFINE r == [capture[e] EXCEPT !.stage = "writing", !.owner = scope]
    <3>r. capture[e] \in CaptureRecord BY <1>r
    <3>3. r \in CaptureRecord /\ r.stage = "writing" /\ r.as = capture[e].as
      BY <3>r, <3>1 DEF CaptureRecord
    <3>4. capture' = [capture EXCEPT ![e] = r] BY <2>3
    <3>5. capture'[e] = r /\ \A y \in Captures \ {e} : capture'[y] = capture[y]
      BY <1>0, <3>3, <3>4, Recorded
    <3> HIDE DEF r
    <3> QED BY <1>1, <1>u, <2>0, <3>3, <3>5
  <2> QED BY <1>4, <2>1, <2>2, <2>3 DEF EnqueueRead
<1>5. ASSUME NEW e \in Captures, EnqueueWrite(e) PROVE P
  <2>0. capture[e].stage = "writing" BY <1>5 DEF EnqueueWrite
  <2>1. CASE Goes(e, "closed") BY <1>2, <2>0, <2>1
  <2>2. CASE Write(e) /\ Goes(e, "queued")
    <3>1. /\ capture'[e].stage = "queued" /\ capture'[e].as = capture[e].as
          /\ \A x \in Captures \ {e} : capture'[x] = capture[x]
      BY <1>0, <2>2, GoesStep
    <3>2. scope \in Actors /\ queue' = [queue EXCEPT ![scope] = rmw[e].out]
      BY <1>0, <2>2, Names, WriteStep
    <3>3. queue'[scope] = rmw[e].out BY <1>0, <3>2 DEF QueueTyped
    <3>4. rmw[e].out[e] # Absent
      BY <2>0, EntryTyped DEF Holds, CaptureHolds, Absent
    <3>5. e = c => capture[e].as = e BY <1>u, <2>0
    <3> QED BY <1>1, <3>1, <3>2, <3>3, <3>4, <3>5
  <2> QED BY <1>5, <2>1, <2>2 DEF EnqueueWrite
<1>6. CASE Restart
  <2>1. capture' = [x \in Captures |->
            IF capture[x].stage \in {"offline", "writing"}
            THEN [capture[x] EXCEPT !.stage = "closed"] ELSE capture[x]]
    BY <1>6 DEF Restart
  <2>2. \/ capture'[c] = capture[c]
        \/ /\ capture[c].stage \in {"offline", "writing"}
           /\ capture'[c] = [capture[c] EXCEPT !.stage = "closed"]
    BY <2>1
  <2>3. capture[c] \in CaptureRecord BY <1>0 DEF CaptureTyped
  <2>4. [capture[c] EXCEPT !.stage = "closed"].stage = "closed"
        /\ [capture[c] EXCEPT !.stage = "closed"].as = capture[c].as
    BY <2>3 DEF CaptureRecord
  <2>5. CASE capture'[c] = capture[c] BY <1>1, <2>5
  <2>6. CASE /\ capture[c].stage \in {"offline", "writing"}
             /\ capture'[c] = [capture[c] EXCEPT !.stage = "closed"]
    <3>1. capture[c].as = c BY <1>u, <2>6
    <3>2. capture'[c].stage = "closed" /\ capture'[c].as = c BY <2>4, <2>6, <3>1
    <3> QED BY <3>2
  <2> QED BY <2>2, <2>5, <2>6
<1>7. \/ UNCHANGED capture \/ Restart
      \/ \E e \in Captures, i \in Intents : Press(e, i)
      \/ \E e \in Captures : EnqueueRead(e) \/ EnqueueWrite(e)
  <2>1. ASSUME NEW d \in Drains, DrainStep(d) PROVE UNCHANGED capture
    BY <2>1 DEF DrainStep, Wake, Gather, Finished, MarkRead, MarkWrite, PurgeRead, PurgeWrite,
       EvacuateRead, QuarantineRead, QuarantineWrite, EvacuateWrite, RecoverRead, RecoverWrite,
       Reconcile, Execute
  <2>2. ASSUME \/ \E e \in Captures : Age(e)
               \/ \E a \in Actors, e \in Captures : Arrive(a, e)
               \/ \E a \in Actors, d \in Drains : Login(a, d)
               \/ \E detach \in BOOLEAN : EndSession(detach)
               \/ Unmount
        PROVE UNCHANGED capture
    BY <2>2 DEF Age, Arrive, Login, EndSession, Unmount
  <2> QED BY <2>1, <2>2 DEF Next, vars
<1> QED BY <1>1, <1>3, <1>4, <1>5, <1>6, <1>7

\* Whoever is about to remove what failed for good has put it aside.
SetAside ==
  \A d \in Drains : Run(d).pc = "remove" =>
    With(rmw[d].base, "failed_permanent") \subseteq quarantine[rmw[d].from]

LEMMA NextRemoves ==
  ASSUME Typed, [Next]_vars, NEW d \in Drains, drain'[d].run.pc = "remove"
  PROVE \/ drain[d].run.pc = "remove"
        \/ With(rmw[d].base, "failed_permanent") \subseteq quarantine'[rmw[d].from]
<1>0. DrainTyped /\ RunsFitAll /\ AsideTyped BY Parts
<1>1. CASE drain'[d] = drain[d] BY <1>1
<1>2. ASSUME NEW e \in Drains, DrainStep(e)
      PROVE \/ drain[d].run.pc = "remove"
            \/ With(rmw[d].base, "failed_permanent") \subseteq quarantine'[rmw[d].from]
  <2>1. CASE QuarantineWrite(e)
    <3>1. \A x \in Drains \ {e} : drain'[x] = drain[x]
      BY <2>1, AsideRun DEF AsideStep
    <3>2. CASE d # e BY <1>1, <3>1, <3>2
    <3>3. CASE d = e
      <4>1. rmw[d].from \in Actors
        BY <1>0, <2>1, <3>3 DEF QuarantineWrite, RunsFitAll, RunFit, Run, At, Holding
      <4>2. CASE Abort(d)
        <5>1. Ran(d, Resting) BY <1>0, <4>2, RestingTyped, Becomes DEF Abort, Become
        <5> QED BY <5>1, RestingTyped DEF Ran
      <4>3. CASE quarantine' = [quarantine EXCEPT ![rmw[d].from] =
                               Run(d).todo \cup With(rmw[d].base, "failed_permanent")]
        BY <1>0, <4>1, <4>3 DEF AsideTyped
      <4> QED BY <2>1, <3>3, <4>2, <4>3 DEF QuarantineWrite
    <3> QED BY <3>2, <3>3
  <2>2. CASE AsideStep(e) /\ ~QuarantineWrite(e)
    <3>1. \A x \in Drains \ {e} : drain'[x] = drain[x] BY <2>2, AsideRun
    <3>2. ASSUME NEW s \in Steps \ {"remove"}, Go(e, s) PROVE drain'[e].run.pc # "remove"
      BY <1>0, <3>2, GoMoves
    <3>3. CASE Abort(e)
      <4>1. Ran(e, Resting) BY <1>0, <3>3, RestingTyped, Becomes DEF Abort, Become
      <4> QED BY <1>1, <3>1, <4>1, RestingTyped DEF Ran
    <3>4. CASE QuarantineRead(e)
      <4> DEFINE r == [drain[e].run EXCEPT !.pc = "quarantine", !.todo = quarantine[rmw[e].from]]
      <4>1. rmw[e].from \in Actors
        BY <1>0, <3>4 DEF QuarantineRead, RunsFitAll, RunFit, Run, At, Holding
      <4>2. quarantine[rmw[e].from] \in SUBSET Captures BY <1>0, <4>1 DEF AsideTyped
      <4>3. r \in RunRecord /\ r.pc = "quarantine" BY <1>0, <4>2, RunTyped DEF RunRecord, Steps
      <4>4. drain' = [drain EXCEPT ![e].run = r] BY <3>4 DEF QuarantineRead, Become, Run
      <4>5. Ran(e, r) BY <1>0, <4>3, <4>4, Becomes
      <4> QED BY <1>1, <3>1, <4>3, <4>5 DEF Ran
    <3>5. \/ QuarantineRead(e) \/ Abort(e)
          \/ \E s \in {"start", "gather", "purge", "drop", "evacuate", "recovery", "recover"} : Go(e, s)
      BY <2>2 DEF AsideStep, Wake, Begin, Finished, PurgeRead, PurgeWrite, EvacuateRead,
         EvacuateWrite, RecoverRead, RecoverWrite
    <3>6. {"start", "gather", "purge", "drop", "evacuate", "recovery", "recover"} \subseteq Steps \ {"remove"}
      BY DEF Steps
    <3> QED BY <1>1, <3>1, <3>2, <3>3, <3>4, <3>5, <3>6
  <2>3. CASE Gather(e) BY <1>1, <2>3, GatherRun, RestingTyped
  <2>4. ASSUME NEW c \in Captures, Reconcile(e, c) \/ Execute(e, c) PROVE drain'[d].run.pc # "remove" \/ drain'[d] = drain[d]
    <3>1. UNCHANGED <<capture, mounted>> BY <2>4 DEF Reconcile, Execute, identity
    <3>2. ASSUME NEW mark \in Marks, NEW asked \in BOOLEAN, Mark(e, c, mark, asked)
          PROVE drain'[d].run.pc # "remove" \/ drain'[d] = drain[d]
      BY <1>0, <3>1, <3>2, MarkStep DEF RunOnly
    <3>3. CASE Become(e, [Run(e) EXCEPT !.pc = Run(e).loop, !.todo = @ \ {c}])
      BY <1>0, <3>1, <3>3, BackStep DEF RunOnly
    <3>4. {"synced", "retrying", "refused", "failed", "unknown"} \subseteq Marks BY DEF Marks
    <3> QED BY <2>4, <3>2, <3>3, <3>4 DEF Reconcile, Execute
  <2>5. CASE MarkRead(e) \/ MarkWrite(e)
    <3>1. drain[e].run.pc \in {"mark", "store"} /\ UNCHANGED <<capture, mounted>>
      BY <2>5 DEF MarkRead, MarkWrite, At, Run, identity
    <3>2. CASE Thrown(e) BY <1>0, <1>1, <3>1, <3>2, ThrownStep DEF RunOnly
    <3>3. ASSUME NEW s \in Steps \ {"remove"}, Go(e, s)
          PROVE drain'[d].run.pc # "remove" \/ drain'[d] = drain[d]
      BY <1>0, <3>3, GoMoves
    <3>4. Run(e).loop \in {"unknown", "due"} BY <1>0, RunTyped DEF RunRecord
    <3>5. {"store", "ask", "unknown", "due"} \subseteq Steps \ {"remove"} BY DEF Steps
    <3> QED BY <1>1, <2>5, <3>2, <3>3, <3>4, <3>5 DEF MarkRead, MarkWrite
  <2> QED BY <1>1, <1>2, <2>1, <2>2, <2>3, <2>4, <2>5 DEF DrainStep, AsideStep
<1>3. ASSUME NEW a \in Actors, NEW e \in Drains, Login(a, e) PROVE drain[d].run.pc = "remove"
  <2>1. drain' = [drain EXCEPT ![e] = [actor |-> a, run |-> [Resting EXCEPT !.pc = "start"]]]
    BY <1>3 DEF Login
  <2>2. [Resting EXCEPT !.pc = "start"].pc = "start" BY DEF Resting
  <2>3. drain'[e].run.pc = "start" /\ \A x \in Drains \ {e} : drain'[x] = drain[x]
    BY <1>0, <2>1, <2>2 DEF DrainTyped
  <2> QED BY <2>3
<1>4. ~Restart BY RestingTyped DEF Restart
<1>5. \/ UNCHANGED drain \/ (\E e \in Drains : DrainStep(e)) \/ Restart
      \/ \E a \in Actors, e \in Drains : Login(a, e)
  BY DEF Next, vars, EnqueueRead, EnqueueWrite, Age, Press, Arrive, EndSession, Unmount
<1> QED BY <1>1, <1>2, <1>3, <1>4, <1>5

LEMMA SetAsideStep ==
  ASSUME Typed, SetAside, Step, Grows, [Next]_vars PROVE SetAside'
<1>0. HoldTyped /\ RunsFitAll BY Parts
<1>1. SUFFICES ASSUME NEW d \in Drains, drain'[d].run.pc = "remove"
      PROVE With(rmw'[d].base, "failed_permanent") \subseteq quarantine'[rmw'[d].from]
  BY DEF SetAside, Run
<1>2. rmw'[d] = rmw[d] /\ drain[d].run.pc \in Holding
  <2>1. CASE On BY <1>1, <2>1 DEF On, DrainOn, Holding
  <2>2. ASSUME NEW e \in Drains, NEW a \in Actors, NEW out \in Entry, Fetches(e, a, out)
        PROVE rmw'[d] = rmw[d] /\ drain[d].run.pc \in Holding
    <3>1. d # e BY <1>1, <2>2 DEF Fetches, Makes
    <3> QED BY <1>0, <1>1, <2>2, <3>1, Names DEF Fetches, TakesHold, HoldTyped, Holding
  <2>3. ASSUME NEW c \in Captures, NEW a \in Actors, Drafts(c, a)
        PROVE rmw'[d] = rmw[d] /\ drain[d].run.pc \in Holding
    BY <1>0, <1>1, <2>3, Names DEF Drafts, TakesHold, HoldTyped, Holding
  <2> QED BY <2>1, <2>2, <2>3 DEF Step, Settle, Stores
<1>3. rmw[d].from \in Actors BY <1>0, <1>2 DEF RunsFitAll, RunFit, Run
<1>4. CASE drain[d].run.pc = "remove"
  BY <1>2, <1>3, <1>4 DEF SetAside, Run, Grows
<1>5. CASE With(rmw[d].base, "failed_permanent") \subseteq quarantine'[rmw[d].from]
  BY <1>2, <1>5
<1> QED BY <1>1, <1>4, <1>5, NextRemoves

SomewhereNext(c) ==
  \/ CommittedNext(c)
  \/ \E a \in Actors : queue'[a][c] # Absent \/ c \in archive'[a] \/ c \in quarantine'[a]

\* What leaves an entry was performed or put aside.
LEMMA SomewhereStep ==
  ASSUME Typed, Holds, Owned, DoneEntries, SetAside, Step, Grows, [Next]_vars, ~overlapped',
         NEW c \in Captures, Somewhere(c)
  PROVE SomewhereNext(c)
<1>0. DrainTyped /\ HoldTyped /\ QueueTyped /\ RunsFitAll BY Parts
<1>g. \A x : Committed(x) => CommittedNext(x) BY ReceiptsGrow
<1>1. CASE Committed(c) BY <1>1, <1>g DEF SomewhereNext
<1>2. CASE \E a \in Actors : c \in archive[a] \/ c \in quarantine[a]
  BY <1>2 DEF Grows, SomewhereNext
<1>3. ASSUME NEW a \in Actors, queue[a][c] # Absent PROVE SomewhereNext(c)
  <2>1. CASE queue' = queue BY <1>3, <2>1 DEF SomewhereNext
  <2>2. ASSUME NEW p \in Processes, NEW b \in Actors, Stores(p, b) PROVE SomewhereNext(c)
    <3>1. queue'[b] = rmw[p].out /\ \A x \in Actors \ {b} : queue'[x] = queue[x]
      BY <1>0, <2>2, StoredOn
    <3>2. CASE a # b BY <1>3, <3>1, <3>2 DEF SomewhereNext
    <3>3. CASE a = b
      <4>1. b = rmw[p].from /\ rmw[p].base = queue[a] BY <2>2, <3>3 DEF Stores
      <4>2. rmw[p].base[c] # Absent BY <1>3, <4>1
      <4>p. rmw[p].base \in Entry BY <1>0 DEF HoldTyped, HoldRecord
      <4>3. CASE rmw[p].out[c] # Absent BY <3>1, <4>3 DEF SomewhereNext
      <4>4. CASE p \in Captures
        <5>1. CaptureHolds(p) /\ capture[p].stage = "writing" BY <2>2, <4>4 DEF Holds, Stores
        <5>2. rmw[p].out[c] # Absent BY <4>2, <5>1, EntryTyped DEF CaptureHolds, Absent
        <5> QED BY <4>3, <5>2
      <4>5. CASE p \in Drains /\ rmw[p].out[c] = Absent
        <5>1. DrainHolds(p) BY <4>5 DEF Holds
        <5>2. CASE drain[p].run.pc = "store"
          <6>1. drain[p].run.op \in Captures /\ drain[p].run.mark \in Marks
            BY <1>0, <4>5, <5>2, RunTyped DEF RunsFitAll, RunFit, Run, RunRecord
          <6>2. c = drain[p].run.op
            BY <4>2, <4>5, <5>1, <5>2 DEF DrainHolds, Run
          <6>3. Marked(rmw[p].base[c], drain[p].run.mark) = Absent
            BY <4>2, <4>5, <5>1, <5>2, <6>2 DEF DrainHolds, Run
          <6>4. Marked(rmw[p].base[c], drain[p].run.mark).status \in Live
            <7>1. rmw[p].base[c] \in Operation BY <4>p DEF Entry
            <7> QED BY <6>1 DEF Marked, Marks, Live
          <6> QED BY <6>3, <6>4 DEF Absent, Live
        <5>3. CASE drain[p].run.pc = "drop"
          <6>1. rmw[p].out = Without(rmw[p].base, "synced") BY <5>1, <5>3 DEF DrainHolds, Run
          <6>2. rmw[p].base[c].status = "synced" BY <4>p, <4>2, <4>5, <6>1, WithoutTyped
          <6>3. Committed(c) BY <6>2 DEF DoneEntries, Done
          <6> QED BY <1>1, <6>3
        <5>4. CASE drain[p].run.pc = "remove"
          <6>1. rmw[p].out = Without(rmw[p].base, "failed_permanent")
            BY <5>1, <5>4 DEF DrainHolds, Run
          <6>2. rmw[p].base[c].status = "failed_permanent"
            BY <4>p, <4>2, <4>5, <6>1, WithoutTyped
          <6>3. c \in quarantine[b]
            BY <4>1, <4>5, <5>4, <6>2 DEF SetAside, With, Run
          <6> QED BY <1>2, <6>3
        <5>5. drain[p].run.pc # "recover" BY <4>5 DEF Owned, Run
        <5> QED BY <2>2, <4>5, <5>2, <5>3, <5>4, <5>5 DEF Stores
      <4> QED BY <4>3, <4>4, <4>5 DEF Processes
    <3> QED BY <3>2, <3>3
  <2>3. \/ queue' = queue \/ \E p \in Processes, b \in Actors : Stores(p, b)
    BY DEF Step, Settle, Fetches, Drafts
  <2> QED BY <2>1, <2>2, <2>3
<1> QED BY <1>1, <1>2, <1>3 DEF Somewhere

SavedAll == \A c \in Captures : capture[c].stage = "queued" => Somewhere(capture[c].as)

LEMMA SavedStep ==
  ASSUME Typed, Holds, Owned, DoneEntries, SetAside, Unsaved, SavedAll, Step, Grows, [Next]_vars,
         ~overlapped'
  PROVE SavedAll' /\ Unsaved'
<1>0. CaptureTyped BY Parts
<1>1. Unsaved' BY NextQueued DEF Unsaved
<1>2. ASSUME NEW c \in Captures, capture'[c].stage = "queued" PROVE SomewhereNext(capture'[c].as)
  <2>1. CASE capture[c].stage = "queued" /\ capture'[c].as = capture[c].as
    <3>1. capture[c].as \in Captures BY <1>0 DEF CaptureTyped, CaptureRecord
    <3>2. Somewhere(capture[c].as) BY <2>1 DEF SavedAll
    <3>3. PICK x \in Captures : x = capture[c].as BY <3>1
    <3>4. SomewhereNext(x) BY <3>2, <3>3, SomewhereStep
    <3> QED BY <2>1, <3>3, <3>4
  <2>2. CASE \E a \in Actors : queue'[a][capture'[c].as] # Absent BY <2>2 DEF SomewhereNext
  <2> QED BY <1>2, <2>1, <2>2, NextQueued
<1>3. SavedAll' BY <1>2 DEF SavedAll, Somewhere, SomewhereNext, Committed, CommittedNext
<1> QED BY <1>1, <1>3

\* The inductive invariant of saved work.
SavedInv == Entries /\ SyncedDone /\ Orderly

LEMMA SavedParts ==
  /\ SyncedDone <=> DoneEntries /\ Sure
  /\ Saved <=> SavedAll /\ Unsaved /\ SetAside
BY DEF SyncedDone, DoneEntries, Sure, Saved, SavedAll, Unsaved, SetAside

LEMMA SavedPartsNext ==
  /\ SyncedDone' <=> DoneEntries' /\ Sure'
  /\ Saved' <=> SavedAll' /\ Unsaved' /\ SetAside'
BY DEF SyncedDone, DoneEntries, Sure, Saved, SavedAll, Unsaved, SetAside

LEMMA InitSaved == Init => SavedInv
<1> SUFFICES ASSUME Init PROVE SavedInv OBVIOUS
<1>1. Entries BY InitEntries
<1>2. /\ \A d \in Drains : drain[d].run.pc = "idle"
      /\ \A c \in Captures : capture[c] = [stage |-> "new", intent |-> None, owner |-> None, as |-> c]
      /\ \A p \in Processes : rmw[p] = NoWrite
      /\ \A a \in Actors : queue[a] = Empty
  BY RestingTyped DEF Init
<1>3. \A c \in Captures : capture[c].stage = "new" /\ capture[c].as = c
  <2>1. TAKE c \in Captures
  <2>2. capture[c] = [stage |-> "new", intent |-> None, owner |-> None, as |-> c] BY <1>2
  <2>3. capture[c].stage = "new" /\ capture[c].as = c BY <2>2
  <2> QED BY <2>3
<1>4. DoneEntries BY <1>2, EntryTyped, EmptyDone DEF DoneEntries
<1>5. Sure BY <1>2 DEF Sure, Run
<1>6. Owned BY <1>2, EntryTyped DEF Owned, Run
<1>7. SavedAll /\ Unsaved /\ SetAside BY <1>2, <1>3 DEF SavedAll, Unsaved, SetAside, Run
<1> QED BY <1>1, <1>4, <1>5, <1>6, <1>7, SavedParts DEF SavedInv, Orderly

LEMMA NextSaved == SavedInv /\ [Next]_vars => SavedInv'
<1> SUFFICES ASSUME SavedInv, [Next]_vars PROVE SavedInv' OBVIOUS
<1>1. Typed /\ Landed /\ Holds /\ Distinct /\ DoneEntries /\ Sure
  BY SavedParts DEF SavedInv, Entries
<1>2. Entries' BY NextEntries DEF SavedInv
<1>3. Typed' /\ Step BY <1>1, NextStep
<1>4. Sure' /\ DoneEntries' BY <1>1, <1>3, NextSure, NextDone
<1>5. ASSUME ~overlapped' PROVE Owned' /\ Saved'
  <2>1. Owned /\ SavedAll /\ Unsaved /\ SetAside
    BY <1>5, OverlapStays, SavedParts DEF SavedInv, Orderly
  <2>2. Grows BY <1>1, <1>5, <2>1, NextGrows
  <2>3. Owned' BY <1>1, <1>3, <1>5, <2>1, OwnedStep
  <2>4. SetAside' BY <1>1, <1>3, <2>1, <2>2, SetAsideStep
  <2>5. SavedAll' /\ Unsaved' BY <1>1, <1>3, <1>5, <2>1, <2>2, SavedStep
  <2> QED BY <2>3, <2>4, <2>5, SavedPartsNext
<1> QED BY <1>2, <1>4, <1>5, SavedPartsNext DEF SavedInv, Orderly

\* Work that was reported as saved is in the queue, put aside or performed, for any
\* number of actors, presses and runs, unless two writes of an entry overlapped.
THEOREM WorkKept == Spec => []SavedWorkKept
<1>1. SavedInv => SavedWorkKept
  <2> SUFFICES ASSUME SavedInv, ~overlapped, NEW c \in Captures, capture[c].stage = "queued"
      PROVE Kept(capture[c].as)
    BY DEF SavedWorkKept
  <2>1. CaptureTyped BY Parts DEF SavedInv, Entries
  <2>2. Somewhere(capture[c].as) BY DEF SavedInv, Orderly, Saved
  <2>3. capture[c].as \in Captures BY <2>1 DEF CaptureTyped, CaptureRecord
  <2>4. PICK e \in Captures : e = capture[c].as BY <2>3
  <2>5. Kept(e)
    <3>1. CASE Committed(e) BY <3>1 DEF Kept
    <3>2. ASSUME NEW a \in Actors, queue[a][e] # Absent PROVE Kept(e)
      <4>1. queue[a][e].status = "synced" => Committed(e) BY DEF SavedInv, SyncedDone, Done
      <4> QED BY <3>2, <4>1 DEF Kept, Content, With
    <3>3. CASE \E a \in Actors : e \in archive[a] \/ e \in quarantine[a] BY <3>3 DEF Kept
    <3> QED BY <2>2, <2>4, <3>1, <3>2, <3>3 DEF Somewhere
  <2> QED BY <2>4, <2>5
<1> QED BY <1>1, InitSaved, NextSaved, PTL DEF Spec

-----------------------------------------------------------------------------
(* Deliveries, as long as no write overlaps and no run crowds another.     *)

\* RunDoubted after the step.
RunDoubtedNext(d) ==
  LET r == drain'[d].run IN
  /\ r.loop = "due" /\ r.pc \in {"due", "mark", "store", "ask"} => r.todo \cap doubt' = {}
  /\ r.pc \in {"unknown", "due"} => r.loop = r.pc
  /\ r.pc \in {"mark", "store"} => r.op \notin doubt' \/ (r.asked /\ r.mark = "synced")
  /\ r.pc \in {"mark", "store", "ask"} => r.op \notin r.todo

LEMMA RunDoubtedPrime == ASSUME NEW d \in Drains PROVE RunDoubted(d)' <=> RunDoubtedNext(d)
BY DEF RunDoubted, RunDoubtedNext, Run

AllDoubtedNext == \A d \in Drains : RunDoubtedNext(d)

LEMMA AsideDoubted ==
  ASSUME NEW d \in Drains, drain'[d].run.pc \in Aside PROVE RunDoubtedNext(d)
BY DEF RunDoubtedNext, Aside

\* The runs that do not move keep what they know.
LEMMA OthersDoubted ==
  ASSUME Alone, \A e \in Drains : RunDoubted(e), NEW d \in Drains,
         \A e \in Drains \ {d} : drain'[e] = drain[e],
         doubt' \subseteq doubt \/ drain[d].run.pc # "idle",
         RunDoubtedNext(d)
  PROVE AllDoubtedNext
<1>1. SUFFICES ASSUME NEW e \in Drains \ {d} PROVE RunDoubtedNext(e) BY DEF AllDoubtedNext
<1>2. CASE doubt' \subseteq doubt BY <1>2 DEF RunDoubted, RunDoubtedNext, Run
<1>3. CASE drain[d].run.pc # "idle"
  <2>1. drain'[e].run.pc = "idle" BY <1>3 DEF Alone, At, Run
  <2> QED BY <2>1 DEF RunDoubtedNext
<1> QED BY <1>2, <1>3

LEMMA GatherDoubted ==
  ASSUME Typed, Doubted, NEW d \in Drains, Gather(d) PROVE RunDoubtedNext(d)
<1>0. IdentityTyped BY Parts
<1>1. doubt' = doubt BY DEF Gather, history
<1>2. CASE drain'[d].run = Resting BY <1>2, RestingTyped DEF RunDoubtedNext
<1>3. CASE drain'[d].run.pc = "unknown" /\ drain'[d].run.loop = "unknown"
  BY <1>3 DEF RunDoubtedNext
<1>4. CASE /\ ~ReadFails /\ drain'[d].run.pc = "due" /\ drain'[d].run.loop = "due"
           /\ drain'[d].run.todo \subseteq With(queue[scope], "pending") \cup With(queue[scope], "retrying")
  <2>1. scope \in Actors BY <1>0, <1>4 DEF ReadFails, IdentityTyped
  <2>2. \A c \in doubt : queue[scope][c].status \in Waiting BY <2>1 DEF Doubted
  <2>3. drain'[d].run.todo \cap doubt = {} BY <1>4, <2>2 DEF With, Waiting
  <2> QED BY <1>1, <1>4, <2>3 DEF RunDoubtedNext
<1> QED BY <1>2, <1>3, <1>4, GatherRun

LEMMA ReconcileDoubted ==
  ASSUME Typed, Doubted, NEW d \in Drains, NEW c \in Captures, Reconcile(d, c)
  PROVE RunDoubtedNext(d) /\ doubt' \subseteq doubt
<1>0. DrainTyped BY Parts
<1>a. UNCHANGED <<capture, mounted>> /\ drain[d].run.pc \in {"unknown", "ask"}
  BY DEF Reconcile, identity, At, Run
<1>b. {"synced", "retrying"} \subseteq Marks BY DEF Marks
<1>c. RunDoubted(d) BY DEF Doubted
<1>d. drain[d].run.loop = "due" => drain[d].run.todo \cap doubt = {}
  BY <1>a, <1>c DEF RunDoubted, Run
<1>1. CASE Mark(d, c, "synced", TRUE) /\ doubt' = doubt
  <2>1. PICK asked \in BOOLEAN : asked = TRUE OBVIOUS
  <2>2. PICK mark \in Marks : mark = "synced" BY <1>b
  <2>3. Mark(d, c, mark, asked) BY <1>1, <2>1, <2>2
  <2>4. /\ drain'[d].run.pc = "mark" /\ drain'[d].run.op = c /\ drain'[d].run.mark = mark
        /\ drain'[d].run.loop = drain[d].run.loop
        /\ drain'[d].run.todo = drain[d].run.todo \ {c}
    BY <1>0, <1>a, <2>3, MarkStep
  <2>5. drain'[d].run.asked = asked BY <1>0, <1>a, <2>3, MarkStep
  <2>6. drain'[d].run.asked BY <2>1, <2>5
  <2> QED BY <1>1, <1>d, <2>2, <2>4, <2>6 DEF RunDoubtedNext
<1>2. CASE Mark(d, c, "retrying", TRUE) /\ doubt' = doubt \ {c}
  <2>1. /\ drain'[d].run.pc = "mark" /\ drain'[d].run.op = c
        /\ drain'[d].run.loop = drain[d].run.loop
        /\ drain'[d].run.todo = drain[d].run.todo \ {c}
    BY <1>0, <1>2, <1>a, <1>b, MarkStep
  <2> QED BY <1>2, <1>d, <2>1 DEF RunDoubtedNext
<1>3. CASE Become(d, [Run(d) EXCEPT !.pc = Run(d).loop, !.todo = @ \ {c}]) /\ doubt' = doubt
  <2>1. /\ drain'[d].run.pc = drain[d].run.loop /\ drain'[d].run.pc \in {"unknown", "due"}
        /\ drain'[d].run.loop = drain[d].run.loop
        /\ drain'[d].run.todo = drain[d].run.todo \ {c}
    BY <1>0, <1>3, <1>a, BackStep
  <2> QED BY <1>3, <1>d, <2>1 DEF RunDoubtedNext
<1> QED BY <1>1, <1>2, <1>3 DEF Reconcile

LEMMA ExecuteDoubted ==
  ASSUME Typed, Doubted, NEW d \in Drains, NEW c \in Captures, Execute(d, c)
  PROVE RunDoubtedNext(d) /\ doubt' = doubt
<1>0. DrainTyped BY Parts
<1>a. /\ UNCHANGED <<capture, mounted>> /\ drain[d].run.pc = "due" /\ c \in drain[d].run.todo
      /\ doubt' = doubt
  BY DEF Execute, identity, history, At, Run
<1>b. {"synced", "refused", "failed", "unknown"} \subseteq Marks BY DEF Marks
<1>c. drain[d].run.loop = "due" /\ drain[d].run.todo \cap doubt = {}
  BY <1>a DEF Doubted, RunDoubted, Run
<1>1. ASSUME NEW mark \in Marks, Mark(d, c, mark, FALSE) PROVE RunDoubtedNext(d)
  <2>1. /\ drain'[d].run.pc = "mark" /\ drain'[d].run.op = c
        /\ drain'[d].run.loop = drain[d].run.loop
        /\ drain'[d].run.todo = drain[d].run.todo \ {c}
    BY <1>0, <1>1, <1>a, MarkStep
  <2> QED BY <1>a, <1>c, <2>1 DEF RunDoubtedNext
<1> QED BY <1>a, <1>b, <1>1 DEF Execute

LEMMA ThrownDoubted ==
  ASSUME Typed, Doubted, NEW d \in Drains, drain[d].run.pc \in {"mark", "store"}, Thrown(d),
         UNCHANGED <<capture, mounted, doubt>>
  PROVE RunDoubtedNext(d)
<1>0. DrainTyped /\ RunsFitAll BY Parts
<1>1. RunDoubted(d) BY DEF Doubted
<1>2. drain[d].run.op \notin drain[d].run.todo
      /\ (drain[d].run.loop = "due" => drain[d].run.todo \cap doubt = {})
  BY <1>1 DEF RunDoubted, Run
<1>3. drain'[d].run.pc = "mark" => drain[d].run.asked = FALSE
  <2>1. CASE Run(d).asked
    <3>1. Go(d, Run(d).loop) BY <2>1 DEF Thrown
    <3>2. Run(d).loop \in {"unknown", "due"} BY <1>0, RunTyped DEF RunRecord
    <3>3. Run(d).loop \in Steps BY <3>2 DEF Steps
    <3>4. drain'[d].run.pc = Run(d).loop BY <1>0, <3>1, <3>3, GoMoves
    <3> QED BY <3>2, <3>4
  <2>2. CASE ~Run(d).asked
    <3>1. drain[d].run.asked \in BOOLEAN BY <1>0, RunTyped DEF RunRecord
    <3> QED BY <2>2, <3>1 DEF Run
  <2> QED BY <2>1, <2>2
<1>4. /\ drain'[d].run.pc \in {"unknown", "due", "mark", "idle"}
      /\ drain'[d].run.pc = "mark" =>
           /\ drain'[d].run.op = drain[d].run.op
           /\ drain'[d].run.loop = drain[d].run.loop /\ drain'[d].run.todo = drain[d].run.todo
      /\ drain'[d].run.pc \in {"unknown", "due"} =>
           /\ drain'[d].run.pc = drain[d].run.loop /\ drain'[d].run.loop = drain[d].run.loop
           /\ drain'[d].run.todo = drain[d].run.todo
  BY <1>0, ThrownStep
<1>5. CASE drain'[d].run.pc = "idle" BY <1>5 DEF RunDoubtedNext
<1>6. CASE drain'[d].run.pc \in {"unknown", "due"} BY <1>2, <1>4, <1>6 DEF RunDoubtedNext
<1>7. CASE drain'[d].run.pc = "mark"
  <2>1. drain[d].run.op \notin doubt BY <1>1, <1>3, <1>7 DEF RunDoubted, Run
  <2> QED BY <1>2, <1>4, <1>7, <2>1 DEF RunDoubtedNext
<1> QED BY <1>4, <1>5, <1>6, <1>7

LEMMA MarkReadDoubted ==
  ASSUME Typed, Doubted, NEW d \in Drains, MarkRead(d) PROVE RunDoubtedNext(d) /\ doubt' = doubt
<1>0. DrainTyped BY Parts
<1>1. drain[d].run.pc = "mark" /\ UNCHANGED <<capture, mounted, doubt>>
  BY DEF MarkRead, At, Run, identity, history
<1>2. CASE Thrown(d) BY <1>1, <1>2, ThrownDoubted
<1>3. CASE Go(d, "store")
  <2>1. "store" \in Steps BY DEF Steps
  <2>2. /\ drain'[d].run.pc = "store"
        /\ drain'[d].run.op = drain[d].run.op /\ drain'[d].run.mark = drain[d].run.mark
        /\ drain'[d].run.loop = drain[d].run.loop /\ drain'[d].run.todo = drain[d].run.todo
        /\ drain'[d].run.asked = drain[d].run.asked
    BY <1>0, <1>3, <2>1, GoMoves
  <2>3. RunDoubted(d) BY DEF Doubted
  <2> QED BY <1>1, <2>2, <2>3 DEF RunDoubted, RunDoubtedNext, Run
<1> QED BY <1>1, <1>2, <1>3 DEF MarkRead

LEMMA MarkWriteDoubted ==
  ASSUME Typed, Doubted, NEW d \in Drains, MarkWrite(d) PROVE RunDoubtedNext(d)
<1>0. DrainTyped /\ RunsFitAll BY Parts
<1>1. drain[d].run.pc = "store" /\ UNCHANGED <<capture, mounted>>
  BY DEF MarkWrite, At, Run, identity
<1>2. CASE Thrown(d) /\ UNCHANGED doubt BY <1>1, <1>2, ThrownDoubted
<1>3. CASE /\ Go(d, IF Run(d).mark = "unknown" THEN "ask" ELSE Run(d).loop)
           /\ doubt' = IF Run(d).mark = "unknown" /\ rmw[d].out[Run(d).op] # Absent
                       THEN doubt \cup {Run(d).op} ELSE doubt
  <2> DEFINE s == IF Run(d).mark = "unknown" THEN "ask" ELSE Run(d).loop
  <2>1. Run(d).loop \in {"unknown", "due"} BY <1>0, RunTyped DEF RunRecord
  <2>2. s \in Steps BY <2>1 DEF Steps
  <2>3. /\ drain'[d].run.pc = s /\ drain'[d].run.op = drain[d].run.op
        /\ drain'[d].run.loop = drain[d].run.loop /\ drain'[d].run.todo = drain[d].run.todo
    BY <1>0, <1>3, <2>2, GoMoves
  <2>4. /\ drain[d].run.loop = "due" => drain[d].run.todo \cap doubt = {}
        /\ drain[d].run.op \notin drain[d].run.todo
    BY <1>1 DEF Doubted, RunDoubted, Run
  <2>5. CASE Run(d).mark = "unknown"
    <3>1. doubt' \subseteq doubt \cup {drain[d].run.op} BY <1>3, <2>5 DEF Run
    <3>2. drain'[d].run.pc = "ask" BY <2>3, <2>5
    <3> QED BY <2>3, <2>4, <3>1, <3>2 DEF RunDoubtedNext
  <2>6. CASE Run(d).mark # "unknown"
    <3>1. doubt' = doubt BY <1>3, <2>6
    <3>2. drain'[d].run.pc = drain[d].run.loop BY <2>3, <2>6 DEF Run
    <3> QED BY <2>1, <2>3, <2>4, <3>1, <3>2 DEF RunDoubtedNext, Run
  <2> QED BY <2>5, <2>6
<1> QED BY <1>2, <1>3 DEF MarkWrite

\* A step of one run leaves the others.
LEMMA MovesOne ==
  ASSUME Typed, NEW d \in Drains,
         MarkRead(d) \/ MarkWrite(d) \/ \E c \in Captures : Reconcile(d, c) \/ Execute(d, c)
  PROVE \A e \in Drains \ {d} : drain'[e] = drain[e]
<1>0. DrainTyped BY Parts
<1>1. \E r : drain' = [drain EXCEPT ![d].run = r]
  <2>1. ASSUME NEW s, Go(d, s) PROVE \E r : drain' = [drain EXCEPT ![d].run = r]
    <3>1. drain' = [drain EXCEPT ![d].run = [drain[d].run EXCEPT !.pc = s]]
      BY <1>0, <2>1 DEF Go
    <3> QED BY <3>1
  <2>2. ASSUME NEW r, Become(d, r) PROVE drain' = [drain EXCEPT ![d].run = r]
    BY <2>2 DEF Become
  <2> QED BY <2>1, <2>2 DEF MarkRead, MarkWrite, Reconcile, Execute, Thrown, Abort, Mark
<1> QED BY <1>0, <1>1 DEF DrainTyped

\* Restarts and sign-ins apart, a step is of one run, and a run begins alone.
LEMMA NextRuns ==
  ASSUME Typed, Alone, Owned, Doubted, [Next]_vars, ~crowded'
  PROVE AllDoubtedNext /\ Alone'
<1>0. DrainTyped BY Parts
<1>a. \A e \in Drains : RunDoubted(e) BY DEF Doubted
<1>1. CASE UNCHANGED drain /\ UNCHANGED doubt
  BY <1>1, <1>a DEF AllDoubtedNext, RunDoubtedNext, RunDoubted, Run, Alone, At
<1>2. ASSUME NEW d \in Drains, \A e \in Drains \ {d} : drain'[e] = drain[e],
             drain[d].run.pc # "idle" \/ \A e \in Drains \ {d} : drain[e].run.pc = "idle"
      PROVE Alone'
  BY <1>2 DEF Alone, At, Run
<1>3. ASSUME NEW d \in Drains, DrainStep(d) PROVE AllDoubtedNext /\ Alone'
  <2>1. CASE AsideStep(d)
    <3>1. (\A e \in Drains \ {d} : drain'[e] = drain[e]) /\ drain'[d].run.pc \in Aside
      BY <2>1, AsideRun
    <3>2. doubt' = doubt
      BY <2>1 DEF AsideStep, Wake, Finished, PurgeRead, PurgeWrite, EvacuateRead, QuarantineRead,
         QuarantineWrite, EvacuateWrite, RecoverRead, RecoverWrite, history
    <3>3. drain[d].run.pc # "idle" \/ \A e \in Drains \ {d} : drain[e].run.pc = "idle"
      <4>1. CASE Wake(d) BY <4>1 DEF Wake, Begin, Crowd, At, Run
      <4>2. ~RecoverRead(d)
        <5>1. SUFFICES ASSUME RecoverRead(d) PROVE FALSE OBVIOUS
        <5>2. drain[d].actor \in Actors BY <5>1, Parts DEF RecoverRead, RunsFitAll, MountFit
        <5> QED BY <5>1, <5>2 DEF RecoverRead, Foreign, Owned, Content
      <4>3. CASE ~Wake(d)
        BY <2>1, <4>2, <4>3 DEF AsideStep, Finished, PurgeRead, PurgeWrite, EvacuateRead,
           QuarantineRead, QuarantineWrite, EvacuateWrite, RecoverWrite, At, Run
      <4> QED BY <4>1, <4>3
    <3> QED BY <3>1, <3>2, <3>3, <1>a, <1>2, AsideDoubted, OthersDoubted
  <2>2. ASSUME ~AsideStep(d) PROVE drain[d].run.pc # "idle"
    BY <1>3, <2>2 DEF DrainStep, AsideStep, Gather, MarkRead, MarkWrite, Reconcile, Execute, At, Run
  <2>3. CASE ~AsideStep(d)
    <3>1. \A e \in Drains \ {d} : drain'[e] = drain[e]
      BY <1>0, <1>3, <2>3, GatherRun, MovesOne DEF DrainStep, AsideStep
    <3>2. RunDoubtedNext(d)
      BY <1>3, <2>3, GatherDoubted, ReconcileDoubted, ExecuteDoubted, MarkReadDoubted,
         MarkWriteDoubted DEF DrainStep, AsideStep
    <3> QED BY <1>2, <1>a, <2>2, <2>3, <3>1, <3>2, OthersDoubted
  <2> QED BY <2>1, <2>3
<1>4. ASSUME NEW a \in Actors, NEW d \in Drains, Login(a, d) PROVE AllDoubtedNext /\ Alone'
  <2>1. drain' = [drain EXCEPT ![d] = [actor |-> a, run |-> [Resting EXCEPT !.pc = "start"]]]
    BY <1>4 DEF Login
  <2>2. [Resting EXCEPT !.pc = "start"].pc = "start" BY DEF Resting
  <2>3. drain'[d].run.pc = "start" /\ \A x \in Drains \ {d} : drain'[x] = drain[x]
    BY <1>0, <2>1, <2>2 DEF DrainTyped
  <2>4. \A e \in Drains \ {d} : drain[e].run.pc = "idle" BY <1>4 DEF Login, Crowd, At, Run
  <2>5. doubt' = doubt BY <1>4 DEF Login
  <2>6. RunDoubtedNext(d) BY <2>3, AsideDoubted DEF Aside
  <2> QED BY <1>2, <1>a, <2>3, <2>4, <2>5, <2>6, OthersDoubted
<1>5. CASE Restart
  <2>1. \A d \in Drains : drain'[d].run.pc = "idle" BY <1>5, RestingTyped DEF Restart
  <2> QED BY <2>1 DEF AllDoubtedNext, RunDoubtedNext, Alone, At, Run
<1>6. \/ UNCHANGED drain /\ UNCHANGED doubt
      \/ (\E d \in Drains : DrainStep(d)) \/ Restart
      \/ \E a \in Actors, d \in Drains : Login(a, d)
  BY DEF Next, vars, EnqueueRead, EnqueueWrite, Age, Press, Arrive, EndSession, Unmount, history
<1> QED BY <1>1, <1>3, <1>4, <1>5, <1>6

\* Operations in doubt keep waiting, whatever is written.
LEMMA WaitingStep ==
  ASSUME Typed, Holds, Doubted, Step, ~overlapped', NEW c \in doubt
  PROVE /\ \A a \in Actors : queue'[a][c].status \in Waiting
        /\ capture'[c].stage \notin Unwritten
<1>0. DrainTyped /\ CaptureTyped /\ HoldTyped /\ QueueTyped /\ RunsFitAll /\ BooksTyped BY Parts
<1>c. c \in Captures /\ capture[c].stage \notin Unwritten
  BY <1>0 DEF BooksTyped, Doubted, Unwritten
<1>q. \A a \in Actors : queue[a][c].status \in Waiting BY DEF Doubted
<1>1. CASE Settle BY <1>1, <1>c, <1>q DEF Settle, On, CaptureOn
<1>2. ASSUME NEW p \in Processes, NEW a \in Actors, Stores(p, a)
      PROVE /\ \A b \in Actors : queue'[b][c].status \in Waiting
            /\ capture'[c].stage \notin Unwritten
  <2>1. queue'[a] = rmw[p].out /\ \A b \in Actors \ {a} : queue'[b] = queue[b]
    BY <1>0, <1>2, StoredOn
  <2>2. capture'[c].stage \notin Unwritten BY <1>2, <1>c DEF Stores, On, CaptureOn
  <2>3. rmw[p].base = queue[a] /\ rmw[p].base \in Entry
    BY <1>0, <1>2 DEF Stores, HoldTyped, HoldRecord
  <2>4. rmw[p].base[c].status \in Waiting BY <2>3, <1>q
  <2>5. rmw[p].out[c].status \in Waiting
    <3>1. CASE p \in Captures
      <4>1. CaptureHolds(p) /\ capture[p].stage = "writing" BY <1>2, <3>1 DEF Holds, Stores
      <4>2. c # p BY <4>1, <1>c DEF Unwritten
      <4> QED BY <1>c, <2>4, <4>1, <4>2 DEF CaptureHolds
    <3>2. CASE p \in Drains
      <4>1. DrainHolds(p) /\ RunDoubted(p) BY <3>2 DEF Holds, Doubted
      <4>2. CASE drain[p].run.pc = "store" /\ c # drain[p].run.op
        BY <1>c, <2>4, <4>1, <4>2 DEF DrainHolds, Run
      <4>3. CASE drain[p].run.pc = "store" /\ c = drain[p].run.op
        <5>1. drain[p].run.mark = "synced" BY <4>1, <4>3 DEF RunDoubted, Run
        <5>2. \/ rmw[p].out[c] = Absent
              \/ rmw[p].out[c] = Marked(rmw[p].base[c], "synced")
          BY <4>1, <4>3, <5>1 DEF DrainHolds, Run
        <5>3. Marked(rmw[p].base[c], "synced").status = "synced"
          <6>1. rmw[p].base[c] \in Operation /\ "synced" \in Marks
            BY <1>c, <2>3 DEF Entry, Marks
          <6> QED BY <6>1, MarkedTyped
        <5> QED BY <5>2, <5>3 DEF Waiting, Absent
      <4>4. CASE drain[p].run.pc = "drop"
        <5>1. rmw[p].out = Without(rmw[p].base, "synced") BY <4>1, <4>4 DEF DrainHolds, Run
        <5>2. rmw[p].out[c] \in {rmw[p].base[c], Absent} BY <1>c, <2>3, <5>1, WithoutTyped
        <5> QED BY <2>4, <5>2 DEF Waiting, Absent
      <4>5. CASE drain[p].run.pc = "remove"
        <5>1. rmw[p].out = Without(rmw[p].base, "failed_permanent")
          BY <4>1, <4>5 DEF DrainHolds, Run
        <5>2. rmw[p].out[c] \in {rmw[p].base[c], Absent} BY <1>c, <2>3, <5>1, WithoutTyped
        <5> QED BY <2>4, <5>2 DEF Waiting, Absent
      <4>6. CASE drain[p].run.pc = "recover"
        <5>1. rmw[p].out = Empty BY <4>1, <4>6 DEF DrainHolds, Run
        <5> QED BY <1>c, <5>1, EntryTyped DEF Waiting, Absent
      <4> QED BY <1>2, <3>2, <4>2, <4>3, <4>4, <4>5, <4>6 DEF Stores
    <3> QED BY <3>1, <3>2 DEF Processes
  <2> QED BY <1>q, <2>1, <2>2, <2>5
<1>3. ASSUME NEW d \in Drains, NEW a \in Actors, NEW out \in Entry, Fetches(d, a, out)
      PROVE /\ \A b \in Actors : queue'[b][c].status \in Waiting
            /\ capture'[c].stage \notin Unwritten
  BY <1>3, <1>c, <1>q DEF Fetches
<1>4. ASSUME NEW e \in Captures, NEW a \in Actors, Drafts(e, a)
      PROVE /\ \A b \in Actors : queue'[b][c].status \in Waiting
            /\ capture'[c].stage \notin Unwritten
  <2>1. e # c BY <1>4, <1>c DEF Drafts, Unwritten
  <2>2. capture'[c] = capture[c] BY <1>0, <1>4, <1>c, <2>1 DEF Drafts, CaptureTyped
  <2> QED BY <1>4, <1>c, <1>q, <2>2 DEF Drafts
<1> QED BY <1>1, <1>2, <1>3, <1>4 DEF Step

\* Only a mark of an unknown result adds to the doubts.
LEMMA NextDoubt ==
  ASSUME [Next]_vars
  PROVE \/ doubt' \subseteq doubt
        \/ \E d \in Drains :
             /\ drain[d].run.pc = "store" /\ Write(d) /\ UNCHANGED capture
             /\ drain[d].run.mark = "unknown" /\ rmw[d].out[drain[d].run.op] # Absent
             /\ doubt' = doubt \cup {drain[d].run.op}
<1>1. CASE UNCHANGED vars BY <1>1 DEF vars, history
<1>2. ASSUME NEW d \in Drains, MarkWrite(d)
      PROVE \/ doubt' \subseteq doubt
            \/ /\ drain[d].run.pc = "store" /\ Write(d) /\ UNCHANGED capture
               /\ drain[d].run.mark = "unknown" /\ rmw[d].out[drain[d].run.op] # Absent
               /\ doubt' = doubt \cup {drain[d].run.op}
  BY <1>2 DEF MarkWrite, At, Run
<1>3. ASSUME NEW d \in Drains, NEW c \in Captures, Reconcile(d, c) PROVE doubt' \subseteq doubt
  BY <1>3 DEF Reconcile
<1>4. ASSUME NEW d \in Drains, AsideStep(d) \/ Gather(d) \/ MarkRead(d) \/ \E c \in Captures : Execute(d, c)
      PROVE doubt' = doubt
  BY <1>4 DEF AsideStep, Wake, Gather, Finished, MarkRead, PurgeRead, PurgeWrite, EvacuateRead,
     QuarantineRead, QuarantineWrite, EvacuateWrite, RecoverRead, RecoverWrite, Execute, history
<1>5. CASE \/ \E c \in Captures : EnqueueRead(c) \/ EnqueueWrite(c) \/ Age(c)
           \/ \E c \in Captures, i \in Intents : Press(c, i)
           \/ \E a \in Actors, c \in Captures : Arrive(a, c)
           \/ \E a \in Actors, d \in Drains : Login(a, d)
           \/ \E detach \in BOOLEAN : EndSession(detach)
           \/ Unmount \/ Restart
  BY <1>5 DEF EnqueueRead, EnqueueWrite, Age, Press, Arrive, Login, EndSession, Unmount, Restart,
     history
<1> QED BY <1>1, <1>2, <1>3, <1>4, <1>5 DEF Next, DrainStep, AsideStep

LEMMA CrowdStays == [Next]_vars /\ ~crowded' => ~crowded
<1> SUFFICES ASSUME [Next]_vars, crowded PROVE crowded' OBVIOUS
<1>1. CASE UNCHANGED vars BY <1>1 DEF vars, history
<1>2. ASSUME NEW d \in Drains, DrainStep(d) PROVE crowded'
  BY <1>2 DEF DrainStep, Wake, Gather, Finished, MarkRead, MarkWrite, PurgeRead, PurgeWrite,
     EvacuateRead, QuarantineRead, QuarantineWrite, EvacuateWrite, RecoverRead, RecoverWrite,
     Reconcile, Execute, history, Begin, Crowd
<1>3. CASE \/ \E c \in Captures : EnqueueRead(c) \/ EnqueueWrite(c) \/ Age(c)
           \/ \E c \in Captures, i \in Intents : Press(c, i)
           \/ \E a \in Actors, c \in Captures : Arrive(a, c)
           \/ \E a \in Actors, d \in Drains : Login(a, d)
           \/ \E detach \in BOOLEAN : EndSession(detach)
           \/ Unmount \/ Restart
  BY <1>3 DEF EnqueueRead, EnqueueWrite, Age, Press, Arrive, Login, EndSession, Unmount, Restart,
     history, Crowd
<1> QED BY <1>1, <1>2, <1>3 DEF Next

\* The inductive invariant of deliveries.
BlindInv == SavedInv /\ Blind

LEMMA InitBlind == Init => BlindInv
<1> SUFFICES ASSUME Init PROVE BlindInv OBVIOUS
<1>1. \A d \in Drains : drain[d].run.pc = "idle" BY RestingTyped DEF Init
<1>2. doubt = {} BY DEF Init
<1>3. \A d \in Drains : RunDoubted(d) BY <1>1 DEF RunDoubted, Run
<1> QED BY <1>1, <1>2, <1>3, InitSaved DEF BlindInv, Blind, Alone, Doubted, At, Run

LEMMA NextBlind == BlindInv /\ [Next]_vars => BlindInv'
<1> SUFFICES ASSUME BlindInv, [Next]_vars PROVE BlindInv' OBVIOUS
<1>1. SavedInv' BY NextSaved DEF BlindInv
<1>2. ASSUME ~overlapped', ~crowded' PROVE Alone' /\ Doubted'
  <2>1. /\ Typed /\ Landed /\ Holds /\ Owned /\ Alone /\ Doubted
        /\ Typed' /\ Step
    <3>1. ~overlapped /\ ~crowded BY <1>2, OverlapStays, CrowdStays
    <3>2. Typed /\ Landed /\ Holds BY DEF BlindInv, SavedInv, Entries
    <3>3. Owned /\ Alone /\ Doubted BY <3>1 DEF BlindInv, SavedInv, Orderly, Blind
    <3> QED BY <3>2, <3>3, NextStep
  <2>2. AllDoubtedNext /\ Alone' BY <1>2, <2>1, NextRuns
  <2>3. ASSUME NEW c \in doubt'
        PROVE (\A a \in Actors : queue'[a][c].status \in Waiting) /\ capture'[c].stage \notin Unwritten
    <3>1. CASE c \in doubt BY <1>2, <2>1, <3>1, WaitingStep
    <3>2. ASSUME NEW d \in Drains, drain[d].run.pc = "store", Write(d), UNCHANGED capture,
                 drain[d].run.mark = "unknown", rmw[d].out[drain[d].run.op] # Absent,
                 c = drain[d].run.op
          PROVE (\A a \in Actors : queue'[a][c].status \in Waiting)
                /\ capture'[c].stage \notin Unwritten
      <4>0. DrainTyped /\ HoldTyped /\ QueueTyped /\ IdentityTyped /\ BooksTyped /\ RunsFitAll
        BY <2>1, Parts
      <4>1. c \in Captures BY <4>0, <3>2 DEF RunsFitAll, RunFit, Run
      <4>2. /\ scope \in Actors /\ queue' = [queue EXCEPT ![scope] = rmw[d].out]
            /\ queue[scope] = rmw[d].base
        BY <4>0, <1>2, <3>2, Names, WriteStep
      <4>3. DrainHolds(d) BY <2>1 DEF Holds
      <4>4. rmw[d].base[c] # Absent /\ rmw[d].out[c] = Marked(rmw[d].base[c], "unknown")
        BY <3>2, <4>3 DEF DrainHolds, Run
      <4>5. queue[scope][c] # Absent BY <4>2, <4>4
      <4>6. rmw[d].out[c].status = "unknown"
        <5>1. rmw[d].base[c] \in Operation /\ "unknown" \in Marks
          BY <4>0, <4>1, Names DEF HoldTyped, HoldRecord, Entry, Marks
        <5> QED BY <4>4, <5>1, MarkedTyped
      <4>7. \A a \in Actors \ {scope} : queue[a][c] = Absent
        BY <2>1, <4>1, <4>2, <4>5 DEF Owned
      <4>8. \A a \in Actors : queue'[a][c].status \in Waiting
        <5>1. queue'[scope] = rmw[d].out /\ \A a \in Actors \ {scope} : queue'[a] = queue[a]
          BY <4>0, <4>2 DEF QueueTyped
        <5> QED BY <4>6, <4>7, <5>1 DEF Waiting, Absent
      <4>9. capture[c].stage \notin Unwritten BY <2>1, <4>1, <4>2, <4>5 DEF Landed, Unwritten
      <4> QED BY <3>2, <4>8, <4>9
    <3> QED BY <3>1, <3>2, NextDoubt
  <2>4. \A d \in Drains : RunDoubted(d)' BY <2>2, RunDoubtedPrime DEF AllDoubtedNext
  <2>5. Doubted' BY <2>3, <2>4 DEF Doubted, Unwritten
  <2> QED BY <2>2, <2>5
<1> QED BY <1>1, <1>2 DEF BlindInv, Blind

\* An operation whose last result is unknown is not sent again before its receipt was
\* looked up, unless two runs or two writes shared the queue.
THEOREM ReconciledFirst == Spec => NotDeliveredBlindly
<1>1. BlindInv /\ [Next]_vars =>
        \A d \in Drains, c \in Captures : Sends(d, c) => c \notin doubt \/ overlapped \/ crowded
  <2> SUFFICES ASSUME BlindInv, [Next]_vars, NEW d \in Drains, NEW c \in Captures, Sends(d, c),
                      ~overlapped, ~crowded
      PROVE c \notin doubt
    OBVIOUS
  <2>1. Typed /\ Doubted BY DEF BlindInv, SavedInv, Entries, Blind
  <2>2. DrainTyped BY <2>1, Parts
  <2>3. drain[d].run.pc = "due" /\ drain'[d].run.pc = "mark" /\ drain'[d].run.op = c
    BY DEF Sends, At, Run
  <2>4. drain[d].run.todo \cap doubt = {} BY <2>1, <2>3 DEF Doubted, RunDoubted, Run
  <2>5. PICK e \in Drains : DrainStep(e) /\ drain'[d] # drain[d]
    <3>1. drain'[d] # drain[d] BY <2>3
    <3>2. ASSUME NEW a \in Actors, NEW e \in Drains, Login(a, e) PROVE FALSE
      <4>1. drain' = [drain EXCEPT ![e] = [actor |-> a, run |-> [Resting EXCEPT !.pc = "start"]]]
        BY <3>2 DEF Login
      <4>2. [Resting EXCEPT !.pc = "start"].pc = "start" BY DEF Resting
      <4>3. drain'[e].run.pc = "start" /\ \A x \in Drains \ {e} : drain'[x] = drain[x]
        BY <2>2, <4>1, <4>2 DEF DrainTyped
      <4> QED BY <2>3, <4>3
    <3>3. ~Restart BY <2>3, RestingTyped DEF Restart
    <3>4. \/ UNCHANGED drain \/ (\E e \in Drains : DrainStep(e)) \/ Restart
          \/ \E a \in Actors, e \in Drains : Login(a, e)
      BY DEF Next, vars, EnqueueRead, EnqueueWrite, Age, Press, Arrive, EndSession, Unmount
    <3> QED BY <3>1, <3>2, <3>3, <3>4
  <2>6. e = d
    BY <2>1, <2>5, AsideRun, GatherRun, MovesOne DEF DrainStep, AsideStep
  <2>7. ~AsideStep(d) BY <2>1, <2>3, AsideRun DEF Aside
  <2>8. ~Gather(d) BY <2>3 DEF Gather, At, Run
  <2>9. PICK x \in Captures : Execute(d, x)
    BY <2>3, <2>5, <2>6, <2>7, <2>8 DEF DrainStep, AsideStep, MarkRead, MarkWrite, Reconcile, At, Run
  <2>10. x = c
    <3>1. UNCHANGED <<capture, mounted>> BY <2>9 DEF Execute, identity
    <3>2. PICK mark \in Marks : Mark(d, x, mark, FALSE)
      <4>1. {"synced", "refused", "failed", "unknown"} \subseteq Marks BY DEF Marks
      <4> QED BY <2>9, <4>1 DEF Execute
    <3>3. drain'[d].run.op = x BY <2>2, <3>1, <3>2, MarkStep
    <3> QED BY <2>3, <3>3
  <2>11. x \in drain[d].run.todo BY <2>9 DEF Execute, Run
  <2> QED BY <2>4, <2>10, <2>11
<1> QED BY <1>1, InitBlind, NextBlind, PTL DEF Spec, NotDeliveredBlindly

-----------------------------------------------------------------------------
(* Whose work a queue calls synced: requests carry the token of whoever is *)
(* signed in, and a run that is alone works for the agent it was begun for.*)

\* The token of a session is that of the agent whose hook is on screen.
Shown == session # None => mounted \in Drains /\ drain[mounted].actor = session

\* A run under way meets nobody else's session and nobody else's entry.
Steady ==
  \A d \in Drains : drain[d].run.pc # "idle" =>
    session \in {None, drain[d].actor} /\ scope \in {None, drain[d].actor}

\* What a run is about to call synced was performed for its agent.
Sworn ==
  \A d \in Drains : drain[d].run.pc \in {"mark", "store"} /\ drain[d].run.mark = "synced" =>
    <<drain[d].actor, drain[d].run.op>> \in receipts

Own(a, q) == \A c \in Captures : q[c].status = "synced" => <<a, c>> \in receipts

OwnEntries ==
  /\ \A a \in Actors : Own(a, queue[a])
  /\ \A p \in Processes : rmw[p].from # None =>
       Own(rmw[p].from, rmw[p].base) /\ Own(rmw[p].from, rmw[p].out)

Agents == ~overlapped /\ ~crowded => Steady /\ Sworn /\ OwnEntries

LEMMA RunMoves ==
  ASSUME Typed, NEW d \in Drains, DrainStep(d)
  PROVE /\ \A e \in Drains \ {d} : drain'[e] = drain[e]
        /\ drain'[d].actor = drain[d].actor
<1>0. DrainTyped BY Parts
<1>1. \E r : drain' = [drain EXCEPT ![d].run = r]
  <2>1. ASSUME NEW s, Go(d, s) PROVE \E r : drain' = [drain EXCEPT ![d].run = r]
    <3>1. drain' = [drain EXCEPT ![d].run = [drain[d].run EXCEPT !.pc = s]]
      BY <1>0, <2>1 DEF Go
    <3> QED BY <3>1
  <2>2. ASSUME NEW r, Become(d, r) PROVE drain' = [drain EXCEPT ![d].run = r]
    BY <2>2 DEF Become
  <2>3. CASE MarkRead(d) \/ MarkWrite(d) \/ \E c \in Captures : Reconcile(d, c) \/ Execute(d, c)
    BY <2>1, <2>2, <2>3 DEF MarkRead, MarkWrite, Reconcile, Execute, Thrown, Abort, Mark
  <2>4. CASE Gather(d) BY <2>2, <2>4 DEF Gather, Abort
  <2>5. CASE AsideStep(d)
    BY <2>1, <2>2, <2>5 DEF AsideStep, Wake, Begin, Finished, PurgeRead, PurgeWrite, EvacuateRead,
       QuarantineRead, QuarantineWrite, EvacuateWrite, RecoverRead, RecoverWrite, Abort
  <2> QED BY <2>3, <2>4, <2>5 DEF DrainStep, AsideStep
<1> QED BY <1>0, <1>1 DEF DrainTyped, DrainRecord

\* A step of a run keeps the session; one that moves the scope is a beginning.
LEMMA RunIdentity ==
  ASSUME Typed, Owned, NEW d \in Drains, DrainStep(d)
  PROVE /\ UNCHANGED <<session, mounted>>
        /\ \/ scope' = scope /\ drain[d].run.pc # "idle"
           \/ Wake(d)
<1>0. DrainTyped BY Parts
<1>1. ~RecoverRead(d)
  <2>1. SUFFICES ASSUME RecoverRead(d) PROVE FALSE OBVIOUS
  <2>2. drain[d].actor \in Actors BY <2>1, Parts DEF RecoverRead, RunsFitAll, MountFit
  <2> QED BY <2>1, <2>2 DEF RecoverRead, Foreign, Owned, Content
<1>2. ~RecoverWrite(d) BY DEF RecoverWrite, Owned, At
<1>3. CASE Wake(d) BY <1>3 DEF Wake
<1>4. CASE \E c \in Captures : Reconcile(d, c) \/ Execute(d, c)
  BY <1>4 DEF Reconcile, Execute, identity, At, Run
<1>5. CASE Gather(d) \/ Finished(d) \/ MarkRead(d) \/ MarkWrite(d)
  BY <1>5 DEF Gather, Finished, MarkRead, MarkWrite, identity, At, Run
<1>6. CASE \/ PurgeRead(d) \/ PurgeWrite(d) \/ EvacuateRead(d) \/ QuarantineRead(d)
           \/ QuarantineWrite(d) \/ EvacuateWrite(d)
  BY <1>6 DEF PurgeRead, PurgeWrite, EvacuateRead, QuarantineRead, QuarantineWrite,
     EvacuateWrite, identity, At, Run
<1> QED BY <1>1, <1>2, <1>3, <1>4, <1>5, <1>6 DEF DrainStep

LEMMA NextShown == ASSUME Typed, Shown, [Next]_vars PROVE Shown'
<1>0. DrainTyped BY Parts
<1>1. CASE UNCHANGED <<session, mounted, drain>> BY <1>1 DEF Shown
<1>2. ASSUME NEW d \in Drains, DrainStep(d) PROVE Shown'
  <2>1. UNCHANGED <<session, mounted>>
    BY <1>2 DEF DrainStep, Wake, Gather, Finished, MarkRead, MarkWrite, PurgeRead, PurgeWrite,
       EvacuateRead, QuarantineRead, QuarantineWrite, EvacuateWrite, RecoverRead, RecoverWrite,
       Reconcile, Execute, identity
  <2>2. \A e \in Drains : drain'[e].actor = drain[e].actor BY <1>2, RunMoves
  <2> QED BY <2>1, <2>2 DEF Shown
<1>3. ASSUME NEW a \in Actors, NEW d \in Drains, Login(a, d) PROVE Shown'
  BY <1>0, <1>3 DEF Login, Shown, DrainTyped
<1>4. CASE \E detach \in BOOLEAN : EndSession(detach) BY <1>4 DEF EndSession, Shown
<1>5. CASE Unmount BY <1>5 DEF Unmount, Shown
<1>6. CASE Restart BY <1>6 DEF Restart, Shown
<1>7. \/ UNCHANGED <<session, mounted, drain>> \/ (\E d \in Drains : DrainStep(d))
      \/ (\E a \in Actors, d \in Drains : Login(a, d))
      \/ (\E detach \in BOOLEAN : EndSession(detach)) \/ Unmount \/ Restart
  BY DEF Next, vars, EnqueueRead, EnqueueWrite, Age, Press, Arrive, identity
<1> QED BY <1>1, <1>2, <1>3, <1>4, <1>5, <1>6, <1>7

LEMMA NextSteady ==
  ASSUME Typed, Owned, Alone, Shown, Steady, [Next]_vars, ~crowded' PROVE Steady'
<1>0. DrainTyped BY Parts
<1>1. CASE UNCHANGED <<session, scope, drain>> BY <1>1 DEF Steady
<1>2. ASSUME NEW d \in Drains, DrainStep(d) PROVE Steady'
  <2>1. /\ \A e \in Drains \ {d} : drain'[e] = drain[e]
        /\ drain'[d].actor = drain[d].actor
        /\ UNCHANGED <<session, mounted>>
    BY <1>2, RunMoves, RunIdentity
  <2>2. CASE scope' = scope /\ drain[d].run.pc # "idle" BY <2>1, <2>2 DEF Steady
  <2>3. CASE Wake(d)
    <3>1. scope' = drain[d].actor /\ mounted = d BY <2>3 DEF Wake, Begin
    <3>2. session \in {None, drain[d].actor} BY <3>1 DEF Shown
    <3>3. \A e \in Drains \ {d} : drain[e].run.pc = "idle"
      BY <2>3 DEF Wake, Begin, Crowd, At, Run
    <3> QED BY <2>1, <3>1, <3>2, <3>3 DEF Steady
  <2> QED BY <1>2, <2>2, <2>3, RunIdentity
<1>3. ASSUME NEW a \in Actors, NEW d \in Drains, Login(a, d) PROVE Steady'
  <2>1. /\ drain'[d].actor = a /\ session' = a /\ scope' = a
        /\ \A e \in Drains \ {d} : drain'[e] = drain[e]
    BY <1>0, <1>3 DEF Login, DrainTyped
  <2>2. \A e \in Drains \ {d} : drain[e].run.pc = "idle" BY <1>3 DEF Login, Crowd, At, Run
  <2> QED BY <2>1, <2>2 DEF Steady
<1>4. CASE \E detach \in BOOLEAN : EndSession(detach) BY <1>4 DEF EndSession, Steady
<1>5. CASE Restart
  <2>1. \A d \in Drains : drain'[d].run.pc = "idle" BY <1>5, RestingTyped DEF Restart
  <2> QED BY <2>1 DEF Steady
<1>6. \/ UNCHANGED <<session, scope, drain>> \/ (\E d \in Drains : DrainStep(d))
      \/ (\E a \in Actors, d \in Drains : Login(a, d))
      \/ (\E detach \in BOOLEAN : EndSession(detach)) \/ Restart
  BY DEF Next, vars, EnqueueRead, EnqueueWrite, Age, Press, Arrive, Unmount, identity
<1> QED BY <1>1, <1>2, <1>3, <1>4, <1>5, <1>6

\* Where a mark of success comes from: it was there, or the service performed or
\* knew the operation for the session that asked.
Swears(d) ==
  drain'[d].run.pc \in {"mark", "store"} /\ drain'[d].run.mark = "synced" =>
    \/ /\ drain[d].run.pc \in {"mark", "store"} /\ drain[d].run.mark = "synced"
       /\ drain'[d].run.op = drain[d].run.op
    \/ /\ drain[d].run.pc # "idle" /\ session # None
       /\ <<session, drain'[d].run.op>> \in receipts'

LEMMA ReconcileSwears ==
  ASSUME Typed, NEW d \in Drains, NEW c \in Captures, Reconcile(d, c) PROVE Swears(d)
<1>0. DrainTyped BY Parts
<1>a. UNCHANGED <<capture, mounted, receipts>> /\ drain[d].run.pc # "idle"
  BY DEF Reconcile, identity, server, At, Run
<1>b. {"synced", "retrying"} \subseteq Marks BY DEF Marks
<1>1. CASE session # None /\ Receipt(session, c) /\ Mark(d, c, "synced", TRUE)
  <2>1. drain'[d].run.op = c BY <1>0, <1>1, <1>a, <1>b, MarkStep
  <2> QED BY <1>1, <1>a, <2>1 DEF Swears, Receipt
<1>2. CASE Mark(d, c, "retrying", TRUE)
  <2>1. drain'[d].run.mark = "retrying" BY <1>0, <1>2, <1>a, <1>b, MarkStep
  <2> QED BY <2>1 DEF Swears
<1>3. CASE Become(d, [Run(d) EXCEPT !.pc = Run(d).loop, !.todo = @ \ {c}])
  <2>1. drain'[d].run.pc \in {"unknown", "due"} BY <1>0, <1>3, <1>a, BackStep
  <2> QED BY <2>1 DEF Swears
<1> QED BY <1>1, <1>2, <1>3 DEF Reconcile

LEMMA ExecuteSwears ==
  ASSUME Typed, NEW d \in Drains, NEW c \in Captures, Execute(d, c) PROVE Swears(d)
<1>0. DrainTyped BY Parts
<1>a. UNCHANGED <<capture, mounted>> /\ drain[d].run.pc # "idle"
  BY DEF Execute, identity, At, Run
<1>b. {"synced", "refused", "failed", "unknown"} \subseteq Marks BY DEF Marks
<1>1. CASE Accepted(c) /\ Mark(d, c, "synced", FALSE)
  <2>1. drain'[d].run.op = c BY <1>0, <1>1, <1>a, <1>b, MarkStep
  <2> QED BY <1>1, <1>a, <2>1 DEF Swears, Accepted, Perform
<1>2. ASSUME NEW mark \in {"refused", "failed", "unknown"}, Mark(d, c, mark, FALSE)
      PROVE Swears(d)
  <2>1. mark \in Marks /\ FALSE \in BOOLEAN BY <1>2, <1>b
  <2>2. drain'[d].run.mark = mark BY <1>0, <1>2, <1>a, <2>1, MarkStep
  <2> QED BY <1>2, <2>2 DEF Swears
<1> QED BY <1>1, <1>2 DEF Execute

LEMMA ThrownSwears ==
  ASSUME Typed, NEW d \in Drains, drain[d].run.pc \in {"mark", "store"}, Thrown(d),
         UNCHANGED <<capture, mounted>>
  PROVE Swears(d)
<1>0. DrainTyped /\ RunsFitAll BY Parts
<1>1. /\ drain'[d].run.pc \in {"unknown", "due", "mark", "idle"}
      /\ drain'[d].run.pc = "mark" => drain'[d].run.mark = "failed"
  BY <1>0, ThrownStep
<1> QED BY <1>1 DEF Swears

LEMMA RunSwears == ASSUME Typed, NEW d \in Drains, DrainStep(d) PROVE Swears(d)
<1>0. DrainTyped BY Parts
<1>1. CASE AsideStep(d)
  <2>1. drain'[d].run.pc \in Aside BY <1>1, AsideRun
  <2> QED BY <2>1 DEF Swears, Aside
<1>2. CASE Gather(d)
  <2>1. drain'[d].run.pc \notin {"mark", "store"} BY <1>2, GatherRun, RestingTyped
  <2> QED BY <2>1 DEF Swears
<1>3. CASE \E c \in Captures : Reconcile(d, c) BY <1>3, ReconcileSwears
<1>4. CASE \E c \in Captures : Execute(d, c) BY <1>4, ExecuteSwears
<1>5. CASE MarkRead(d)
  <2>1. drain[d].run.pc = "mark" /\ UNCHANGED <<capture, mounted>>
    BY <1>5 DEF MarkRead, At, Run, identity
  <2>2. CASE Thrown(d) BY <2>1, <2>2, ThrownSwears
  <2>3. CASE Go(d, "store")
    <3>1. "store" \in Steps BY DEF Steps
    <3>2. drain'[d].run.op = drain[d].run.op /\ drain'[d].run.mark = drain[d].run.mark
      BY <1>0, <2>3, <3>1, GoMoves
    <3> QED BY <2>1, <3>2 DEF Swears
  <2> QED BY <1>5, <2>2, <2>3 DEF MarkRead
<1>6. CASE MarkWrite(d)
  <2>1. drain[d].run.pc = "store" /\ UNCHANGED <<capture, mounted>>
    BY <1>6 DEF MarkWrite, At, Run, identity
  <2>2. CASE Thrown(d) BY <2>1, <2>2, ThrownSwears
  <2>3. CASE Go(d, IF Run(d).mark = "unknown" THEN "ask" ELSE Run(d).loop)
    <3> DEFINE s == IF Run(d).mark = "unknown" THEN "ask" ELSE Run(d).loop
    <3>1. s \in Steps /\ s \in {"ask", "unknown", "due"}
      <4>1. Run(d).loop \in {"unknown", "due"} BY <1>0, RunTyped DEF RunRecord
      <4> QED BY <4>1 DEF Steps
    <3>2. drain'[d].run.pc = s BY <1>0, <2>3, <3>1, GoMoves
    <3> QED BY <3>1, <3>2 DEF Swears
  <2> QED BY <1>6, <2>2, <2>3 DEF MarkWrite
<1> QED BY <1>1, <1>2, <1>3, <1>4, <1>5, <1>6 DEF DrainStep, AsideStep

LEMMA ReceiptsStay == ASSUME Typed, [Next]_vars PROVE receipts \subseteq receipts'
<1>1. Serves BY NextServes
<1> QED BY <1>1 DEF Serves, Perform

LEMMA NextSworn == ASSUME Typed, Steady, Sworn, [Next]_vars PROVE Sworn'
<1>0. DrainTyped BY Parts
<1>g. receipts \subseteq receipts' BY ReceiptsStay
<1>1. CASE UNCHANGED drain BY <1>1, <1>g DEF Sworn
<1>2. ASSUME NEW d \in Drains, DrainStep(d) PROVE Sworn'
  <2>1. /\ \A e \in Drains \ {d} : drain'[e] = drain[e]
        /\ drain'[d].actor = drain[d].actor
    BY <1>2, RunMoves
  <2>2. Swears(d) BY <1>2, RunSwears
  <2>3. drain[d].run.pc # "idle" /\ session # None => session = drain[d].actor BY DEF Steady
  <2> QED BY <2>1, <2>2, <2>3, <1>g DEF Sworn, Swears
<1>3. ASSUME NEW a \in Actors, NEW d \in Drains, Login(a, d) PROVE Sworn'
  <2>1. drain' = [drain EXCEPT ![d] = [actor |-> a, run |-> [Resting EXCEPT !.pc = "start"]]]
    BY <1>3 DEF Login
  <2>2. [Resting EXCEPT !.pc = "start"].pc = "start" BY DEF Resting
  <2>3. drain'[d].run.pc = "start" /\ \A e \in Drains \ {d} : drain'[e] = drain[e]
    BY <1>0, <2>1, <2>2 DEF DrainTyped
  <2> QED BY <2>3, <1>g DEF Sworn
<1>4. CASE Restart
  <2>1. \A d \in Drains : drain'[d].run.pc = "idle" BY <1>4, RestingTyped DEF Restart
  <2> QED BY <2>1 DEF Sworn
<1>5. \/ UNCHANGED drain \/ (\E d \in Drains : DrainStep(d)) \/ Restart
      \/ \E a \in Actors, d \in Drains : Login(a, d)
  BY DEF Next, vars, EnqueueRead, EnqueueWrite, Age, Press, Arrive, EndSession, Unmount
<1> QED BY <1>1, <1>2, <1>3, <1>4, <1>5

\* A run that stores a mark writes what is true of its agent's queue.
LEMMA MakesOwn ==
  ASSUME DrainTyped, RunsFitAll, Sworn, NEW d \in Drains, NEW a \in Actors, NEW s,
         NEW base \in Entry, NEW out, Makes(d, s, base, out), Own(a, base),
         drain[d].run.pc = "mark" => a = drain[d].actor
  PROVE Own(a, out)
<1>1. CASE /\ s = "store" /\ drain[d].run.pc = "mark"
           /\ out = [base EXCEPT ![drain[d].run.op] =
                 IF @ = Absent THEN @ ELSE Marked(@, drain[d].run.mark)]
  <2>1. drain[d].run.op \in Captures BY <1>1 DEF RunsFitAll, RunFit, Run
  <2>2. drain[d].run.mark \in Marks BY RunTyped DEF RunRecord
  <2>3. base[drain[d].run.op] \in Operation BY <2>1 DEF Entry
  <2>4. Marked(base[drain[d].run.op], drain[d].run.mark).status = "synced" => drain[d].run.mark = "synced"
    BY <2>2, <2>3, MarkedTyped
  <2>5. drain[d].run.mark = "synced" => <<a, drain[d].run.op>> \in receipts BY <1>1 DEF Sworn
  <2>6. \A c \in Captures : c # drain[d].run.op => out[c] = base[c] BY <1>1, <2>1 DEF Entry
  <2>7. out[drain[d].run.op].status = "synced" => <<a, drain[d].run.op>> \in receipts
    BY <1>1, <2>1, <2>4, <2>5 DEF Entry, Own
  <2> QED BY <2>6, <2>7 DEF Own
<1>2. CASE out = Without(base, "synced") BY <1>2, WithoutTyped DEF Own, Absent
<1>3. CASE out = Without(base, "failed_permanent") BY <1>3, WithoutTyped DEF Own, Absent
<1>4. CASE out = Empty BY <1>4, EntryTyped DEF Own, Absent
<1> QED BY <1>1, <1>2, <1>3, <1>4 DEF Makes

OwnNext(a, q) == \A c \in Captures : q[c].status = "synced" => <<a, c>> \in receipts'

LEMMA NextOwn ==
  ASSUME Typed, OwnEntries, Sworn, Steady, Step, [Next]_vars, ~overlapped' PROVE OwnEntries'
<1>0. /\ DrainTyped /\ CaptureTyped /\ HoldTyped /\ QueueTyped /\ RunsFitAll BY Parts
<1>g. \A a, q : Own(a, q) => OwnNext(a, q) BY ReceiptsStay DEF Own, OwnNext
<1>e. /\ \A a \in Actors : OwnNext(a, queue[a])
      /\ \A p \in Processes : rmw[p].from # None =>
           OwnNext(rmw[p].from, rmw[p].base) /\ OwnNext(rmw[p].from, rmw[p].out)
  BY <1>g DEF OwnEntries
<1> DEFINE Right(p) == rmw'[p].from # None =>
             OwnNext(rmw'[p].from, rmw'[p].base) /\ OwnNext(rmw'[p].from, rmw'[p].out)
<1>h. ASSUME On PROVE \A p \in Processes : Right(p)
  <2>1. SUFFICES ASSUME NEW p \in Processes PROVE Right(p) OBVIOUS
  <2>2. rmw'[p] \in {rmw[p], NoWrite} BY <1>h DEF On, HoldOn
  <2> QED BY <1>e, <2>2, EntryTyped
<1>f. ASSUME \A a \in Actors : OwnNext(a, queue'[a]), \A p \in Processes : Right(p)
      PROVE OwnEntries'
  BY <1>f DEF OwnEntries, Own, OwnNext
<1> HIDE DEF Right
<1>1. CASE Settle BY <1>1, <1>e, <1>h, <1>f DEF Settle
<1>2. ASSUME NEW p \in Processes, NEW a \in Actors, Stores(p, a) PROVE OwnEntries'
  <2>1. On /\ a = rmw[p].from BY <1>2 DEF Stores
  <2>2. queue'[a] = rmw[p].out /\ \A b \in Actors \ {a} : queue'[b] = queue[b]
    BY <1>0, <1>2, StoredOn
  <2>3. OwnNext(a, rmw[p].out) BY <1>e, <2>1, Names
  <2> QED BY <2>1, <2>2, <2>3, <1>e, <1>h, <1>f
<1>3. ASSUME NEW d \in Drains, NEW a \in Actors, NEW out \in Entry, Fetches(d, a, out)
      PROVE OwnEntries'
  <2>1. /\ rmw'[d].from = a /\ rmw'[d].base = queue[a] /\ rmw'[d].out = out
        /\ \A q \in Processes \ {d} : rmw'[q] = rmw[q]
    BY <1>0, <1>3, Names, HoldStep DEF Fetches
  <2>2. OwnNext(a, out)
    <3>1. Makes(d, drain'[d].run.pc, queue[a], out) BY <1>3 DEF Fetches
    <3>2. queue[a] \in Entry /\ Own(a, queue[a]) BY <1>0 DEF QueueTyped, OwnEntries
    <3>3. drain[d].run.pc = "mark" => a = drain[d].actor BY <1>3, Names DEF Fetches, Steady
    <3> QED BY <1>0, <1>g, <3>1, <3>2, <3>3, MakesOwn
  <2>3. \A p \in Processes : Right(p) BY <2>1, <2>2, <1>e DEF Right
  <2>4. queue' = queue BY <1>3 DEF Fetches
  <2> QED BY <2>3, <2>4, <1>e, <1>f
<1>4. ASSUME NEW c \in Captures, NEW a \in Actors, Drafts(c, a) PROVE OwnEntries'
  <2> DEFINE out == [queue[a] EXCEPT ![c] = [status |-> "pending", attempts |-> 0]]
  <2>1. queue[a] \in Entry BY <1>0 DEF QueueTyped
  <2>2. out \in Entry /\ \A e \in Captures : out[e].status = "synced" => out[e] = queue[a][e]
    BY <2>1, EntryTyped DEF Entry
  <2>3. queue' = queue /\ TakesHold(c, a, out) BY <1>4 DEF Drafts
  <2>4. /\ rmw'[c].from = a /\ rmw'[c].base = queue[a] /\ rmw'[c].out = out
        /\ \A q \in Processes \ {c} : rmw'[q] = rmw[q]
    <3> HIDE DEF out
    <3> QED BY <1>0, <2>2, <2>3, Names, HoldStep
  <2>5. OwnNext(a, out)
    <3> HIDE DEF out
    <3> QED BY <1>e, <2>2 DEF OwnNext
  <2>6. \A p \in Processes : Right(p)
    <3> HIDE DEF out
    <3> QED BY <2>4, <2>5, <1>e DEF Right
  <2> QED BY <2>3, <2>6, <1>e, <1>f
<1> QED BY <1>1, <1>2, <1>3, <1>4 DEF Step

\* The inductive invariant of the agents' queues.
AgentInv == BlindInv /\ Shown /\ Agents

LEMMA InitAgent == Init => AgentInv
<1> SUFFICES ASSUME Init PROVE AgentInv OBVIOUS
<1>1. \A d \in Drains : drain[d].run.pc = "idle" BY RestingTyped DEF Init
<1>2. Shown /\ Steady /\ Sworn BY <1>1 DEF Init, Shown, Steady, Sworn
<1>3. OwnEntries BY EntryTyped DEF Init, OwnEntries, Own, Absent
<1> QED BY <1>2, <1>3, InitBlind DEF AgentInv, Agents

LEMMA NextAgent == AgentInv /\ [Next]_vars => AgentInv'
<1> SUFFICES ASSUME AgentInv, [Next]_vars PROVE AgentInv' OBVIOUS
<1>1. BlindInv' BY NextBlind DEF AgentInv
<1>2. Typed /\ Holds BY DEF AgentInv, BlindInv, SavedInv, Entries
<1>3. Shown' BY <1>2, NextShown DEF AgentInv
<1>4. ASSUME ~overlapped', ~crowded' PROVE Steady' /\ Sworn' /\ OwnEntries'
  <2>1. ~overlapped /\ ~crowded BY <1>4, OverlapStays, CrowdStays
  <2>2. Owned /\ Alone /\ Shown /\ Steady /\ Sworn /\ OwnEntries
    BY <2>1 DEF AgentInv, BlindInv, SavedInv, Orderly, Blind, Agents
  <2>3. Step BY <1>2, NextStep
  <2>4. Steady' BY <1>2, <1>4, <2>2, NextSteady
  <2>5. Sworn' BY <1>2, <2>2, NextSworn
  <2>6. OwnEntries' BY <1>2, <1>4, <2>2, <2>3, NextOwn
  <2> QED BY <2>4, <2>5, <2>6
<1> QED BY <1>1, <1>3, <1>4 DEF AgentInv, Agents

\* What the queue of an agent calls synced, and is about to purge, was performed for that
\* agent, for any number of agents, presses, sign-ins and lost answers, although a press
\* outlives its session and a request is served for whoever is signed in; unless two
\* writes or two runs shared the queue.
THEOREM AgentsOwnWork == Spec => []SyncedForItsAgent
<1>1. AgentInv => SyncedForItsAgent BY DEF AgentInv, Agents, OwnEntries, Own, SyncedForItsAgent
<1> QED BY <1>1, InitAgent, NextAgent, PTL DEF Spec
=============
