-------------------------- MODULE IdentitySession --------------------------
(***************************************************************************)
(* The session store that the mobile applications share, with the sessions *)
(* of the identity service behind it.  A bootstrap, a refresh that a 401   *)
(* started, a sign-in and the ends of a session run side by side over one  *)
(* variable `stored` and one storage entry, and each of them writes what   *)
(* its own answer says, whatever happened since it asked.                  *)
(*                                                                         *)
(* A pair stands for an access token and a refresh token of a generation   *)
(* of a session.  The cookie mode of the control panel, the adoption of a  *)
(* development session, backoff delays and the contents of an identity are *)
(* left out.                                                               *)
(***************************************************************************)
EXTENDS Naturals

CONSTANTS
  Sessions,      \* sessions the identity service may create
  Enders,        \* calls that end a session: logout, revocation, deletion
  MaxGen,        \* bound on the generations of a session
  MaxFaults,     \* bound on failed requests, failures of the service's database,
                 \* rejected storage calls and refreshes from an unknown device
  MaxRestarts,   \* bound on the application being killed
  None

ASSUME SessionAssumption ==
  /\ MaxGen \in Nat \ {0} /\ MaxFaults \in Nat /\ MaxRestarts \in Nat
  /\ Enders \cap {"boot", "refresh", "login"} = {}

VARIABLES
  server,        \* identity_sessions
  late,          \* rotations given up by the client, still on their way, by pair
  state,         \* the kind of IdentitySessionState
  stored,        \* the pair the store works with, or None
  disk,          \* the storage entry
  unsaved,       \* a write of `stored` is on its way to the entry
  call,          \* the asynchronous functions of the store
  screens,       \* screens have been up in this life of the application
  vouched,       \* history: pairs the service accepted in this life
  ended,         \* history: sessions whose end the service confirmed
  straggled,     \* history: an answer replaced a pair it was not asked for
  overlap,       \* history: a bootstrap and a refresh ran side by side
  lost,          \* history: the answer to a rotation was lost
  estranged,     \* history: sessions refreshed with another device fingerprint
  spoiled,       \* history: the storage rejected a read or a write
  faults, restarts

client == <<state, stored, disk, unsaved, screens>>
history == <<vouched, ended, straggled, overlap, lost, estranged, spoiled>>
vars == <<server, late, client, call, history, faults, restarts>>

Pair == [id : Sessions, gen : 1..MaxGen]
Calls == {"boot", "refresh", "login"} \cup Enders
Endings == {"logout", "revoke", "delete"}
Asking == {"session", "rotate", "login"} \cup Endings
\* "mistaken" is a 401 like "invalid", given because the service's database failed.
Kinds == {"ok", "invalid", "mistaken", "rotated", "unavailable", "refused"}
Reply == [kind : Kinds, pair : Pair \cup {None}]

ASSUME NoneAssumption == None \notin Pair \cup Reply

Idle == [at |-> "idle", pair |-> None, reply |-> None]
States == {"unconfigured", "restoring", "signed_out", "authenticating",
           "authenticated", "service_unavailable", "error"}
Unborn == [status |-> "unborn", gen |-> 1, access |-> FALSE, recent |-> FALSE,
           compromised |-> FALSE]

Init ==
  /\ server = [s \in Sessions |-> Unborn] /\ late = [r \in Pair |-> 0]
  /\ state = "unconfigured" /\ stored = None
  /\ disk = None /\ unsaved = FALSE /\ screens = FALSE
  /\ call = [p \in Calls |-> Idle]
  /\ vouched = {} /\ ended = {}
  /\ straggled = FALSE /\ overlap = FALSE /\ lost = FALSE /\ spoiled = FALSE
  /\ estranged = {}
  /\ faults = 0 /\ restarts = 0

-----------------------------------------------------------------------------
(* The identity service.                                                   *)

Live(pair) == server[pair.id].status = "live"
Current(pair) == Live(pair) /\ server[pair.id].gen = pair.gen

\* ResolveAccessToken finds the session of an access token.
Resolves(pair) == Current(pair) /\ server[pair.id].access

Asks(p, at) == call[p].at = at /\ call[p].reply = None
Told(p, kind) == call[p].reply # None /\ call[p].reply.kind = kind

Replies(p, kind, pair) == call' = [call EXCEPT ![p].reply = [kind |-> kind, pair |-> pair]]

Breaks == faults < MaxFaults /\ faults' = faults + 1

\* ResolveAccessToken, and Refresh where it reads the session and its actor, answer
\* a failure of the database as they answer a token nobody has.
Misreads(p) == Breaks /\ Replies(p, "mistaken", None)

Validate(p) ==
  /\ Asks(p, "session")
  /\ \/ /\ Resolves(call[p].pair) /\ Replies(p, "ok", call[p].pair)
        /\ vouched' = vouched \cup {call[p].pair} /\ UNCHANGED faults
     \/ /\ ~Resolves(call[p].pair) /\ Replies(p, "invalid", None)
        /\ UNCHANGED <<vouched, faults>>
     \/ Misreads(p) /\ UNCHANGED vouched
  /\ UNCHANGED <<server, estranged>>

\* RefreshGovernedForDevice: a device the session was not created on ends it, the
\* current refresh token rotates the pair, the one before it is turned away for a
\* while, and any other ends the session.
Renews(pair) == Current(pair) /\ pair.gen < MaxGen
Successor(pair) == [pair EXCEPT !.gen = @ + 1]
JustRotated(pair) ==
  Live(pair) /\ server[pair.id].recent /\ server[pair.id].gen = pair.gen + 1
Replays(pair) == Live(pair) /\ ~Current(pair) /\ ~JustRotated(pair)

Advance(pair) ==
  server' = [server EXCEPT ![pair.id] =
               [@ EXCEPT !.gen = pair.gen + 1, !.access = TRUE, !.recent = TRUE]]

Condemn(pair) ==
  server' = [server EXCEPT ![pair.id] = [@ EXCEPT !.status = "revoked", !.compromised = TRUE]]

Estranges(pair) ==
  /\ Live(pair) /\ Condemn(pair)
  /\ estranged' = estranged \cup {pair.id}

Rotate(p) ==
  /\ Asks(p, "rotate")
  /\ LET pair == call[p].pair IN
     \/ Estranges(pair) /\ Breaks /\ Replies(p, "invalid", None) /\ UNCHANGED vouched
     \/ /\ Live(pair) /\ ~JustRotated(pair) /\ Misreads(p)
        /\ UNCHANGED <<server, vouched, estranged>>
     \/ /\ Renews(pair) /\ Advance(pair) /\ Replies(p, "ok", Successor(pair))
        /\ vouched' = vouched \cup {Successor(pair)} /\ UNCHANGED <<estranged, faults>>
     \/ /\ JustRotated(pair) /\ Replies(p, "rotated", None)
        /\ UNCHANGED <<server, vouched, estranged, faults>>
     \/ /\ Replays(pair) /\ Condemn(pair) /\ Replies(p, "invalid", None)
        /\ UNCHANGED <<vouched, estranged, faults>>
     \/ /\ ~Live(pair) /\ Replies(p, "invalid", None)
        /\ UNCHANGED <<server, vouched, estranged, faults>>

SignIn(p) ==
  /\ Asks(p, "login")
  /\ \/ \E s \in Sessions :
          /\ server[s].status = "unborn"
          /\ server' = [server EXCEPT ![s] = [Unborn EXCEPT !.status = "live", !.access = TRUE]]
          /\ Replies(p, "ok", [id |-> s, gen |-> 1])
          /\ vouched' = vouched \cup {[id |-> s, gen |-> 1]}
     \/ Replies(p, "refused", None) /\ UNCHANGED <<server, vouched>>
  /\ UNCHANGED <<estranged, faults>>

\* Logout revokes the session its access token names and answers 204 in any
\* case; a revocation and a deletion resolve the token first.
Ends(p) ==
  /\ \E ending \in Endings : Asks(p, ending)
  /\ LET pair == call[p].pair
         works == IF call[p].at = "logout" THEN Current(pair) ELSE Resolves(pair)
     IN
     \/ /\ server' = IF works THEN [server EXCEPT ![pair.id].status = "revoked"] ELSE server
        /\ Replies(p, IF works \/ call[p].at = "logout" THEN "ok" ELSE "invalid", None)
        /\ UNCHANGED faults
     \/ call[p].at # "logout" /\ Misreads(p) /\ UNCHANGED server
  /\ UNCHANGED <<vouched, estranged>>

\* A request fails: its answer is lost after the service has acted, or it is given up
\* and arrives later, or never.  A rotation is the one request whose late arrival is a
\* step of its own: a late end is one of Pass, a late sign-in makes a session that
\* nobody holds, a late validation changes nothing.
Fail(p) ==
  /\ call[p].at \in Asking /\ ~Told(p, "unavailable") /\ Replies(p, "unavailable", None)
  /\ \/ /\ ~Asks(p, "rotate") /\ Breaks /\ UNCHANGED late
        /\ lost' = (lost \/ (call[p].at = "rotate" /\ Told(p, "ok")))
     \/ /\ Asks(p, "rotate") /\ Breaks
        /\ late' = [late EXCEPT ![call[p].pair] = @ + 1] /\ UNCHANGED lost
     \/ Asks(p, "rotate") /\ call[p].pair.gen = MaxGen /\ UNCHANGED <<late, lost, faults>>
  /\ UNCHANGED <<server, client, vouched, ended, straggled, overlap, estranged, spoiled, restarts>>

\* The service executes a rotation that was given up, and nobody hears the answer.
Arrive(pair) ==
  /\ late[pair] > 0 /\ late' = [late EXCEPT ![pair] = @ - 1]
  /\ \/ Estranges(pair)
     \/ Renews(pair) /\ Advance(pair) /\ UNCHANGED estranged
     \/ Replays(pair) /\ Condemn(pair) /\ UNCHANGED estranged
  /\ lost' = TRUE
  /\ UNCHANGED <<client, call, vouched, ended, straggled, overlap, spoiled, faults, restarts>>

Serve(p) ==
  /\ Validate(p) \/ Rotate(p) \/ SignIn(p) \/ Ends(p)
  /\ UNCHANGED <<late, client, ended, straggled, overlap, lost, spoiled, restarts>>

\* Fifteen minutes and fifteen seconds pass, or an administrator ends a session.
\* A request is given up after eight seconds: the answer of a rotation is no longer
\* on its way when the window of fifteen that the rotation opened closes.
Pass(s) ==
  /\ \/ server[s].access /\ server' = [server EXCEPT ![s].access = FALSE]
     \/ /\ server[s].recent /\ server' = [server EXCEPT ![s].recent = FALSE]
        /\ \A p \in Calls :
             call[p].at = "rotate" /\ Told(p, "ok") => call[p].reply.pair.id # s
     \/ server[s].status = "live" /\ server' = [server EXCEPT ![s].status = "revoked"]
  /\ UNCHANGED <<late, client, call, history, faults, restarts>>

-----------------------------------------------------------------------------
(* What the functions of the store do with an answer.                      *)

Done(p) == call' = [call EXCEPT ![p] = Idle]
Ask(p, at, pair) == call' = [call EXCEPT ![p] = [at |-> at, pair |-> pair, reply |-> None]]

\* isIdentityInvalidSessionError: the store cannot tell the two apart.
Denied(p) == Told(p, "invalid") \/ Told(p, "mistaken")

\* The store has another pair than the one the call was made for.
Stray(p) == straggled' = (straggled \/ stored # call[p].pair)

Show(next) == state' = next /\ screens' = (screens \/ next = "authenticated")

Clear(p, next) ==
  /\ stored' = None /\ unsaved' = TRUE
  /\ Show(next) /\ Stray(p)

\* The identity of a pair carries the expiry of its access token; that of an
\* earlier generation may have passed or not.
MayBeFresh(pair) == server[pair.id].gen = pair.gen => server[pair.id].access
MayBeStale(pair) == ~(server[pair.id].gen = pair.gen /\ server[pair.id].access)

\* Mutant of Commit: the earlier tokens are kept.
CommitOldTokens(p, pair) ==
  /\ stored' = (IF stored = None THEN pair ELSE stored) /\ unsaved' = TRUE
  /\ Show("authenticated") /\ Stray(p)

Commit(p, pair) ==
  \/ MayBeStale(pair) /\ Clear(p, "error")
  \/ /\ MayBeFresh(pair)
     /\ stored' = pair /\ unsaved' = TRUE
     /\ Show("authenticated") /\ Stray(p)

Unavailable == Show("service_unavailable") /\ UNCHANGED <<stored, unsaved, straggled>>

others == <<server, late, disk, vouched, ended, lost, estranged, spoiled, faults, restarts>>
rest == <<others, overlap>>

Meets(p) == overlap' = (overlap \/ call[p] # Idle)

BootStart ==
  /\ state \in {"unconfigured", "service_unavailable"} /\ call["boot"] = Idle
  /\ Show("restoring")
  /\ Ask("boot", IF stored = None THEN "load" ELSE "readiness", stored)
  /\ Meets("refresh")
  /\ UNCHANGED <<others, stored, unsaved, straggled>>

\* The read is served, after the writes before it, and some time later its answer
\* replaces whatever `stored` has become.
BootRead ==
  /\ call["boot"].at = "load" /\ ~unsaved
  /\ Ask("boot", "loaded", disk)
  /\ UNCHANGED <<rest, state, screens, stored, unsaved, straggled>>

BootLoad ==
  /\ call["boot"].at = "loaded"
  /\ stored' = call["boot"].pair
  /\ straggled' = (straggled \/ stored # None)
  /\ Ask("boot", "readiness", call["boot"].pair)
  /\ UNCHANGED <<rest, state, screens, unsaved>>

\* The storage rejects the read: nothing leaves the state restoring.
BootUnread ==
  /\ call["boot"].at = "load"
  /\ faults < MaxFaults /\ faults' = faults + 1
  /\ spoiled' = TRUE
  /\ Done("boot")
  /\ UNCHANGED <<server, late, client, vouched, ended, straggled, overlap, lost, estranged, restarts>>

\* Mutant of BootReady: a saved session is shown before it is validated.
BootTrusting ==
  /\ call["boot"].at = "readiness"
  /\ \/ call["boot"].pair = None /\ Show("signed_out") /\ Done("boot")
     \/ /\ call["boot"].pair # None
        /\ Show("authenticated") /\ Ask("boot", "session", call["boot"].pair)
  /\ UNCHANGED <<rest, stored, unsaved, straggled>>

\* The readiness of the service, which the store can neither foresee nor use later.
BootReady ==
  /\ call["boot"].at = "readiness"
  /\ \/ /\ faults < MaxFaults /\ faults' = faults + 1
        /\ Unavailable /\ Done("boot")
     \/ /\ call["boot"].pair = None
        /\ Show("signed_out") /\ Done("boot") /\ UNCHANGED <<stored, unsaved, straggled, faults>>
     \/ /\ call["boot"].pair # None
        /\ Show("authenticating") /\ Ask("boot", "session", call["boot"].pair)
        /\ UNCHANGED <<stored, unsaved, straggled, faults>>
  /\ UNCHANGED <<server, late, disk, vouched, ended, overlap, lost, estranged, spoiled, restarts>>

BootValidated ==
  /\ call["boot"].at = "session"
  /\ \/ Told("boot", "ok") /\ Commit("boot", call["boot"].pair) /\ Done("boot")
     \/ Told("boot", "unavailable") /\ Unavailable /\ Done("boot")
     \/ /\ Denied("boot") /\ Ask("boot", "rotate", call["boot"].pair)
        /\ UNCHANGED <<state, screens, stored, unsaved, straggled>>
  /\ UNCHANGED rest

\* A 401 of some request starts a refresh, and joins the one under way.
RefreshStart ==
  /\ screens /\ stored # None /\ call["refresh"] = Idle
  /\ Ask("refresh", "rotate", stored)
  /\ Meets("boot")
  /\ UNCHANGED <<others, state, screens, stored, unsaved, straggled>>

\* Mutant of Rotated: an outage ends the session on the device.
RotatedStrictly(p) ==
  /\ call[p].at = "rotate"
  /\ \/ Told(p, "ok") /\ Commit(p, call[p].reply.pair)
     \/ call[p].reply # None /\ ~Told(p, "ok") /\ Clear(p, "error")
  /\ Done(p)
  /\ UNCHANGED rest

Rotated(p) ==
  /\ call[p].at = "rotate"
  /\ \/ Told(p, "ok") /\ Commit(p, call[p].reply.pair)
     \/ Denied(p) /\ Clear(p, "error")
     \/ Told(p, "rotated") /\ Unavailable
     \/ Told(p, "unavailable") /\ Unavailable
  /\ Done(p)
  /\ UNCHANGED rest

LoginStart ==
  /\ state \in {"signed_out", "error"} /\ call["login"] = Idle
  /\ Show("authenticating") /\ Ask("login", "login", None)
  /\ UNCHANGED <<rest, stored, unsaved, straggled>>

\* Mutant of LoginAnswered: a refusal leaves the state as it is.
LoginSilent ==
  /\ call["login"].at = "login" /\ call["login"].reply # None
  /\ IF Told("login", "ok")
       THEN Commit("login", call["login"].reply.pair)
       ELSE UNCHANGED <<state, screens, stored, unsaved, straggled>>
  /\ Done("login")
  /\ UNCHANGED rest

LoginAnswered ==
  /\ call["login"].at = "login"
  /\ \/ Told("login", "ok") /\ Commit("login", call["login"].reply.pair)
     \/ Told("login", "unavailable") /\ Unavailable
     \/ Told("login", "refused") /\ Show("error") /\ UNCHANGED <<stored, unsaved, straggled>>
  /\ Done("login")
  /\ UNCHANGED rest

EndStart(p, ending) ==
  /\ state = "authenticated" /\ stored # None /\ call[p] = Idle
  /\ Ask(p, ending, stored)
  /\ UNCHANGED <<rest, state, screens, stored, unsaved, straggled>>

\* A deletion that fails changes nothing; the others tell an outage from an end.
EndAnswered(p) ==
  /\ call[p].at \in Endings /\ call[p].reply # None
  /\ \/ /\ Told(p, "ok") \/ (Denied(p) /\ call[p].at # "delete")
        /\ Ask(p, "hooks", call[p].pair)
        /\ UNCHANGED <<state, screens, stored, unsaved, straggled>>
     \/ /\ Told(p, "unavailable") /\ call[p].at # "delete"
        /\ Unavailable /\ Done(p)
     \/ /\ ~Told(p, "ok") /\ call[p].at = "delete"
        /\ Done(p) /\ UNCHANGED <<state, screens, stored, unsaved, straggled>>
  /\ ended' = ended \cup {s \in Sessions : Told(p, "ok") /\ s = call[p].pair.id}
  /\ UNCHANGED <<server, late, disk, vouched, overlap, lost, estranged, spoiled, faults, restarts>>

\* The hooks have run; the credentials go.
EndFinished(p) ==
  /\ call[p].at = "hooks"
  /\ Clear(p, "signed_out") /\ Done(p)
  /\ UNCHANGED rest

-----------------------------------------------------------------------------
(* The storage, and the application's life.                                *)

\* Nobody waits for a write, and a rejected one is forgotten.
Persist ==
  /\ unsaved /\ unsaved' = FALSE
  /\ \/ disk' = stored /\ UNCHANGED <<spoiled, faults>>
     \/ /\ faults < MaxFaults /\ faults' = faults + 1
        /\ spoiled' = TRUE /\ UNCHANGED disk
  /\ UNCHANGED <<server, late, state, stored, screens, call, vouched, ended, straggled, overlap,
                 lost, estranged, restarts>>

\* A rotation that outlives the application is one that Fail gave up before.
Restart ==
  /\ restarts < MaxRestarts /\ restarts' = restarts + 1
  /\ state' = "unconfigured" /\ stored' = None /\ unsaved' = FALSE /\ screens' = FALSE
  /\ call' = [p \in Calls |-> Idle]
  /\ vouched' = {}
  /\ UNCHANGED <<server, late, disk, ended, straggled, overlap, lost, estranged, spoiled, faults>>

Boot == BootStart \/ BootRead \/ BootLoad \/ BootUnread \/ BootReady \/ BootValidated \/ Rotated("boot")
Refresh == RefreshStart \/ Rotated("refresh")
Login == LoginStart \/ LoginAnswered
End(p) == (\E ending \in Endings : EndStart(p, ending)) \/ EndAnswered(p) \/ EndFinished(p)

Next ==
  \/ Boot \/ Refresh \/ Login
  \/ \E p \in Enders : End(p)
  \/ \E p \in Calls : Serve(p) \/ Fail(p)
  \/ \E pair \in Pair : Arrive(pair)
  \/ \E s \in Sessions : Pass(s)
  \/ Persist \/ Restart

Spec == Init /\ [][Next]_vars

\* Requests have timeouts, promises are settled, and the application starts its
\* bootstrap itself; users, screens and clocks promise nothing.
Fairness ==
  /\ WF_vars(BootStart /\ state = "unconfigured")
  /\ WF_vars(BootRead) /\ WF_vars(BootLoad) /\ WF_vars(BootReady) /\ WF_vars(BootValidated)
  /\ WF_vars(Rotated("boot")) /\ WF_vars(Rotated("refresh")) /\ WF_vars(LoginAnswered)
  /\ \A p \in Calls : WF_vars(Serve(p) \/ Fail(p))
  /\ WF_vars(Persist)

FairSpec == Spec /\ Fairness

-----------------------------------------------------------------------------
(* Properties.                                                             *)

\* Every variable keeps its type; the store holds pairs the service has issued.
TypeOK ==
  /\ server \in [Sessions -> [status : {"unborn", "live", "revoked"}, gen : 1..MaxGen,
                  access : BOOLEAN, recent : BOOLEAN, compromised : BOOLEAN]]
  /\ late \in [Pair -> Nat]
  /\ state \in States
  /\ stored \in Pair \cup {None} /\ disk \in Pair \cup {None}
  /\ unsaved \in BOOLEAN /\ screens \in BOOLEAN
  /\ call \in [Calls -> [at : Asking \cup {"idle", "load", "loaded", "readiness", "hooks"},
                         pair : Pair \cup {None}, reply : Reply \cup {None}]]
  /\ vouched \in SUBSET Pair /\ ended \in SUBSET Sessions /\ estranged \in SUBSET Sessions
  /\ straggled \in BOOLEAN /\ overlap \in BOOLEAN /\ lost \in BOOLEAN /\ spoiled \in BOOLEAN
  /\ faults \in Nat /\ restarts \in Nat

\* A screen that shows an actor sends with a pair the service has accepted since
\* the application started, whatever the storage held, as long as no read or write
\* of the storage was rejected: an entry that a rejected write left behind may be
\* loaded over the session of a refresh.
ShownIsVouched ==
  state = "authenticated" /\ stored # None => stored \in vouched \/ spoiled

\* A session is only taken for compromised when it was refreshed without the device
\* fingerprint it was created with, when the client did not hear the answer to a
\* rotation (lost, or executed after the client gave it up), when a bootstrap ran
\* beside a refresh, the storage rejected a call or the application was killed: one
\* renewal after the other never replays a refresh token, whatever else fails.
ReplayExplained ==
  \A s \in Sessions : server[s].compromised =>
    s \in estranged \/ lost \/ overlap \/ spoiled \/ restarts > 0

\* Credentials are dropped when the user ended the session, the service had, the
\* access token expired on the way, or Refresh answered a failure of its database
\* as a token nobody has; for no other outage, and for no answer that was lost.
SessionKept ==
  [][stored # None /\ stored' = None =>
       \/ \E p \in Enders : call[p].at = "hooks"
       \/ server[stored.id].status = "revoked"
       \/ \E p \in Calls : call[p].at = "rotate" /\ Told(p, "mistaken")
       \/ \E p \in Calls :
            Told(p, "ok") /\ call[p].reply.pair # None /\ MayBeStale(call[p].reply.pair)
       \/ straggled' \/ restarts' # restarts]_vars

\* A session whose end the service confirmed is over there, not only on the device.
EndedIsRevoked == \A s \in ended : server[s].status = "revoked"

\* The store does not stay between two states, unless its storage could not be read.
LoadingEnds ==
  state \in {"restoring", "authenticating"} ~>
    (state \notin {"restoring", "authenticating"} \/ spoiled)
=============================================================================
