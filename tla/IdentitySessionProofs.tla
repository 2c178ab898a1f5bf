------------------------ MODULE IdentitySessionProofs ------------------------
(***************************************************************************)
(* Proofs about IdentitySession, for any sessions, callers that end one,   *)
(* generations and bounds: what is shown was accepted, what a renewal      *)
(* replays, and when credentials go.                                       *)
(***************************************************************************)
EXTENDS IdentitySession, TLAPS

Renewers == {"boot", "refresh"}
Bearing == {"session", "rotate", "hooks"} \cup Endings
Stages == Asking \cup {"idle", "load", "loaded", "readiness", "hooks"}
CallRecord == [at : Stages, pair : Pair \cup {None}, reply : Reply \cup {None}]
ServerRow == [status : {"unborn", "live", "revoked"}, gen : 1..MaxGen,
              access : BOOLEAN, recent : BOOLEAN, compromised : BOOLEAN]

\* The stages a call of each name goes through.
StagesOf(p) ==
  IF p = "boot" THEN {"idle", "load", "loaded", "readiness", "session", "rotate"}
  ELSE IF p = "refresh" THEN {"idle", "rotate"}
  ELSE IF p = "login" THEN {"idle", "login"}
  ELSE {"idle", "hooks"} \cup Endings

\* The answer c holds is "kind".
Heard(c, kind) == c.reply # None /\ c.reply.kind = kind

\* A call of name p that carries a token has a pair, and an answer fits its question.
Fits(p, c) ==
  /\ c \in CallRecord /\ c.at \in StagesOf(p)
  /\ c.at \in Bearing => c.pair \in Pair
  /\ c.reply # None => c.at \in Asking
  /\ Heard(c, "ok") => /\ c.at \in {"rotate", "login"} => c.reply.pair \in Pair
                       /\ c.at = "session" => c.reply.pair = c.pair

CallsFit == call \in [Calls -> CallRecord] /\ \A p \in Calls : Fits(p, call[p])

Typed == TypeOK /\ CallsFit

\* Every pair anybody holds belongs to a session the service has created.
Born(x) == x \in Pair => server[x.id].status # "unborn"

\* An answer that a renewal is invalid tells of a revoked session.
BornCall(c) ==
  /\ Born(c.pair)
  /\ c.reply # None => Born(c.reply.pair)
  /\ c.at = "rotate" /\ Heard(c, "invalid") => server[c.pair.id].status = "revoked"

BornInv == Born(stored) /\ Born(disk) /\ \A p \in Calls : BornCall(call[p])

\* What a call will commit was accepted by the service.
Good(x) == x = None \/ x \in vouched

GoodCall(c) ==
  Heard(c, "ok") => /\ c.at \in {"rotate", "login"} => c.reply.pair \in vouched
                    /\ c.at = "session" => c.pair \in vouched

\* Nothing but the first bootstrap has run in this life of the application.
Early ==
  /\ ~screens /\ ~unsaved
  /\ state \in {"unconfigured", "restoring", "authenticating", "service_unavailable"}
  /\ \A p \in Calls \ {"boot"} : call[p] = Idle
  /\ call["boot"].at = "loaded" => call["boot"].pair = disk
  /\ call["boot"].at = "readiness" /\ call["boot"].pair = None => stored = None /\ disk = None

Later ==
  /\ Good(stored) /\ (unsaved \/ Good(disk))
  /\ call["boot"].at = "loaded" => Good(call["boot"].pair)

\* The token of x is the last one of its session, unless the session has ended.
Fresh(x) ==
  /\ x \in Pair /\ server[x.id].status # "unborn"
  /\ Live(x) => server[x.id].gen = x.gen

\* A renewal has an answer that is about to replace x.
Renewed(x) ==
  \E p \in Renewers : call[p].at = "rotate" /\ Heard(call[p], "ok") /\ x = call[p].pair

Usable(x) == x = None \/ Fresh(x) \/ Renewed(x)

Other(x, s) == x \in Pair => x.id # s

\* Nobody but the sign-in that created it knows the session s.
Alone(s) ==
  /\ Other(stored, s) /\ (unsaved \/ Other(disk, s))
  /\ \A p \in Renewers : Other(call[p].pair, s)

Clean == ~lost /\ ~overlap /\ ~spoiled /\ restarts = 0

RenewalFits(c) ==
  c.at = "rotate" =>
    IF Heard(c, "ok") THEN Fresh(c.reply.pair) /\ c.reply.pair.id = c.pair.id
                      ELSE Fresh(c.pair)

Renewal ==
  /\ call["boot"] = Idle \/ call["refresh"] = Idle
  /\ \A s \in Sessions : server[s].compromised => s \in estranged
  /\ Usable(stored) /\ (unsaved \/ Usable(disk))
  /\ call["boot"].at \in {"loaded", "readiness", "session"} =>
       call["boot"].pair = None \/ Fresh(call["boot"].pair)
  /\ \A p \in Renewers : RenewalFits(call[p])
  /\ Heard(call["login"], "ok") =>
       Fresh(call["login"].reply.pair) /\ Alone(call["login"].reply.pair.id)

-----------------------------------------------------------------------------
(* Types.                                                                  *)

ClientTyped ==
  /\ state \in States /\ stored \in Pair \cup {None}
  /\ unsaved \in BOOLEAN /\ screens \in BOOLEAN /\ straggled \in BOOLEAN

LEMMA Names ==
  /\ "boot" \in Calls /\ "refresh" \in Calls /\ "login" \in Calls /\ Enders \subseteq Calls
  /\ \A p \in Enders : p \notin {"boot", "refresh", "login"}
  /\ Renewers \subseteq Calls
BY SessionAssumption DEF Calls, Renewers

LEMMA IdleFits == \A p : Fits(p, Idle) /\ Idle \in CallRecord
BY DEF Fits, Idle, CallRecord, Stages, StagesOf, Bearing, Endings, Asking, Heard

LEMMA OneCall ==
  ASSUME CallsFit, NEW p \in Calls, NEW c, Fits(p, c), call' = [call EXCEPT ![p] = c]
  PROVE  CallsFit'
<1>1. call' \in [Calls -> CallRecord] BY DEF CallsFit, Fits
<1>2. \A q \in Calls : Fits(q, call'[q]) BY DEF CallsFit
<1>3. \A q \in Calls : Fits(q, call'[q]) = Fits(q, call[q])'
  BY DEF Fits, Heard
<1> QED BY <1>1, <1>2, <1>3 DEF CallsFit, Fits, Heard

LEMMA DoneOne ==
  ASSUME CallsFit, NEW p \in Calls, Done(p)
  PROVE  CallsFit'
BY IdleFits, OneCall DEF Done

LEMMA AskOne ==
  ASSUME CallsFit, NEW p \in Calls, NEW at \in StagesOf(p), at \in Stages,
         NEW pair \in Pair \cup {None}, at \in Bearing => pair \in Pair, Ask(p, at, pair)
  PROVE  CallsFit'
<1> DEFINE c == [at |-> at, pair |-> pair, reply |-> None]
<1>1. Fits(p, c) BY DEF Fits, CallRecord, Heard
<1> QED BY <1>1, OneCall DEF Ask

LEMMA ReplyOne ==
  ASSUME CallsFit, NEW p \in Calls, call[p].at \in Asking, NEW kind \in Kinds,
         NEW pair \in Pair \cup {None},
         kind = "ok" /\ call[p].at \in {"rotate", "login"} => pair \in Pair,
         kind = "ok" /\ call[p].at = "session" => pair = call[p].pair,
         Replies(p, kind, pair)
  PROVE  CallsFit'
<1> DEFINE r == [kind |-> kind, pair |-> pair]
           c == [call[p] EXCEPT !.reply = r]
<1>1. r \in Reply BY DEF Reply
<1>2. call[p] \in CallRecord /\ Fits(p, call[p]) BY DEF CallsFit
<1>3. c \in CallRecord /\ c.at = call[p].at /\ c.pair = call[p].pair /\ c.reply = r
  BY <1>1, <1>2 DEF CallRecord
<1>4. Fits(p, c) BY <1>2, <1>3 DEF Fits, Heard
<1>5. call' = [call EXCEPT ![p] = c] BY DEF Replies
<1> QED BY <1>4, <1>5, OneCall

\* What a call is known to hold.
LEMMA Carries ==
  ASSUME CallsFit, NEW p \in Calls
  PROVE  /\ call[p] \in CallRecord /\ call[p].at \in StagesOf(p)
         /\ call[p].at \in Bearing => call[p].pair \in Pair
         /\ call[p].reply # None => call[p].at \in Asking /\ call[p].reply \in Reply
         /\ call[p].at \in {"rotate", "login"} /\ Told(p, "ok") => call[p].reply.pair \in Pair
         /\ call[p].at = "session" /\ Told(p, "ok") => call[p].reply.pair = call[p].pair
         /\ call[p].pair \in Pair \cup {None}
BY DEF CallsFit, Fits, CallRecord, Told, Heard

LEMMA ClearTyped ==
  ASSUME ClientTyped, NEW p, NEW next \in States, Clear(p, next)
  PROVE  ClientTyped'
BY DEF ClientTyped, Clear, Show, Stray

LEMMA CommitTyped ==
  ASSUME ClientTyped, NEW p, NEW pair \in Pair, Commit(p, pair)
  PROVE  ClientTyped'
<1>1. CASE Clear(p, "error") BY <1>1, ClearTyped DEF States
<1>2. CASE stored' = pair /\ unsaved' = TRUE /\ Show("authenticated") /\ Stray(p)
  BY <1>2 DEF ClientTyped, Show, Stray, States
<1> QED BY <1>1, <1>2 DEF Commit

LEMMA UnavailableTyped == ClientTyped /\ Unavailable => ClientTyped'
BY DEF ClientTyped, Unavailable, Show, States

LEMMA InitTyped == Init => Typed
<1> SUFFICES ASSUME Init PROVE Typed OBVIOUS
<1> USE DEF Init
<1>1. server \in [Sessions -> ServerRow] BY SessionAssumption DEF Unborn, ServerRow
<1>2. CallsFit
  <2>1. call \in [Calls -> CallRecord] BY IdleFits
  <2>2. \A p \in Calls : Fits(p, call[p]) BY IdleFits
  <2> QED BY <2>1, <2>2 DEF CallsFit
<1>3. TypeOK BY <1>1, <1>2 DEF TypeOK, CallsFit, CallRecord, Stages, ServerRow, States
<1> QED BY <1>2, <1>3 DEF Typed

\* The steps of the store, and the parts of the state they share.
RestTyped ==
  /\ server \in [Sessions -> ServerRow] /\ disk \in Pair \cup {None}
  /\ vouched \in SUBSET Pair /\ ended \in SUBSET Sessions
  /\ late \in [Pair -> Nat] /\ estranged \in SUBSET Sessions
  /\ overlap \in BOOLEAN /\ lost \in BOOLEAN /\ spoiled \in BOOLEAN
  /\ faults \in Nat /\ restarts \in Nat

LEMMA Parts == Typed <=> ClientTyped /\ RestTyped /\ CallsFit
BY DEF Typed, TypeOK, ClientTyped, RestTyped, CallsFit, CallRecord, ServerRow, Stages

LEMMA PartsNext == Typed' <=> ClientTyped' /\ RestTyped' /\ CallsFit'
BY DEF Typed, TypeOK, ClientTyped, RestTyped, CallsFit, CallRecord, ServerRow, Stages

LEMMA BootTyped == Typed /\ Boot => Typed'
<1> SUFFICES ASSUME Typed, Boot PROVE Typed' OBVIOUS
<1>0. ClientTyped /\ RestTyped /\ CallsFit BY Parts
<1>c. "boot" \in Calls BY Names
<1>d. /\ call["boot"].pair \in Pair \cup {None}
      /\ call["boot"].at \in {"session", "rotate"} => call["boot"].pair \in Pair
      /\ call["boot"].at \in {"rotate", "login"} /\ Told("boot", "ok") => call["boot"].reply.pair \in Pair
  BY <1>0, <1>c, Carries DEF Bearing
<1>e. StagesOf("boot") = {"idle", "load", "loaded", "readiness", "session", "rotate"}
      /\ StagesOf("boot") \subseteq Stages
  BY DEF StagesOf, Stages, Asking, Endings
<1>f. {"load", "loaded", "readiness"} \cap Bearing = {} BY DEF Bearing, Endings
<1>1. ASSUME BootStart PROVE Typed'
  <2>1. CallsFit'
    <3> DEFINE at == IF stored = None THEN "load" ELSE "readiness"
    <3>1. Ask("boot", at, stored) BY <1>1 DEF BootStart
    <3>2. at \in StagesOf("boot") /\ at \in Stages /\ at \notin Bearing BY <1>e, <1>f
    <3> QED BY <3>1, <3>2, <1>0, <1>c, AskOne DEF ClientTyped
  <2>2. ClientTyped' /\ RestTyped'
    BY <1>0, <1>1 DEF BootStart, ClientTyped, RestTyped, others, Show, Meets, States
  <2> QED BY <2>1, <2>2, PartsNext
<1>2. ASSUME BootRead PROVE Typed'
  <2>1. CallsFit' BY <1>0, <1>2, <1>c, <1>e, <1>f, AskOne DEF BootRead, RestTyped
  <2>2. ClientTyped' /\ RestTyped'
    BY <1>0, <1>2 DEF BootRead, ClientTyped, RestTyped, rest, others
  <2> QED BY <2>1, <2>2, PartsNext
<1>3. ASSUME BootLoad PROVE Typed'
  <2>1. CallsFit' BY <1>0, <1>3, <1>c, <1>d, <1>e, <1>f, AskOne DEF BootLoad
  <2>2. ClientTyped' /\ RestTyped'
    BY <1>0, <1>3, <1>d DEF BootLoad, ClientTyped, RestTyped, rest, others
  <2> QED BY <2>1, <2>2, PartsNext
<1>4. ASSUME BootUnread PROVE Typed'
  <2>1. CallsFit' BY <1>0, <1>4, <1>c, DoneOne DEF BootUnread
  <2>2. ClientTyped' /\ RestTyped'
    BY <1>0, <1>4 DEF BootUnread, ClientTyped, RestTyped, client
  <2> QED BY <2>1, <2>2, PartsNext
<1>5. ASSUME BootReady PROVE Typed'
  <2>1. RestTyped' BY <1>0, <1>5 DEF BootReady, RestTyped
  <2>2. CallsFit' /\ ClientTyped'
    <3>1. CASE Unavailable /\ Done("boot")
      BY <3>1, <1>0, <1>c, DoneOne, UnavailableTyped
    <3>2. CASE Show("signed_out") /\ Done("boot") /\ UNCHANGED <<stored, unsaved, straggled>>
      BY <3>2, <1>0, <1>c, DoneOne DEF Show, ClientTyped, States
    <3>3. CASE /\ call["boot"].pair # None /\ Show("authenticating")
               /\ Ask("boot", "session", call["boot"].pair)
               /\ UNCHANGED <<stored, unsaved, straggled>>
      <4>1. CallsFit' BY <3>3, <1>0, <1>c, <1>d, <1>e, AskOne
      <4> QED BY <4>1, <3>3, <1>0 DEF Show, ClientTyped, States
    <3> QED BY <1>5, <3>1, <3>2, <3>3 DEF BootReady
  <2> QED BY <2>1, <2>2, PartsNext
<1>6. ASSUME BootValidated PROVE Typed'
  <2>1. RestTyped' BY <1>0, <1>6 DEF BootValidated, RestTyped, rest, others
  <2>2. call["boot"].at = "session" BY <1>6 DEF BootValidated
  <2>3. CallsFit' /\ ClientTyped'
    <3>1. CASE Commit("boot", call["boot"].pair) /\ Done("boot")
      BY <3>1, <2>2, <1>0, <1>c, <1>d, DoneOne, CommitTyped
    <3>2. CASE Unavailable /\ Done("boot")
      BY <3>2, <1>0, <1>c, DoneOne, UnavailableTyped
    <3>3. CASE /\ Ask("boot", "rotate", call["boot"].pair)
               /\ UNCHANGED <<state, screens, stored, unsaved, straggled>>
      <4>1. CallsFit' BY <3>3, <2>2, <1>0, <1>c, <1>d, <1>e, AskOne
      <4> QED BY <4>1, <3>3, <1>0 DEF ClientTyped
    <3> QED BY <1>6, <3>1, <3>2, <3>3 DEF BootValidated
  <2> QED BY <2>1, <2>3, PartsNext
<1>7. ASSUME Rotated("boot") PROVE Typed'
  <2>1. RestTyped' BY <1>0, <1>7 DEF Rotated, RestTyped, rest, others
  <2>2. CallsFit' BY <1>7, <1>0, <1>c, DoneOne DEF Rotated
  <2>3. ClientTyped'
    BY <1>7, <1>0, <1>d, CommitTyped, ClearTyped, UnavailableTyped DEF Rotated, States
  <2> QED BY <2>1, <2>2, <2>3, PartsNext
<1> QED BY <1>1, <1>2, <1>3, <1>4, <1>5, <1>6, <1>7 DEF Boot

LEMMA RefreshTyped == Typed /\ Refresh => Typed'
<1> SUFFICES ASSUME Typed, Refresh PROVE Typed' OBVIOUS
<1>0. ClientTyped /\ RestTyped /\ CallsFit BY Parts
<1>c. "refresh" \in Calls BY Names
<1>1. ASSUME RefreshStart PROVE Typed'
  <2>1. "rotate" \in StagesOf("refresh") /\ "rotate" \in Stages
    BY DEF StagesOf, Stages, Asking
  <2>2. CallsFit' BY <1>0, <1>1, <1>c, <2>1, AskOne DEF RefreshStart, ClientTyped
  <2>3. ClientTyped' /\ RestTyped'
    BY <1>0, <1>1 DEF RefreshStart, ClientTyped, RestTyped, others, Meets
  <2> QED BY <2>2, <2>3, PartsNext
<1>2. ASSUME Rotated("refresh") PROVE Typed'
  <2>1. RestTyped' BY <1>0, <1>2 DEF Rotated, RestTyped, rest, others
  <2>2. CallsFit' BY <1>2, <1>0, <1>c, DoneOne DEF Rotated
  <2>3. Told("refresh", "ok") => call["refresh"].reply.pair \in Pair
    BY <1>2, <1>0, <1>c, Carries DEF Rotated
  <2>4. ClientTyped'
    BY <1>2, <1>0, <2>3, CommitTyped, ClearTyped, UnavailableTyped DEF Rotated, States
  <2> QED BY <2>1, <2>2, <2>4, PartsNext
<1> QED BY <1>1, <1>2 DEF Refresh

LEMMA LoginTyped == Typed /\ Login => Typed'
<1> SUFFICES ASSUME Typed, Login PROVE Typed' OBVIOUS
<1>0. ClientTyped /\ RestTyped /\ CallsFit BY Parts
<1>c. "login" \in Calls BY Names
<1>1. ASSUME LoginStart PROVE Typed'
  <2>1. "login" \in StagesOf("login") /\ "login" \in Stages /\ "login" \notin Bearing
    BY DEF StagesOf, Stages, Asking, Bearing, Endings
  <2>2. CallsFit' BY <1>0, <1>1, <1>c, <2>1, AskOne DEF LoginStart
  <2>3. ClientTyped' /\ RestTyped'
    BY <1>0, <1>1 DEF LoginStart, ClientTyped, RestTyped, rest, others, Show, States
  <2> QED BY <2>2, <2>3, PartsNext
<1>2. ASSUME LoginAnswered PROVE Typed'
  <2>1. RestTyped' BY <1>0, <1>2 DEF LoginAnswered, RestTyped, rest, others
  <2>2. CallsFit' BY <1>2, <1>0, <1>c, DoneOne DEF LoginAnswered
  <2>3. Told("login", "ok") => call["login"].reply.pair \in Pair
    BY <1>2, <1>0, <1>c, Carries DEF LoginAnswered
  <2>4. ClientTyped'
    <3>1. CASE Commit("login", call["login"].reply.pair) /\ Told("login", "ok")
      BY <3>1, <2>3, <1>0, CommitTyped
    <3>2. CASE Unavailable BY <3>2, <1>0, UnavailableTyped
    <3>3. CASE Show("error") /\ UNCHANGED <<stored, unsaved, straggled>>
      BY <3>3, <1>0 DEF Show, ClientTyped, States
    <3> QED BY <1>2, <3>1, <3>2, <3>3 DEF LoginAnswered
  <2> QED BY <2>1, <2>2, <2>4, PartsNext
<1> QED BY <1>1, <1>2 DEF Login

LEMMA EndTyped == ASSUME Typed, NEW p \in Enders, End(p) PROVE Typed'
<1>0. ClientTyped /\ RestTyped /\ CallsFit BY Parts
<1>c. p \in Calls /\ p \notin {"boot", "refresh", "login"} BY Names
<1>s. StagesOf(p) = {"idle", "hooks"} \cup Endings /\ StagesOf(p) \subseteq Stages
  BY <1>c DEF StagesOf, Stages, Asking
<1>1. ASSUME NEW ending \in Endings, EndStart(p, ending) PROVE Typed'
  <2>1. CallsFit' BY <1>0, <1>1, <1>c, <1>s, AskOne DEF EndStart, ClientTyped
  <2>2. ClientTyped' /\ RestTyped'
    BY <1>0, <1>1 DEF EndStart, ClientTyped, RestTyped, rest, others
  <2> QED BY <2>1, <2>2, PartsNext
<1>2. ASSUME EndAnswered(p) PROVE Typed'
  <2>1. RestTyped' BY <1>0, <1>2 DEF EndAnswered, RestTyped
  <2>2. call[p].pair \in Pair BY <1>0, <1>2, <1>c, Carries DEF EndAnswered, Bearing
  <2>3. CallsFit' /\ ClientTyped'
    <3>1. CASE /\ Ask(p, "hooks", call[p].pair)
               /\ UNCHANGED <<state, screens, stored, unsaved, straggled>>
      BY <3>1, <2>2, <1>0, <1>c, <1>s, AskOne DEF ClientTyped
    <3>2. CASE Unavailable /\ Done(p)
      BY <3>2, <1>0, <1>c, DoneOne, UnavailableTyped
    <3>3. CASE Done(p) /\ UNCHANGED <<state, screens, stored, unsaved, straggled>>
      BY <3>3, <1>0, <1>c, DoneOne DEF ClientTyped
    <3> QED BY <1>2, <3>1, <3>2, <3>3 DEF EndAnswered
  <2> QED BY <2>1, <2>3, PartsNext
<1>3. ASSUME EndFinished(p) PROVE Typed'
  <2>1. RestTyped' BY <1>0, <1>3 DEF EndFinished, RestTyped, rest, others
  <2>2. CallsFit' BY <1>0, <1>3, <1>c, DoneOne DEF EndFinished
  <2>3. ClientTyped' BY <1>0, <1>3, ClearTyped DEF EndFinished, States
  <2> QED BY <2>1, <2>2, <2>3, PartsNext
<1> QED BY <1>1, <1>2, <1>3 DEF End

\* What a rotation, or the end of a compromised session, makes of the rows.
LEMMA Advanced ==
  ASSUME Typed, NEW pair \in Pair, Renews(pair), Advance(pair)
  PROVE  /\ server' \in [Sessions -> ServerRow]
         /\ server'[pair.id].status = "live" /\ server'[pair.id].gen = pair.gen + 1
         /\ server'[pair.id].compromised = server[pair.id].compromised
         /\ \A s \in Sessions \ {pair.id} : server'[s] = server[s]
         /\ Successor(pair) \in Pair /\ Successor(pair).id = pair.id
         /\ Successor(pair).gen = pair.gen + 1
<1> DEFINE row == server[pair.id]
           new == [row EXCEPT !.gen = pair.gen + 1, !.access = TRUE, !.recent = TRUE]
<1>1. /\ server \in [Sessions -> ServerRow] /\ pair.id \in Sessions /\ row \in ServerRow
      /\ pair.gen \in 1..MaxGen
  BY Parts DEF RestTyped, Pair
<1>2. pair.gen + 1 \in 1..MaxGen /\ row.status = "live"
  BY <1>1, SessionAssumption DEF Renews, Current, Live
<1>3. new \in ServerRow /\ new.status = "live" /\ new.gen = pair.gen + 1
      /\ new.compromised = row.compromised
  BY <1>1, <1>2 DEF ServerRow
<1>4. server' = [server EXCEPT ![pair.id] = new] BY DEF Advance
<1>5. Successor(pair) \in Pair /\ Successor(pair).id = pair.id
      /\ Successor(pair).gen = pair.gen + 1
  BY <1>2 DEF Successor, Pair
<1> HIDE DEF new
<1> QED BY <1>1, <1>3, <1>4, <1>5

LEMMA Condemned ==
  ASSUME Typed, NEW pair \in Pair, Condemn(pair)
  PROVE  /\ server' \in [Sessions -> ServerRow]
         /\ server'[pair.id].status = "revoked"
         /\ \A s \in Sessions \ {pair.id} : server'[s] = server[s]
<1> DEFINE row == server[pair.id]
           new == [row EXCEPT !.status = "revoked", !.compromised = TRUE]
<1>1. server \in [Sessions -> ServerRow] /\ pair.id \in Sessions /\ row \in ServerRow
  BY Parts DEF RestTyped, Pair
<1>2. new \in ServerRow /\ new.status = "revoked" BY <1>1 DEF ServerRow
<1>3. server' = [server EXCEPT ![pair.id] = new] BY DEF Condemn
<1> HIDE DEF new
<1> QED BY <1>1, <1>2, <1>3

\* What a step of the service writes, well typed.
ServiceTyped ==
  /\ server' \in [Sessions -> ServerRow] /\ vouched' \in SUBSET Pair
  /\ estranged' \in SUBSET Sessions /\ faults' \in Nat

LEMMA EstrangedTyped ==
  ASSUME Typed, NEW pair \in Pair, Estranges(pair)
  PROVE  /\ server' \in [Sessions -> ServerRow]
         /\ estranged' \in SUBSET Sessions
<1>1. Condemn(pair) /\ estranged' = estranged \cup {pair.id}
  BY DEF Estranges
<1>2. estranged \in SUBSET Sessions /\ pair.id \in Sessions
  BY Parts DEF RestTyped, Pair
<1> QED BY <1>1, <1>2, Condemned

LEMMA ServeTyped == ASSUME Typed, NEW p \in Calls, Serve(p) PROVE Typed'
<1>0. ClientTyped /\ RestTyped /\ CallsFit BY Parts
<1>1. ClientTyped' BY <1>0 DEF Serve, ClientTyped, client
<1>2. {"ok", "invalid", "mistaken", "rotated", "unavailable", "refused"} \subseteq Kinds
  BY DEF Kinds
<1>3. /\ server \in [Sessions -> ServerRow] /\ vouched \in SUBSET Pair
      /\ estranged \in SUBSET Sessions /\ faults \in Nat
  BY <1>0 DEF RestTyped
<1>4. SUFFICES CallsFit' /\ ServiceTyped
  BY <1>0, <1>1, PartsNext DEF Serve, RestTyped, ServiceTyped, client
<1>b. Breaks => faults' \in Nat BY <1>3 DEF Breaks
<1>5. ASSUME Validate(p) PROVE CallsFit' /\ ServiceTyped
  <2>1. call[p].at = "session" /\ "session" \in Asking BY <1>5 DEF Validate, Asks, Asking
  <2>2. call[p].pair \in Pair BY <2>1, <1>0, Carries DEF Bearing
  <2>3. CallsFit'
    <3>1. CASE Replies(p, "ok", call[p].pair) BY <3>1, <2>1, <2>2, <1>0, <1>2, ReplyOne
    <3>2. CASE Replies(p, "invalid", None) BY <3>2, <2>1, <1>0, <1>2, ReplyOne
    <3>3. CASE Replies(p, "mistaken", None) BY <3>3, <2>1, <1>0, <1>2, ReplyOne
    <3> QED BY <1>5, <3>1, <3>2, <3>3 DEF Validate, Misreads
  <2>4. UNCHANGED <<server, estranged>> /\ vouched' \in SUBSET Pair
    BY <1>5, <1>3, <2>2 DEF Validate
  <2>5. faults' \in Nat BY <1>5, <1>3, <1>b DEF Validate, Misreads
  <2> QED BY <2>3, <2>4, <2>5, <1>3 DEF ServiceTyped
<1>6. ASSUME Rotate(p) PROVE CallsFit' /\ ServiceTyped
  <2> DEFINE pair == call[p].pair
  <2>1. call[p].at = "rotate" /\ "rotate" \in Asking BY <1>6 DEF Rotate, Asks, Asking
  <2>2. pair \in Pair BY <2>1, <1>0, Carries DEF Bearing
  <2>i. Replies(p, "invalid", None) => CallsFit' BY <2>1, <1>0, <1>2, ReplyOne
  <2>3. CASE Estranges(pair) /\ Breaks /\ Replies(p, "invalid", None) /\ UNCHANGED vouched
    BY <2>3, <2>i, <2>2, <1>3, <1>b, EstrangedTyped DEF ServiceTyped
  <2>4. CASE Misreads(p) /\ UNCHANGED <<server, vouched, estranged>>
    <3>1. CallsFit' BY <2>1, <2>4, <1>0, <1>2, ReplyOne DEF Misreads
    <3> QED BY <3>1, <2>4, <1>3, <1>b DEF ServiceTyped, Misreads
  <2>5. CASE /\ Renews(pair) /\ Advance(pair) /\ Replies(p, "ok", Successor(pair))
             /\ vouched' = vouched \cup {Successor(pair)} /\ UNCHANGED <<estranged, faults>>
    <3>1. Successor(pair) \in Pair /\ server' \in [Sessions -> ServerRow]
      BY <2>2, <2>5, Advanced
    <3>2. CallsFit' BY <3>1, <2>1, <2>5, <1>0, <1>2, ReplyOne
    <3> QED BY <3>1, <3>2, <2>5, <1>3 DEF ServiceTyped
  <2>6. CASE Replies(p, "rotated", None) /\ UNCHANGED <<server, vouched, estranged, faults>>
    BY <2>6, <2>1, <1>0, <1>2, <1>3, ReplyOne DEF ServiceTyped
  <2>7. CASE /\ Condemn(pair) /\ Replies(p, "invalid", None)
             /\ UNCHANGED <<vouched, estranged, faults>>
    BY <2>7, <2>i, <2>2, <1>3, Condemned DEF ServiceTyped
  <2>8. CASE Replies(p, "invalid", None) /\ UNCHANGED <<server, vouched, estranged, faults>>
    BY <2>8, <2>i, <1>3 DEF ServiceTyped
  <2> QED BY <1>6, <2>3, <2>4, <2>5, <2>6, <2>7, <2>8 DEF Rotate
<1>7. ASSUME SignIn(p) PROVE CallsFit' /\ ServiceTyped
  <2>1. call[p].at = "login" /\ "login" \in Asking BY <1>7 DEF SignIn, Asks, Asking
  <2>u. UNCHANGED <<estranged, faults>> BY <1>7 DEF SignIn
  <2>2. ASSUME NEW x \in Sessions,
               server' = [server EXCEPT ![x] = [Unborn EXCEPT !.status = "live", !.access = TRUE]],
               Replies(p, "ok", [id |-> x, gen |-> 1]),
               vouched' = vouched \cup {[id |-> x, gen |-> 1]}
        PROVE  CallsFit' /\ ServiceTyped
    <3>1. [id |-> x, gen |-> 1] \in Pair BY SessionAssumption DEF Pair
    <3>2. [Unborn EXCEPT !.status = "live", !.access = TRUE] \in ServerRow
      <4>1. Unborn \in ServerRow BY SessionAssumption DEF Unborn, ServerRow
      <4> QED BY <4>1 DEF ServerRow
    <3>3. CallsFit' BY <3>1, <2>1, <2>2, <1>0, <1>2, ReplyOne
    <3>4. server' \in [Sessions -> ServerRow] BY <3>2, <2>2, <1>3
    <3>5. vouched' \in SUBSET Pair BY <3>1, <2>2, <1>3
    <3> QED BY <3>3, <3>4, <3>5, <2>u, <1>3 DEF ServiceTyped
  <2>3. CASE Replies(p, "refused", None) /\ UNCHANGED <<server, vouched>>
    BY <2>3, <2>1, <2>u, <1>0, <1>2, <1>3, ReplyOne DEF ServiceTyped
  <2> QED BY <1>7, <2>2, <2>3 DEF SignIn
<1>8. ASSUME Ends(p) PROVE CallsFit' /\ ServiceTyped
  <2>1. call[p].at \in Endings /\ call[p].at \in Asking /\ call[p].at \notin {"session", "rotate", "login"}
    BY <1>8 DEF Ends, Asks, Asking, Endings
  <2>2. call[p].pair \in Pair BY <2>1, <1>0, Carries DEF Bearing
  <2>3. server' \in [Sessions -> ServerRow]
    <3>1. [server[call[p].pair.id] EXCEPT !.status = "revoked"] \in ServerRow
      BY <2>2, <1>3 DEF Pair, ServerRow
    <3>2. \/ server' = server
          \/ server' = [server EXCEPT ![call[p].pair.id] =
                          [server[call[p].pair.id] EXCEPT !.status = "revoked"]]
      BY <1>8 DEF Ends
    <3> QED BY <3>1, <3>2, <1>3
  <2>4. Replies(p, "ok", None) \/ Replies(p, "invalid", None) \/ Replies(p, "mistaken", None)
    BY <1>8 DEF Ends, Misreads
  <2>5. CallsFit' BY <2>1, <2>4, <1>0, <1>2, ReplyOne
  <2>6. UNCHANGED <<vouched, estranged>> /\ faults' \in Nat
    BY <1>8, <1>3, <1>b DEF Ends, Misreads
  <2> QED BY <2>3, <2>5, <2>6, <1>3 DEF ServiceTyped
<1> QED BY <1>5, <1>6, <1>7, <1>8 DEF Serve

LEMMA WorldTyped ==
  Typed /\ (\/ \E p \in Calls : Fail(p)
            \/ \E pair \in Pair : Arrive(pair)
            \/ \E s \in Sessions : Pass(s)
            \/ Persist \/ Restart)
    => Typed'
<1> SUFFICES ASSUME Typed,
                    \/ \E p \in Calls : Fail(p)
                    \/ \E pair \in Pair : Arrive(pair)
                    \/ \E s \in Sessions : Pass(s)
                    \/ Persist \/ Restart
             PROVE  Typed'
  OBVIOUS
<1>0. ClientTyped /\ RestTyped /\ CallsFit BY Parts
<1>1. ASSUME NEW p \in Calls, Fail(p) PROVE Typed'
  <2>1. CallsFit' BY <1>0, <1>1, ReplyOne DEF Fail, Kinds
  <2>2. ClientTyped' BY <1>0, <1>1 DEF Fail, ClientTyped, client
  <2>3. late' \in [Pair -> Nat] /\ lost' \in BOOLEAN /\ faults' \in Nat
    <3>1. late \in [Pair -> Nat] /\ lost \in BOOLEAN /\ faults \in Nat BY <1>0 DEF RestTyped
    <3>2. faults' = faults \/ faults' = faults + 1 BY <1>1 DEF Fail, Breaks
    <3>3. late' = late \/ late' = [late EXCEPT ![call[p].pair] = @ + 1] BY <1>1 DEF Fail
    <3>4. lost' \in BOOLEAN BY <1>1, <3>1 DEF Fail
    <3> QED BY <3>1, <3>2, <3>3, <3>4
  <2>4. RestTyped' BY <1>0, <1>1, <2>3 DEF Fail, RestTyped, client
  <2> QED BY <2>1, <2>2, <2>4, PartsNext
<1>5. ASSUME NEW pair \in Pair, Arrive(pair) PROVE Typed'
  <2>1. ClientTyped' BY <1>0, <1>5 DEF Arrive, ClientTyped, client
  <2>2. CallsFit' BY <1>0, <1>5 DEF Arrive, CallsFit, Fits, Heard
  <2>3. late' \in [Pair -> Nat] /\ lost' = TRUE
    BY <1>0, <1>5 DEF Arrive, RestTyped
  <2>4. server' \in [Sessions -> ServerRow] /\ estranged' \in SUBSET Sessions
    <3>1. estranged \in SUBSET Sessions BY <1>0 DEF RestTyped
    <3>2. CASE Estranges(pair) BY <3>2, EstrangedTyped
    <3>3. CASE Renews(pair) /\ Advance(pair) /\ UNCHANGED estranged
      BY <3>1, <3>3, Advanced
    <3>4. CASE Condemn(pair) /\ UNCHANGED estranged BY <3>1, <3>4, Condemned
    <3> QED BY <1>5, <3>2, <3>3, <3>4 DEF Arrive
  <2>5. RestTyped' BY <1>0, <1>5, <2>3, <2>4 DEF Arrive, RestTyped, client
  <2> QED BY <2>1, <2>2, <2>5, PartsNext
<1>2. ASSUME NEW s \in Sessions, Pass(s) PROVE Typed'
  <2>1. server' \in [Sessions -> ServerRow]
    <3> DEFINE row == server[s]
    <3>1. row \in ServerRow BY <1>0 DEF RestTyped
    <3>2. /\ [row EXCEPT !.access = FALSE] \in ServerRow
          /\ [row EXCEPT !.recent = FALSE] \in ServerRow
          /\ [row EXCEPT !.status = "revoked"] \in ServerRow
      BY <3>1 DEF ServerRow
    <3>3. \/ server' = [server EXCEPT ![s] = [row EXCEPT !.access = FALSE]]
          \/ server' = [server EXCEPT ![s] = [row EXCEPT !.recent = FALSE]]
          \/ server' = [server EXCEPT ![s] = [row EXCEPT !.status = "revoked"]]
      BY <1>2 DEF Pass
    <3> QED BY <3>2, <3>3, <1>0 DEF RestTyped
  <2>2. ClientTyped' /\ RestTyped' BY <1>0, <1>2, <2>1 DEF Pass, ClientTyped, RestTyped, client, history
  <2>3. CallsFit' BY <1>0, <1>2 DEF Pass, CallsFit, Fits, Heard
  <2> QED BY <2>2, <2>3, PartsNext
<1>3. ASSUME Persist PROVE Typed'
  <2>1. ClientTyped' BY <1>0, <1>3 DEF Persist, ClientTyped
  <2>2. faults' \in Nat /\ disk' \in Pair \cup {None} /\ spoiled' \in BOOLEAN
    <3>1. \/ disk' = stored /\ UNCHANGED <<spoiled, faults>>
          \/ faults' = faults + 1 /\ spoiled' = TRUE /\ UNCHANGED disk
      BY <1>3 DEF Persist
    <3>2. stored \in Pair \cup {None} /\ disk \in Pair \cup {None}
          /\ faults \in Nat /\ spoiled \in BOOLEAN
      BY <1>0 DEF ClientTyped, RestTyped
    <3>3. CASE disk' = stored /\ UNCHANGED <<spoiled, faults>> BY <3>2, <3>3
    <3>4. CASE faults' = faults + 1 /\ spoiled' = TRUE /\ UNCHANGED disk BY <3>2, <3>4
    <3> QED BY <3>1, <3>3, <3>4
  <2>3. RestTyped' BY <1>0, <1>3, <2>2 DEF Persist, RestTyped
  <2>4. CallsFit' BY <1>0, <1>3 DEF Persist, CallsFit, Fits, Heard
  <2> QED BY <2>1, <2>3, <2>4, PartsNext
<1>4. ASSUME Restart PROVE Typed'
  <2>1. ClientTyped' BY <1>0, <1>4 DEF Restart, ClientTyped, States
  <2>3. restarts' \in Nat BY <1>0, <1>4 DEF Restart, RestTyped
  <2>4. RestTyped' BY <1>0, <1>4, <2>3 DEF Restart, RestTyped
  <2>2. CallsFit'
    <3>1. call' \in [Calls -> CallRecord] BY <1>4, IdleFits DEF Restart
    <3>2. \A p \in Calls : call'[p] = Idle BY <1>4 DEF Restart
    <3>3. \A p \in Calls : Fits(p, call[p])' BY <3>2, IdleFits DEF Fits, Heard
    <3> QED BY <3>1, <3>3 DEF CallsFit
  <2> QED BY <2>1, <2>2, <2>4, PartsNext
<1> QED BY <1>1, <1>2, <1>3, <1>4, <1>5

LEMMA NextTyped == Typed /\ [Next]_vars => Typed'
<1> SUFFICES ASSUME Typed, [Next]_vars PROVE Typed' OBVIOUS
<1>1. CASE UNCHANGED vars
  BY <1>1 DEF vars, client, history, Typed, TypeOK, CallsFit, Fits, Heard
<1>2. CASE Next
  BY <1>2, BootTyped, RefreshTyped, LoginTyped, EndTyped, ServeTyped, WorldTyped DEF Next
<1> QED BY <1>1, <1>2

\* The type invariant holds in every reachable state.
THEOREM TypeCorrect == Spec => []TypeOK
<1>1. Spec => []Typed
  <2>1. Init => Typed BY InitTyped
  <2>2. Typed /\ [Next]_vars => Typed' BY NextTyped
  <2> QED BY <2>1, <2>2, PTL DEF Spec
<1>2. Typed => TypeOK BY DEF Typed
<1> QED BY <1>1, <1>2, PTL

-----------------------------------------------------------------------------
(* Every pair that is held belongs to a session that was created, and what *)
(* is going to be committed was accepted.                                  *)

\* What the steps of the store have in common.
ClientStep(p) ==
  /\ UNCHANGED <<server, estranged, vouched, disk>>
  /\ \E c : /\ call' = [call EXCEPT ![p] = c] /\ c.reply = None
            /\ c.pair \in {None, stored, disk, call[p].pair}
  /\ \/ stored' \in {stored, None, call[p].pair}
     \/ call[p].at \in {"rotate", "login"} /\ Told(p, "ok") /\ stored' = call[p].reply.pair

LEMMA AskStep ==
  ASSUME NEW p, NEW at, NEW pair \in {None, stored, disk, call[p].pair}, Ask(p, at, pair)
  PROVE  \E c : /\ call' = [call EXCEPT ![p] = c] /\ c.reply = None
                /\ c.pair \in {None, stored, disk, call[p].pair}
<1>1. [at |-> at, pair |-> pair, reply |-> None].reply = None
      /\ [at |-> at, pair |-> pair, reply |-> None].pair = pair
  OBVIOUS
<1> QED BY <1>1 DEF Ask

LEMMA DoneStep ==
  ASSUME NEW p, Done(p)
  PROVE  \E c : /\ call' = [call EXCEPT ![p] = c] /\ c.reply = None
                /\ c.pair \in {None, stored, disk, call[p].pair}
<1>1. Idle.reply = None /\ Idle.pair = None BY DEF Idle
<1> QED BY <1>1 DEF Done

LEMMA CommitStep ==
  ASSUME NEW p, NEW pair, Commit(p, pair)
  PROVE  stored' \in {None, pair} /\ unsaved' = TRUE
BY DEF Commit, Clear

LEMMA BootSteps == Boot => ClientStep("boot")
<1> SUFFICES ASSUME Boot PROVE ClientStep("boot") OBVIOUS
<1> USE DEF others, rest
<1>1. CASE BootStart BY <1>1, AskStep DEF BootStart, ClientStep
<1>2. CASE BootRead BY <1>2, AskStep DEF BootRead, ClientStep
<1>3. CASE BootLoad BY <1>3, AskStep DEF BootLoad, ClientStep
<1>4. CASE BootUnread BY <1>4, DoneStep DEF BootUnread, ClientStep, client
<1>5. CASE BootReady
  <2>1. UNCHANGED <<server, estranged, vouched, disk, stored>> BY <1>5 DEF BootReady, Unavailable
  <2>2. Done("boot") \/ Ask("boot", "session", call["boot"].pair) BY <1>5 DEF BootReady
  <2> QED BY <2>1, <2>2, AskStep, DoneStep DEF ClientStep
<1>6. CASE BootValidated
  <2>1. UNCHANGED <<server, estranged, vouched, disk>> BY <1>6 DEF BootValidated
  <2>2. Done("boot") \/ Ask("boot", "rotate", call["boot"].pair) BY <1>6 DEF BootValidated
  <2>3. stored' \in {stored, None, call["boot"].pair}
    BY <1>6, CommitStep DEF BootValidated, Unavailable
  <2> QED BY <2>1, <2>2, <2>3, AskStep, DoneStep DEF ClientStep
<1>7. CASE Rotated("boot")
  <2>1. UNCHANGED <<server, estranged, vouched, disk>> /\ Done("boot") BY <1>7 DEF Rotated
  <2>2. \/ stored' \in {stored, None}
        \/ Told("boot", "ok") /\ stored' = call["boot"].reply.pair
    BY <1>7, CommitStep DEF Rotated, Unavailable, Clear
  <2>3. call["boot"].at = "rotate" BY <1>7 DEF Rotated
  <2> QED BY <2>1, <2>2, <2>3, DoneStep DEF ClientStep
<1> QED BY <1>1, <1>2, <1>3, <1>4, <1>5, <1>6, <1>7 DEF Boot

LEMMA RefreshSteps == Refresh => ClientStep("refresh")
<1> SUFFICES ASSUME Refresh PROVE ClientStep("refresh") OBVIOUS
<1> USE DEF others, rest
<1>1. CASE RefreshStart BY <1>1, AskStep DEF RefreshStart, ClientStep
<1>2. CASE Rotated("refresh")
  <2>1. UNCHANGED <<server, estranged, vouched, disk>> /\ Done("refresh") BY <1>2 DEF Rotated
  <2>2. \/ stored' \in {stored, None}
        \/ Told("refresh", "ok") /\ stored' = call["refresh"].reply.pair
    BY <1>2, CommitStep DEF Rotated, Unavailable, Clear
  <2>3. call["refresh"].at = "rotate" BY <1>2 DEF Rotated
  <2> QED BY <2>1, <2>2, <2>3, DoneStep DEF ClientStep
<1> QED BY <1>1, <1>2 DEF Refresh

LEMMA LoginSteps == Login => ClientStep("login")
<1> SUFFICES ASSUME Login PROVE ClientStep("login") OBVIOUS
<1> USE DEF others, rest
<1>1. CASE LoginStart BY <1>1, AskStep DEF LoginStart, ClientStep
<1>2. CASE LoginAnswered
  <2>1. UNCHANGED <<server, estranged, vouched, disk>> /\ Done("login") BY <1>2 DEF LoginAnswered
  <2>2. \/ stored' \in {stored, None}
        \/ Told("login", "ok") /\ stored' = call["login"].reply.pair
    BY <1>2, CommitStep DEF LoginAnswered, Unavailable
  <2>3. call["login"].at = "login" BY <1>2 DEF LoginAnswered
  <2> QED BY <2>1, <2>2, <2>3, DoneStep DEF ClientStep
<1> QED BY <1>1, <1>2 DEF Login

LEMMA EndSteps == ASSUME NEW p, End(p) PROVE ClientStep(p) /\ stored' \in {stored, None}
<1> USE DEF others, rest
<1>1. CASE \E ending \in Endings : EndStart(p, ending)
  BY <1>1, AskStep DEF EndStart, ClientStep
<1>2. CASE EndAnswered(p)
  <2>1. UNCHANGED <<server, estranged, vouched, disk, stored>> BY <1>2 DEF EndAnswered, Unavailable
  <2>2. Done(p) \/ Ask(p, "hooks", call[p].pair) BY <1>2 DEF EndAnswered
  <2> QED BY <2>1, <2>2, AskStep, DoneStep DEF ClientStep
<1>3. CASE EndFinished(p)
  BY <1>3, DoneStep DEF EndFinished, Clear, ClientStep
<1> QED BY <1>1, <1>2, <1>3 DEF End

\* The steps of the service and of clocks: no session is created twice or revived.
Onward(s) ==
  /\ server[s].status # "unborn" => server'[s].status # "unborn"
  /\ server[s].status = "revoked" => server'[s].status = "revoked"

LEMMA RowsOnward ==
  ASSUME Typed, NEW pair \in Pair,
         UNCHANGED server \/ (Renews(pair) /\ Advance(pair)) \/ Condemn(pair)
  PROVE  \A s \in Sessions : Onward(s)
<1>1. CASE UNCHANGED server BY <1>1 DEF Onward
<1>2. CASE Renews(pair) /\ Advance(pair)
  <2>1. server[pair.id].status = "live" BY <1>2 DEF Renews, Current, Live
  <2> QED BY <1>2, <2>1, Advanced DEF Onward
<1>3. CASE Condemn(pair) BY <1>3, Condemned DEF Onward
<1> QED BY <1>1, <1>2, <1>3

LEMMA ServeOnward ==
  ASSUME Typed, NEW p \in Calls, Serve(p)
  PROVE  \A s \in Sessions : Onward(s)
<1>1. server \in [Sessions -> ServerRow] BY Parts DEF RestTyped
<1>2. CASE Validate(p) BY <1>2 DEF Validate, Onward
<1>3. CASE Rotate(p)
  <2>1. call[p].pair \in Pair BY <1>3, Carries, Parts DEF Rotate, Asks, Bearing
  <2>2. \/ UNCHANGED server
        \/ Renews(call[p].pair) /\ Advance(call[p].pair)
        \/ Condemn(call[p].pair)
    BY <1>3 DEF Rotate, Estranges
  <2> QED BY <2>1, <2>2, RowsOnward
<1>4. CASE SignIn(p)
  <2>1. [Unborn EXCEPT !.status = "live", !.access = TRUE].status = "live" BY DEF Unborn
  <2> QED BY <1>4, <1>1, <2>1 DEF SignIn, Onward
<1>5. CASE Ends(p)
  <2> DEFINE row == server[call[p].pair.id]
  <2>1. call[p].pair \in Pair BY <1>5, Carries, Parts DEF Ends, Asks, Bearing
  <2>2. row \in ServerRow BY <2>1, <1>1 DEF Pair
  <2>3. \/ UNCHANGED server
        \/ /\ row.status = "live"
           /\ server' = [server EXCEPT ![call[p].pair.id] = [row EXCEPT !.status = "revoked"]]
    BY <1>5 DEF Ends, Current, Resolves, Live
  <2>4. [row EXCEPT !.status = "revoked"].status = "revoked" BY <2>2 DEF ServerRow
  <2> QED BY <2>3, <2>4, <1>1 DEF Onward
<1> QED BY <1>2, <1>3, <1>4, <1>5 DEF Serve

LEMMA PassOnward ==
  ASSUME Typed, NEW s \in Sessions, Pass(s)
  PROVE  /\ \A x \in Sessions : Onward(x)
         /\ \A x \in Sessions : server'[x].status # server[x].status =>
              server'[x].status = "revoked"
         /\ \A x \in Sessions : server'[x].gen = server[x].gen
                                /\ server'[x].compromised = server[x].compromised
<1> DEFINE row == server[s]
<1>1. server \in [Sessions -> ServerRow] /\ row \in ServerRow BY Parts DEF RestTyped
<1>2. PICK new :
        /\ server' = [server EXCEPT ![s] = new]
        /\ \/ new = [row EXCEPT !.access = FALSE]
           \/ new = [row EXCEPT !.recent = FALSE]
           \/ row.status = "live" /\ new = [row EXCEPT !.status = "revoked"]
  BY DEF Pass
<1>3. /\ new.status # row.status => row.status = "live" /\ new.status = "revoked"
      /\ new.gen = row.gen /\ new.compromised = row.compromised
  BY <1>1, <1>2 DEF ServerRow
<1> QED BY <1>1, <1>2, <1>3 DEF Onward

BornNext(x) == x \in Pair => server'[x.id].status # "unborn"

\* The answer that Serve adds to a call: what it commits is accepted, its session
\* exists, and one that a renewal finds invalid is over.
GoodAnswer(p) ==
  \E c : /\ call' = [call EXCEPT ![p] = c]
         /\ GoodCall(c)' /\ BornCall(c)' /\ c.pair = call[p].pair /\ c.at = call[p].at

LEMMA ReplyGood ==
  ASSUME NEW p \in Calls, call[p] \in CallRecord, BornNext(call[p].pair),
         NEW kind, NEW pair, Replies(p, kind, pair), BornNext(pair),
         kind = "ok" /\ call[p].at \in {"rotate", "login"} => pair \in vouched',
         kind = "ok" /\ call[p].at = "session" => call[p].pair \in vouched',
         kind = "invalid" /\ call[p].at = "rotate" =>
           server'[call[p].pair.id].status = "revoked"
  PROVE  GoodAnswer(p)
<1> PICK r : r = [kind |-> kind, pair |-> pair] OBVIOUS
<1> PICK c : c = [call[p] EXCEPT !.reply = r] OBVIOUS
<1>1. c.at = call[p].at /\ c.pair = call[p].pair /\ c.reply = r BY DEF CallRecord
<1>2. r.kind = kind /\ r.pair = pair OBVIOUS
<1>3. GoodCall(c)' BY <1>1, <1>2 DEF GoodCall, Heard
<1>4. Born(c.pair)' BY <1>1 DEF Born, BornNext
<1>5. c.reply # None => Born(c.reply.pair)' BY <1>1, <1>2 DEF Born, BornNext
<1>6. c.at = "rotate" /\ Heard(c, "invalid") => server'[c.pair.id].status = "revoked"
  BY <1>1, <1>2 DEF Heard
<1>7. BornCall(c)' BY <1>4, <1>5, <1>6 DEF BornCall, Heard
<1>8. call' = [call EXCEPT ![p] = c] BY DEF Replies
<1> QED BY <1>1, <1>3, <1>7, <1>8 DEF GoodAnswer

LEMMA Answered ==
  ASSUME Typed, BornInv, NEW p \in Calls, Serve(p)
  PROVE  GoodAnswer(p)
<1>0. ClientTyped /\ RestTyped /\ CallsFit BY Parts
<1>1. server \in [Sessions -> ServerRow] BY <1>0 DEF RestTyped
<1>2. call[p] \in CallRecord BY <1>0 DEF CallsFit
<1>3. \A s \in Sessions : Onward(s) BY ServeOnward
<1>4. Born(call[p].pair) /\ BornNext(call[p].pair)
  <2>1. Born(call[p].pair) BY DEF BornInv, BornCall
  <2> QED BY <2>1, <1>3 DEF Born, BornNext, Onward, Pair
<1>n. BornNext(None) BY NoneAssumption DEF BornNext
<1>6. CASE Validate(p)
  <2>1. call[p].at = "session" BY <1>6 DEF Validate, Asks
  <2>2. CASE Replies(p, "ok", call[p].pair) /\ vouched' = vouched \cup {call[p].pair}
    BY <2>1, <2>2, <1>2, <1>4, ReplyGood
  <2>3. CASE Replies(p, "invalid", None) \/ Replies(p, "mistaken", None)
    BY <2>1, <2>3, <1>n, <1>2, <1>4, ReplyGood
  <2> QED BY <1>6, <2>2, <2>3 DEF Validate, Misreads
<1>7. CASE Rotate(p)
  <2> DEFINE pair == call[p].pair
             row == server[pair.id]
  <2>1. call[p].at = "rotate" BY <1>7 DEF Rotate, Asks
  <2>2. pair \in Pair /\ row \in ServerRow BY <2>1, <1>0, <1>1, Carries DEF Bearing, Pair
  <2>3. row.status # "unborn" BY <2>2, <1>4 DEF Born
  <2>4. CASE /\ Renews(pair) /\ Advance(pair) /\ Replies(p, "ok", Successor(pair))
             /\ vouched' = vouched \cup {Successor(pair)}
    <3>1. Successor(pair).id = pair.id BY <2>2, <2>4, Advanced
    <3>2. BornNext(Successor(pair)) BY <3>1, <2>2, <1>4 DEF BornNext
    <3> QED BY <3>2, <2>1, <2>4, <1>2, <1>4, ReplyGood
  <2>5. CASE Replies(p, "rotated", None) \/ Replies(p, "mistaken", None)
    BY <2>1, <2>5, <1>n, <1>2, <1>4, ReplyGood
  <2>6. CASE Condemn(pair) /\ Replies(p, "invalid", None)
    <3>1. server'[pair.id].status = "revoked" BY <2>2, <2>6, Condemned
    <3> QED BY <3>1, <2>1, <2>6, <1>n, <1>2, <1>4, ReplyGood
  <2>7. CASE ~Live(pair) /\ Replies(p, "invalid", None) /\ UNCHANGED server
    <3>1. server'[pair.id].status = "revoked" BY <2>2, <2>3, <2>7 DEF ServerRow, Live
    <3> QED BY <3>1, <2>1, <2>7, <1>n, <1>2, <1>4, ReplyGood
  <2> QED BY <1>7, <2>4, <2>5, <2>6, <2>7 DEF Rotate, Estranges, Misreads
<1>8. CASE SignIn(p)
  <2>1. call[p].at = "login" BY <1>8 DEF SignIn, Asks
  <2>2. ASSUME NEW s \in Sessions, Replies(p, "ok", [id |-> s, gen |-> 1]),
               server' = [server EXCEPT ![s] = [Unborn EXCEPT !.status = "live", !.access = TRUE]],
               vouched' = vouched \cup {[id |-> s, gen |-> 1]}
        PROVE  GoodAnswer(p)
    <3>1. server'[s].status = "live" BY <2>2, <1>1 DEF Unborn
    <3>2. BornNext([id |-> s, gen |-> 1]) BY <3>1 DEF BornNext
    <3> QED BY <3>2, <2>1, <2>2, <1>2, <1>4, ReplyGood
  <2>3. CASE Replies(p, "refused", None) BY <2>1, <2>3, <1>n, <1>2, <1>4, ReplyGood
  <2> QED BY <1>8, <2>2, <2>3 DEF SignIn
<1>9. CASE Ends(p)
  <2>1. call[p].at \notin {"rotate", "login", "session"} BY <1>9 DEF Ends, Asks, Endings
  <2>2. Replies(p, "ok", None) \/ Replies(p, "invalid", None) \/ Replies(p, "mistaken", None)
    BY <1>9 DEF Ends, Misreads
  <2> QED BY <2>1, <2>2, <1>n, <1>2, <1>4, ReplyGood
<1> QED BY <1>6, <1>7, <1>8, <1>9 DEF Serve

\* One call changes, the others stay.
LEMMA OthersStay ==
  ASSUME CallsFit, NEW p \in Calls, NEW c, call' = [call EXCEPT ![p] = c]
  PROVE  call'[p] = c /\ \A q \in Calls \ {p} : call'[q] = call[q]
BY DEF CallsFit

LEMMA ClientBorn ==
  ASSUME Typed, BornInv, NEW p \in Calls, ClientStep(p)
  PROVE  BornInv'
<1>0. CallsFit /\ ClientTyped BY Parts
<1>1. PICK c : /\ call' = [call EXCEPT ![p] = c] /\ c.reply = None
               /\ c.pair \in {None, stored, disk, call[p].pair}
  BY DEF ClientStep
<1>2. server' = server /\ disk' = disk BY DEF ClientStep
<1>3. Born(None) /\ Born(stored) /\ Born(disk) /\ Born(call[p].pair)
  BY NoneAssumption DEF Born, BornInv, BornCall
<1>4. Told(p, "ok") => Born(call[p].reply.pair) BY DEF BornInv, BornCall, Told
<1>5. Born(stored)' /\ Born(disk)' BY <1>2, <1>3, <1>4 DEF ClientStep, Born
<1>6. BornCall(c)' BY <1>1, <1>2, <1>3 DEF BornCall, Born, Heard
<1>7. \A q \in Calls \ {p} : BornCall(call[q])'
  BY <1>0, <1>1, <1>2, OthersStay DEF BornInv, BornCall, Born, Heard
<1>8. BornCall(call[p])' BY <1>0, <1>1, <1>6, OthersStay DEF BornCall, Born, Heard
<1> QED BY <1>5, <1>7, <1>8 DEF BornInv

\* What a call knows stays true.
LEMMA BornStays ==
  ASSUME Typed, BornInv, \A s \in Sessions : Onward(s)
  PROVE  /\ BornNext(stored) /\ BornNext(disk)
         /\ \A q \in Calls : call'[q] = call[q] => BornCall(call[q])'
<1>1. \A x : Born(x) => BornNext(x) BY DEF Born, BornNext, Onward, Pair
<1>2. ASSUME NEW q \in Calls, call'[q] = call[q] PROVE BornCall(call[q])'
  <2>1. PICK c : c = call[q] OBVIOUS
  <2>2. c.at = "rotate" => c.pair \in Pair BY <2>1, Carries, Parts DEF Bearing
  <2>3. BornCall(c) BY <2>1 DEF BornInv
  <2>4. BornCall(c)' BY <2>2, <2>3, <1>1 DEF BornCall, Born, BornNext, Onward, Pair, Heard
  <2> QED BY <2>1, <2>4, <1>2
<1> QED BY <1>1, <1>2 DEF BornInv

LEMMA NextBorn == Typed /\ BornInv /\ [Next]_vars => BornInv'
<1> SUFFICES ASSUME Typed, BornInv, [Next]_vars PROVE BornInv' OBVIOUS
<1>0. ClientTyped /\ RestTyped /\ CallsFit BY Parts
<1>1. CASE UNCHANGED vars
  BY <1>1 DEF vars, client, BornInv, BornCall, Born, Heard
<1>2. CASE Boot BY <1>2, BootSteps, ClientBorn, Names
<1>3. CASE Refresh BY <1>3, RefreshSteps, ClientBorn, Names
<1>4. CASE Login BY <1>4, LoginSteps, ClientBorn, Names
<1>5. ASSUME NEW p \in Enders, End(p) PROVE BornInv' BY <1>5, EndSteps, ClientBorn, Names
<1>6. ASSUME NEW p \in Calls, Serve(p) PROVE BornInv'
  <2>1. PICK c : call' = [call EXCEPT ![p] = c] /\ BornCall(c)'
    BY <1>6, Answered DEF GoodAnswer
  <2>2. stored' = stored /\ disk' = disk BY <1>6 DEF Serve, client
  <2>3. call'[p] = c /\ \A q \in Calls \ {p} : call'[q] = call[q] BY <2>1, <1>0, OthersStay
  <2>4. BornCall(call[p])' BY <2>1, <2>3
  <2>5. \A s \in Sessions : Onward(s) BY <1>6, ServeOnward
  <2>6. \A q \in Calls \ {p} : BornCall(call[q])' BY <2>3, <2>5, BornStays
  <2>7. Born(stored)' /\ Born(disk)' BY <2>2, <2>5, BornStays DEF Born, BornNext
  <2> QED BY <2>4, <2>6, <2>7 DEF BornInv
<1>7. ASSUME NEW p \in Calls, Fail(p) PROVE BornInv'
  <2>1. UNCHANGED <<server, stored, disk>> BY <1>7 DEF Fail, client
  <2>2. PICK c : c = [call[p] EXCEPT !.reply = [kind |-> "unavailable", pair |-> None]] OBVIOUS
  <2>3. call' = [call EXCEPT ![p] = c] BY <1>7, <2>2 DEF Fail, Replies
  <2>4. call[p] \in CallRecord BY <1>0 DEF CallsFit
  <2>5. c.pair = call[p].pair /\ c.reply.pair = None /\ c.reply.kind = "unavailable"
    BY <2>2, <2>4 DEF CallRecord
  <2>6. BornCall(c)
    BY <2>5, NoneAssumption DEF BornInv, BornCall, Born, Heard
  <2>7. call'[p] = c /\ \A q \in Calls \ {p} : call'[q] = call[q] BY <2>3, <1>0, OthersStay
  <2> QED BY <2>1, <2>6, <2>7 DEF BornInv, BornCall, Born, Heard
<1>8. ASSUME NEW s \in Sessions, Pass(s) PROVE BornInv'
  <2>1. UNCHANGED <<stored, disk, call>> BY <1>8 DEF Pass, client
  <2>2. \A x \in Sessions : Onward(x) BY <1>8, PassOnward
  <2>3. \A q \in Calls : BornCall(call[q])' BY <2>1, <2>2, BornStays
  <2>4. Born(stored)' /\ Born(disk)' BY <2>1, <2>2, BornStays DEF Born, BornNext
  <2> QED BY <2>3, <2>4 DEF BornInv
<1>9. CASE Persist
  BY <1>9 DEF Persist, BornInv, BornCall, Born, Heard
<1>10. CASE Restart
  <2>1. UNCHANGED <<server, disk>> /\ stored' = None BY <1>10 DEF Restart
  <2>2. \A p \in Calls : call'[p] = Idle BY <1>10 DEF Restart
  <2>3. BornCall(Idle)' BY NoneAssumption DEF BornCall, Idle, Born, Heard
  <2>4. \A p \in Calls : BornCall(call[p])' BY <2>2, <2>3 DEF BornCall, Born, Heard
  <2> QED BY <2>1, <2>4, NoneAssumption DEF BornInv, Born
<1>11. ASSUME NEW pair \in Pair, Arrive(pair) PROVE BornInv'
  <2>1. UNCHANGED <<stored, disk, call>> BY <1>11 DEF Arrive, client
  <2>2. \A x \in Sessions : Onward(x) BY <1>11, RowsOnward DEF Arrive, Estranges
  <2>3. \A q \in Calls : BornCall(call[q])' BY <2>1, <2>2, BornStays
  <2>4. Born(stored)' /\ Born(disk)' BY <2>1, <2>2, BornStays DEF Born, BornNext
  <2> QED BY <2>3, <2>4 DEF BornInv
<1> QED BY <1>1, <1>2, <1>3, <1>4, <1>5, <1>6, <1>7, <1>8, <1>9, <1>10, <1>11 DEF Next

LEMMA InitBorn == Init => BornInv
BY NoneAssumption DEF Init, BornInv, BornCall, Idle, Born, Heard

\* A clear that follows an answered renewal or session check, for the reasons of SessionKept.
Excused ==
  stored # None /\ stored' = None =>
    \/ \E p \in Enders : call[p].at = "hooks"
    \/ server[stored.id].status = "revoked"
    \/ \E p \in Calls : call[p].at = "rotate" /\ Told(p, "mistaken")
    \/ \E p \in Calls :
         Told(p, "ok") /\ call[p].reply.pair # None /\ MayBeStale(call[p].reply.pair)
    \/ straggled' \/ restarts' # restarts

LEMMA CommitExcused ==
  ASSUME NEW p \in Calls, NEW pair \in Pair, Commit(p, pair), Told(p, "ok"),
         call[p].reply.pair = pair
  PROVE  Excused
<1>1. pair # None BY NoneAssumption
<1> QED BY <1>1 DEF Commit, Excused

LEMMA RotatedExcused ==
  ASSUME Typed, BornInv, NEW p \in Calls, Rotated(p)
  PROVE  Excused
<1>0. call[p].at = "rotate" BY DEF Rotated
<1>1. CASE Told(p, "ok") /\ Commit(p, call[p].reply.pair)
  BY <1>0, <1>1, Carries, Parts, CommitExcused
<1>2. CASE Told(p, "invalid") /\ Clear(p, "error")
  <2>1. server[call[p].pair.id].status = "revoked"
    BY <1>0, <1>2 DEF BornInv, BornCall, Told, Heard
  <2>2. straggled' \/ stored = call[p].pair BY <1>2 DEF Clear, Stray
  <2> QED BY <2>1, <2>2 DEF Excused
<1>3. CASE Unavailable BY <1>3 DEF Unavailable, Excused
<1>4. CASE Told(p, "mistaken") BY <1>0, <1>4 DEF Excused
<1> QED BY <1>1, <1>2, <1>3, <1>4 DEF Rotated, Denied

LEMMA NextExcused == Typed /\ BornInv /\ [Next]_vars => Excused
<1> SUFFICES ASSUME Typed, BornInv, [Next]_vars, stored # None, stored' = None
             PROVE  Excused
  BY DEF Excused
<1>1. CASE UNCHANGED vars BY <1>1 DEF vars, client
<1>2. CASE Boot
  <2>1. CASE BootStart \/ BootRead \/ BootUnread
    BY <2>1 DEF BootStart, BootRead, BootUnread, client
  <2>2. CASE BootLoad BY <2>2 DEF BootLoad, Excused
  <2>3. CASE BootReady BY <2>3 DEF BootReady, Unavailable
  <2>4. CASE BootValidated
    <3>1. CASE Told("boot", "ok") /\ Commit("boot", call["boot"].pair)
      BY <2>4, <3>1, Carries, Parts, Names, CommitExcused DEF BootValidated, Bearing
    <3> QED BY <2>4, <3>1 DEF BootValidated, Unavailable
  <2>5. CASE Rotated("boot") BY <2>5, RotatedExcused, Names
  <2> QED BY <1>2, <2>1, <2>2, <2>3, <2>4, <2>5 DEF Boot
<1>3. CASE Refresh
  <2>1. CASE RefreshStart BY <2>1 DEF RefreshStart
  <2>2. CASE Rotated("refresh") BY <2>2, RotatedExcused, Names
  <2> QED BY <1>3, <2>1, <2>2 DEF Refresh
<1>4. CASE Login
  <2>1. CASE LoginStart BY <2>1 DEF LoginStart
  <2>2. CASE LoginAnswered
    <3>1. CASE Told("login", "ok") /\ Commit("login", call["login"].reply.pair)
      BY <2>2, <3>1, Carries, Parts, Names, CommitExcused DEF LoginAnswered
    <3> QED BY <2>2, <3>1 DEF LoginAnswered, Unavailable
  <2> QED BY <1>4, <2>1, <2>2 DEF Login
<1>5. ASSUME NEW p \in Enders, End(p) PROVE Excused
  <2>1. CASE EndFinished(p) BY <2>1 DEF EndFinished, Excused
  <2>2. CASE EndAnswered(p) BY <2>2 DEF EndAnswered, Unavailable
  <2>3. CASE \E ending \in Endings : EndStart(p, ending) BY <2>3 DEF EndStart
  <2> QED BY <1>5, <2>1, <2>2, <2>3 DEF End
<1>6. ASSUME NEW p \in Calls, Serve(p) PROVE Excused BY <1>6 DEF Serve, client
<1>7. ASSUME NEW p \in Calls, Fail(p) PROVE Excused BY <1>7 DEF Fail, client
<1>8. ASSUME NEW s \in Sessions, Pass(s) PROVE Excused BY <1>8 DEF Pass, client
<1>9. CASE Persist BY <1>9 DEF Persist
<1>10. CASE Restart
  <2>1. restarts' # restarts BY <1>10, Parts DEF Restart, RestTyped
  <2> QED BY <2>1 DEF Excused
<1>11. ASSUME NEW pair \in Pair, Arrive(pair) PROVE Excused BY <1>11 DEF Arrive, client
<1> QED BY <1>1, <1>2, <1>3, <1>4, <1>5, <1>6, <1>7, <1>8, <1>9, <1>10, <1>11 DEF Next

\* However the calls of the store overlap, and whatever is lost or late, credentials
\* go for one of the reasons SessionKept names: the only outage among them is a
\* failure of the service's database that Refresh answers as an invalid token.
THEOREM CredentialsKept == Spec => SessionKept
<1>1. Init => Typed /\ BornInv BY InitTyped, InitBorn
<1>2. Typed /\ BornInv /\ [Next]_vars => (Typed /\ BornInv)' BY NextTyped, NextBorn
<1>3. Typed /\ BornInv /\ [Next]_vars => [Excused]_vars BY NextExcused
<1>4. SessionKept <=> [][Excused]_vars
  <2>1. SessionKept <=> [][Excused]_vars BY DEF SessionKept, Excused
  <2> QED BY <2>1
<1> QED BY <1>1, <1>2, <1>3, <1>4, PTL DEF Spec

-----------------------------------------------------------------------------
(* What is shown was accepted.                                             *)

Accepted == \A p \in Calls : GoodCall(call[p])

LEMMA ClientAccepted ==
  ASSUME Typed, Accepted, NEW p \in Calls, ClientStep(p)
  PROVE  Accepted'
<1>1. PICK c : call' = [call EXCEPT ![p] = c] /\ c.reply = None BY DEF ClientStep
<1>2. call'[p] = c /\ \A q \in Calls \ {p} : call'[q] = call[q]
  BY <1>1, OthersStay, Parts
<1>3. vouched' = vouched BY DEF ClientStep
<1> QED BY <1>1, <1>2, <1>3 DEF Accepted, GoodCall, Heard

LEMMA NextAccepted == Typed /\ BornInv /\ Accepted /\ [Next]_vars => Accepted'
<1> SUFFICES ASSUME Typed, BornInv, Accepted, [Next]_vars PROVE Accepted' OBVIOUS
<1>0. ClientTyped /\ RestTyped /\ CallsFit BY Parts
<1>1. CASE UNCHANGED vars BY <1>1 DEF vars, history, Accepted, GoodCall, Heard
<1>2. CASE Boot BY <1>2, BootSteps, ClientAccepted, Names
<1>3. CASE Refresh BY <1>3, RefreshSteps, ClientAccepted, Names
<1>4. CASE Login BY <1>4, LoginSteps, ClientAccepted, Names
<1>5. ASSUME NEW p \in Enders, End(p) PROVE Accepted' BY <1>5, EndSteps, ClientAccepted, Names
<1>6. ASSUME NEW p \in Calls, Serve(p) PROVE Accepted'
  <2>1. PICK c : call' = [call EXCEPT ![p] = c] /\ GoodCall(c)'
    BY <1>6, Answered DEF GoodAnswer
  <2>2. call'[p] = c /\ \A q \in Calls \ {p} : call'[q] = call[q] BY <2>1, <1>0, OthersStay
  <2>3. vouched \subseteq vouched'
    BY <1>6 DEF Serve, Validate, Rotate, SignIn, Ends
  <2>4. GoodCall(call[p])' BY <2>1, <2>2
  <2>5. \A q \in Calls \ {p} : GoodCall(call[q])'
    BY <2>2, <2>3 DEF Accepted, GoodCall, Heard
  <2> QED BY <2>4, <2>5 DEF Accepted
<1>7. ASSUME NEW p \in Calls, Fail(p) PROVE Accepted'
  <2>1. PICK c : c = [call[p] EXCEPT !.reply = [kind |-> "unavailable", pair |-> None]] OBVIOUS
  <2>2. call' = [call EXCEPT ![p] = c] /\ vouched' = vouched BY <1>7, <2>1 DEF Fail, Replies
  <2>3. call[p] \in CallRecord BY <1>0 DEF CallsFit
  <2>4. c.reply.kind = "unavailable" BY <2>1, <2>3 DEF CallRecord
  <2>5. call'[p] = c /\ \A q \in Calls \ {p} : call'[q] = call[q] BY <2>2, <1>0, OthersStay
  <2> QED BY <2>2, <2>4, <2>5 DEF Accepted, GoodCall, Heard
<1>8. ASSUME NEW s \in Sessions, Pass(s) PROVE Accepted'
  BY <1>8 DEF Pass, history, Accepted, GoodCall, Heard
<1>9. CASE Persist BY <1>9 DEF Persist, Accepted, GoodCall, Heard
<1>10. CASE Restart
  <2>1. \A p \in Calls : call'[p] = Idle BY <1>10 DEF Restart
  <2> QED BY <2>1 DEF Accepted, GoodCall, Heard, Idle
<1>11. ASSUME NEW pair \in Pair, Arrive(pair) PROVE Accepted'
  BY <1>11 DEF Arrive, Accepted, GoodCall, Heard
<1> QED BY <1>1, <1>2, <1>3, <1>4, <1>5, <1>6, <1>7, <1>8, <1>9, <1>10, <1>11 DEF Next

Stage == Early \/ Later \/ spoiled

\* An accepted pair, or none, is kept for good: all steps but a restart.
LEMMA LaterStays ==
  ASSUME Later, vouched \subseteq vouched', Good(stored'), unsaved' \/ UNCHANGED <<disk, unsaved>>,
         call'["boot"].at = "loaded" => call'["boot"] = call["boot"]
  PROVE  Later'
BY DEF Later, Good

\* A commit or a clear ends the early stage.
LEMMA Overwritten ==
  ASSUME Good(stored'), vouched' = vouched, unsaved' = TRUE, call'["boot"].at # "loaded"
  PROVE  Later'
BY DEF Later, Good

LEMMA CommitGood ==
  ASSUME NEW p, NEW pair \in vouched, Commit(p, pair)
  PROVE  Good(stored') /\ unsaved' = TRUE
BY DEF Commit, Clear, Good

LEMMA EarlyOthers ==
  ASSUME Typed, Early, NEW p \in Calls, p # "boot"
  PROVE  call[p] = Idle
BY DEF Early

LEMMA BootStage == Typed /\ Accepted /\ Stage /\ Boot => Stage'
<1> SUFFICES ASSUME Typed, Accepted, Stage, Boot, ~spoiled PROVE Stage'
  <2>1. spoiled /\ Boot => spoiled'
    BY DEF Boot, BootStart, BootRead, BootLoad, BootUnread, BootReady, BootValidated, Rotated,
           rest, others
  <2> QED BY <2>1 DEF Stage
<1>0. ClientTyped /\ RestTyped /\ CallsFit /\ "boot" \in Calls BY Parts, Names
<1>s. Early \/ Later BY DEF Stage
<1>p. \A at, pair : Ask("boot", at, pair) =>
        /\ call'["boot"].at = at /\ call'["boot"].pair = pair
        /\ \A q \in Calls \ {"boot"} : call'[q] = call[q]
  BY <1>0 DEF Ask, CallsFit
<1>d. Done("boot") => call'["boot"] = Idle /\ \A q \in Calls \ {"boot"} : call'[q] = call[q]
  BY <1>0 DEF Done, CallsFit
<1>i. Idle.at = "idle" BY DEF Idle
<1>g. GoodCall(call["boot"]) BY <1>0 DEF Accepted
<1> USE DEF others, rest
<1>1. CASE BootStart
  <2>1. call'["boot"].at # "loaded" BY <1>1, <1>p DEF BootStart
  <2>2. Later => Later'
    BY <1>1, <2>1, LaterStays DEF BootStart, Later, Good
  <2>3. Early => Early'
    <3> HAVE Early
    <3>1. \A q \in Calls \ {"boot"} : call'[q] = Idle BY <1>1, <1>p DEF BootStart, Early
    <3>2. call'["boot"].at = "readiness" => call'["boot"].pair # None
      BY <1>1, <1>p DEF BootStart
    <3>3. ~screens' /\ ~unsaved' /\ state' = "restoring" BY <1>1 DEF BootStart, Show, Early
    <3> QED BY <3>1, <3>2, <3>3, <2>1 DEF Early
  <2> QED BY <1>s, <2>2, <2>3 DEF Stage
<1>2. CASE BootRead
  <2>1. call'["boot"].at = "loaded" /\ call'["boot"].pair = disk BY <1>2, <1>p DEF BootRead
  <2>2. Later => Later' BY <1>2, <2>1 DEF BootRead, Later, Good
  <2>3. Early => Early' BY <1>2, <1>p, <2>1 DEF BootRead, Early
  <2> QED BY <1>s, <2>2, <2>3 DEF Stage
<1>3. CASE BootLoad
  <2>1. /\ call'["boot"].at = "readiness" /\ call'["boot"].pair = stored'
        /\ call["boot"].at = "loaded" /\ stored' = call["boot"].pair
    BY <1>3, <1>p DEF BootLoad
  <2>2. Later => Later' BY <1>3, <2>1, LaterStays DEF BootLoad, Later
  <2>3. Early => Early' BY <1>3, <1>p, <2>1 DEF BootLoad, Early
  <2> QED BY <1>s, <2>2, <2>3 DEF Stage
<1>4. CASE BootUnread BY <1>4 DEF BootUnread, Stage
<1>5. CASE BootReady
  <2>1. UNCHANGED <<stored, unsaved, disk, vouched>> BY <1>5 DEF BootReady, Unavailable
  <2>2. call["boot"].at = "readiness" /\ call'["boot"].at \in {"idle", "session"}
    BY <1>5, <1>p, <1>d, <1>i DEF BootReady
  <2>3. Later => Later' BY <2>1, <2>2, LaterStays DEF Later
  <2>4. Early => Early' \/ Later'
    <3> HAVE Early
    <3>1. \A q \in Calls \ {"boot"} : call'[q] = Idle BY <1>5, <1>p, <1>d DEF BootReady, Early
    <3>2. CASE call["boot"].pair = None /\ Show("signed_out")
      BY <3>2, <2>1, <2>2 DEF Early, Later, Good
    <3>3. CASE Unavailable \/ Show("authenticating")
      <4>1. ~screens' /\ state' \in {"service_unavailable", "authenticating"}
        BY <3>3 DEF Unavailable, Show, Early
      <4> QED BY <4>1, <3>1, <2>1, <2>2 DEF Early
    <3> QED BY <1>5, <3>2, <3>3 DEF BootReady
  <2> QED BY <1>s, <2>3, <2>4 DEF Stage
<1>6. CASE BootValidated
  <2>1. vouched' = vouched /\ disk' = disk /\ call["boot"].at = "session" BY <1>6 DEF BootValidated
  <2>2. call'["boot"].at \in {"idle", "rotate"} /\ \A q \in Calls \ {"boot"} : call'[q] = call[q]
    BY <1>6, <1>p, <1>d, <1>i DEF BootValidated
  <2>3. CASE Told("boot", "ok") /\ Commit("boot", call["boot"].pair)
    <3>1. call["boot"].pair \in vouched BY <2>1, <2>3, <1>g DEF GoodCall, Told, Heard
    <3> QED BY <2>1, <2>2, <2>3, <3>1, CommitGood, Overwritten DEF Stage
  <2>4. CASE Unavailable \/ UNCHANGED <<state, screens, stored, unsaved, straggled>>
    <3>1. Later => Later' BY <2>1, <2>2, <2>4, LaterStays DEF Later, Unavailable
    <3>2. Early => Early' BY <2>1, <2>2, <2>4 DEF Early, Unavailable, Show
    <3> QED BY <1>s, <3>1, <3>2 DEF Stage
  <2> QED BY <1>6, <2>3, <2>4 DEF BootValidated
<1>7. CASE Rotated("boot")
  <2>1. vouched' = vouched /\ disk' = disk /\ call["boot"].at = "rotate" BY <1>7 DEF Rotated
  <2>2. call'["boot"].at = "idle" /\ \A q \in Calls \ {"boot"} : call'[q] = call[q]
    BY <1>7, <1>d, <1>i DEF Rotated
  <2>3. CASE Told("boot", "ok") /\ Commit("boot", call["boot"].reply.pair)
    <3>1. call["boot"].reply.pair \in vouched BY <2>1, <2>3, <1>g DEF GoodCall, Told, Heard
    <3> QED BY <2>1, <2>2, <2>3, <3>1, CommitGood, Overwritten DEF Stage
  <2>4. CASE Clear("boot", "error")
    BY <2>1, <2>2, <2>4, Overwritten DEF Clear, Good, Stage
  <2>5. CASE Unavailable
    <3>1. Later => Later' BY <2>1, <2>2, <2>5, LaterStays DEF Later, Unavailable
    <3>2. Early => Early' BY <2>1, <2>2, <2>5 DEF Early, Unavailable, Show
    <3> QED BY <1>s, <3>1, <3>2 DEF Stage
  <2> QED BY <1>7, <2>3, <2>4, <2>5 DEF Rotated
<1> QED BY <1>1, <1>2, <1>3, <1>4, <1>5, <1>6, <1>7 DEF Boot

\* The steps of the other calls do not run early, and commit what was accepted.
LEMMA OtherStage ==
  ASSUME Typed, Accepted, Stage, NEW p \in Calls, p # "boot", ClientStep(p),
         ~Early, unsaved' \/ UNCHANGED <<stored, unsaved>>,
         stored' \in {stored, None}
           \/ (call[p].at \in {"rotate", "login"} /\ Told(p, "ok") /\ stored' = call[p].reply.pair),
         spoiled' = spoiled
  PROVE  Stage'
<1>0. CallsFit /\ "boot" \in Calls BY Parts, Names
<1>1. CASE spoiled BY <1>1 DEF Stage
<1>2. CASE ~spoiled
  <2>1. Later BY <1>2 DEF Stage
  <2>2. call'["boot"] = call["boot"] BY <1>0, OthersStay DEF ClientStep
  <2>3. vouched' = vouched /\ disk' = disk BY DEF ClientStep
  <2>4. Good(stored')
    BY <2>1 DEF Later, Good, Accepted, GoodCall, Told, Heard
  <2>5. unsaved' \/ (Good(disk) /\ ~unsaved')
    BY <2>1 DEF Later
  <2>6. call'["boot"].at = "loaded" => Good(call'["boot"].pair) BY <2>1, <2>2 DEF Later
  <2> QED BY <2>3, <2>4, <2>5, <2>6 DEF Stage, Later, Good
<1> QED BY <1>1, <1>2

LEMMA NextStage == Typed /\ Accepted /\ Stage /\ [Next]_vars => Stage'
<1> SUFFICES ASSUME Typed, Accepted, Stage, [Next]_vars PROVE Stage' OBVIOUS
<1>0. ClientTyped /\ RestTyped /\ CallsFit BY Parts
<1>i. Idle.at = "idle" /\ Idle.pair = None BY DEF Idle
<1>1. CASE UNCHANGED vars BY <1>1 DEF vars, client, history, Stage, Early, Later, Good
<1>2. CASE Boot BY <1>2, BootStage
<1>3. CASE Refresh
  <2>1. ~Early
    <3> SUFFICES ASSUME Early PROVE FALSE OBVIOUS
    <3>1. ~screens /\ call["refresh"] = Idle BY EarlyOthers, Names DEF Early
    <3> QED BY <3>1, <1>3, <1>i DEF Refresh, RefreshStart, Rotated
  <2>2. unsaved' \/ UNCHANGED <<stored, unsaved>>
    BY <1>3 DEF Refresh, RefreshStart, Rotated, Commit, Clear, Unavailable
  <2>3. \/ stored' \in {stored, None}
        \/ call["refresh"].at = "rotate" /\ Told("refresh", "ok") /\ stored' = call["refresh"].reply.pair
    <3>1. CASE RefreshStart BY <3>1 DEF RefreshStart
    <3>2. CASE Rotated("refresh")
      BY <3>2, CommitStep DEF Rotated, Clear, Unavailable
    <3> QED BY <1>3, <3>1, <3>2 DEF Refresh
  <2>4. spoiled' = spoiled BY <1>3 DEF Refresh, RefreshStart, Rotated, rest, others
  <2> QED BY <1>3, <2>1, <2>2, <2>3, <2>4, OtherStage, RefreshSteps, Names
<1>4. CASE Login
  <2>1. ~Early
    <3> SUFFICES ASSUME Early PROVE FALSE OBVIOUS
    <3>1. state \notin {"signed_out", "error"} /\ call["login"] = Idle
      BY EarlyOthers, Names DEF Early
    <3> QED BY <3>1, <1>4, <1>i DEF Login, LoginStart, LoginAnswered
  <2>2. unsaved' \/ UNCHANGED <<stored, unsaved>>
    BY <1>4 DEF Login, LoginStart, LoginAnswered, Commit, Clear, Unavailable
  <2>3. \/ stored' \in {stored, None}
        \/ call["login"].at = "login" /\ Told("login", "ok") /\ stored' = call["login"].reply.pair
    <3>1. CASE LoginStart BY <3>1 DEF LoginStart
    <3>2. CASE LoginAnswered
      BY <3>2, CommitStep DEF LoginAnswered, Clear, Unavailable
    <3> QED BY <1>4, <3>1, <3>2 DEF Login
  <2>4. spoiled' = spoiled BY <1>4 DEF Login, LoginStart, LoginAnswered, rest, others
  <2> QED BY <1>4, <2>1, <2>2, <2>3, <2>4, OtherStage, LoginSteps, Names
<1>5. ASSUME NEW p \in Enders, End(p) PROVE Stage'
  <2>0. p \in Calls /\ p # "boot" BY Names
  <2>1. ~Early
    <3> SUFFICES ASSUME Early PROVE FALSE OBVIOUS
    <3>1. state # "authenticated" /\ call[p] = Idle BY <2>0, EarlyOthers DEF Early
    <3>2. "idle" \notin Endings BY DEF Endings
    <3> QED BY <3>1, <3>2, <1>5, <1>i DEF End, EndStart, EndAnswered, EndFinished
  <2>2. unsaved' \/ UNCHANGED <<stored, unsaved>>
    BY <1>5 DEF End, EndStart, EndAnswered, EndFinished, Clear, Unavailable
  <2>3. spoiled' = spoiled BY <1>5 DEF End, EndStart, EndAnswered, EndFinished, rest, others
  <2>4. ClientStep(p) /\ stored' \in {stored, None} BY <1>5, EndSteps
  <2> QED BY <2>0, <2>1, <2>2, <2>3, <2>4, OtherStage
<1>6. ASSUME NEW p \in Calls, Serve(p) \/ Fail(p) PROVE Stage'
  <2>1. UNCHANGED <<client, spoiled>> /\ vouched \subseteq vouched'
    BY <1>6 DEF Serve, Validate, Rotate, SignIn, Ends, Fail
  <2>2. call[p].at \in Asking /\ call[p] # Idle
    BY <1>6, <1>i DEF Serve, Validate, Rotate, SignIn, Ends, Asks, Fail, Asking, Endings
  <2>3. PICK c : call' = [call EXCEPT ![p] = c] /\ c.at = call[p].at /\ c.pair = call[p].pair
    <3>1. PICK r : call' = [call EXCEPT ![p].reply = r]
      BY <1>6 DEF Serve, Validate, Rotate, SignIn, Ends, Fail, Misreads, Replies
    <3>2. call[p] \in CallRecord BY <1>0 DEF CallsFit
    <3>3. PICK c : c = [call[p] EXCEPT !.reply = r] OBVIOUS
    <3>4. c.at = call[p].at /\ c.pair = call[p].pair BY <3>2, <3>3 DEF CallRecord
    <3> QED BY <3>1, <3>3, <3>4
  <2>4. call'[p] = c /\ \A q \in Calls \ {p} : call'[q] = call[q] BY <2>3, <1>0, OthersStay
  <2>5. call'["boot"].at = call["boot"].at /\ call'["boot"].pair = call["boot"].pair
    BY <2>3, <2>4, Names
  <2>6. Early => p = "boot" BY <2>2, EarlyOthers
  <2>7. Early => Early' BY <2>1, <2>4, <2>5, <2>6 DEF Early, client
  <2>8. Later => Later' BY <2>1, <2>5 DEF Later, Good, client
  <2> QED BY <2>1, <2>7, <2>8 DEF Stage
<1>8. ASSUME NEW s \in Sessions, Pass(s) PROVE Stage'
  BY <1>8 DEF Pass, client, history, Stage, Early, Later, Good
<1>9. CASE Persist
  <2>1. ~Early BY <1>9 DEF Persist, Early
  <2>2. Later => Later' \/ spoiled' BY <1>9 DEF Persist, Later, Good
  <2> QED BY <1>9, <2>1, <2>2 DEF Stage, Persist
<1>10. CASE Restart
  <2>1. \A p \in Calls : call'[p] = Idle BY <1>10 DEF Restart
  <2>2. "boot" \in Calls BY Names
  <2> QED BY <1>10, <2>1, <2>2, <1>i DEF Restart, Stage, Early
<1>11. ASSUME NEW pair \in Pair, Arrive(pair) PROVE Stage'
  BY <1>11 DEF Arrive, client, Stage, Early, Later, Good
<1> QED BY <1>1, <1>2, <1>3, <1>4, <1>5, <1>6, <1>8, <1>9, <1>10, <1>11 DEF Next

\* Whatever the storage held and however the calls interleave, a screen that shows
\* an actor sends with a pair the service accepted in this life of the application.
THEOREM ShownCorrect == Spec => []ShownIsVouched
<1> DEFINE Inv == Typed /\ BornInv /\ Accepted /\ Stage
<1>1. Init => Inv
  <2> SUFFICES ASSUME Init PROVE Accepted /\ Stage BY InitTyped, InitBorn
  <2>1. \A p \in Calls : call[p] = Idle BY DEF Init
  <2>2. Accepted BY <2>1 DEF Accepted, GoodCall, Heard, Idle
  <2>3. Stage BY <2>1, Names DEF Init, Stage, Early, Idle
  <2> QED BY <2>2, <2>3
<1>2. Inv /\ [Next]_vars => Inv' BY NextTyped, NextBorn, NextAccepted, NextStage
<1>3. Inv => ShownIsVouched BY DEF Stage, Early, Later, Good, ShownIsVouched
<1> QED BY <1>1, <1>2, <1>3, PTL DEF Spec

-----------------------------------------------------------------------------
(* One renewal after the other never replays a refresh token.              *)

Safe(x) == x = None \/ Fresh(x)

\* Renewal after a step that leaves the service alone.
RenewedNext(x) ==
  \E p \in Renewers : call'[p].at = "rotate" /\ Heard(call'[p], "ok") /\ x = call'[p].pair

AloneNext(s) ==
  /\ Other(stored', s) /\ (unsaved' \/ Other(disk', s))
  /\ \A p \in Renewers : Other(call'[p].pair, s)

RenewalNext ==
  /\ call'["boot"] = Idle \/ call'["refresh"] = Idle
  /\ Safe(stored') \/ RenewedNext(stored')
  /\ unsaved' \/ Safe(disk') \/ RenewedNext(disk')
  /\ call'["boot"].at \in {"loaded", "readiness", "session"} => Safe(call'["boot"].pair)
  /\ \A p \in Renewers : RenewalFits(call'[p])
  /\ Heard(call'["login"], "ok") =>
       Fresh(call'["login"].reply.pair) /\ AloneNext(call'["login"].reply.pair.id)

LEMMA ServerAside == Renewal /\ UNCHANGED <<server, estranged>> /\ RenewalNext => Renewal'
<1> SUFFICES ASSUME Renewal, UNCHANGED <<server, estranged>>, RenewalNext PROVE Renewal' OBVIOUS
<1>1. \A x : Fresh(x) <=> (x \in Pair /\ server'[x.id].status # "unborn"
                           /\ (server'[x.id].status = "live" => server'[x.id].gen = x.gen))
  BY DEF Fresh, Live
<1>2. (call["boot"] = Idle \/ call["refresh"] = Idle)' BY DEF RenewalNext
<1>3. \A s \in Sessions : server'[s].compromised => s \in estranged' BY DEF Renewal
<1>4. Usable(stored)' /\ (unsaved \/ Usable(disk))'
  BY <1>1 DEF RenewalNext, Usable, Safe, Renewed, RenewedNext, Fresh, Live, Heard
<1>5. (call["boot"].at \in {"loaded", "readiness", "session"} =>
        call["boot"].pair = None \/ Fresh(call["boot"].pair))'
  BY <1>1 DEF RenewalNext, Safe, Fresh, Live
<1>6. \A p \in Renewers : RenewalFits(call[p])'
  BY <1>1 DEF RenewalNext, RenewalFits, Fresh, Live, Heard
<1>7. (Heard(call["login"], "ok") =>
        Fresh(call["login"].reply.pair) /\ Alone(call["login"].reply.pair.id))'
  BY <1>1 DEF RenewalNext, AloneNext, Alone, Other, Fresh, Live, Heard
<1> QED BY <1>2, <1>3, <1>4, <1>5, <1>6, <1>7 DEF Renewal

\* When no renewal has an answer, whatever is held can be used.
LEMMA Unanswered ==
  ASSUME Renewal, \A p \in Renewers : ~(call[p].at = "rotate" /\ Heard(call[p], "ok"))
  PROVE  Safe(stored) /\ (unsaved \/ Safe(disk))
BY DEF Renewal, Usable, Renewed, Safe

LEMMA CleanBefore == Typed /\ [Next]_vars /\ Clean' => Clean /\ restarts' = restarts
<1> SUFFICES ASSUME Typed, [Next]_vars, Clean' PROVE Clean /\ restarts' = restarts OBVIOUS
<1> USE DEF Clean
<1>r. restarts \in Nat BY Parts DEF RestTyped
<1>1. CASE UNCHANGED vars BY <1>1 DEF vars, history
<1>2. CASE Boot
  <2> USE DEF rest, others
  <2>1. CASE BootStart BY <2>1 DEF BootStart, Meets
  <2>2. CASE BootRead BY <2>2 DEF BootRead
  <2>3. CASE BootLoad BY <2>3 DEF BootLoad
  <2>4. CASE BootUnread
    <3>1. spoiled' /\ UNCHANGED <<overlap, lost, restarts>> BY <2>4 DEF BootUnread
    <3> QED BY <3>1
  <2>5. CASE BootReady
    <3>1. UNCHANGED <<overlap, lost, spoiled, restarts>> BY <2>5 DEF BootReady
    <3> QED BY <3>1
  <2>6. CASE BootValidated BY <2>6 DEF BootValidated
  <2>7. CASE Rotated("boot") BY <2>7 DEF Rotated
  <2> QED BY <1>2, <2>1, <2>2, <2>3, <2>4, <2>5, <2>6, <2>7 DEF Boot
<1>3. CASE Refresh
  <2>1. CASE RefreshStart BY <2>1 DEF RefreshStart, others, Meets
  <2>2. CASE Rotated("refresh") BY <2>2 DEF Rotated, rest, others
  <2> QED BY <1>3, <2>1, <2>2 DEF Refresh
<1>4. CASE Login BY <1>4 DEF Login, LoginStart, LoginAnswered, rest, others
<1>5. ASSUME NEW p \in Enders, End(p) PROVE Clean /\ restarts' = restarts
  BY <1>5 DEF End, EndStart, EndAnswered, EndFinished, rest, others
<1>6. ASSUME NEW p \in Calls, Serve(p) PROVE Clean /\ restarts' = restarts
  BY <1>6 DEF Serve, Validate, Rotate, SignIn, Ends
<1>7. ASSUME NEW p \in Calls, Fail(p) PROVE Clean /\ restarts' = restarts
  <2>1. UNCHANGED <<overlap, spoiled, restarts>> BY <1>7 DEF Fail
  <2>2. lost' = lost \/ lost' = (lost \/ (call[p].at = "rotate" /\ Told(p, "ok")))
    BY <1>7 DEF Fail
  <2>3. ~lost
    <3>1. CASE lost' = lost BY <3>1
    <3>2. CASE lost' = (lost \/ (call[p].at = "rotate" /\ Told(p, "ok"))) BY <3>2, Zenon
    <3> QED BY <2>2, <3>1, <3>2
  <2> QED BY <2>1, <2>3
<1>8. ASSUME NEW s \in Sessions, Pass(s) PROVE Clean /\ restarts' = restarts
  BY <1>8 DEF Pass, history
<1>9. CASE Persist BY <1>9 DEF Persist
<1>10. CASE Restart BY <1>10, <1>r DEF Restart
<1>11. ASSUME NEW pair \in Pair, Arrive(pair) PROVE Clean /\ restarts' = restarts
  BY <1>11 DEF Arrive
<1> QED BY <1>1, <1>2, <1>3, <1>4, <1>5, <1>6, <1>7, <1>8, <1>9, <1>10, <1>11 DEF Next

\* The end of a renewal, by the bootstrap or by a refresh.
LEMMA RotatedRenews ==
  ASSUME Typed, Renewal, NEW p \in Renewers, NEW o \in Renewers, o # p, Rotated(p)
  PROVE  Renewal'
<1>0. /\ CallsFit /\ p \in Calls /\ o \in Calls /\ "login" \in Calls
      /\ \A q \in Renewers : q = p \/ q = o
  BY Parts, Names DEF Renewers
<1>n. p # "login" /\ o # "login" BY DEF Renewers
<1>1. call[p].at = "rotate" /\ UNCHANGED <<server, estranged, disk>> BY DEF Rotated, rest, others
<1>2. call[o] = Idle
  <2>1. Idle.at = "idle" BY DEF Idle
  <2> QED BY <2>1, <1>1 DEF Renewal, Renewers
<1>3. call'[p] = Idle /\ call'[o] = Idle /\ call'["login"] = call["login"]
  BY <1>0, <1>2, <1>n DEF Rotated, Done, CallsFit
<1>4. Idle.at = "idle" /\ Idle.pair = None /\ Idle.reply = None BY DEF Idle
<1>5. \/ Told(p, "ok") /\ stored' \in {None, call[p].reply.pair} /\ unsaved' = TRUE
      \/ stored' = None /\ unsaved' = TRUE
      \/ ~Told(p, "ok") /\ UNCHANGED <<stored, unsaved>>
  BY CommitStep DEF Rotated, Denied, Clear, Unavailable, Told
<1>6. /\ Safe(stored') /\ (unsaved' \/ Safe(disk'))
      /\ \A s : Alone(s) /\ Told(p, "ok") => stored' = None \/ Other(stored', s)
                                             \/ stored' = stored
  <2>1. RenewalFits(call[p]) BY DEF Renewal
  <2>2. CASE Told(p, "ok") /\ stored' \in {None, call[p].reply.pair} /\ unsaved' = TRUE
    <3>1. Fresh(call[p].reply.pair) /\ call[p].reply.pair.id = call[p].pair.id
      BY <2>1, <2>2, <1>1 DEF Told, Heard, RenewalFits
    <3>2. call[p].pair \in Pair BY <1>0, <1>1, Carries DEF Bearing
    <3> QED BY <2>2, <3>1, <3>2 DEF Safe, Alone, Other
  <2>3. CASE stored' = None /\ unsaved' = TRUE BY <2>3 DEF Safe
  <2>4. CASE ~Told(p, "ok") /\ UNCHANGED <<stored, unsaved>>
    BY <2>4, <1>0, <1>1, <1>2, <1>4, Unanswered DEF Told, Heard
  <2> QED BY <1>5, <2>2, <2>3, <2>4
<1>7. Other(None, call["login"].reply.pair.id) BY NoneAssumption DEF Other
<1>8. Alone(call["login"].reply.pair.id) => AloneNext(call["login"].reply.pair.id)
  <2> HAVE Alone(call["login"].reply.pair.id)
  <2>1. Other(stored', call["login"].reply.pair.id)
    BY <1>5, <1>6, <1>7 DEF Alone
  <2>2. unsaved' \/ Other(disk', call["login"].reply.pair.id)
    BY <1>1, <1>5 DEF Alone
  <2> QED BY <2>1, <2>2, <1>0, <1>3, <1>4, <1>7 DEF AloneNext
<1>9. RenewalNext
  BY <1>0, <1>3, <1>4, <1>6, <1>8 DEF RenewalNext, RenewalFits, Renewal, Renewers
<1> QED BY <1>1, <1>9, ServerAside

\* A step of the bootstrap outside a renewal: the refresh has none under way.
LEMMA BootRenews ==
  ASSUME Typed, Renewal, Clean', Boot, call["refresh"] = Idle
  PROVE  Renewal'
<1>0. CallsFit /\ "boot" \in Calls /\ "refresh" \in Calls /\ "login" \in Calls
      /\ Renewers = {"boot", "refresh"}
  BY Parts, Names DEF Renewers
<1>i. Idle.at = "idle" /\ Idle.pair = None /\ Idle.reply = None BY DEF Idle
<1>r. CASE Rotated("boot") BY <1>r, RotatedRenews DEF Renewers
<1>1. CASE ~Rotated("boot")
  <2>1. PICK c : /\ call' = [call EXCEPT !["boot"] = c] /\ c.reply = None
    BY BootSteps DEF ClientStep
  <2>2. call'["boot"] = c /\ call'["refresh"] = Idle /\ call'["login"] = call["login"]
    BY <1>0, <2>1 DEF CallsFit
  <2>3. server' = server /\ disk' = disk /\ estranged' = estranged BY BootSteps DEF ClientStep
  <2>4. /\ call["boot"].at # "rotate" \/ call["boot"].reply = None
        /\ call["boot"].at # "rotate"
    BY <1>1, <1>i DEF Boot, BootStart, BootRead, BootLoad, BootUnread, BootReady, BootValidated
  <2>5. Safe(stored) /\ (unsaved \/ Safe(disk)) BY <2>4, <1>0, <1>i, Unanswered
  <2>6. /\ stored' \in {stored, None, call["boot"].pair}
        /\ unsaved' \/ UNCHANGED unsaved
    BY <1>1, CommitStep, <2>4
    DEF Boot, BootStart, BootRead, BootLoad, BootUnread, BootReady, BootValidated, Unavailable, client
  <2>7. /\ stored' # stored => Safe(stored')
        /\ c.at \in {"loaded", "readiness", "session"} => Safe(c.pair)
        /\ c.at = "rotate" => Fresh(c.pair)
    <3>1. CASE BootStart
      <4>1. c.pair = stored /\ c.at \in {"load", "readiness"} BY <3>1, <1>0, <2>1, <2>2 DEF BootStart, Ask, CallsFit
      <4> QED BY <4>1, <3>1, <2>5 DEF BootStart
    <3>2. CASE BootRead
      <4>1. c.pair = disk /\ c.at = "loaded" BY <3>2, <1>0, <2>1, <2>2 DEF BootRead, Ask, CallsFit
      <4> QED BY <4>1, <3>2, <2>5 DEF BootRead
    <3>3. CASE BootLoad
      <4>1. c.pair = call["boot"].pair /\ c.at = "readiness" BY <3>3, <1>0, <2>1, <2>2 DEF BootLoad, Ask, CallsFit
      <4> QED BY <4>1, <3>3 DEF BootLoad, Renewal, Safe
    <3>4. CASE BootUnread BY <3>4 DEF BootUnread, Clean
    <3>5. CASE BootReady
      <4>1. c.at = "idle" \/ (c.at = "session" /\ c.pair = call["boot"].pair)
        BY <3>5, <1>0, <1>i, <2>1, <2>2 DEF BootReady, Ask, Done, CallsFit
      <4> QED BY <4>1, <3>5 DEF BootReady, Renewal, Safe, Unavailable
    <3>6. CASE BootValidated
      <4>1. c.at = "idle" \/ (c.at = "rotate" /\ c.pair = call["boot"].pair)
        BY <3>6, <1>0, <1>i, <2>1, <2>2 DEF BootValidated, Ask, Done, CallsFit
      <4>2. call["boot"].pair \in Pair /\ call["boot"].at = "session"
        BY <3>6, <1>0, Carries DEF BootValidated, Bearing
      <4>3. Fresh(call["boot"].pair) BY <4>2, NoneAssumption DEF Renewal
      <4>4. stored' \in {stored, None, call["boot"].pair}
        BY <3>6, CommitStep DEF BootValidated, Unavailable
      <4> QED BY <4>1, <4>3, <4>4 DEF Safe
    <3> QED BY <1>1, <3>1, <3>2, <3>3, <3>4, <3>5, <3>6 DEF Boot
  <2>8. ASSUME NEW s, Alone(s) PROVE AloneNext(s)
    <3>1. Other(None, s) /\ Other(stored, s) /\ Other(call["boot"].pair, s)
      BY <2>8, <1>0, NoneAssumption DEF Alone, Other
    <3>2. Other(stored', s) BY <3>1, <2>6 DEF Other
    <3>3. unsaved' \/ Other(disk', s) BY <2>8, <2>3, <2>6 DEF Alone, Other
    <3>4. c.pair \in {None, stored, call["boot"].pair} \/ (c.pair = disk /\ ~unsaved)
      BY <1>1, <1>0, <1>i, <2>1, <2>2
      DEF Boot, BootStart, BootRead, BootLoad, BootUnread, BootReady, BootValidated, Ask, Done, CallsFit
    <3>5. Other(c.pair, s) BY <2>8, <3>1, <3>4 DEF Alone, Other
    <3> QED BY <3>1, <3>2, <3>3, <3>5, <1>0, <1>i, <2>2 DEF AloneNext
  <2>9. RenewalNext
    <3>1. Safe(stored') BY <2>5, <2>7
    <3>2. unsaved' \/ Safe(disk') BY <2>3, <2>5, <2>6
    <3>3. RenewalFits(c) /\ RenewalFits(Idle) BY <1>i, <2>1, <2>7 DEF RenewalFits, Heard
    <3> QED BY <3>1, <3>2, <3>3, <2>2, <2>7, <2>8, <1>0 DEF RenewalNext, Renewal
  <2> QED BY <2>3, <2>9, ServerAside
<1> QED BY <1>r, <1>1

LEMMA RefreshRenews == Typed /\ Renewal /\ Clean' /\ Refresh => Renewal'
<1> SUFFICES ASSUME Typed, Renewal, Clean', Refresh PROVE Renewal' OBVIOUS
<1>0. CallsFit /\ "boot" \in Calls /\ "refresh" \in Calls /\ "login" \in Calls
      /\ Renewers = {"boot", "refresh"}
  BY Parts, Names DEF Renewers
<1>i. Idle.at = "idle" /\ Idle.pair = None /\ Idle.reply = None BY DEF Idle
<1>1. CASE Rotated("refresh") BY <1>1, RotatedRenews DEF Renewers
<1>2. CASE RefreshStart
  <2>1. call["boot"] = Idle /\ call["refresh"] = Idle BY <1>2 DEF RefreshStart, Meets, Clean
  <2>2. PICK c : c = [at |-> "rotate", pair |-> stored, reply |-> None] OBVIOUS
  <2>3. c.at = "rotate" /\ c.pair = stored /\ c.reply = None BY <2>2
  <2>4. call'["refresh"] = c /\ call'["boot"] = Idle /\ call'["login"] = call["login"]
    BY <1>0, <1>2, <2>1, <2>2 DEF RefreshStart, Ask, CallsFit
  <2>5. UNCHANGED <<server, estranged, disk, stored, unsaved>> /\ stored # None
    BY <1>2 DEF RefreshStart, others
  <2>6. Safe(stored) /\ (unsaved \/ Safe(disk)) BY <2>1, <1>0, <1>i, Unanswered
  <2>7. RenewalFits(c) /\ RenewalFits(Idle)
    BY <1>i, <2>3, <2>5, <2>6 DEF RenewalFits, Heard, Safe
  <2>8. ASSUME NEW s, Alone(s) PROVE AloneNext(s)
    <3>1. Other(None, s) BY NoneAssumption DEF Other
    <3> QED BY <2>8, <3>1, <2>3, <2>4, <2>5, <1>0, <1>i DEF Alone, AloneNext
  <2>9. RenewalNext
    BY <2>4, <2>5, <2>6, <2>7, <2>8, <1>0, <1>i DEF RenewalNext, Renewal
  <2> QED BY <2>5, <2>9, ServerAside
<1> QED BY <1>1, <1>2 DEF Refresh

\* A step of a call that does not renew, with the calls that do left alone.
LEMMA AsideRenews ==
  ASSUME Typed, Renewal, UNCHANGED <<server, estranged, disk>>,
         \A p \in Renewers : call'[p] = call[p],
         \/ UNCHANGED <<stored, unsaved>>
         \/ stored' = None /\ unsaved'
         \/ /\ unsaved' /\ Heard(call["login"], "ok") /\ stored' = call["login"].reply.pair
            /\ call'["login"] = Idle,
         call'["login"] = call["login"] \/ ~Heard(call'["login"], "ok")
  PROVE  Renewal'
<1>0. Renewers = {"boot", "refresh"} BY DEF Renewers
<1>1. \A x : Renewed(x) <=> RenewedNext(x) BY DEF Renewed, RenewedNext
<1>2. Safe(stored') \/ RenewedNext(stored')
  BY <1>1 DEF Renewal, Usable, Safe
<1>3. unsaved' \/ Safe(disk') \/ RenewedNext(disk') BY <1>1 DEF Renewal, Usable, Safe
<1>4. Heard(call'["login"], "ok") =>
        Fresh(call'["login"].reply.pair) /\ AloneNext(call'["login"].reply.pair.id)
  <2> HAVE Heard(call'["login"], "ok")
  <2>1. call'["login"] = call["login"] OBVIOUS
  <2>2. ~Heard(Idle, "ok") BY DEF Heard, Idle
  <2>3. UNCHANGED <<stored, unsaved>> \/ (stored' = None /\ unsaved') BY <2>1, <2>2
  <2>4. Fresh(call["login"].reply.pair) /\ Alone(call["login"].reply.pair.id)
    BY <2>1 DEF Renewal
  <2>5. Other(None, call["login"].reply.pair.id) BY NoneAssumption DEF Other
  <2>6. AloneNext(call["login"].reply.pair.id) BY <2>3, <2>4, <2>5 DEF Alone, AloneNext
  <2> QED BY <2>1, <2>4, <2>6
<1>5. RenewalNext BY <1>0, <1>2, <1>3, <1>4 DEF RenewalNext, Renewal, Safe
<1> QED BY <1>5, ServerAside

LEMMA LoginRenews == Typed /\ Renewal /\ Login => Renewal'
<1> SUFFICES ASSUME Typed, Renewal, Login PROVE Renewal' OBVIOUS
<1>0. CallsFit /\ "login" \in Calls /\ "login" \notin Renewers /\ Renewers \subseteq Calls
  BY Parts, Names DEF Renewers
<1>1. PICK c : call' = [call EXCEPT !["login"] = c] /\ c.reply = None
  BY LoginSteps DEF ClientStep
<1>2. call'["login"] = c /\ \A p \in Renewers : call'[p] = call[p]
  BY <1>0, <1>1 DEF CallsFit
<1>3. ~Heard(call'["login"], "ok") BY <1>1, <1>2 DEF Heard
<1>4. UNCHANGED <<server, estranged, disk>> BY LoginSteps DEF ClientStep
<1>5. CASE LoginStart
  BY <1>5, <1>2, <1>3, <1>4, AsideRenews DEF LoginStart
<1>6. CASE LoginAnswered
  <2>1. call'["login"] = Idle BY <1>0, <1>6 DEF LoginAnswered, Done, CallsFit
  <2>2. \/ UNCHANGED <<stored, unsaved>>
        \/ stored' = None /\ unsaved'
        \/ unsaved' /\ Told("login", "ok") /\ stored' = call["login"].reply.pair
    BY <1>6, CommitStep DEF LoginAnswered, Unavailable
  <2> QED BY <2>1, <2>2, <1>2, <1>3, <1>4, AsideRenews DEF Told, Heard
<1> QED BY <1>5, <1>6 DEF Login

LEMMA EndRenews == ASSUME Typed, Renewal, NEW p \in Enders, End(p) PROVE Renewal'
<1>0. CallsFit /\ p \in Calls /\ p \notin Renewers /\ p # "login" /\ Renewers \subseteq Calls
      /\ "login" \in Calls
  BY Parts, Names DEF Renewers
<1>1. PICK c : call' = [call EXCEPT ![p] = c] BY EndSteps DEF ClientStep
<1>2. call'["login"] = call["login"] /\ \A q \in Renewers : call'[q] = call[q]
  BY <1>0, <1>1 DEF CallsFit
<1>3. UNCHANGED <<server, estranged, disk>> BY EndSteps DEF ClientStep
<1>4. UNCHANGED <<stored, unsaved>> \/ (stored' = None /\ unsaved')
  BY DEF End, EndStart, EndAnswered, EndFinished, Clear, Unavailable
<1> QED BY <1>2, <1>3, <1>4, AsideRenews

LEMMA PersistRenews == Typed /\ Renewal /\ Clean' /\ Persist => Renewal'
<1> SUFFICES ASSUME Typed, Renewal, Clean', Persist PROVE Renewal' OBVIOUS
<1>1. disk' = stored /\ UNCHANGED <<server, estranged, stored, call>> BY DEF Persist, Clean
<1>2. \A x : Renewed(x) <=> RenewedNext(x) BY <1>1 DEF Renewed, RenewedNext
<1>3. \A s : Alone(s) => AloneNext(s) BY <1>1 DEF Alone, AloneNext
<1>4. RenewalNext BY <1>1, <1>2, <1>3 DEF RenewalNext, Renewal, Usable, Safe
<1> QED BY <1>1, <1>4, ServerAside

LEMMA FailRenews == ASSUME Typed, Renewal, Clean', NEW p \in Calls, Fail(p) PROVE Renewal'
<1>0. CallsFit /\ Renewers \subseteq Calls /\ "login" \in Calls /\ Renewers = {"boot", "refresh"}
  BY Parts, Names DEF Renewers
<1>1. PICK c : c = [call[p] EXCEPT !.reply = [kind |-> "unavailable", pair |-> None]] OBVIOUS
<1>2. call' = [call EXCEPT ![p] = c] BY <1>1 DEF Fail, Replies
<1>3. call[p] \in CallRecord BY <1>0 DEF CallsFit
<1>4. c.at = call[p].at /\ c.pair = call[p].pair /\ ~Heard(c, "ok")
  BY <1>1, <1>3 DEF CallRecord, Heard
<1>5. call'[p] = c /\ \A q \in Calls \ {p} : call'[q] = call[q] BY <1>0, <1>2, OthersStay
<1>6. call[p].at = "rotate" => ~Heard(call[p], "ok")
  <2>1. call[p].reply = None \/ lost' = (lost \/ (call[p].at = "rotate" /\ Told(p, "ok")))
    BY DEF Fail, Asks
  <2> QED BY <2>1 DEF Clean, Told, Heard
<1>7. UNCHANGED <<server, estranged, stored, unsaved, disk>> BY DEF Fail, client
<1>8. call[p].at \in Asking BY DEF Fail
<1>9. \A q \in Renewers : call'[q].at = call[q].at /\ call'[q].pair = call[q].pair
  BY <1>0, <1>4, <1>5
<1>10. \A q \in Renewers : call'[q].at = "rotate" /\ Heard(call[q], "ok") => call'[q] = call[q]
  BY <1>0, <1>4, <1>5, <1>6 DEF Heard
<1>11. \A x : Renewed(x) => RenewedNext(x) BY <1>9, <1>10 DEF Renewed, RenewedNext
<1>12. \A s : Alone(s) => AloneNext(s) BY <1>7, <1>9 DEF Alone, AloneNext
<1>13. call'["boot"] = Idle \/ call'["refresh"] = Idle
  <2>1. "idle" \notin Asking /\ Idle.at = "idle" BY DEF Asking, Endings, Idle
  <2>2. call[p] # Idle BY <2>1, <1>8
  <2> QED BY <2>2, <1>0, <1>5 DEF Renewal
<1>14. \A q \in Renewers : RenewalFits(call'[q])
  <2> TAKE q \in Renewers
  <2>1. CASE q # p BY <2>1, <1>0, <1>5 DEF Renewal
  <2>2. CASE q = p
    <3>1. RenewalFits(call[p]) BY <2>2 DEF Renewal
    <3> QED BY <3>1, <2>2, <1>4, <1>5, <1>6 DEF RenewalFits, Heard
  <2> QED BY <2>1, <2>2
<1>15. Heard(call'["login"], "ok") => call'["login"] = call["login"]
  BY <1>0, <1>4, <1>5
<1>16. RenewalNext
  BY <1>0, <1>7, <1>9, <1>11, <1>12, <1>13, <1>14, <1>15 DEF RenewalNext, Renewal, Usable, Safe
<1> QED BY <1>7, <1>16, ServerAside

\* The steps of the service, and of clocks.
FreshNext(x) ==
  /\ x \in Pair /\ server'[x.id].status # "unborn"
  /\ server'[x.id].status = "live" => server'[x.id].gen = x.gen

ServedNext ==
  /\ call'["boot"] = Idle \/ call'["refresh"] = Idle
  /\ \A s \in Sessions : server'[s].compromised => s \in estranged'
  /\ stored = None \/ FreshNext(stored) \/ RenewedNext(stored)
  /\ unsaved \/ disk = None \/ FreshNext(disk) \/ RenewedNext(disk)
  /\ call'["boot"].at \in {"loaded", "readiness", "session"} =>
       call'["boot"].pair = None \/ FreshNext(call'["boot"].pair)
  /\ \A p \in Renewers : call'[p].at = "rotate" =>
       IF Heard(call'[p], "ok")
         THEN FreshNext(call'[p].reply.pair) /\ call'[p].reply.pair.id = call'[p].pair.id
         ELSE FreshNext(call'[p].pair)
  /\ Heard(call'["login"], "ok") =>
       FreshNext(call'["login"].reply.pair) /\ AloneNext(call'["login"].reply.pair.id)

LEMMA Served ==
  ASSUME ServedNext, UNCHANGED <<stored, disk, unsaved>>
  PROVE  Renewal'
<1>1. (call["boot"] = Idle \/ call["refresh"] = Idle)' BY DEF ServedNext
<1>2. Usable(stored)' /\ (unsaved \/ Usable(disk))'
  BY DEF ServedNext, Usable, Renewed, RenewedNext, FreshNext, Fresh, Live, Heard
<1>3. (call["boot"].at \in {"loaded", "readiness", "session"} =>
        call["boot"].pair = None \/ Fresh(call["boot"].pair))'
  BY DEF ServedNext, FreshNext, Fresh, Live
<1>4. \A p \in Renewers : RenewalFits(call[p])'
  BY DEF ServedNext, RenewalFits, FreshNext, Fresh, Live, Heard
<1>5. (Heard(call["login"], "ok") =>
        Fresh(call["login"].reply.pair) /\ Alone(call["login"].reply.pair.id))'
  BY DEF ServedNext, AloneNext, Alone, Other, FreshNext, Fresh, Live, Heard
<1> QED BY <1>1, <1>2, <1>3, <1>4, <1>5 DEF Renewal, ServedNext

\* A step of the service after which every fresh pair still is.
LEMMA ServedKept ==
  ASSUME Renewal, UNCHANGED <<stored, disk, unsaved>>,
         \A x : Fresh(x) => FreshNext(x),
         \A s \in Sessions : server'[s].compromised => s \in estranged',
         \A q \in Renewers : /\ call'[q].at = call[q].at /\ call'[q].pair = call[q].pair
                             /\ call[q] = Idle => call'[q] = Idle
                             /\ \/ call'[q] = call[q] \/ call[q].at # "rotate"
                                \/ ~Heard(call[q], "ok") /\ ~Heard(call'[q], "ok"),
         \/ call'["login"] = call["login"]
         \/ ~Heard(call'["login"], "ok")
         \/ FreshNext(call'["login"].reply.pair) /\ Alone(call'["login"].reply.pair.id)
  PROVE  Renewal'
<1>0. Renewers = {"boot", "refresh"} BY DEF Renewers
<1>1. \A x : Renewed(x) => RenewedNext(x) BY DEF Renewed, RenewedNext
<1>2. \A s : Alone(s) => AloneNext(s) BY DEF Alone, AloneNext
<1>3. ASSUME NEW q \in Renewers, call'[q].at = "rotate"
      PROVE  IF Heard(call'[q], "ok")
               THEN FreshNext(call'[q].reply.pair) /\ call'[q].reply.pair.id = call'[q].pair.id
               ELSE FreshNext(call'[q].pair)
  <2>1. RenewalFits(call[q]) BY DEF Renewal
  <2>2. CASE call'[q] = call[q] BY <1>3, <2>1, <2>2 DEF RenewalFits
  <2>3. CASE ~Heard(call[q], "ok") /\ ~Heard(call'[q], "ok") BY <1>3, <2>1, <2>3 DEF RenewalFits
  <2> QED BY <1>3, <2>2, <2>3
<1>4. stored = None \/ FreshNext(stored) \/ RenewedNext(stored) BY <1>1 DEF Renewal, Usable
<1>5. unsaved \/ disk = None \/ FreshNext(disk) \/ RenewedNext(disk) BY <1>1 DEF Renewal, Usable
<1>6. Heard(call'["login"], "ok") =>
        FreshNext(call'["login"].reply.pair) /\ AloneNext(call'["login"].reply.pair.id)
  BY <1>2 DEF Renewal
<1>7. ServedNext BY <1>0, <1>3, <1>4, <1>5, <1>6 DEF ServedNext, Renewal
<1> QED BY <1>7, Served

LEMMA PassRenews == ASSUME Typed, Renewal, NEW s \in Sessions, Pass(s) PROVE Renewal'
<1>1. UNCHANGED <<stored, disk, unsaved, call, estranged>> BY DEF Pass, client, history
<1>2. /\ \A x \in Sessions : Onward(x)
      /\ \A x \in Sessions : server'[x].status # server[x].status => server'[x].status = "revoked"
      /\ \A x \in Sessions : server'[x].gen = server[x].gen
                             /\ server'[x].compromised = server[x].compromised
  BY PassOnward
<1>3. \A x : Fresh(x) => FreshNext(x) BY <1>2 DEF Fresh, FreshNext, Live, Onward, Pair
<1>4. \A x \in Sessions : server'[x].compromised => x \in estranged' BY <1>1, <1>2 DEF Renewal
<1> QED BY <1>1, <1>3, <1>4, ServedKept

\* The call that an answer reaches keeps its question.
LEMMA ReplyKeeps ==
  ASSUME CallsFit, NEW p \in Calls, NEW kind, NEW pair, Replies(p, kind, pair)
  PROVE  /\ call'[p].at = call[p].at /\ call'[p].pair = call[p].pair
         /\ call'[p].reply = [kind |-> kind, pair |-> pair]
         /\ \A q \in Calls \ {p} : call'[q] = call[q]
<1>1. PICK c : c = [call[p] EXCEPT !.reply = [kind |-> kind, pair |-> pair]] OBVIOUS
<1>2. call' = [call EXCEPT ![p] = c] BY <1>1 DEF Replies
<1>3. call[p] \in CallRecord BY DEF CallsFit
<1>4. c.at = call[p].at /\ c.pair = call[p].pair /\ c.reply = [kind |-> kind, pair |-> pair]
  BY <1>1, <1>3 DEF CallRecord
<1> QED BY <1>2, <1>4, OthersStay

\* The rotation of a current pair: whoever held it holds what is being replaced.
LEMMA RotationRenews ==
  ASSUME Typed, Renewal, NEW p \in Renewers, NEW o \in Renewers, o # p,
         Asks(p, "rotate"), Renews(call[p].pair), Advance(call[p].pair),
         UNCHANGED <<stored, disk, unsaved, estranged>>,
         Replies(p, "ok", Successor(call[p].pair))
  PROVE  Renewal'
<1>0. /\ CallsFit /\ p \in Calls /\ o \in Calls /\ "login" \in Calls
      /\ Renewers = {p, o} /\ Renewers = {"boot", "refresh"} /\ p # "login" /\ o # "login"
  BY Parts, Names DEF Renewers
<1>1. PICK old : old = call[p].pair OBVIOUS
<1>2. PICK new : new = Successor(old) OBVIOUS
<1>4. call[p].at = "rotate" /\ call[p].reply = None /\ old \in Pair
  BY <1>0, <1>1, Carries DEF Asks, Bearing
<1>5. old.id \in Sessions /\ server[old.id].gen = old.gen /\ Live(old)
  BY <1>1, <1>4 DEF Pair, Renews, Current
<1>11. /\ server'[old.id].status = "live" /\ server'[old.id].gen = new.gen
       /\ server'[old.id].compromised = server[old.id].compromised
       /\ \A s \in Sessions \ {old.id} : server'[s] = server[s]
       /\ new.id = old.id /\ new \in Pair
  BY <1>1, <1>2, <1>4, Advanced
<1>12. /\ call'[p].at = "rotate" /\ call'[p].pair = old /\ Heard(call'[p], "ok")
       /\ call'[p].reply.pair = new
       /\ \A q \in Calls \ {p} : call'[q] = call[q]
  <2>1. Replies(p, "ok", new) BY <1>1, <1>2
  <2>2. call'[p].reply = [kind |-> "ok", pair |-> new] /\ call'[p].reply # None
    BY <1>0, <1>11, <2>1, ReplyKeeps, NoneAssumption DEF Reply, Kinds
  <2> QED BY <1>0, <1>1, <1>4, <2>1, <2>2, ReplyKeeps DEF Heard
<1>13. call[o] = Idle
  <2>1. call[p] # Idle BY <1>4 DEF Idle
  <2> QED BY <2>1, <1>0 DEF Renewal
<1>i. Idle.at = "idle" /\ Idle.pair = None BY DEF Idle
<1>14. \A x : Fresh(x) => FreshNext(x) \/ x = old
  <2> TAKE x
  <2> HAVE Fresh(x)
  <2>1. CASE x.id # old.id BY <2>1, <1>11 DEF Fresh, FreshNext, Live, Pair
  <2>2. CASE x.id = old.id
    <3>1. x.gen = old.gen BY <2>2, <1>5 DEF Fresh, Live
    <3> QED BY <2>2, <3>1, <1>4 DEF Fresh, Pair
  <2> QED BY <2>1, <2>2
<1>15. FreshNext(new) BY <1>11 DEF FreshNext
<1>16. RenewedNext(old) BY <1>12 DEF RenewedNext
<1>17. Safe(stored) /\ (unsaved \/ Safe(disk))
  BY <1>0, <1>4, <1>13, <1>i, Unanswered DEF Heard
<1>18. \A s \in Sessions : server'[s].compromised => s \in estranged'
  BY <1>5, <1>11 DEF Renewal
<1>19. Heard(call'["login"], "ok") =>
        FreshNext(call'["login"].reply.pair) /\ AloneNext(call'["login"].reply.pair.id)
  <2> HAVE Heard(call'["login"], "ok")
  <2>1. call'["login"] = call["login"] BY <1>0, <1>12
  <2>2. Fresh(call["login"].reply.pair) /\ Alone(call["login"].reply.pair.id)
    BY <2>1 DEF Renewal
  <2>3. call["login"].reply.pair # old BY <2>2, <1>1, <1>4 DEF Alone, Other
  <2>4. AloneNext(call["login"].reply.pair.id)
    BY <2>2, <1>0, <1>1, <1>12 DEF Alone, AloneNext
  <2> QED BY <2>1, <2>2, <2>3, <2>4, <1>14
<1>20. ServedNext
  <2>1. call'["boot"] = Idle \/ call'["refresh"] = Idle BY <1>0, <1>12, <1>13
  <2>2. stored = None \/ FreshNext(stored) \/ RenewedNext(stored) BY <1>14, <1>16, <1>17 DEF Safe
  <2>3. unsaved \/ disk = None \/ FreshNext(disk) \/ RenewedNext(disk)
    BY <1>14, <1>16, <1>17 DEF Safe
  <2>4. call'["boot"].at \notin {"loaded", "readiness", "session"} BY <1>0, <1>12, <1>13, <1>i
  <2>5. \A q \in Renewers : call'[q].at = "rotate" =>
          IF Heard(call'[q], "ok")
            THEN FreshNext(call'[q].reply.pair) /\ call'[q].reply.pair.id = call'[q].pair.id
            ELSE FreshNext(call'[q].pair)
    BY <1>0, <1>11, <1>12, <1>13, <1>15, <1>i
  <2> QED BY <2>1, <2>2, <2>3, <2>4, <2>5, <1>18, <1>19 DEF ServedNext
<1> QED BY <1>20, Served

LEMMA ServeRenews ==
  ASSUME Typed, BornInv, Renewal, NEW p \in Calls, Serve(p)
  PROVE  Renewal'
<1>0. /\ CallsFit /\ Renewers \subseteq Calls /\ "login" \in Calls
      /\ Renewers = {"boot", "refresh"} /\ server \in [Sessions -> ServerRow]
  BY Parts, Names DEF Renewers, RestTyped
<1>s. UNCHANGED <<stored, disk, unsaved>> BY DEF Serve, client
<1>i. "idle" \notin Asking /\ Idle.at = "idle" BY DEF Asking, Endings, Idle
<1>f. call[p].at \in StagesOf(p) BY <1>0, Carries
<1>c. \A s \in Sessions : server[s].compromised => s \in estranged BY DEF Renewal
\* Steps that answer p without a rotation.
<1>1. ASSUME NEW kind, NEW pair, Replies(p, kind, pair), call[p].at \in Asking,
             \A x : Fresh(x) => FreshNext(x),
             \A s \in Sessions : server'[s].compromised => s \in estranged',
             call[p].at = "rotate" => call[p].reply = None /\ kind # "ok",
             p = "login" /\ kind = "ok" => FreshNext(pair) /\ Alone(pair.id)
      PROVE  Renewal'
  <2>1. /\ call'[p].at = call[p].at /\ call'[p].pair = call[p].pair
        /\ call'[p].reply = [kind |-> kind, pair |-> pair]
        /\ \A q \in Calls \ {p} : call'[q] = call[q]
    BY <1>0, <1>1, ReplyKeeps
  <2>2. call[p] # Idle BY <1>1, <1>i
  <2>3. \A q \in Renewers : /\ call'[q].at = call[q].at /\ call'[q].pair = call[q].pair
                            /\ call[q] = Idle => call'[q] = Idle
                            /\ \/ call'[q] = call[q] \/ call[q].at # "rotate"
                               \/ ~Heard(call[q], "ok") /\ ~Heard(call'[q], "ok")
    BY <1>0, <1>1, <2>1, <2>2 DEF Heard
  <2>4. \/ call'["login"] = call["login"]
        \/ ~Heard(call'["login"], "ok")
        \/ FreshNext(call'["login"].reply.pair) /\ Alone(call'["login"].reply.pair.id)
    BY <1>0, <1>1, <2>1 DEF Heard
  <2> QED BY <1>1, <1>s, <2>3, <2>4, ServedKept
<1>2. UNCHANGED <<server, estranged>> =>
        /\ \A x : Fresh(x) => FreshNext(x)
        /\ \A s \in Sessions : server'[s].compromised => s \in estranged'
  BY <1>c DEF Fresh, FreshNext, Live
<1>3. CASE Validate(p)
  <2>1. call[p].at = "session" /\ "session" \in Asking BY <1>3 DEF Validate, Asks, Asking
  <2>2. p # "login" BY <2>1, <1>f DEF StagesOf
  <2>3. UNCHANGED <<server, estranged>> BY <1>3 DEF Serve, Validate
  <2>4. PICK kind, pair : Replies(p, kind, pair) BY <1>3 DEF Validate, Misreads
  <2> QED BY <1>1, <1>2, <2>1, <2>2, <2>3, <2>4
<1>4. CASE Ends(p)
  <2>1. call[p].at \in Endings /\ call[p].at \in Asking BY <1>4 DEF Ends, Asks, Asking
  <2>2. call[p].at # "rotate" /\ call[p].at # "login" BY <2>1 DEF Endings
  <2>3. p # "login" BY <2>1, <1>f DEF StagesOf, Endings
  <2>4. PICK row : row = [server[call[p].pair.id] EXCEPT !.status = "revoked"] OBVIOUS
  <2>5. call[p].pair \in Pair BY <1>0, <2>1, Carries DEF Bearing
  <2>6. row.status = "revoked" /\ row.compromised = server[call[p].pair.id].compromised
    BY <2>4, <2>5, <1>0 DEF ServerRow, Pair
  <2>7. server' = server \/ server' = [server EXCEPT ![call[p].pair.id] = row]
    BY <1>4, <2>4 DEF Ends
  <2>e. estranged' = estranged BY <1>4 DEF Ends
  <2>8. /\ \A x : Fresh(x) => FreshNext(x)
        /\ \A s \in Sessions : server'[s].compromised => s \in estranged'
    <3>1. CASE server' = server BY <3>1, <2>e, <1>2
    <3>2. CASE server' = [server EXCEPT ![call[p].pair.id] = row]
      <4>1. \A s \in Sessions : server'[s] = IF s = call[p].pair.id THEN row ELSE server[s]
        BY <3>2, <1>0
      <4> QED BY <4>1, <2>e, <2>5, <2>6, <1>c DEF Fresh, FreshNext, Live, Pair
    <3> QED BY <2>7, <3>1, <3>2
  <2>9. Replies(p, "ok", None) \/ Replies(p, "invalid", None) \/ Replies(p, "mistaken", None)
    BY <1>4 DEF Ends, Misreads
  <2> QED BY <1>1, <2>1, <2>2, <2>3, <2>8, <2>9
<1>5. CASE SignIn(p)
  <2>1. call[p].at = "login" /\ "login" \in Asking BY <1>5 DEF SignIn, Asks, Asking
  <2>e. estranged' = estranged BY <1>5 DEF SignIn
  <2>2. ASSUME NEW s \in Sessions, server[s].status = "unborn",
               server' = [server EXCEPT ![s] = [Unborn EXCEPT !.status = "live", !.access = TRUE]],
               Replies(p, "ok", [id |-> s, gen |-> 1])
        PROVE  Renewal'
    <3>1. PICK row : row = [Unborn EXCEPT !.status = "live", !.access = TRUE] OBVIOUS
    <3>2. row.status = "live" /\ row.gen = 1 /\ ~row.compromised BY <3>1 DEF Unborn
    <3>3. \A x \in Sessions : server'[x] = IF x = s THEN row ELSE server[x]
      BY <2>2, <3>1, <1>0
    <3>4. \A x : Fresh(x) => FreshNext(x) BY <3>3, <2>2 DEF Fresh, FreshNext, Live, Pair
    <3>5. \A x \in Sessions : server'[x].compromised => x \in estranged'
      BY <3>2, <3>3, <2>e, <1>c
    <3>6. PICK pair : pair = [id |-> s, gen |-> 1] OBVIOUS
    <3>7. pair \in Pair /\ pair.id = s /\ pair.gen = 1 BY <3>6, SessionAssumption DEF Pair
    <3>8. FreshNext(pair) BY <3>2, <3>3, <3>7 DEF FreshNext
    <3>9. \A x : Born(x) => Other(x, s) BY <2>2 DEF Born, Other
    <3>10. Alone(s) BY <3>9, <1>0 DEF BornInv, BornCall, Alone
    <3>11. Replies(p, "ok", pair) BY <2>2, <3>6
    <3> QED BY <1>1, <2>1, <3>4, <3>5, <3>7, <3>8, <3>10, <3>11
  <2>3. CASE Replies(p, "refused", None) /\ UNCHANGED server
    BY <1>1, <1>2, <2>1, <2>3, <2>e
  <2> QED BY <1>5, <2>2, <2>3 DEF SignIn
<1>6. CASE Rotate(p)
  <2>1. call[p].at = "rotate" /\ call[p].reply = None /\ "rotate" \in Asking /\ Asks(p, "rotate")
    BY <1>6 DEF Rotate, Asks, Asking
  <2>2. p \in Renewers BY <2>1, <1>f DEF StagesOf, Renewers, Endings
  <2>3. Fresh(call[p].pair) BY <2>1, <2>2 DEF Renewal, RenewalFits, Heard
  <2>4. PICK old : old = call[p].pair OBVIOUS
  <2>5. old \in Pair /\ (Live(old) => Current(old)) BY <2>3, <2>4 DEF Fresh, Current
  <2>6. ~JustRotated(old) /\ ~Replays(old)
    <3>1. \A n \in 1..MaxGen : n # n + 1 BY SessionAssumption
    <3> QED BY <2>5, <3>1 DEF JustRotated, Replays, Current, Pair
  <2>7. PICK o \in Renewers : o # p BY <1>0, <2>2
  <2>8. CASE /\ Renews(old) /\ Advance(old) /\ Replies(p, "ok", Successor(old))
             /\ UNCHANGED estranged
    BY <2>1, <2>2, <2>4, <2>7, <2>8, <1>s, RotationRenews
  <2>9. CASE Estranges(old) /\ Replies(p, "invalid", None)
    <3>1. Condemn(old) /\ estranged' = estranged \cup {old.id} BY <2>9 DEF Estranges
    <3>2. /\ server'[old.id].status = "revoked"
          /\ \A s \in Sessions \ {old.id} : server'[s] = server[s]
      BY <3>1, <2>5, Condemned
    <3>3. \A x : Fresh(x) => FreshNext(x) BY <3>2, <2>5 DEF Fresh, FreshNext, Live, Pair
    <3>4. \A s \in Sessions : server'[s].compromised => s \in estranged' BY <3>1, <3>2, <1>c
    <3> QED BY <1>1, <2>1, <2>2, <2>9, <3>3, <3>4 DEF Renewers
  <2>10. CASE /\ Replies(p, "mistaken", None) \/ Replies(p, "invalid", None)
              /\ UNCHANGED <<server, estranged>>
    BY <1>1, <1>2, <2>1, <2>2, <2>10 DEF Renewers
  <2> QED BY <1>6, <2>4, <2>6, <2>8, <2>9, <2>10 DEF Rotate, Misreads
<1> QED BY <1>3, <1>4, <1>5, <1>6 DEF Serve

LEMMA NextRenews ==
  ASSUME Typed, BornInv, Clean => Renewal, [Next]_vars
  PROVE  (Clean => Renewal)'
<1> SUFFICES ASSUME Clean' PROVE Renewal' BY DEF Clean
<1>0. Clean /\ Renewal /\ restarts' = restarts BY CleanBefore
<1>1. CASE UNCHANGED vars
  <2>1. UNCHANGED <<server, estranged, stored, disk, unsaved, call>> BY <1>1 DEF vars, client, history
  <2>2. \A x : Fresh(x) => Fresh(x)' BY <2>1 DEF Fresh, Live
  <2>3. \A x : Usable(x) => Usable(x)' BY <2>1, <2>2 DEF Usable, Renewed, Heard
  <2>4. \A c : RenewalFits(c) => RenewalFits(c)' BY <2>2 DEF RenewalFits, Heard
  <2>5. \A s \in Sessions : Alone(s) => Alone(s)' BY <2>1 DEF Alone, Other
  <2>6. Heard(call["login"], "ok") => call["login"].reply.pair.id \in Sessions
    BY <1>0 DEF Renewal, Fresh, Pair
  <2> QED BY <1>0, <2>1, <2>2, <2>3, <2>4, <2>5, <2>6 DEF Renewal, Heard
<1>2. CASE Boot
  <2>1. CASE call["refresh"] = Idle BY <1>0, <1>2, <2>1, BootRenews
  <2>2. CASE call["refresh"] # Idle
    <3>1. call["boot"] = Idle BY <1>0, <2>2 DEF Renewal
    <3>2. Idle.at = "idle" BY DEF Idle
    <3>3. BootStart
      BY <1>2, <3>1, <3>2 DEF Boot, BootRead, BootLoad, BootUnread, BootReady, BootValidated, Rotated
    <3>4. overlap' BY <3>3, <2>2 DEF BootStart, Meets
    <3> QED BY <3>4 DEF Clean
  <2> QED BY <2>1, <2>2
<1>3. CASE Refresh BY <1>0, <1>3, RefreshRenews
<1>4. CASE Login BY <1>0, <1>4, LoginRenews
<1>5. ASSUME NEW p \in Enders, End(p) PROVE Renewal' BY <1>0, <1>5, EndRenews
<1>6. ASSUME NEW p \in Calls, Serve(p) PROVE Renewal' BY <1>0, <1>6, ServeRenews
<1>7. ASSUME NEW p \in Calls, Fail(p) PROVE Renewal' BY <1>0, <1>7, FailRenews
<1>8. ASSUME NEW s \in Sessions, Pass(s) PROVE Renewal' BY <1>0, <1>8, PassRenews
<1>9. CASE Persist BY <1>0, <1>9, PersistRenews
<1>10. CASE Restart
  <2>1. restarts' # restarts BY <1>10, Parts DEF Restart, RestTyped
  <2> QED BY <2>1, <1>0
<1>11. ASSUME NEW pair \in Pair, Arrive(pair) PROVE Renewal' BY <1>11 DEF Arrive, Clean
<1> QED BY <1>1, <1>2, <1>3, <1>4, <1>5, <1>6, <1>7, <1>8, <1>9, <1>10, <1>11 DEF Next

\* A session is taken for compromised only when it was refreshed with another device
\* fingerprint, or after a rotation whose answer nobody heard, be it executed late, a
\* rejected storage call, a restart or a bootstrap beside a refresh, with any number
\* of sessions, renewals, sign-ins and logouts overlapping.
THEOREM ReplayCorrect == Spec => []ReplayExplained
<1> DEFINE Inv == Typed /\ BornInv /\ (Clean => Renewal)
<1>1. Init => Inv
  <2> SUFFICES ASSUME Init PROVE Renewal BY InitTyped, InitBorn
  <2>0. "boot" \in Calls /\ "refresh" \in Calls /\ "login" \in Calls /\ Renewers \subseteq Calls
    BY Names
  <2>1. \A p \in Calls : call[p] = Idle BY DEF Init
  <2>2. \A s \in Sessions : ~server[s].compromised BY DEF Init, Unborn
  <2>3. Idle.at = "idle" /\ Idle.reply = None BY DEF Idle
  <2> QED BY <2>0, <2>1, <2>2, <2>3 DEF Init, Renewal, Usable, RenewalFits, Heard
<1>2. Inv /\ [Next]_vars => Inv'
  <2> SUFFICES ASSUME Inv, [Next]_vars PROVE Inv' OBVIOUS
  <2>1. (Clean => Renewal)' BY NextRenews
  <2> QED BY <2>1, NextTyped, NextBorn
<1>3. Inv => ReplayExplained
  <2> SUFFICES ASSUME Inv, NEW s \in Sessions, server[s].compromised
               PROVE  s \in estranged \/ lost \/ overlap \/ spoiled \/ restarts > 0
    BY DEF ReplayExplained
  <2>1. Clean => s \in estranged BY DEF Renewal
  <2>2. restarts \in Nat BY Parts DEF RestTyped
  <2> QED BY <2>1, <2>2 DEF Clean
<1> QED BY <1>1, <1>2, <1>3, PTL DEF Spec
=============================================================================
