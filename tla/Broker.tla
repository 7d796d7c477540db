------------------------------- MODULE Broker -------------------------------
(***************************************************************************)
(* The broker process (bridged/index.mjs): its connections, the one route  *)
(* of each connected browser profile, the requests in flight to browsers,  *)
(* arming, the panic switch (bridged/policy.mjs) and the heartbeat.        *)
(*                                                                         *)
(* A handler runs to completion on the broker's single thread, so one      *)
(* action is one handler.  handleRegister has an await and is two actions, *)
(* RegisterArrives and RegisterResumes, with anything in between.  What a  *)
(* route is called is RouteTable's business; here a route is a connection  *)
(* and the person its profile is joined to.                                *)
(***************************************************************************)
EXTENDS Naturals, FiniteSets

CONSTANTS
    Hosts,          \* connections of role host, one browser profile behind each
    Clients,        \* connections of role mcp
    Installs,       \* installIds
    InstallOf,      \* InstallOf[h]: the install a host connection registers
    Requests,       \* page operations mcp sessions ask for
    Asker,          \* Asker[r]: the connection that sends request r
    Target,         \* Target[r]: the install r addresses
    ArmedOps,       \* the requests whose operation is of the armed tier
    People,         \* identities a route can be joined to
    StaleAfter,     \* TIMING.STALE_AFTER_MISSED
    EvictAfter,     \* TIMING.EVICT_AFTER_MISSED
    FileFails,      \* TRUE: the panic file may resist being written or removed
    NoHost, Nobody

Conns == Hosts \cup Clients

ASSUME BrokerAssumption ==
    /\ Hosts \cap Clients = {}
    /\ InstallOf \in [Hosts -> Installs]
    /\ Asker \in [Requests -> Clients]
    /\ Target \in [Requests -> Installs]
    /\ ArmedOps \subseteq Requests
    /\ StaleAfter \in Nat
    /\ EvictAfter \in Nat \ {0}
    /\ FileFails \in BOOLEAN
    /\ NoHost \notin Conns
    /\ Nobody \notin People

(***************************************************************************)
(* A connection is open after its HELLO; closing from sendAndClose until   *)
(* its last bytes are out (messages that arrive are still handled);        *)
(* destroyed from destroy() until the socket's close event (messages of a  *)
(* chunk already read are still handled); and gone before and after.       *)
(***************************************************************************)
ConnState == {"gone", "open", "closing", "destroyed"}

(* A host's registration: owed since HELLO (registerTimer runs), overdue    *)
(* (the timer refused it), awaiting its identity, or over.                 *)
RegState == {"none", "owed", "overdue", "awaiting", "over"}

(* A request waits for the browser it was sent to; it is unsent when the   *)
(* send found the connection destroyed.  lost: the broker died on it.      *)
ReqState == {"new", "waiting", "unsent", "answered", "lost"}

VARIABLES
    conn,       \* Connection.closed and the life of the socket
    reg,        \* registerTimer, and handleRegister between its awaits
    held,       \* the hosts with conn.panicHeld
    route,      \* #byInstall: the connection of the live route
    who,        \* who that route is joined to (Nobody: unclaimed, or no route)
    pings,      \* pings sent since the last pong: 0, or missed + 1
    armed,      \* ArmingState: Nobody, or (history) who an open arm window is for
    req,        \* each request, and whether it has a record in pendings
    at,         \* pending.route.conn
    audits,     \* lines the audit log has for each request
    answers,    \* replies written to its asker
    panic,      \* PanicSwitch.#active
    file,       \* whether the panic file exists
    unwritten,  \* history: trip() could not write the file, in this broker's life
    newest      \* history: the connection of the install's latest REGISTER

vars == <<conn, reg, held, route, who, pings, armed, req, at, audits, answers,
          panic, file, unwritten, newest>>

TypeOK ==
    /\ conn \in [Conns -> ConnState]
    /\ reg \in [Hosts -> RegState]
    /\ held \subseteq Hosts
    /\ route \in [Installs -> Hosts \cup {NoHost}]
    /\ who \in [Installs -> People \cup {Nobody}]
    /\ pings \in [Installs -> 0..EvictAfter]
    /\ armed \in [Installs -> People \cup {Nobody}]
    /\ req \in [Requests -> ReqState]
    /\ at \in [Requests -> Hosts \cup {NoHost}]
    /\ audits \in [Requests -> Nat]
    /\ answers \in [Requests -> Nat]
    /\ panic \in BOOLEAN /\ file \in BOOLEAN /\ unwritten \in BOOLEAN
    /\ newest \in [Installs -> Hosts \cup {NoHost}]

-----------------------------------------------------------------------------
(***************************************************************************)
(* The broker as a value: what the steps of one handler read and rewrite.  *)
(***************************************************************************)
Now == [conn |-> conn, reg |-> reg, held |-> held, route |-> route, who |-> who,
        pings |-> pings, armed |-> armed, req |-> req, audits |-> audits,
        answers |-> answers, panic |-> panic]

Pending(b) == {r \in Requests : b.req[r] \in {"waiting", "unsent"}}

(* The requests in flight to the connections in H. *)
SentTo(b, H) == {r \in Pending(b) : at[r] \in H}

Writable(b, c) == b.conn[c] \in {"open", "closing"}

(* finish and reply: one audit line, and an answer if the asker can be     *)
(* written to.  Every request here is of an operation that is audited.     *)
Finish(b, R) ==
    [b EXCEPT !.req = [r \in Requests |-> IF r \in R THEN "answered" ELSE b.req[r]],
              !.audits = [r \in Requests |-> b.audits[r] + (IF r \in R THEN 1 ELSE 0)],
              !.answers = [r \in Requests |->
                 b.answers[r] + (IF r \in R /\ Writable(b, Asker[r]) THEN 1 ELSE 0)]]

FailPendingsFor(b, H) == Finish(b, SentTo(b, H))

Destroy(b, C) ==
    [b EXCEPT !.conn = [c \in Conns |-> IF c \in C /\ b.conn[c] # "gone"
                                        THEN "destroyed" ELSE b.conn[c]]]

SendAndClose(b, c) ==
    IF b.conn[c] = "open" THEN [b EXCEPT !.conn[c] = "closing"] ELSE b

Detach(b, I) ==
    [b EXCEPT !.route = [i \in Installs |-> IF i \in I THEN NoHost ELSE b.route[i]],
              !.who = [i \in Installs |-> IF i \in I THEN Nobody ELSE b.who[i]],
              !.pings = [i \in Installs |-> IF i \in I THEN 0 ELSE b.pings[i]]]

Disarmed(b, I) ==
    [b EXCEPT !.armed = [i \in Installs |-> IF i \in I THEN Nobody ELSE b.armed[i]]]

Routed(b) == {b.route[i] : i \in Installs} \ {NoHost}

EnterPanic(b, except) ==
    LET failed == Finish(Disarmed(b, Installs), Pending(b))
    IN  Destroy(Detach(failed, Installs), Routed(b) \ {except})

(* Mutant: a resume lets go of nobody but the popup that asked.            *)
LetGoOfNobody(b, except) == b

LeavePanic(b, except) == Destroy(b, b.held \ {except})

(* PanicSwitch.check: the file decides, and a change is acted on at once.  *)
(* Mutant: the switch believes its memory and the watcher.                 *)
BelieveMemory(b) == b

Check(b) ==
    IF b.panic = file THEN b
    ELSE IF file THEN EnterPanic([b EXCEPT !.panic = TRUE], NoHost)
         ELSE LeavePanic([b EXCEPT !.panic = FALSE], NoHost)

Become(b) ==
    /\ conn' = b.conn /\ reg' = b.reg /\ held' = b.held
    /\ route' = b.route /\ who' = b.who /\ pings' = b.pings
    /\ armed' = b.armed /\ req' = b.req
    /\ audits' = b.audits /\ answers' = b.answers
    /\ panic' = b.panic

(* A message of c is still handled while its socket is there. *)
Heard(c) == conn[c] # "gone"

-----------------------------------------------------------------------------
(* Connections.                                                            *)

(* handleHello, for a client that knows the token.  A name is used for     *)
(* another connection once nothing refers to the one that had it.          *)
Hello(c) ==
    LET b == Check(Now)
    IN  /\ conn[c] = "gone"
        /\ c \in Hosts => reg[c] # "awaiting"
        /\ \A r \in Requests : Asker[r] = c => req[r] = "new"
        /\ Become(IF c \in Hosts
                  THEN [b EXCEPT !.conn[c] = "open", !.reg[c] = "owed", !.held = @ \ {c}]
                  ELSE [b EXCEPT !.conn[c] = "open"])
        /\ UNCHANGED <<at, file, unwritten, newest>>

(* The last bytes are out, or the backstop timer fired. *)
Closed(c) ==
    /\ conn[c] = "closing"
    /\ Become(Destroy(Now, {c}))
    /\ UNCHANGED <<at, file, unwritten, newest>>

(* A framing error, a failed write, a message the role may not send. *)
Break(c) ==
    /\ conn[c] \in {"open", "closing"}
    /\ Become(Destroy(Now, {c}))
    /\ UNCHANGED <<at, file, unwritten, newest>>

(* releaseConnection.                                                      *)
ReleaseConnection(b, c) ==
    LET owned == {i \in Installs : b.route[i] = c}
    IN  IF owned = {} THEN b ELSE FailPendingsFor(Detach(b, owned), {c})

(* The socket's close event, for whatever reason. *)
SocketCloses(c) ==
    /\ conn[c] # "gone"
    /\ Become(ReleaseConnection([Now EXCEPT !.conn[c] = "gone"], c))
    /\ UNCHANGED <<at, file, unwritten, newest>>

-----------------------------------------------------------------------------
(* Registration.                                                           *)

(* registerTimer: nothing registered on this connection. *)
RegisterDeadline(h) ==
    /\ reg[h] = "owed" /\ conn[h] \in {"open", "closing"}
    /\ Become([SendAndClose(Now, h) EXCEPT !.reg[h] = "overdue"])
    /\ UNCHANGED <<at, file, unwritten, newest>>

Hold(b, h) == [b EXCEPT !.held = @ \cup {h}, !.reg[h] = "over"]

(* handleRegister up to its await.  An extension registers once on a       *)
(* connection; it may do so after the deadline refused it.                 *)
RegisterArrives(h) ==
    LET b == Check(Now)
    IN  /\ Heard(h) /\ reg[h] \in {"owed", "overdue"}
        /\ Become(IF b.panic THEN Hold(b, h) ELSE [b EXCEPT !.reg[h] = "awaiting"])
        /\ newest' = [newest EXCEPT ![InstallOf[h]] = h]
        /\ UNCHANGED <<at, file, unwritten>>

(* A live route of the same install is replaced: what it had in flight     *)
(* fails, and its connection is told and closed.                           *)
Replace(b, old) ==
    IF old = NoHost THEN b ELSE SendAndClose(FailPendingsFor(b, {old}), old)

(* handleRegister after its await: the identity is p; changed when the     *)
(* person is no longer the one the line was claimed as, and then dropClaim *)
(* leaves an unclaimed, disarmed line.                                     *)
(* Mutant: panic is not looked at again after the await.                   *)
AttachUnchecked(b, h, p, changed) ==
    LET i   == InstallOf[h]
        new == Replace(b, b.route[i])
    IN  [new EXCEPT !.route[i] = h, !.who[i] = p, !.pings[i] = 0, !.reg[h] = "over",
                    !.armed[i] = IF changed THEN Nobody ELSE @]

Attach(b, h, p, changed) ==
    IF Check(b).panic THEN Hold(Check(b), h)
    ELSE AttachUnchecked(Check(b), h, p, changed)

RegisterResumes(h, p, changed) ==
    /\ reg[h] = "awaiting"
    /\ changed => p = Nobody
    /\ Become(IF conn[h] \in {"destroyed", "gone"} THEN [Now EXCEPT !.reg[h] = "over"]
              ELSE Attach(Now, h, p, changed))
    /\ UNCHANGED <<at, file, unwritten, newest>>

-----------------------------------------------------------------------------
(* The heartbeat.                                                          *)

Stale(b, i) == b.pings[i] > StaleAfter

Silent(b) == {i \in Installs : b.route[i] # NoHost /\ b.pings[i] >= EvictAfter}

(* Mutant: an evicted route's requests are left to releaseConnection,      *)
(* which no longer finds the route.                                        *)
EvictForgetsPendings(b, I) ==
    Detach(Destroy(b, {b.route[i] : i \in I}), I)

Evict(b, I) ==
    LET failed == FailPendingsFor(b, {b.route[i] : i \in I})
    IN  Detach(Destroy(failed, {b.route[i] : i \in I}), I)

(* dropClaim for the claimed routes that recheckIdentity finds drifted.    *)
DropClaims(b, I) ==
    LET unclaimed == [b EXCEPT !.who = [i \in Installs |-> IF i \in I THEN Nobody ELSE @[i]]]
    IN  FailPendingsFor(Disarmed(unclaimed, I), {b.route[i] : i \in I})

(* Mutant: sending a ping forgets the ones before it.                      *)
PingForgetsMissed(b, I) ==
    [b EXCEPT !.pings = [i \in Installs |-> IF i \in I THEN 1 ELSE @[i]]]

Ping(b, I) ==
    [b EXCEPT !.pings = [i \in Installs |-> IF i \in I THEN @[i] + 1 ELSE @[i]]]

Heartbeat(drifted) ==
    LET live    == {i \in Installs : route[i] # NoHost}
        kept    == live \ Silent(Now)
    IN  /\ drifted \subseteq {i \in kept : who[i] # Nobody}
        /\ Become(Ping(DropClaims(Evict(Now, Silent(Now)), drifted), kept))
        /\ UNCHANGED <<at, file, unwritten, newest>>

(* handlePong, of the latest ping; a late one is ignored. *)
Pong(h) ==
    LET i == InstallOf[h]
    IN  /\ Heard(h) /\ route[i] = h /\ pings[i] > 0
        /\ Become([Now EXCEPT !.pings[i] = 0])
        /\ UNCHANGED <<at, file, unwritten, newest>>

-----------------------------------------------------------------------------
(* Requests.                                                               *)

(* The gates of handleReq, in an order the answer's code depends on and    *)
(* nothing else does: panic, a route, the armed tier, the link.            *)
Refused(b, r) ==
    LET i == Target[r]
    IN  \/ b.panic
        \/ b.route[i] = NoHost
        \/ r \in ArmedOps /\ (b.who[i] = Nobody \/ b.armed[i] = Nobody)
        \/ Stale(b, i)

Forward(b, r) ==
    [b EXCEPT !.req[r] = IF Writable(b, b.route[Target[r]]) THEN "waiting" ELSE "unsent"]

Req(r) ==
    LET b == Check(Now)
    IN  /\ req[r] = "new" /\ Heard(Asker[r])
        /\ IF Refused(b, r)
           THEN Become(Finish(b, {r})) /\ UNCHANGED at
           ELSE Become(Forward(b, r)) /\ at' = [at EXCEPT ![r] = b.route[Target[r]]]
        /\ UNCHANGED <<file, unwritten, newest>>

(* handleRes, from the connection the request was sent to. *)
Res(r) ==
    /\ req[r] = "waiting" /\ Heard(at[r])
    /\ Become(Finish(Now, {r}))
    /\ UNCHANGED <<at, file, unwritten, newest>>

(* Mutant: the timer of a request goes with the session that asked.        *)
TimeoutNeedsAsker(r) ==
    /\ req[r] \in {"waiting", "unsent"} /\ Heard(Asker[r])
    /\ Become(Finish(Now, {r}))
    /\ UNCHANGED <<at, file, unwritten, newest>>

Timeout(r) ==
    /\ req[r] \in {"waiting", "unsent"}
    /\ Become(Finish(Now, {r}))
    /\ UNCHANGED <<at, file, unwritten, newest>>

-----------------------------------------------------------------------------
(* Arming and claims.                                                      *)

Arm(c, i) ==
    LET b == Check(Now)
    IN  /\ Heard(c)
        /\ Become(IF b.panic \/ b.who[i] = Nobody THEN b
                  ELSE [b EXCEPT !.armed[i] = b.who[i]])
        /\ UNCHANGED <<at, file, unwritten, newest>>

Disarm(c, i) ==
    LET b == Check(Now)
    IN  /\ Heard(c)
        /\ Become(IF b.panic \/ b.route[i] = NoHost THEN b ELSE Disarmed(b, {i}))
        /\ UNCHANGED <<at, file, unwritten, newest>>

(* ArmingState.armedUntil finds the window expired. *)
ArmExpires(i) ==
    /\ armed[i] # Nobody
    /\ Become(Disarmed(Now, {i}))
    /\ UNCHANGED <<at, file, unwritten, newest>>

(* claimProfile.  A host claims for the route of its own connection only.  *)
ClaimProfile(c, i, p) ==
    LET b == Check(Now)
    IN  /\ Heard(c)
        /\ Become(IF b.panic \/ b.route[i] = NoHost \/ (c \in Hosts /\ b.route[i] # c) THEN b
                  ELSE [b EXCEPT !.who[i] = p])
        /\ UNCHANGED <<at, file, unwritten, newest>>

-----------------------------------------------------------------------------
(* Panic.                                                                  *)

(* The PANIC operation.  The file may not be written.                      *)
Panic(c) ==
    LET b == SendAndClose([Check(Now) EXCEPT !.panic = TRUE], c)
    IN  /\ Heard(c)
        /\ Become(EnterPanic(b, c))
        /\ file' \in IF FileFails THEN {TRUE, file} ELSE {TRUE}
        /\ unwritten' = (unwritten \/ ~file')
        /\ UNCHANGED <<at, newest>>

(* The RESUME operation, which only a held profile's popup gets through.   *)
(* The file may not be removed.                                            *)
Resume(h) ==
    LET b       == Check(Now)
        granted == b.panic /\ h \in held
    IN  /\ Heard(h)
        /\ file' \in IF granted THEN (IF FileFails THEN {FALSE, file} ELSE {FALSE})
                     ELSE {file}
        /\ Become(IF granted /\ ~file'
                  THEN LeavePanic(SendAndClose([b EXCEPT !.panic = FALSE], h), h)
                  ELSE b)
        /\ UNCHANGED <<at, unwritten, newest>>

(* A person creates the panic file, or deletes it. *)
FileChanges ==
    /\ file' = ~file
    /\ UNCHANGED <<conn, reg, held, route, who, pings, armed, req, at, audits,
                   answers, panic, unwritten, newest>>

(* The watcher noticed, or a request that changes nothing else did. *)
Watch ==
    /\ panic # file
    /\ Become(Check(Now))
    /\ UNCHANGED <<at, file, unwritten, newest>>

(* The broker dies, and a new one starts with empty tables. *)
BrokerRestart ==
    /\ conn' = [c \in Conns |-> "gone"]
    /\ reg' = [h \in Hosts |-> "none"]
    /\ held' = {}
    /\ route' = [i \in Installs |-> NoHost]
    /\ who' = [i \in Installs |-> Nobody]
    /\ pings' = [i \in Installs |-> 0]
    /\ armed' = [i \in Installs |-> Nobody]
    /\ req' = [r \in Requests |-> IF r \in Pending(Now) THEN "lost" ELSE req[r]]
    /\ panic' = file
    /\ unwritten' = FALSE
    /\ newest' = [i \in Installs |-> NoHost]
    /\ UNCHANGED <<at, audits, answers, file>>

Init ==
    /\ conn = [c \in Conns |-> "gone"]
    /\ reg = [h \in Hosts |-> "none"]
    /\ held = {}
    /\ route = [i \in Installs |-> NoHost]
    /\ who = [i \in Installs |-> Nobody]
    /\ pings = [i \in Installs |-> 0]
    /\ armed = [i \in Installs |-> Nobody]
    /\ req = [r \in Requests |-> "new"]
    /\ at = [r \in Requests |-> NoHost]
    /\ audits = [r \in Requests |-> 0]
    /\ answers = [r \in Requests |-> 0]
    /\ file \in BOOLEAN
    /\ panic = file
    /\ unwritten = FALSE
    /\ newest = [i \in Installs |-> NoHost]

Next ==
    \/ \E c \in Conns :
          \/ Hello(c) \/ Closed(c) \/ Break(c) \/ SocketCloses(c) \/ Panic(c)
          \/ \E i \in Installs :
                Arm(c, i) \/ Disarm(c, i) \/ \E p \in People : ClaimProfile(c, i, p)
    \/ \E h \in Hosts :
          \/ RegisterDeadline(h) \/ RegisterArrives(h) \/ Pong(h) \/ Resume(h)
          \/ \E p \in People \cup {Nobody}, changed \in BOOLEAN :
                RegisterResumes(h, p, changed)
    \/ \E drifted \in SUBSET Installs : Heartbeat(drifted)
    \/ \E r \in Requests : Req(r) \/ Res(r) \/ Timeout(r)
    \/ \E i \in Installs : ArmExpires(i)
    \/ FileChanges \/ Watch \/ BrokerRestart

Spec == Init /\ [][Next]_vars

(***************************************************************************)
(* What the runtime guarantees: timers fire (a request's timeout, the      *)
(* heartbeat's interval, sendAndClose's backstop), and a destroyed socket  *)
(* gets its close event.  Nothing is assumed of browsers or sessions.      *)
(***************************************************************************)
Fairness ==
    /\ \A r \in Requests : WF_vars(Timeout(r))
    /\ \A c \in Conns : WF_vars(Closed(c)) /\ WF_vars(conn[c] = "destroyed" /\ SocketCloses(c))
    /\ WF_vars(\E drifted \in SUBSET Installs : Heartbeat(drifted))

FairSpec == Spec /\ Fairness

-----------------------------------------------------------------------------
(* While the broker is in panic no profile is routed, nothing is armed and *)
(* nothing is in flight, whatever was awaiting when panic was tripped.     *)
PanicStopsEverything ==
    panic => /\ \A i \in Installs : route[i] = NoHost
             /\ \A i \in Installs : armed[i] = Nobody
             /\ Pending(Now) = {}

(* Once the file is there, seen or not, no request reaches a browser and   *)
(* no profile joins: each is decided on the file, never on the memory of   *)
(* it.                                                                     *)
TheFileIsObeyedUnseen ==
    [][file =>
        /\ \A r \in Requests : req[r] = "new" => req'[r] \notin {"waiting", "unsent"}
        /\ \A i \in Installs : route'[i] \in {route[i], NoHost}]_vars

(* A request waits only on the live route it was sent to: however that     *)
(* route ends, the request is failed then, not at its timeout.             *)
NoRequestWaitsOnADeadRoute ==
    \A r \in Pending(Now) :
        /\ at[r] # NoHost
        /\ route[Target[r]] = at[r]
        /\ conn[at[r]] # "gone"

(* Whatever ends a request - its answer, its timeout, the loss of its      *)
(* route, panic - the log has one line for it, its asker at most one       *)
(* answer, and no line is written before the end.                          *)
EndedOnce ==
    \A r \in Requests :
        /\ audits[r] = (IF req[r] = "answered" THEN 1 ELSE 0)
        /\ answers[r] <= audits[r]

(* A request is never left behind: not on a route that is gone, and not    *)
(* without its one line in the log when it ends.                           *)
RequestsAreSettled == NoRequestWaitsOnADeadRoute /\ EndedOnce

(* No profile stays held once panic is over: each is let go, to register   *)
(* again.                                                                  *)
HeldOnlyThroughPanic ==
    \A h \in held : panic \/ conn[h] # "open"

(* Every request that reached a browser ends, even when the browser never  *)
(* answers and its connection hangs, unless the broker dies.               *)
EveryRequestEnds ==
    \A r \in Requests : req[r] \in {"waiting", "unsent"} ~> req[r] \in {"answered", "lost"}

(* A browser that stops answering pings does not keep its route.           *)
SilentBrowserLosesItsRoute ==
    \A i \in Installs : pings[i] > 0 ~> pings[i] = 0

(* "Even if the file cannot be written, the in-memory flag below still     *)
(* refuses everything for this broker lifetime" (policy.mjs, trip).  The   *)
(* code does not keep this: README, section 9.                             *)
PanicHoldsWithoutTheFile == unwritten => panic

(* "Arming is granted to a person, not to a browser window, so it cannot   *)
(* outlive the person" (index.mjs, dropClaim).  The code does not keep     *)
(* this: README, section 9.                                                *)
ArmIsForThePersonThere ==
    \A i \in Installs :
        armed[i] # Nobody /\ who[i] # Nobody => who[i] = armed[i]

(* "Replace, never duplicate. The old socket goes": the connection that is *)
(* replaced is never the one that registered last (index.mjs,              *)
(* handleRegister).  The code does not keep this: README, section 9.       *)
OnlyTheOldSocketIsReplaced ==
    [][\A i \in Installs :
          route[i] # NoHost /\ route'[i] \notin {route[i], NoHost}
              => newest[i] # route[i]]_vars
=============================================================================
