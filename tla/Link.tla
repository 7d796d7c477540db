-------------------------------- MODULE Link --------------------------------
(***************************************************************************)
(* The extension's link to the broker: src/extension/lib/link.js, as       *)
(* sw.js drives it.  One service worker owns at most one native port.      *)
(* Every handler is cut at its awaits: what a handler still has to do is a *)
(* task, and tasks interleave.  The worker may die between any two steps   *)
(* and lose everything but chrome.storage.session.                         *)
(*                                                                         *)
(* A handler computes with a record of the worker's state (Now), which it  *)
(* passes on in the code's order and becomes (Become).  Storage calls take *)
(* effect in the order they are issued, and the rest of a handler runs at  *)
(* any later time.                                                         *)
(***************************************************************************)
EXTENDS Integers

CONSTANTS
    Ports,        \* native ports the browser may open; a name is used again
    Slots,        \* handlers that may be under way at once (a bound)
    MaxTrouble,   \* how often something goes wrong (a bound)
    NoPort        \* no port

ASSUME LinkAssumption == NoPort \notin Ports /\ MaxTrouble \in Nat

VARIABLES
    port,         \* the current port
    ack,          \* ackTimer: the port whose answer it is the deadline of
    retry,        \* retryTimer is running
    arming,       \* retryArming
    task,         \* the handlers under way
    state,        \* K_STATE in session storage
    held,         \* K_PANIC_HELD in session storage
    fresh,        \* K_HEARTBEAT is set and within the stale window
    far,          \* what is behind each port: host and broker
    awake,        \* the worker runs
    trouble       \* things that may still go wrong

worker == <<port, ack, retry, arming, task>>
storage == <<state, held, fresh>>
vars == <<worker, storage, far, awake, trouble>>

LinkState == {"DOWN", "CONNECTING", "READY"}

(* far: "new" until REGISTER is posted; "asked" until it is answered, never *)
(* if "mute"; "routed" or "held" once it is; "silent" when the broker       *)
(* forgot the route; "gone" when the host exited and the worker was not     *)
(* told; "closed" when the worker disconnected it.                          *)
FarState == {"none", "new", "asked", "mute", "routed", "held", "silent", "gone", "closed"}

Reads == {"readHeld", "readStale", "decide"}

Steps == Reads \cup
    {"idle", "boot", "reset", "cleared", "downed", "open", "clearHeld",
     "identity", "bumped", "okHeld", "okRecord", "okFresh", "okReady",
     "panicHold", "panicDown", "settle"}

Task == [do : Steps,
         port : Ports \cup {NoPort},               \* p, from
         then : {"", "connect", "ensure", "retry"}, \* what awaits a teardown
         dial : BOOLEAN,                           \* it is connectInFlight
         sawReady : BOOLEAN, sawHeld : BOOLEAN, sawStale : BOOLEAN,
         moved : BOOLEAN]                          \* linkEpoch moved since epoch was read

Idle == [do |-> "idle", port |-> NoPort, then |-> "", dial |-> FALSE,
         sawReady |-> FALSE, sawHeld |-> FALSE, sawStale |-> FALSE, moved |-> FALSE]

-----------------------------------------------------------------------------
(* The worker's state as a value, and the functions of link.js on it.      *)

Now == [port |-> port, ack |-> ack, retry |-> retry, arming |-> arming, task |-> task,
        state |-> state, held |-> held, fresh |-> fresh, far |-> far]

Become(b) ==
    /\ port' = b.port /\ ack' = b.ack /\ retry' = b.retry /\ arming' = b.arming
    /\ task' = b.task /\ state' = b.state /\ held' = b.held /\ fresh' = b.fresh
    /\ far' = b.far

(* Slot s goes on with t; or its handler has returned. *)
Awaits(b, s, t) == [b EXCEPT !.task[s] = t]
Returns(b, s) == Awaits(b, s, Idle)

ConnectInFlight(b) == \E s \in Slots : b.task[s].dial

(* A port waiting on its answer, or writing it down. *)
AckPending(b) == b.port # NoPort /\ b.ack # NoPort

(* linkEpoch += 1: every reader of the link will read it again. *)
Moves(b) ==
    [b EXCEPT !.task = [s \in Slots |->
        [b.task[s] EXCEPT !.moved = @ \/ b.task[s].do \in Reads]]]

ClosePort(b, p) == [b EXCEPT !.far[p] = "closed"]

(* Mutant: the port is forgotten, not closed.                               *)
DropUnclosed(b) == IF b.port = NoPort THEN b ELSE Moves([b EXCEPT !.port = NoPort])

DropPort(b) ==
    IF b.port = NoPort THEN b ELSE Moves(ClosePort([b EXCEPT !.port = NoPort], b.port))

(* setState(DOWN) also zeroes the heartbeat stamp. *)
SetDown(b) == [b EXCEPT !.state = "DOWN", !.fresh = FALSE]

(* teardown(message), up to its first await; then says what its caller does next. *)
Teardown(b, s, t, then) ==
    Awaits([DropPort(b) EXCEPT !.ack = NoPort, !.held = FALSE], s,
           [Idle EXCEPT !.do = "cleared", !.then = then, !.dial = t.dial])

(* Mutant: a dial under way counts as a retry.                             *)
ScheduleUnlessDialing(b, s, t) ==
    IF b.retry \/ b.arming \/ ConnectInFlight(b) THEN Returns(b, s)
    ELSE Awaits([b EXCEPT !.arming = TRUE], s, [Idle EXCEPT !.do = "bumped", !.dial = t.dial])

ScheduleReconnect(b, s, t) ==
    IF b.retry \/ b.arming THEN Returns(b, s)
    ELSE Awaits([b EXCEPT !.arming = TRUE], s, [Idle EXCEPT !.do = "bumped", !.dial = t.dial])

(* failConnect(message, p): a port no longer current is only closed. *)
FailConnect(b, s, t) ==
    IF t.port # NoPort /\ t.port # b.port THEN Returns(ClosePort(b, t.port), s)
    ELSE Teardown(b, s, t, "retry")

Connect(b, s) ==
    Awaits([b EXCEPT !.state = "CONNECTING"], s, [Idle EXCEPT !.do = "clearHeld", !.dial = TRUE])

(* ensureConnected, up to its first await. *)
EnsureConnected(b, s) ==
    IF ConnectInFlight(b) \/ AckPending(b) THEN Returns(b, s)
    ELSE Awaits(b, s, [Idle EXCEPT !.do = "readHeld", !.sawReady = (b.state = "READY")])

(* Mutant: the dial under way is looked for before the reads only.         *)
DecideUnclaimed(b, s, t) ==
    IF t.moved THEN EnsureConnected(Returns(b, s), s)
    ELSE IF b.port # NoPort /\ (t.sawHeld \/ (t.sawReady /\ ~t.sawStale)) THEN Returns(b, s)
    ELSE IF b.port # NoPort THEN Teardown(b, s, [t EXCEPT !.dial = TRUE], "connect")
    ELSE Connect(b, s)

(* Mutant: the link is judged by what was read, however it moved since.    *)
DecideOutdated(b, s, t) ==
    IF ConnectInFlight(b) \/ AckPending(b) THEN Returns(b, s)
    ELSE DecideUnclaimed(b, s, [t EXCEPT !.moved = FALSE])

(* ensureConnected, once everything it reads is read. *)
Decide(b, s, t) ==
    IF t.moved THEN EnsureConnected(Returns(b, s), s)
    ELSE IF \/ ConnectInFlight(b) \/ AckPending(b)
            \/ b.port # NoPort /\ (t.sawHeld \/ (t.sawReady /\ ~t.sawStale))
    THEN Returns(b, s)
    ELSE IF b.port # NoPort THEN Teardown(b, s, [t EXCEPT !.dial = TRUE], "connect")
    ELSE Connect(b, s)

(* What a handler does when the teardown it awaited has returned. *)
AfterTeardown(b, s, t) ==
    CASE t.then = "connect" -> Connect(b, s)
      [] t.then = "ensure"  -> Awaits(b, s, [Idle EXCEPT !.do = "reset"])
      [] t.then = "retry"   -> ScheduleReconnect(b, s, t)

Settle(b, from) ==
    IF from # b.port THEN b
    ELSE Moves([b EXCEPT !.ack = NoPort, !.retry = FALSE, !.arming = FALSE])

-----------------------------------------------------------------------------
(* What goes wrong is counted; the rest may happen at any time.            *)
Calm == UNCHANGED trouble
Trouble == trouble > 0 /\ trouble' = trouble - 1

Free(s) == awake /\ task[s].do = "idle"
Resumes(s, step) == task[s].do = step

-----------------------------------------------------------------------------
(* What starts a handler.                                                  *)

Init ==
    /\ port = NoPort /\ ack = NoPort /\ retry = FALSE /\ arming = FALSE
    /\ task = [s \in Slots |-> Idle]
    /\ state = "DOWN" /\ held = FALSE /\ fresh = FALSE
    /\ far = [p \in Ports |-> "none"]
    /\ awake = FALSE /\ trouble = MaxTrouble

(* The keep-alive alarm, the browser's start, any event: boot(). *)
Wake(s) ==
    /\ ~awake /\ awake' = TRUE
    /\ Become(Awaits(Now, s, [Idle EXCEPT !.do = "boot"]))
    /\ Calm

Alarm(s) ==
    /\ Free(s)
    /\ Become(EnsureConnected(Now, s))
    /\ Calm /\ UNCHANGED awake

RetryFires(s) ==
    /\ Free(s) /\ retry
    /\ Become(EnsureConnected([Now EXCEPT !.retry = FALSE], s))
    /\ Calm /\ UNCHANGED awake

(* From the options page, the popup and Resume. *)
ForceReconnect(s, unlessPending) ==
    /\ Free(s)
    /\ ~ConnectInFlight(Now) /\ ~AckPending(Now)
    /\ unlessPending => ~retry /\ ~arming
    /\ Become(Teardown(Now, s, Idle, "ensure"))
    /\ Trouble /\ UNCHANGED awake

(* REGISTER is answered: the route is live.  setAttempt is awaited. *)
RegisterAck(s, p) ==
    /\ Free(s) /\ far[p] = "asked"
    /\ LET b == [Now EXCEPT !.far[p] = "routed"] IN
       Become(IF p # port THEN ClosePort(b, p)
              ELSE Awaits(b, s, [Idle EXCEPT !.do = "okHeld", !.port = p]))
    /\ Calm /\ UNCHANGED awake

(* Or refused with E_PANIC: the broker holds the port without a route. *)
PanicAck(s, p) ==
    /\ Free(s) /\ far[p] = "asked"
    /\ LET b == [Now EXCEPT !.far[p] = "held"] IN
       Become(IF p # port THEN ClosePort(b, p)
              ELSE Awaits(b, s, [Idle EXCEPT !.do = "panicHold", !.port = p]))
    /\ Trouble /\ UNCHANGED awake

(* Any other refusal; the host relays one at once when it loses the broker, *)
(* a hold ends with one.                                                    *)
Refused(s, p) ==
    /\ Free(s) /\ far[p] \in {"new", "asked", "routed", "silent", "held"}
    /\ LET b == [Now EXCEPT !.far[p] = "mute"] IN
       Become(IF p # port THEN ClosePort(b, p) ELSE Teardown(b, s, Idle, "retry"))
    /\ IF far[p] = "held" THEN Calm ELSE Trouble
    /\ UNCHANGED awake

Ping(p) ==
    /\ awake /\ far[p] = "routed"
    /\ Become(IF p # port THEN ClosePort(Now, p) ELSE [Now EXCEPT !.fresh = TRUE])
    /\ Calm /\ UNCHANGED awake

(* A pong or a RES that cannot be posted. *)
PostFails(s) ==
    /\ Free(s) /\ port # NoPort /\ far[port] \in {"routed", "gone"}
    /\ Become(Teardown(Now, s, Idle, "retry"))
    /\ Trouble /\ UNCHANGED awake

(* Nobody answers in HELLO_ACK_TIMEOUT, or the answer is not yet recorded. *)
Unanswered == ack # NoPort /\ far[ack] # "asked" /\ \A s \in Slots : task[s].port # ack

AckTimeout(s) ==
    /\ Free(s) /\ ack # NoPort
    /\ LET b == [Now EXCEPT !.ack = NoPort] IN
       Become(IF ack # port THEN b ELSE Teardown(b, s, Idle, "retry"))
    /\ IF Unanswered THEN Calm ELSE Trouble
    /\ UNCHANGED awake

(* handleDisconnect; the event of a port let go of may still come. *)
Disconnect(s, p) ==
    /\ Free(s) /\ far[p] \in {"gone", "closed"}
    /\ LET b == [Now EXCEPT !.far[p] = "none"] IN
       Become(IF p # port THEN b
              ELSE Awaits(SetDown(Moves([b EXCEPT !.port = NoPort, !.held = FALSE,
                                                  !.ack = NoPort])),
                          s, [Idle EXCEPT !.do = "downed", !.then = "retry"]))
    /\ Calm /\ UNCHANGED awake

-----------------------------------------------------------------------------
(* The handlers, one step for each await they return from.                 *)

Booted(s) ==
    /\ \/ Resumes(s, "boot")
       \/ Resumes(s, "reset")   \* forceReconnect's setAttempt(0)
    /\ Become(EnsureConnected(Returns(Now, s), s))

StateRead(s) ==
    /\ Resumes(s, "readHeld")
    /\ Become(IF port = NoPort THEN Decide(Now, s, task[s])
              ELSE Awaits(Now, s, [task[s] EXCEPT !.do = "readStale", !.sawHeld = held]))

(* Mutant: a live port and READY need no heartbeat.                        *)
HeldReadWithoutClock(s) ==
    /\ Resumes(s, "readStale")
    /\ Become(Decide(Now, s, task[s]))

HeldRead(s) ==
    /\ Resumes(s, "readStale")
    /\ Become(IF port # NoPort /\ ~task[s].sawHeld /\ task[s].sawReady
              THEN Awaits(Now, s, [task[s] EXCEPT !.do = "decide", !.sawStale = ~fresh])
              ELSE Decide(Now, s, task[s]))

StaleRead(s) ==
    /\ Resumes(s, "decide")
    /\ Become(Decide(Now, s, task[s]))

(* teardown's clearPanicHeld: a port that opened meanwhile keeps its state. *)
HeldCleared(s) ==
    /\ Resumes(s, "cleared")
    /\ Become(IF port # NoPort THEN AfterTeardown(Now, s, task[s])
              ELSE Awaits(SetDown(Now), s, [task[s] EXCEPT !.do = "downed"]))

Downed(s) ==
    /\ Resumes(s, "downed")
    /\ Become(AfterTeardown(Now, s, task[s]))

ConnectClearsHeld(s) ==
    /\ Resumes(s, "clearHeld")
    /\ Become(Awaits([Now EXCEPT !.held = FALSE], s, [task[s] EXCEPT !.do = "open"]))

(* connectNative: one port per worker, so any port still held is closed. *)
Opens(s) ==
    /\ Resumes(s, "open")
    /\ \E p \in Ports :
        /\ far[p] = "none" /\ p # ack /\ \A x \in Slots : task[x].port # p
        /\ LET b == IF port = NoPort THEN Now ELSE ClosePort(Now, port) IN
           Become(Awaits(Moves([b EXCEPT !.port = p, !.far[p] = "new"]), s,
                         [task[s] EXCEPT !.do = "identity", !.port = p]))

OpenFails(s) ==
    /\ Resumes(s, "open")
    /\ Become(FailConnect(Now, s, task[s]))

(* The identity is collected and REGISTER posted; a dead host takes it too. *)
Posts(s, f) ==
    /\ Resumes(s, "identity")
    /\ LET p == task[s].port IN
       Become(IF p # port THEN Returns(Now, s)
              ELSE Returns([Now EXCEPT !.ack = p, !.far[p] = IF @ = "new" THEN f ELSE @], s))

IdentityFails(s) ==
    /\ Resumes(s, "identity")
    /\ Become(FailConnect(Now, s, task[s]))

Bumped(s) ==
    /\ Resumes(s, "bumped")
    /\ Become(Returns(IF arming THEN [Now EXCEPT !.arming = FALSE, !.retry = TRUE] ELSE Now, s))

(* An answer is recorded: each write is behind its own check that the port *)
(* that brought it is still the current one.                               *)
StillCurrent(s) == task[s].port = port

Superseded(s) ==
    /\ task[s].do \in {"okHeld", "okRecord", "okFresh", "okReady", "panicHold", "panicDown"}
    /\ ~StillCurrent(s)
    /\ Become(Returns(Now, s))

OkHeld(s) ==
    /\ Resumes(s, "okHeld") /\ StillCurrent(s)
    /\ Become(Awaits([Now EXCEPT !.held = FALSE], s, [task[s] EXCEPT !.do = "okRecord"]))

(* K_ACK, the label, the vendor and the relays. *)
OkRecord(s) ==
    /\ Resumes(s, "okRecord") /\ StillCurrent(s)
    /\ Become(Awaits(Now, s, [task[s] EXCEPT !.do = "okFresh"]))

OkFresh(s) ==
    /\ Resumes(s, "okFresh") /\ StillCurrent(s)
    /\ Become(Awaits([Now EXCEPT !.fresh = TRUE], s, [task[s] EXCEPT !.do = "okReady"]))

OkReady(s) ==
    /\ Resumes(s, "okReady") /\ StillCurrent(s)
    /\ Become(Awaits([Now EXCEPT !.state = "READY"], s, [task[s] EXCEPT !.do = "settle"]))

PanicHold(s) ==
    /\ Resumes(s, "panicHold") /\ StillCurrent(s)
    /\ Become(Awaits([Now EXCEPT !.held = TRUE], s, [task[s] EXCEPT !.do = "panicDown"]))

PanicDown(s) ==
    /\ Resumes(s, "panicDown") /\ StillCurrent(s)
    /\ Become(Awaits(SetDown(Now), s, [task[s] EXCEPT !.do = "settle"]))

Settles(s) ==
    /\ Resumes(s, "settle")
    /\ Become(Returns(Settle(Now, task[s].port), s))

(* These writes are not caught: the answer is given up, its deadline runs. *)
RecordFails(s) ==
    /\ task[s].do \in {"okRecord", "panicHold"}
    /\ Become(Returns(Now, s))

(* A handler goes on; it may do so at once. *)
Continues(s) ==
    \/ Booted(s) \/ StateRead(s) \/ HeldRead(s) \/ StaleRead(s)
    \/ HeldCleared(s) \/ Downed(s) \/ ConnectClearsHeld(s) \/ Opens(s)
    \/ Posts(s, "asked") \/ Bumped(s)
    \/ Superseded(s) \/ OkHeld(s) \/ OkRecord(s) \/ OkFresh(s) \/ OkReady(s)
    \/ PanicHold(s) \/ PanicDown(s) \/ Settles(s)

Fails(s) == OpenFails(s) \/ IdentityFails(s) \/ Posts(s, "mute") \/ RecordFails(s)

Step(s) == Continues(s) /\ Calm /\ UNCHANGED awake
FailedStep(s) == Fails(s) /\ Trouble /\ UNCHANGED awake

-----------------------------------------------------------------------------
(* The world.                                                              *)

HostDies(p) ==
    /\ far[p] \in {"new", "asked", "mute", "routed", "held", "silent"}
    /\ far' = [far EXCEPT ![p] = "gone"]
    /\ Trouble /\ UNCHANGED <<worker, storage, awake>>

(* The broker that answered is replaced by one that knows nothing of it. *)
FallsSilent(p) ==
    /\ far[p] = "routed"
    /\ far' = [far EXCEPT ![p] = "silent"]
    /\ Trouble /\ UNCHANGED <<worker, storage, awake>>

(* The stale window passes without a ping. *)
Pinged == port # NoPort /\ far[port] = "routed"

Age ==
    /\ fresh /\ fresh' = FALSE
    /\ IF Pinged THEN Trouble ELSE Calm
    /\ UNCHANGED <<worker, state, held, far, awake>>

Stops ==
    /\ awake /\ awake' = FALSE
    /\ port' = NoPort /\ ack' = NoPort /\ retry' = FALSE /\ arming' = FALSE
    /\ task' = [s \in Slots |-> Idle]
    /\ far' = [p \in Ports |-> "none"]

(* A worker with nothing under way and no port may be evicted at any time. *)
Evicted ==
    /\ port = NoPort /\ \A s \in Slots : task[s] = Idle
    /\ Stops /\ Calm /\ UNCHANGED storage

WorkerDies == Stops /\ Trouble /\ UNCHANGED storage

BrowserRestarts ==
    /\ Stops /\ Trouble
    /\ state' = "DOWN" /\ held' = FALSE /\ fresh' = FALSE

Next ==
    \/ \E s \in Slots :
        \/ Wake(s) \/ Alarm(s) \/ RetryFires(s) \/ PostFails(s) \/ AckTimeout(s)
        \/ Step(s) \/ FailedStep(s)
        \/ \E unlessPending \in BOOLEAN : ForceReconnect(s, unlessPending)
        \/ \E p \in Ports :
            RegisterAck(s, p) \/ PanicAck(s, p) \/ Refused(s, p) \/ Disconnect(s, p)
    \/ \E p \in Ports : Ping(p) \/ HostDies(p) \/ FallsSilent(p)
    \/ Age \/ Evicted \/ WorkerDies \/ BrowserRestarts

Spec == Init /\ [][Next]_vars

(* Handlers go on, timers and the alarm fire, a dead host's port says so,   *)
(* and what is asked is answered once nothing goes wrong any more.  The     *)
(* bound on handlers is not in the code: what it delays is strongly fair.   *)
Fairness ==
    /\ \A s \in Slots : WF_vars(Step(s))
    /\ WF_vars(\E s \in Slots : Wake(s))
    /\ SF_vars(\E s \in Slots : Alarm(s))
    /\ SF_vars(\E s \in Slots : Unanswered /\ AckTimeout(s))
    /\ SF_vars(\E s \in Slots, p \in Ports : RegisterAck(s, p))
    /\ SF_vars(\E s \in Slots, p \in Ports : Disconnect(s, p))
    /\ WF_vars(~Pinged /\ Age)

FairSpec == Spec /\ Fairness

-----------------------------------------------------------------------------
(* Properties.                                                             *)

(* The ranges of the variables (link.js:52-67, 78-91).                     *)
TypeOK ==
    /\ port \in Ports \cup {NoPort} /\ ack \in Ports \cup {NoPort}
    /\ retry \in BOOLEAN /\ arming \in BOOLEAN
    /\ task \in [Slots -> Task]
    /\ state \in LinkState /\ held \in BOOLEAN /\ fresh \in BOOLEAN
    /\ far \in [Ports -> FarState]
    /\ awake \in BOOLEAN /\ trouble \in 0..MaxTrouble

(* One port per worker: whatever handlers interleave, a port that is not   *)
(* the current one has been disconnected, so no host outlives its link     *)
(* (link.js:20-29).                                                        *)
OnePort == \A p \in Ports : far[p] \notin {"none", "closed"} => p = port

(* READY next to a live port is about that port: the broker routed it.     *)
(* READY is never the answer of a port let go of while it was recorded     *)
(* (link.js:583-586, 658-663).                                             *)
ReadyMeansRegistered ==
    port # NoPort /\ state = "READY" => far[port] \in {"routed", "silent", "gone"}

(* The hold in storage is that of the current port, never one carried over *)
(* from a worker that died or a port let go of, where it would switch off  *)
(* the heartbeat check for good (link.js:329-332).                         *)
HeldMeansThisPort == port # NoPort /\ held => far[port] \in {"held", "gone"}

(* The worker never comes to rest without a port and without a retry to    *)
(* come, as "whatever did that owns the link now" says of a port let go of *)
(* under a dial (link.js:182-185, 364).  The code does not keep this:      *)
(* README, section 9.                                                      *)
Drives(s) == task[s].do \in Reads \cup
    {"boot", "reset", "cleared", "downed", "clearHeld", "open", "identity"}

AtRest == awake /\ port = NoPort /\ ~retry /\ ~arming /\ \A s \in Slots : ~Drives(s)

RetryAlwaysComing == ~AtRest

(* Every way to lose or give up a port schedules a retry, and whatever     *)
(* cancels one has a live link.  Whoever finds a dial under way leaves it  *)
(* to that dial, so the worker comes to rest without a retry only where a  *)
(* dial ends that had lost its port, or had its own retry counted when     *)
(* another fired into it (link.js:119, 364, 666-680, 868-891).             *)
LostDial(s) ==
    /\ task[s].dial
    /\ task[s].do = "bumped" \/ (task[s].do = "identity" /\ task[s].port # port)

NeverGivesUp ==
    [][AtRest' => AtRest \/ \E s \in Slots : LostDial(s)]_vars

(* One dial at a time (link.js:83, 143-177). *)
OneDial == \A s, x \in Slots : task[s].dial /\ task[x].dial => s = x

(* One port and one dial, and whatever storage says of the link is said of *)
(* that port, however the handlers interleave.                             *)
OneLink == OnePort /\ OneDial /\ ReadyMeansRegistered /\ HeldMeansThisPort

Linked == port # NoPort /\ far[port] = "routed" /\ state = "READY" /\ ack = NoPort

(* A link that works is never dropped by the worker's own concurrency: a   *)
(* handler that read it while it was coming up reads it again              *)
(* (link.js:127-132).  It takes something going wrong, or a stale          *)
(* heartbeat.                                                              *)
OnlyTroubleDropsALink ==
    [][Linked /\ port' # port =>
        trouble' # trouble \/ \E s \in Slots : task[s].do = "decide" /\ task[s].sawStale]_vars

(* Once things stop going wrong the profile ends up linked for good, or    *)
(* held by a panic that lasts (link.js:12-18).                             *)
Recovers == <>[](Linked \/ (port # NoPort /\ far[port] = "held"))
=============================================================================
