----------------------------- MODULE LinkProofs -----------------------------
(***************************************************************************)
(* What the link guarantees for any number of ports, of handlers under way *)
(* and of things that go wrong.  The handlers compute with values of       *)
(* WorkerState; Sound says of such a value what holds between two steps,   *)
(* and is inductive.  SoundBut(b, s) says it while slot s is running:      *)
(* whatever s still does, it ends with Awaits.                             *)
(***************************************************************************)
EXTENDS Link, TLAPS

WorkerState ==
    [port : Ports \cup {NoPort}, ack : Ports \cup {NoPort},
     retry : BOOLEAN, arming : BOOLEAN, task : [Slots -> Task],
     state : LinkState, held : BOOLEAN, fresh : BOOLEAN, far : [Ports -> FarState]]

Answered == {"routed", "silent", "gone"}
Recording == {"okHeld", "okRecord", "okFresh", "okReady"}
Holding == {"panicHold", "panicDown"}

(* What a handler under way may rely on: a dial owns the link and has no   *)
(* port until it opens one, whose state is not READY and whose hold is not *)
(* set; an answer still being recorded is that of its port.                *)
Sane(b, t) ==
    /\ t.then = "connect" => t.dial
    /\ t.dial /\ t.do \in {"cleared", "downed", "clearHeld", "open"} => b.port = NoPort
    /\ t.do \in {"cleared", "downed"} => t.then \in {"connect", "ensure", "retry"}
    /\ t.do \in {"clearHeld", "open"} => t.dial /\ b.state # "READY"
    /\ t.do = "open" => ~b.held
    /\ t.do \in Recording =>
        t.port \in Ports /\ (t.port = b.port => b.far[t.port] \in Answered)
    /\ t.do \in Holding =>
        t.port \in Ports /\ (t.port = b.port => b.far[t.port] \in {"held", "gone"})

LEMMA SaneAgain ==
    ASSUME NEW b, NEW c, NEW t, Sane(b, t),
           c.port = b.port, c.state = b.state, c.held = b.held,
           b.port \in Ports => c.far[b.port] = b.far[b.port]
    PROVE  Sane(c, t)
BY DEF Sane

(* The properties, of a worker's state. *)
One(b) == \A p \in Ports : b.far[p] \notin {"none", "closed"} => p = b.port
Ready(b) == b.port # NoPort /\ b.state = "READY" => b.far[b.port] \in Answered
Holds(b) == b.port # NoPort /\ b.held => b.far[b.port] \in {"held", "gone"}

NoDialBut(b, s) == \A x \in Slots : x # s => ~b.task[x].dial

SoundBut(b, s) ==
    /\ b \in WorkerState
    /\ One(b) /\ Ready(b) /\ Holds(b)
    /\ \A x \in Slots : x # s => Sane(b, b.task[x])
    /\ \A x, y \in Slots : x # s /\ y # s /\ b.task[x].dial /\ b.task[y].dial => x = y

Sound(b) ==
    /\ b \in WorkerState
    /\ One(b) /\ Ready(b) /\ Holds(b)
    /\ \A x \in Slots : Sane(b, b.task[x])
    /\ \A x, y \in Slots : b.task[x].dial /\ b.task[y].dial => x = y

IInv == Sound(Now) /\ awake \in BOOLEAN /\ trouble \in 0..MaxTrouble

-----------------------------------------------------------------------------
LEMMA NowBecome ==
    ASSUME NEW b \in WorkerState, Become(b)
    PROVE  Now' = b
BY DEF Become, Now, WorkerState

(* What the functions of link.js change, and what they leave alone.        *)
LEMMA AwaitsEffect ==
    ASSUME NEW b \in WorkerState, NEW s \in Slots, NEW t \in Task
    PROVE  LET a == Awaits(b, s, t) IN
           /\ a \in WorkerState
           /\ a.port = b.port /\ a.state = b.state /\ a.held = b.held /\ a.far = b.far
           /\ a.ack = b.ack /\ a.retry = b.retry /\ a.arming = b.arming
           /\ a.task[s] = t /\ \A x \in Slots : x # s => a.task[x] = b.task[x]
<1> DEFINE tasks == [b.task EXCEPT ![s] = t]
<1>1. tasks \in [Slots -> Task] /\ tasks[s] = t /\ \A x \in Slots : x # s => tasks[x] = b.task[x]
  BY DEF WorkerState
<1>2. Awaits(b, s, t) = [b EXCEPT !.task = tasks]
  BY DEF Awaits, WorkerState
<1> HIDE DEF tasks
<1> QED
  BY <1>1, <1>2 DEF WorkerState

LEMMA IdleTask == Idle \in Task
BY DEF Idle, Task, Steps, Reads

(* A handler that ends on a sound worker leaves it sound. *)
LEMMA AwaitsSound ==
    ASSUME NEW b, NEW s \in Slots, SoundBut(b, s), NEW t \in Task, Sane(b, t),
           t.dial => NoDialBut(b, s)
    PROVE  Sound(Awaits(b, s, t))
<1> DEFINE a == Awaits(b, s, t)
<1>1. b \in WorkerState
  BY DEF SoundBut
<1>2. /\ a \in WorkerState
      /\ a.port = b.port /\ a.state = b.state /\ a.held = b.held /\ a.far = b.far
      /\ a.task[s] = t /\ \A x \in Slots : x # s => a.task[x] = b.task[x]
  BY <1>1, AwaitsEffect
<1> HIDE DEF a
<1>3. \A x \in Slots : Sane(a, a.task[x])
  BY <1>2 DEF Sane, SoundBut
<1>4. One(a) /\ Ready(a) /\ Holds(a)
  BY <1>2 DEF SoundBut, One, Ready, Holds
<1>5. \A x, y \in Slots : a.task[x].dial /\ a.task[y].dial => x = y
  BY <1>2 DEF SoundBut, NoDialBut
<1> QED
  BY <1>2, <1>3, <1>4, <1>5 DEF Sound, a

LEMMA ReturnsSound ==
    ASSUME NEW b, NEW s \in Slots, SoundBut(b, s)
    PROVE  Sound(Returns(b, s))
<1>1. Sane(b, Idle) /\ ~Idle.dial
  BY DEF Sane, Idle, Recording, Holding
<1> QED
  BY <1>1, IdleTask, AwaitsSound DEF Returns

LEMMA Running ==
    ASSUME NEW b, NEW s \in Slots, Sound(b)
    PROVE  SoundBut(b, s) /\ (b.task[s].dial => NoDialBut(b, s))
BY DEF Sound, SoundBut, NoDialBut

(* A handler that was under way before still is; it may know of a move. *)
Like(t, u) ==
    /\ u.do = t.do /\ u.port = t.port /\ u.dial = t.dial
    /\ u.sawReady = t.sawReady /\ u.sawHeld = t.sawHeld /\ u.sawStale = t.sawStale
    /\ t.moved => u.moved

LEMMA MovesEffect ==
    ASSUME NEW b \in WorkerState
    PROVE  LET m == Moves(b) IN
           /\ m \in WorkerState
           /\ m.port = b.port /\ m.ack = b.ack /\ m.state = b.state /\ m.held = b.held
           /\ m.far = b.far /\ m.retry = b.retry /\ m.arming = b.arming
           /\ \A x \in Slots : /\ m.task[x].do = b.task[x].do /\ m.task[x].port = b.task[x].port
                               /\ m.task[x].then = b.task[x].then
                               /\ m.task[x].dial = b.task[x].dial
                               /\ Like(b.task[x], m.task[x])
                               /\ b.task[x].do \in Reads => m.task[x].moved
<1> DEFINE tasks == [s \in Slots |->
                        [b.task[s] EXCEPT !.moved = @ \/ b.task[s].do \in Reads]]
<1>1. ASSUME NEW x \in Slots
      PROVE  /\ tasks[x] \in Task
             /\ tasks[x].do = b.task[x].do /\ tasks[x].port = b.task[x].port
             /\ tasks[x].then = b.task[x].then /\ tasks[x].dial = b.task[x].dial
             /\ Like(b.task[x], tasks[x])
             /\ b.task[x].do \in Reads => tasks[x].moved
  <2>1. b.task[x] \in Task
    BY DEF WorkerState
  <2> QED
    BY <2>1 DEF Task, Like
<1>2. tasks \in [Slots -> Task]
  BY <1>1
<1>3. Moves(b) = [b EXCEPT !.task = tasks]
  BY DEF Moves
<1> HIDE DEF tasks
<1> QED
  BY <1>1, <1>2, <1>3 DEF WorkerState

(* The link loses its port; ClosePort and what teardown and a disconnect do. *)
LEMMA ClosePortEffect ==
    ASSUME NEW b \in WorkerState, NEW p \in Ports
    PROVE  LET c == ClosePort(b, p) IN
           /\ c \in WorkerState
           /\ c.port = b.port /\ c.state = b.state /\ c.held = b.held /\ c.task = b.task
           /\ c.ack = b.ack /\ c.retry = b.retry /\ c.arming = b.arming
           /\ c.far[p] = "closed" /\ \A x \in Ports : x # p => c.far[x] = b.far[x]
<1> DEFINE f == [b.far EXCEPT ![p] = "closed"]
<1>1. f \in [Ports -> FarState] /\ f[p] = "closed" /\ \A x \in Ports : x # p => f[x] = b.far[x]
  BY DEF WorkerState, FarState
<1>2. ClosePort(b, p) = [b EXCEPT !.far = f]
  BY DEF ClosePort, WorkerState
<1> HIDE DEF f
<1> QED
  BY <1>1, <1>2 DEF WorkerState

LEMMA DropPortEffect ==
    ASSUME NEW b \in WorkerState
    PROVE  LET d == DropPort(b) IN
           /\ d \in WorkerState
           /\ d.port = NoPort /\ d.state = b.state /\ d.held = b.held
           /\ d.retry = b.retry /\ d.arming = b.arming
           /\ \A p \in Ports : d.far[p] = IF p = b.port THEN "closed" ELSE b.far[p]
           /\ \A x \in Slots : /\ d.task[x].do = b.task[x].do /\ d.task[x].port = b.task[x].port
                               /\ d.task[x].then = b.task[x].then
                               /\ d.task[x].dial = b.task[x].dial
                               /\ Like(b.task[x], d.task[x])
<1>1. CASE b.port = NoPort
  BY <1>1, LinkAssumption DEF DropPort, Like
<1>2. CASE b.port # NoPort
  <2> DEFINE n == [b EXCEPT !.port = NoPort]
             c == ClosePort(n, b.port)
  <2>1. /\ n \in WorkerState /\ n.port = NoPort /\ n.state = b.state /\ n.held = b.held
        /\ n.far = b.far /\ n.task = b.task /\ b.port \in Ports
        /\ n.retry = b.retry /\ n.arming = b.arming
    BY <1>2 DEF WorkerState
  <2> HIDE DEF n
  <2>2. /\ c \in WorkerState
        /\ c.port = n.port /\ c.state = n.state /\ c.held = n.held /\ c.task = n.task
        /\ c.retry = n.retry /\ c.arming = n.arming
        /\ c.far[b.port] = "closed" /\ \A x \in Ports : x # b.port => c.far[x] = n.far[x]
    BY <2>1, ClosePortEffect
  <2>3. DropPort(b) = Moves(c)
    BY <1>2 DEF DropPort, n
  <2> HIDE DEF c
  <2> QED
    BY <2>1, <2>2, <2>3, MovesEffect
<1> QED
  BY <1>1, <1>2

(* A worker whose port is dropped is sound, whatever was behind that port. *)
LEMMA DroppedSound ==
    ASSUME NEW a, NEW s \in Slots, SoundBut(a, s),
           NEW b \in WorkerState, b.port = a.port, b.state = a.state, b.task = a.task,
           \A p \in Ports : p # b.port => b.far[p] = a.far[p]
    PROVE  LET n == [DropPort(b) EXCEPT !.ack = NoPort, !.held = FALSE] IN
           /\ SoundBut(n, s) /\ n.port = NoPort
           /\ \A x \in Slots : n.task[x].dial = a.task[x].dial
<1> DEFINE d == DropPort(b)
           n == [d EXCEPT !.ack = NoPort, !.held = FALSE]
<1>1. /\ d \in WorkerState
      /\ d.port = NoPort /\ d.state = b.state
      /\ \A p \in Ports : d.far[p] = IF p = b.port THEN "closed" ELSE b.far[p]
      /\ \A x \in Slots : /\ d.task[x].do = b.task[x].do /\ d.task[x].port = b.task[x].port
                          /\ d.task[x].then = b.task[x].then
                          /\ d.task[x].dial = b.task[x].dial
  BY DropPortEffect
<1> HIDE DEF d
<1>2. /\ n \in WorkerState /\ n.port = NoPort /\ n.state = d.state /\ n.far = d.far
      /\ n.task = d.task /\ n.held = FALSE
  BY <1>1 DEF WorkerState
<1> HIDE DEF n
<1>3. One(n) /\ Ready(n) /\ Holds(n)
  BY <1>1, <1>2 DEF One, Ready, Holds, SoundBut
<1>4. \A x \in Slots : x # s => Sane(n, n.task[x])
  BY <1>1, <1>2, LinkAssumption DEF Sane, SoundBut
<1>5. \A x, y \in Slots : x # s /\ y # s /\ n.task[x].dial /\ n.task[y].dial => x = y
  BY <1>1, <1>2 DEF SoundBut
<1>6. SoundBut(n, s) /\ n.port = NoPort /\ \A x \in Slots : n.task[x].dial = a.task[x].dial
  BY <1>1, <1>2, <1>3, <1>4, <1>5 DEF SoundBut
<1> QED
  BY <1>6 DEF n, d

LEMMA TeardownSound ==
    ASSUME NEW a, NEW s \in Slots, SoundBut(a, s),
           NEW b \in WorkerState, b.port = a.port, b.state = a.state, b.task = a.task,
           \A p \in Ports : p # b.port => b.far[p] = a.far[p],
           NEW t \in Task, t.dial => NoDialBut(a, s),
           NEW then \in {"connect", "ensure", "retry"}, then = "connect" => t.dial
    PROVE  Sound(Teardown(b, s, t, then))
<1> DEFINE n == [DropPort(b) EXCEPT !.ack = NoPort, !.held = FALSE]
           u == [Idle EXCEPT !.do = "cleared", !.then = then, !.dial = t.dial]
<1>1. /\ SoundBut(n, s) /\ n.port = NoPort
      /\ \A x \in Slots : n.task[x].dial = a.task[x].dial
  BY DroppedSound
<1>2. u \in Task /\ u.do = "cleared" /\ u.then = then /\ u.dial = t.dial
  BY DEF Task, Steps, Idle
<1>3. Teardown(b, s, t, then) = Awaits(n, s, u)
  BY DEF Teardown
<1> HIDE DEF n, u
<1>4. Sane(n, u) /\ (u.dial => NoDialBut(n, s))
  BY <1>1, <1>2 DEF Sane, NoDialBut, Recording, Holding
<1> QED
  BY <1>1, <1>2, <1>3, <1>4, AwaitsSound

LEMMA ScheduleReconnectSound ==
    ASSUME NEW b, NEW s \in Slots, SoundBut(b, s), NEW t \in Task, t.dial => NoDialBut(b, s)
    PROVE  Sound(ScheduleReconnect(b, s, t))
<1> DEFINE n == [b EXCEPT !.arming = TRUE]
           u == [Idle EXCEPT !.do = "bumped", !.dial = t.dial]
<1>1. SoundBut(n, s) /\ n.task = b.task
  BY DEF SoundBut, WorkerState, One, Ready, Holds, Sane
<1>2. u \in Task /\ u.do = "bumped" /\ u.then = "" /\ u.dial = t.dial
  BY DEF Task, Steps, Idle
<1>3. ScheduleReconnect(b, s, t) \in {Returns(b, s), Awaits(n, s, u)}
  BY DEF ScheduleReconnect
<1> HIDE DEF n, u
<1>4. Sane(n, u) /\ (u.dial => NoDialBut(n, s))
  BY <1>1, <1>2 DEF Sane, NoDialBut, Recording, Holding
<1> QED
  BY <1>1, <1>2, <1>3, <1>4, AwaitsSound, ReturnsSound

LEMMA ConnectSound ==
    ASSUME NEW b, NEW s \in Slots, SoundBut(b, s), NoDialBut(b, s), b.port = NoPort
    PROVE  Sound(Connect(b, s))
<1> DEFINE n == [b EXCEPT !.state = "CONNECTING"]
           u == [Idle EXCEPT !.do = "clearHeld", !.dial = TRUE]
<1>1. SoundBut(n, s) /\ n.task = b.task /\ n.port = NoPort /\ n.state = "CONNECTING"
  BY DEF SoundBut, WorkerState, LinkState, One, Ready, Holds, Sane
<1>2. u \in Task /\ u.do = "clearHeld" /\ u.then = "" /\ u.dial = TRUE
  BY DEF Task, Steps, Idle
<1>3. Connect(b, s) = Awaits(n, s, u)
  BY DEF Connect
<1> HIDE DEF n, u
<1>4. Sane(n, u) /\ NoDialBut(n, s)
  BY <1>1, <1>2 DEF Sane, NoDialBut, Recording, Holding
<1> QED
  BY <1>1, <1>2, <1>3, <1>4, AwaitsSound

LEMMA EnsureConnectedSound ==
    ASSUME NEW b, NEW s \in Slots, SoundBut(b, s)
    PROVE  Sound(EnsureConnected(b, s))
<1> DEFINE u == [Idle EXCEPT !.do = "readHeld", !.sawReady = (b.state = "READY")]
<1>1. u \in Task /\ u.do = "readHeld" /\ u.then = "" /\ ~u.dial
  BY DEF Task, Steps, Reads, Idle
<1>2. EnsureConnected(b, s) \in {Returns(b, s), Awaits(b, s, u)}
  BY DEF EnsureConnected
<1> HIDE DEF u
<1>3. Sane(b, u)
  BY <1>1 DEF Sane, Recording, Holding
<1> QED
  BY <1>1, <1>2, <1>3, AwaitsSound, ReturnsSound

LEMMA DecideSound ==
    ASSUME NEW b, NEW s \in Slots, Sound(b), NEW t \in Task
    PROVE  Sound(Decide(b, s, t))
<1>1. SoundBut(b, s)
  BY Running
<1>2. CASE t.moved
  BY <1>1, <1>2, ReturnsSound, Running, EnsureConnectedSound DEF Decide
<1>3. CASE ~t.moved /\ ConnectInFlight(b)
  BY <1>1, <1>3, ReturnsSound DEF Decide
<1>4. CASE ~t.moved /\ ~ConnectInFlight(b)
  <2> DEFINE u == [t EXCEPT !.dial = TRUE]
  <2>1. NoDialBut(b, s)
    BY <1>4 DEF ConnectInFlight, NoDialBut
  <2>2. u \in Task /\ u.dial = TRUE
    BY DEF Task
  <2>3. Sound(Teardown(b, s, u, "connect"))
    <3> HIDE DEF u
    <3> QED
      BY <1>1, <2>1, <2>2, TeardownSound DEF SoundBut
  <2>4. b.port = NoPort => Sound(Connect(b, s))
    BY <1>1, <2>1, ConnectSound
  <2> QED
    BY <1>1, <1>4, <2>3, <2>4, ReturnsSound DEF Decide
<1> QED
  BY <1>2, <1>3, <1>4

LEMMA FailConnectSound ==
    ASSUME NEW b, NEW s \in Slots, SoundBut(b, s), NEW t \in Task, t.dial => NoDialBut(b, s)
    PROVE  Sound(FailConnect(b, s, t))
<1>1. CASE t.port # NoPort /\ t.port # b.port
  <2> DEFINE c == ClosePort(b, t.port)
  <2>1. b \in WorkerState /\ t.port \in Ports
    BY <1>1 DEF SoundBut, Task
  <2>2. /\ c \in WorkerState
        /\ c.port = b.port /\ c.state = b.state /\ c.held = b.held /\ c.task = b.task
        /\ c.far[t.port] = "closed" /\ \A x \in Ports : x # t.port => c.far[x] = b.far[x]
    BY <2>1, ClosePortEffect
  <2> HIDE DEF c
  <2>3. One(c) /\ Ready(c) /\ Holds(c)
    BY <1>1, <2>1, <2>2 DEF One, Ready, Holds, SoundBut, WorkerState
  <2>4. \A x \in Slots : x # s => Sane(c, c.task[x])
    BY <1>1, <2>1, <2>2 DEF Sane, SoundBut
  <2>5. SoundBut(c, s)
    BY <2>2, <2>3, <2>4 DEF SoundBut
  <2> QED
    BY <1>1, <2>5, ReturnsSound DEF FailConnect, c
<1>2. CASE ~(t.port # NoPort /\ t.port # b.port)
  BY <1>2, TeardownSound DEF FailConnect, SoundBut
<1> QED
  BY <1>1, <1>2

LEMMA AfterTeardownSound ==
    ASSUME NEW b, NEW s \in Slots, Sound(b), b.task[s].do \in {"cleared", "downed"}
    PROVE  Sound(AfterTeardown(b, s, b.task[s]))
<1> DEFINE t == b.task[s]
           u == [Idle EXCEPT !.do = "reset"]
<1>1. SoundBut(b, s) /\ (t.dial => NoDialBut(b, s)) /\ t \in Task
  BY Running DEF Sound, WorkerState
<1>2. /\ t.then \in {"connect", "ensure", "retry"}
      /\ t.then = "connect" => t.dial /\ b.port = NoPort
  BY DEF Sound, Sane
<1>3. t.then = "connect" => Sound(Connect(b, s))
  BY <1>1, <1>2, ConnectSound
<1>4. Sound(ScheduleReconnect(b, s, t))
  BY <1>1, ScheduleReconnectSound
<1>5. Sound(Awaits(b, s, u))
  <2>1. u \in Task /\ u.do = "reset" /\ u.then = "" /\ ~u.dial
    BY DEF Task, Steps, Idle
  <2> HIDE DEF u
  <2>2. Sane(b, u)
    BY <2>1 DEF Sane, Recording, Holding
  <2> QED
    BY <1>1, <2>1, <2>2, AwaitsSound
<1> QED
  BY <1>2, <1>3, <1>4, <1>5 DEF AfterTeardown

-----------------------------------------------------------------------------
(* What starts a handler.                                                  *)

LEMMA Become_ ==
    ASSUME NEW b, Sound(b), Become(b), awake' \in BOOLEAN, trouble' \in 0..MaxTrouble
    PROVE  IInv'
BY NowBecome DEF Sound, IInv

LEMMA Budget ==
    ASSUME trouble \in 0..MaxTrouble, Calm \/ Trouble
    PROVE  trouble' \in 0..MaxTrouble
BY LinkAssumption DEF Calm, Trouble

LEMMA NowRunning ==
    ASSUME IInv, NEW s \in Slots
    PROVE  /\ Sound(Now) /\ SoundBut(Now, s) /\ Now \in WorkerState
           /\ Now.task = task /\ task[s] \in Task /\ Now.port = port /\ Now.far = far
           /\ Now.state = state /\ Now.held = held /\ Now.ack = ack
           /\ (task[s].dial => NoDialBut(Now, s))
<1>1. Sound(Now) /\ Now.task = task /\ Now.port = port /\ Now.far = far
      /\ Now.state = state /\ Now.held = held /\ Now.ack = ack
  BY DEF IInv, Now
<1> QED
  BY <1>1, Running DEF Sound, WorkerState

LEMMA WakeKeeps ==
    ASSUME IInv, NEW s \in Slots, Wake(s)
    PROVE  IInv'
<1> DEFINE u == [Idle EXCEPT !.do = "boot"]
<1>1. u \in Task /\ u.do = "boot" /\ u.then = "" /\ ~u.dial
  BY DEF Task, Steps, Idle
<1>2. Sane(Now, u)
  BY <1>1 DEF Sane, Recording, Holding
<1>3. Become(Awaits(Now, s, u)) /\ awake' \in BOOLEAN /\ Calm
  BY DEF Wake
<1> HIDE DEF u
<1>4. Sound(Awaits(Now, s, u))
  BY <1>1, <1>2, NowRunning, AwaitsSound
<1>5. trouble' \in 0..MaxTrouble
  BY <1>3, Budget DEF IInv
<1> QED
  BY <1>3, <1>4, <1>5, Become_

LEMMA AlarmKeeps ==
    ASSUME IInv, NEW s \in Slots, Alarm(s)
    PROVE  IInv'
<1>1. Sound(EnsureConnected(Now, s))
  BY NowRunning, EnsureConnectedSound
<1> QED
  BY <1>1, Become_, Budget DEF Alarm, IInv

LEMMA RetryFiresKeeps ==
    ASSUME IInv, NEW s \in Slots, RetryFires(s)
    PROVE  IInv'
<1> DEFINE n == [Now EXCEPT !.retry = FALSE]
<1>1. SoundBut(Now, s)
  BY NowRunning
<1>2. SoundBut(n, s)
  BY <1>1 DEF SoundBut, WorkerState, One, Ready, Holds, Sane
<1>3. Sound(EnsureConnected(n, s))
  BY <1>2, EnsureConnectedSound
<1> QED
  BY <1>3, Become_, Budget DEF RetryFires, IInv

LEMMA IdleTeardown ==
    ASSUME NEW a, NEW s \in Slots, SoundBut(a, s),
           NEW b \in WorkerState, b.port = a.port, b.state = a.state, b.task = a.task,
           \A p \in Ports : p # b.port => b.far[p] = a.far[p],
           NEW then \in {"ensure", "retry"}
    PROVE  Sound(Teardown(b, s, Idle, then))
<1>1. ~Idle.dial
  BY DEF Idle
<1> QED
  BY <1>1, IdleTask, TeardownSound

LEMMA ForceReconnectKeeps ==
    ASSUME IInv, NEW s \in Slots, NEW u \in BOOLEAN, ForceReconnect(s, u)
    PROVE  IInv'
<1>1. Sound(Teardown(Now, s, Idle, "ensure"))
  BY NowRunning, IdleTeardown
<1> QED
  BY <1>1, Become_, Budget DEF ForceReconnect, IInv

LEMMA PostFailsKeeps ==
    ASSUME IInv, NEW s \in Slots, PostFails(s)
    PROVE  IInv'
<1>1. Sound(Teardown(Now, s, Idle, "retry"))
  BY NowRunning, IdleTeardown
<1> QED
  BY <1>1, Become_, Budget DEF PostFails, IInv

(* What is behind a port answers it. *)
LEMMA FarChanges ==
    ASSUME IInv, NEW p \in Ports, NEW f \in FarState
    PROVE  LET b == [Now EXCEPT !.far[p] = f] IN
           /\ b \in WorkerState
           /\ b.port = port /\ b.state = state /\ b.held = held /\ b.task = task /\ b.ack = ack
           /\ b.retry = retry /\ b.arming = arming
           /\ b.far[p] = f /\ \A x \in Ports : x # p => b.far[x] = far[x]
<1> DEFINE g == [Now.far EXCEPT ![p] = f]
<1>1. Now \in WorkerState /\ Now.port = port /\ Now.state = state /\ Now.held = held
      /\ Now.task = task /\ Now.far = far /\ Now.ack = ack
      /\ Now.retry = retry /\ Now.arming = arming
  BY DEF IInv, Sound, Now
<1>2. g \in [Ports -> FarState] /\ g[p] = f /\ \A x \in Ports : x # p => g[x] = far[x]
  BY <1>1 DEF WorkerState
<1>3. [Now EXCEPT !.far[p] = f] = [Now EXCEPT !.far = g]
  BY <1>1 DEF WorkerState
<1> HIDE DEF g
<1> QED
  BY <1>1, <1>2, <1>3 DEF WorkerState

(* A frame of a port let go of: only that port is closed again. *)
LEMMA AskedIsCurrent ==
    ASSUME IInv, NEW p \in Ports, far[p] \notin {"none", "closed"}
    PROVE  p = port
BY DEF IInv, Sound, One, Now

LEMMA RegisterAckKeeps ==
    ASSUME IInv, NEW s \in Slots, NEW p \in Ports, RegisterAck(s, p)
    PROVE  IInv'
<1> DEFINE b == [Now EXCEPT !.far[p] = "routed"]
           u == [Idle EXCEPT !.do = "okHeld", !.port = p]
<1>1. /\ b \in WorkerState
      /\ b.port = port /\ b.state = state /\ b.held = held /\ b.task = task
      /\ b.far[p] = "routed" /\ \A x \in Ports : x # p => b.far[x] = far[x]
  BY FarChanges DEF FarState
<1>2. far[p] = "asked" /\ p = port
  BY AskedIsCurrent DEF RegisterAck
<1>3. Become(Awaits(b, s, u)) /\ Calm /\ awake' = awake
  BY <1>2 DEF RegisterAck
<1>4. u \in Task /\ u.do = "okHeld" /\ u.then = "" /\ ~u.dial /\ u.port = p
  BY DEF Task, Steps, Idle
<1> HIDE DEF b, u
<1>5. One(b) /\ Ready(b) /\ Holds(b)
  BY <1>1, <1>2, NowRunning DEF One, Ready, Holds, SoundBut, Answered
<1>6. \A x \in Slots : x # s => Sane(b, b.task[x])
  BY <1>1, <1>2, NowRunning DEF Sane, SoundBut, Answered
<1>7. SoundBut(b, s)
  BY <1>1, <1>5, <1>6, NowRunning DEF SoundBut
<1>8. Sane(b, u)
  BY <1>1, <1>4 DEF Sane, Recording, Holding, Answered
<1>9. Sound(Awaits(b, s, u))
  BY <1>4, <1>7, <1>8, AwaitsSound
<1> QED
  BY <1>3, <1>9, Become_, Budget DEF IInv

LEMMA PanicAckKeeps ==
    ASSUME IInv, NEW s \in Slots, NEW p \in Ports, PanicAck(s, p)
    PROVE  IInv'
<1> DEFINE b == [Now EXCEPT !.far[p] = "held"]
           u == [Idle EXCEPT !.do = "panicHold", !.port = p]
<1>1. /\ b \in WorkerState
      /\ b.port = port /\ b.state = state /\ b.held = held /\ b.task = task
      /\ b.far[p] = "held" /\ \A x \in Ports : x # p => b.far[x] = far[x]
  BY FarChanges DEF FarState
<1>2. far[p] = "asked" /\ p = port
  BY AskedIsCurrent DEF PanicAck
<1>3. Become(Awaits(b, s, u)) /\ Trouble /\ awake' = awake
  BY <1>2 DEF PanicAck
<1>4. u \in Task /\ u.do = "panicHold" /\ u.then = "" /\ ~u.dial /\ u.port = p
  BY DEF Task, Steps, Idle
<1> HIDE DEF b, u
<1>5. One(b) /\ Ready(b) /\ Holds(b)
  BY <1>1, <1>2, NowRunning DEF One, Ready, Holds, SoundBut, Answered
<1>6. \A x \in Slots : x # s => Sane(b, b.task[x])
  BY <1>1, <1>2, NowRunning DEF Sane, SoundBut, Answered
<1>7. SoundBut(b, s)
  BY <1>1, <1>5, <1>6, NowRunning DEF SoundBut
<1>8. Sane(b, u)
  BY <1>1, <1>4 DEF Sane, Recording, Holding
<1>9. Sound(Awaits(b, s, u))
  BY <1>4, <1>7, <1>8, AwaitsSound
<1> QED
  BY <1>3, <1>9, Become_, Budget DEF IInv

LEMMA RefusedKeeps ==
    ASSUME IInv, NEW s \in Slots, NEW p \in Ports, Refused(s, p)
    PROVE  IInv'
<1> DEFINE b == [Now EXCEPT !.far[p] = "mute"]
<1>1. /\ b \in WorkerState
      /\ b.port = port /\ b.state = state /\ b.held = held /\ b.task = task
      /\ b.far[p] = "mute" /\ \A x \in Ports : x # p => b.far[x] = far[x]
  BY FarChanges DEF FarState
<1>2. p = port
  BY AskedIsCurrent DEF Refused
<1>3. Become(Teardown(b, s, Idle, "retry")) /\ (Calm \/ Trouble) /\ awake' = awake
  BY <1>2 DEF Refused
<1> HIDE DEF b
<1>4. Sound(Teardown(b, s, Idle, "retry"))
  BY <1>1, <1>2, NowRunning, IdleTeardown
<1> QED
  BY <1>3, <1>4, Become_, Budget DEF IInv

LEMMA PingKeeps ==
    ASSUME IInv, NEW p \in Ports, Ping(p)
    PROVE  IInv'
<1> DEFINE n == [Now EXCEPT !.fresh = TRUE]
<1>1. Become(n) /\ Calm /\ awake' = awake
  BY AskedIsCurrent DEF Ping
<1>2. Sound(n)
  BY DEF IInv, Sound, WorkerState, One, Ready, Holds, Sane
<1> QED
  BY <1>1, <1>2, Become_, Budget DEF IInv

LEMMA AckTimeoutKeeps ==
    ASSUME IInv, NEW s \in Slots, AckTimeout(s)
    PROVE  IInv'
<1> DEFINE n == [Now EXCEPT !.ack = NoPort]
<1>1. n \in WorkerState /\ n.port = port /\ n.state = state /\ n.task = task /\ n.far = far
  BY NowRunning DEF WorkerState
<1>2. Sound(n)
  BY DEF IInv, Sound, WorkerState, One, Ready, Holds, Sane
<1>3. Become(n) \/ Become(Teardown(n, s, Idle, "retry"))
  BY DEF AckTimeout
<1>4. (Calm \/ Trouble) /\ awake' = awake
  BY DEF AckTimeout
<1> HIDE DEF n
<1>5. Sound(Teardown(n, s, Idle, "retry"))
  BY <1>1, NowRunning, IdleTeardown
<1> QED
  BY <1>2, <1>3, <1>4, <1>5, Become_, Budget DEF IInv

LEMMA DisconnectKeeps ==
    ASSUME IInv, NEW s \in Slots, NEW p \in Ports, Disconnect(s, p)
    PROVE  IInv'
<1> DEFINE b == [Now EXCEPT !.far[p] = "none"]
           n == [b EXCEPT !.port = NoPort, !.held = FALSE, !.ack = NoPort]
           m == Moves(n)
           d == SetDown(m)
           u == [Idle EXCEPT !.do = "downed", !.then = "retry"]
<1>1. /\ b \in WorkerState
      /\ b.port = port /\ b.state = state /\ b.held = held /\ b.task = task
      /\ b.far[p] = "none" /\ \A x \in Ports : x # p => b.far[x] = far[x]
  BY FarChanges DEF FarState
<1>2. Calm /\ awake' = awake /\ far[p] \in {"gone", "closed"}
  BY DEF Disconnect
<1>3. CASE p # port
  <2>1. Become(b)
    BY <1>3 DEF Disconnect
  <2> HIDE DEF b
  <2>2. One(b) /\ Ready(b) /\ Holds(b)
    BY <1>1, <1>3, NowRunning DEF One, Ready, Holds, Sound, IInv, WorkerState
  <2>3. (\A x \in Slots : Sane(Now, task[x])) /\ Now.port = port /\ Now.state = state
        /\ Now.held = held /\ Now.far = far
    BY NowRunning DEF Sound
  <2>4. ASSUME NEW x \in Slots PROVE Sane(b, b.task[x])
    <3>1. Sane(Now, task[x])
      BY <2>3
    <3>2. port \in Ports => b.far[port] = far[port]
      BY <1>1, <1>3
    <3> QED
      BY <1>1, <2>3, <3>1, <3>2, SaneAgain
  <2>5. Sound(b)
    BY <1>1, <2>2, <2>4, NowRunning DEF Sound, IInv
  <2> QED
    BY <1>2, <2>1, <2>5, Become_, Budget DEF IInv
<1>4. CASE p = port
  <2>1. Become(Awaits(d, s, u))
    BY <1>4 DEF Disconnect
  <2> HIDE DEF b
  <2>2. n \in WorkerState /\ n.port = NoPort /\ n.held = FALSE /\ n.task = task /\ n.far = b.far
    BY <1>1 DEF WorkerState
  <2> HIDE DEF n
  <2>3. /\ m \in WorkerState /\ m.port = NoPort /\ m.held = FALSE /\ m.far = b.far
        /\ \A x \in Slots : /\ m.task[x].do = task[x].do /\ m.task[x].port = task[x].port
                            /\ m.task[x].then = task[x].then
                            /\ m.task[x].dial = task[x].dial
    BY <2>2, MovesEffect
  <2> HIDE DEF m
  <2>4. /\ d \in WorkerState /\ d.port = NoPort /\ d.held = FALSE /\ d.far = b.far
        /\ d.task = m.task /\ d.state = "DOWN"
    BY <2>3 DEF SetDown, WorkerState, LinkState
  <2> HIDE DEF d
  <2>5. One(d) /\ Ready(d) /\ Holds(d)
    BY <1>1, <1>4, <2>4, NowRunning DEF One, Ready, Holds, SoundBut
  <2>6. \A x \in Slots : x # s => Sane(d, d.task[x])
    BY <1>1, <2>3, <2>4, NowRunning, LinkAssumption DEF Sane, SoundBut
  <2>7. SoundBut(d, s)
    BY <2>3, <2>4, <2>5, <2>6, NowRunning DEF SoundBut
  <2>8. u \in Task /\ u.do = "downed" /\ u.then = "retry" /\ ~u.dial
    BY DEF Task, Steps, Idle
  <2> HIDE DEF u
  <2>9. Sane(d, u)
    BY <2>8 DEF Sane, Recording, Holding
  <2>10. Sound(Awaits(d, s, u))
    BY <2>7, <2>8, <2>9, AwaitsSound
  <2> QED
    BY <1>2, <2>1, <2>10, Become_, Budget DEF IInv
<1> QED
  BY <1>3, <1>4

-----------------------------------------------------------------------------
(* A handler goes on.                                                      *)

(* A write to storage that leaves the link alone. *)
LEMMA WritesSound ==
    ASSUME NEW a, NEW s \in Slots, SoundBut(a, s),
           NEW b \in WorkerState, b.port = a.port, b.far = a.far, b.task = a.task,
           Ready(b), Holds(b),
           b.state # a.state => b.state # "READY" \/ b.port # NoPort,
           b.held # a.held => b.held = FALSE \/ b.port # NoPort
    PROVE  SoundBut(b, s)
<1>1. One(b)
  BY DEF One, SoundBut
<1>2. ASSUME NEW x \in Slots, x # s
      PROVE  Sane(b, b.task[x])
  <2>1. Sane(a, b.task[x])
    BY <1>2 DEF SoundBut
  <2> QED
    BY <2>1 DEF Sane
<1> QED
  BY <1>1, <1>2 DEF SoundBut

LEMMA MovesSound ==
    ASSUME NEW b, NEW s \in Slots, SoundBut(b, s)
    PROVE  SoundBut(Moves(b), s)
<1> DEFINE m == Moves(b)
<1>1. /\ m \in WorkerState
      /\ m.port = b.port /\ m.ack = b.ack /\ m.state = b.state /\ m.held = b.held
      /\ m.far = b.far
      /\ \A x \in Slots : /\ m.task[x].do = b.task[x].do /\ m.task[x].port = b.task[x].port
                          /\ m.task[x].then = b.task[x].then
                          /\ m.task[x].dial = b.task[x].dial
  BY MovesEffect DEF SoundBut
<1> HIDE DEF m
<1>2. One(m) /\ Ready(m) /\ Holds(m)
  BY <1>1 DEF One, Ready, Holds, SoundBut
<1>3. \A x \in Slots : x # s => Sane(m, m.task[x])
  BY <1>1 DEF Sane, SoundBut
<1>4. \A x, y \in Slots : x # s /\ y # s /\ m.task[x].dial /\ m.task[y].dial => x = y
  BY <1>1 DEF SoundBut
<1>5. SoundBut(m, s)
  BY <1>1, <1>2, <1>3, <1>4 DEF SoundBut
<1> QED
  BY <1>5 DEF m

(* The handler's own step, d next. *)
LEMMA GoesOn ==
    ASSUME IInv, NEW s \in Slots, NEW b, SoundBut(b, s), b.task = task,
           NEW u \in Task, u.dial = task[s].dial, Sane(b, u)
    PROVE  Sound(Awaits(b, s, u))
<1>1. u.dial => NoDialBut(b, s)
  BY NowRunning DEF NoDialBut
<1> QED
  BY <1>1, AwaitsSound

Goes == \E b : Sound(b) /\ Become(b)

LEMMA GoesKeeps ==
    ASSUME IInv, Goes, Calm \/ Trouble, awake' \in BOOLEAN
    PROVE  IInv'
<1>1. PICK b : Sound(b) /\ Become(b)
  BY DEF Goes
<1> QED
  BY <1>1, Become_, Budget DEF IInv

LEMMA BootedGoes ==
    ASSUME IInv, NEW s \in Slots, Booted(s)
    PROVE  Goes
<1>1. Sound(EnsureConnected(Returns(Now, s), s))
  BY NowRunning, ReturnsSound, Running, EnsureConnectedSound
<1> QED
  BY <1>1 DEF Booted, Goes

LEMMA StateReadGoes ==
    ASSUME IInv, NEW s \in Slots, StateRead(s)
    PROVE  Goes
<1> DEFINE u == [task[s] EXCEPT !.do = "readStale", !.sawHeld = held]
<1>1. Sound(Decide(Now, s, task[s]))
  BY NowRunning, DecideSound
<1>2. task[s] \in Task /\ held \in BOOLEAN /\ Sane(Now, task[s])
  BY NowRunning DEF Sound, WorkerState
<1>3. /\ u \in Task /\ u.do = "readStale" /\ u.port = task[s].port
      /\ u.then = task[s].then /\ u.dial = task[s].dial
  BY <1>2 DEF Task, Steps, Reads
<1>4. Become(Decide(Now, s, task[s])) \/ Become(Awaits(Now, s, u))
  BY DEF StateRead
<1> HIDE DEF u
<1>5. Sane(Now, u)
  BY <1>2, <1>3 DEF Sane, Recording, Holding
<1>6. Sound(Awaits(Now, s, u))
  BY <1>3, <1>5, NowRunning, GoesOn
<1> QED
  BY <1>1, <1>4, <1>6 DEF Goes

LEMMA HeldReadGoes ==
    ASSUME IInv, NEW s \in Slots, HeldRead(s)
    PROVE  Goes
<1> DEFINE u == [task[s] EXCEPT !.do = "decide", !.sawStale = ~fresh]
<1>1. Sound(Decide(Now, s, task[s]))
  BY NowRunning, DecideSound
<1>2. task[s] \in Task /\ Sane(Now, task[s])
  BY NowRunning DEF Sound, WorkerState
<1>3. /\ u \in Task /\ u.do = "decide" /\ u.port = task[s].port
      /\ u.then = task[s].then /\ u.dial = task[s].dial
  BY <1>2 DEF Task, Steps, Reads
<1>4. Become(Decide(Now, s, task[s])) \/ Become(Awaits(Now, s, u))
  BY DEF HeldRead
<1> HIDE DEF u
<1>5. Sane(Now, u)
  BY <1>2, <1>3 DEF Sane, Recording, Holding
<1>6. Sound(Awaits(Now, s, u))
  BY <1>3, <1>5, NowRunning, GoesOn
<1> QED
  BY <1>1, <1>4, <1>6 DEF Goes

LEMMA StaleReadGoes ==
    ASSUME IInv, NEW s \in Slots, StaleRead(s)
    PROVE  Goes
BY NowRunning, DecideSound DEF StaleRead, Goes

(* setState(DOWN). *)
LEMMA SetDownSound ==
    ASSUME IInv, NEW s \in Slots
    PROVE  /\ SoundBut(SetDown(Now), s)
           /\ LET d == SetDown(Now) IN
              d.task = task /\ d.port = port /\ d.state = "DOWN" /\ d.held = held /\ d.far = far
<1> DEFINE d == SetDown(Now)
<1>1. /\ d \in WorkerState /\ d.task = task /\ d.port = port /\ d.state = "DOWN"
      /\ d.held = held /\ d.far = far
  BY NowRunning DEF SetDown, WorkerState, LinkState
<1> HIDE DEF d
<1>2. Ready(d) /\ Holds(d)
  BY <1>1, NowRunning DEF Ready, Holds, SoundBut
<1>3. SoundBut(d, s)
  BY <1>1, <1>2, NowRunning, WritesSound
<1> QED
  BY <1>1, <1>3 DEF d

LEMMA HeldClearedGoes ==
    ASSUME IInv, NEW s \in Slots, HeldCleared(s)
    PROVE  Goes
<1> DEFINE d == SetDown(Now)
           u == [task[s] EXCEPT !.do = "downed"]
<1>1. task[s].do = "cleared" /\ task[s] \in Task /\ Sane(Now, task[s])
  BY NowRunning DEF HeldCleared, Resumes, Sound
<1>2. CASE port # NoPort
  BY <1>1, <1>2, NowRunning, AfterTeardownSound DEF HeldCleared, Goes
<1>3. CASE port = NoPort
  <2>1. Become(Awaits(d, s, u))
    BY <1>3 DEF HeldCleared
  <2>2. /\ u \in Task /\ u.do = "downed" /\ u.port = task[s].port
        /\ u.then = task[s].then /\ u.dial = task[s].dial
    BY <1>1 DEF Task, Steps
  <2>3. SoundBut(d, s) /\ d.task = task /\ d.port = port
    BY SetDownSound
  <2> HIDE DEF d, u
  <2>4. Sane(d, u)
    BY <1>1, <1>3, <2>2, <2>3 DEF Sane, Recording, Holding
  <2> QED
    BY <2>1, <2>2, <2>3, <2>4, GoesOn DEF Goes
<1> QED
  BY <1>2, <1>3

LEMMA DownedGoes ==
    ASSUME IInv, NEW s \in Slots, Downed(s)
    PROVE  Goes
BY NowRunning, AfterTeardownSound DEF Downed, Resumes, Goes

LEMMA ConnectClearsHeldGoes ==
    ASSUME IInv, NEW s \in Slots, ConnectClearsHeld(s)
    PROVE  Goes
<1> DEFINE n == [Now EXCEPT !.held = FALSE]
           u == [task[s] EXCEPT !.do = "open"]
<1>1. task[s].do = "clearHeld" /\ task[s] \in Task /\ Sane(Now, task[s])
  BY NowRunning DEF ConnectClearsHeld, Resumes, Sound
<1>2. /\ n \in WorkerState /\ n.task = task /\ n.port = port /\ n.state = state
      /\ n.held = FALSE /\ n.far = far
  BY NowRunning DEF WorkerState
<1>3. /\ u \in Task /\ u.do = "open" /\ u.port = task[s].port
      /\ u.then = task[s].then /\ u.dial = task[s].dial
  BY <1>1 DEF Task, Steps
<1>4. Become(Awaits(n, s, u))
  BY DEF ConnectClearsHeld
<1> HIDE DEF n, u
<1>5. Ready(n) /\ Holds(n)
  BY <1>2, NowRunning DEF Ready, Holds, SoundBut
<1>6. SoundBut(n, s)
  BY <1>2, <1>5, NowRunning, WritesSound
<1>7. Sane(n, u)
  BY <1>1, <1>2, <1>3, NowRunning DEF Sane, Recording, Holding
<1> QED
  BY <1>2, <1>3, <1>4, <1>6, <1>7, GoesOn DEF Goes

(* The port it opens is one nothing else speaks of. *)
LEMMA OpensGoes ==
    ASSUME IInv, NEW s \in Slots, Opens(s)
    PROVE  Goes
<1>1. task[s].do = "open" /\ task[s] \in Task /\ Sane(Now, task[s])
  BY NowRunning DEF Opens, Resumes, Sound
<1>2. /\ port = NoPort /\ state # "READY" /\ ~held /\ task[s].dial
      /\ NoDialBut(Now, s)
  BY <1>1, NowRunning DEF Sane
<1>3. PICK p \in Ports :
        /\ far[p] = "none" /\ \A x \in Slots : task[x].port # p
        /\ Become(Awaits(Moves([Now EXCEPT !.port = p, !.far[p] = "new"]), s,
                         [task[s] EXCEPT !.do = "identity", !.port = p]))
  BY <1>2 DEF Opens
<1> DEFINE f == [Now EXCEPT !.far[p] = "new"]
           n == [f EXCEPT !.port = p]
           u == [task[s] EXCEPT !.do = "identity", !.port = p]
<1>4. /\ f \in WorkerState
      /\ f.port = port /\ f.state = state /\ f.held = held /\ f.task = task
      /\ f.far[p] = "new" /\ \A x \in Ports : x # p => f.far[x] = far[x]
  BY FarChanges DEF FarState
<1>5. [Now EXCEPT !.port = p, !.far[p] = "new"] = n
  BY DEF Now
<1>6. /\ u \in Task /\ u.do = "identity" /\ u.port = p
      /\ u.then = task[s].then /\ u.dial = task[s].dial
  BY <1>1 DEF Task, Steps
<1>7. Become(Awaits(Moves(n), s, u))
  BY <1>3, <1>5
<1> HIDE DEF f, u
<1>8. /\ n \in WorkerState /\ n.port = p /\ n.state = state /\ n.held = held
      /\ n.task = task /\ n.far = f.far
  BY <1>4 DEF WorkerState
<1> HIDE DEF n
<1>9. One(n) /\ Ready(n) /\ Holds(n)
  BY <1>2, <1>4, <1>8, NowRunning, LinkAssumption DEF One, Ready, Holds, SoundBut
<1>10. ASSUME NEW x \in Slots, x # s
       PROVE  Sane(n, n.task[x])
  <2>1. Sane(Now, task[x]) /\ ~task[x].dial /\ task[x].port # p
    BY <1>2, <1>3, <1>10, NowRunning DEF SoundBut, NoDialBut
  <2> QED
    BY <1>8, <2>1 DEF Sane
<1>11. SoundBut(n, s)
  BY <1>8, <1>9, <1>10, NowRunning DEF SoundBut
<1>12. SoundBut(Moves(n), s)
  BY <1>11, MovesSound
<1>13. NoDialBut(Moves(n), s)
  BY <1>2, <1>8, MovesEffect, NowRunning DEF NoDialBut
<1>14. Sane(Moves(n), u)
  BY <1>1, <1>6 DEF Sane, Recording, Holding
<1>15. Sound(Awaits(Moves(n), s, u))
  BY <1>6, <1>12, <1>13, <1>14, AwaitsSound
<1> QED
  BY <1>7, <1>15 DEF Goes

LEMMA PostsGoes ==
    ASSUME IInv, NEW s \in Slots, NEW g \in {"asked", "mute"}, Posts(s, g)
    PROVE  Goes
<1> DEFINE p == task[s].port
           h == IF far[p] = "new" THEN g ELSE far[p]
           f == [Now EXCEPT !.far[p] = h]
           n == [f EXCEPT !.ack = p]
<1>1. CASE p # port
  BY <1>1, NowRunning, ReturnsSound DEF Posts, Goes
<1>2. CASE p = port /\ port = NoPort
  <2> DEFINE k == [Now EXCEPT !.ack = NoPort]
  <2>1. [Now EXCEPT !.ack = p, !.far[p] = IF @ = "new" THEN g ELSE @] = k
    <3> DEFINE e == [Now.far EXCEPT ![NoPort] = IF @ = "new" THEN g ELSE @]
    <3>1. Now.far \in [Ports -> FarState] /\ NoPort \notin Ports
      BY NowRunning, LinkAssumption DEF WorkerState
    <3>2. e = Now.far
      BY <3>1
    <3>3. [Now EXCEPT !.ack = p, !.far[p] = IF @ = "new" THEN g ELSE @]
            = [Now EXCEPT !.ack = NoPort, !.far = e]
      BY <1>2 DEF Now
    <3> HIDE DEF e
    <3> QED
      BY <3>2, <3>3 DEF Now
  <2>2. Become(Returns(k, s))
    BY <1>2, <2>1 DEF Posts
  <2>3. /\ k \in WorkerState /\ k.port = port /\ k.state = state /\ k.held = held
        /\ k.task = task /\ k.far = far
    BY NowRunning DEF WorkerState
  <2> HIDE DEF k
  <2>4. Ready(k) /\ Holds(k)
    BY <2>3, NowRunning DEF Ready, Holds, SoundBut
  <2> QED
    BY <2>2, <2>3, <2>4, NowRunning, WritesSound, ReturnsSound DEF Goes
<1>3. CASE p = port /\ port # NoPort
  <2>1. p \in Ports /\ far \in [Ports -> FarState]
    BY <1>3, NowRunning DEF WorkerState
  <2>2. h \in FarState
    BY <2>1 DEF FarState
  <2>3. [Now EXCEPT !.ack = p, !.far[p] = IF @ = "new" THEN g ELSE @] = n
    BY <2>1 DEF Now
  <2>4. Become(Returns(n, s))
    BY <1>3, <2>3 DEF Posts
  <2> HIDE DEF h
  <2>5. /\ f \in WorkerState
        /\ f.port = port /\ f.state = state /\ f.held = held /\ f.task = task
        /\ f.far[p] = h /\ \A x \in Ports : x # p => f.far[x] = far[x]
    BY <2>1, <2>2, FarChanges
  <2> HIDE DEF f
  <2>6. /\ n \in WorkerState /\ n.port = port /\ n.state = state /\ n.held = held
        /\ n.task = task /\ n.far = f.far
    BY <2>1, <2>5 DEF WorkerState
  <2> HIDE DEF n
  <2>7. far[port] # "new" => h = far[port]
    BY <1>3 DEF h
  <2>8. One(n) /\ Ready(n) /\ Holds(n)
    BY <1>3, <2>1, <2>5, <2>6, <2>7, NowRunning DEF One, Ready, Holds, SoundBut, Answered
  <2>9. ASSUME NEW x \in Slots, x # s
        PROVE  Sane(n, n.task[x])
    <3>1. Sane(Now, task[x])
      BY <2>9, NowRunning DEF SoundBut
    <3> QED
      BY <1>3, <2>5, <2>6, <2>7, <3>1, NowRunning DEF Sane, Answered
  <2>10. SoundBut(n, s)
    BY <2>6, <2>8, <2>9, NowRunning DEF SoundBut
  <2> QED
    BY <2>4, <2>10, ReturnsSound DEF Goes
<1> QED
  BY <1>1, <1>2, <1>3

LEMMA BumpedGoes ==
    ASSUME IInv, NEW s \in Slots, Bumped(s)
    PROVE  Goes
<1> DEFINE n == [Now EXCEPT !.arming = FALSE, !.retry = TRUE]
<1>1. /\ n \in WorkerState /\ n.port = port /\ n.state = state /\ n.held = held
      /\ n.task = task /\ n.far = far
  BY NowRunning DEF WorkerState
<1>2. Become(Returns(n, s)) \/ Become(Returns(Now, s))
  BY DEF Bumped
<1> HIDE DEF n
<1>3. Ready(n) /\ Holds(n)
  BY <1>1, NowRunning DEF Ready, Holds, SoundBut
<1>4. SoundBut(n, s)
  BY <1>1, <1>3, NowRunning, WritesSound
<1> QED
  BY <1>2, <1>4, NowRunning, ReturnsSound DEF Goes

LEMMA ReturnsGoes ==
    ASSUME IInv, NEW s \in Slots, Superseded(s) \/ RecordFails(s)
    PROVE  Goes
BY NowRunning, ReturnsSound DEF Superseded, RecordFails, Goes

LEMMA SettlesGoes ==
    ASSUME IInv, NEW s \in Slots, Settles(s)
    PROVE  Goes
<1> DEFINE n == [Now EXCEPT !.ack = NoPort, !.retry = FALSE, !.arming = FALSE]
<1>1. /\ n \in WorkerState /\ n.port = port /\ n.state = state /\ n.held = held
      /\ n.task = task /\ n.far = far
  BY NowRunning DEF WorkerState
<1>2. Become(Returns(Moves(n), s)) \/ Become(Returns(Now, s))
  BY DEF Settles, Settle
<1> HIDE DEF n
<1>3. Ready(n) /\ Holds(n)
  BY <1>1, NowRunning DEF Ready, Holds, SoundBut
<1>4. SoundBut(Moves(n), s)
  BY <1>1, <1>3, NowRunning, WritesSound, MovesSound
<1> QED
  BY <1>2, <1>4, NowRunning, ReturnsSound DEF Goes

-----------------------------------------------------------------------------
(* An answer is recorded.                                                  *)

(* What a recording handler knows once it found its port to be current. *)
LEMMA Current ==
    ASSUME IInv, NEW s \in Slots, StillCurrent(s), task[s].do \in Recording \cup Holding
    PROVE  /\ port \in Ports /\ port # NoPort
           /\ task[s].do \in Recording => far[port] \in Answered
           /\ task[s].do \in Holding => far[port] \in {"held", "gone"}
           /\ task[s] \in Task /\ Sane(Now, task[s])
<1>1. task[s] \in Task /\ Sane(Now, task[s]) /\ task[s].port = port
  BY NowRunning DEF Sound, StillCurrent
<1> QED
  BY <1>1, NowRunning, LinkAssumption DEF Sane

(* The next step of a handler that records an answer. *)
LEMMA RecordGoes ==
    ASSUME IInv, NEW s \in Slots, StillCurrent(s), task[s].do \in Recording \cup Holding,
           NEW next \in {"okRecord", "okFresh", "okReady", "panicDown", "settle"},
           next \in Recording => task[s].do \in Recording,
           next \in Holding => task[s].do \in Holding,
           NEW b, SoundBut(b, s), b.task = task, b.port = port, b.far = far,
           Become(Awaits(b, s, [task[s] EXCEPT !.do = next]))
    PROVE  Goes
<1> DEFINE u == [task[s] EXCEPT !.do = next]
<1>1. /\ u \in Task /\ u.do = next /\ u.port = task[s].port
      /\ u.then = task[s].then /\ u.dial = task[s].dial
  BY Current DEF Task, Steps
<1> HIDE DEF u
<1>2. Sane(b, u)
  BY <1>1, Current, NowRunning DEF Sane, StillCurrent
<1>3. Sound(Awaits(b, s, u))
  BY <1>1, <1>2, GoesOn
<1> QED
  BY <1>3 DEF Goes, u

LEMMA OkHeldGoes ==
    ASSUME IInv, NEW s \in Slots, OkHeld(s)
    PROVE  Goes
<1> DEFINE n == [Now EXCEPT !.held = FALSE]
<1>1. /\ n \in WorkerState /\ n.port = port /\ n.state = state /\ n.held = FALSE
      /\ n.task = task /\ n.far = far
  BY NowRunning DEF WorkerState
<1>2. /\ Become(Awaits(n, s, [task[s] EXCEPT !.do = "okRecord"]))
      /\ task[s].do = "okHeld" /\ StillCurrent(s)
  BY DEF OkHeld, Resumes
<1> HIDE DEF n
<1>3. Ready(n) /\ Holds(n)
  BY <1>1, NowRunning DEF Ready, Holds, SoundBut
<1>4. SoundBut(n, s)
  BY <1>1, <1>3, NowRunning, WritesSound
<1> QED
  BY <1>1, <1>2, <1>4, RecordGoes DEF Recording, Holding

LEMMA OkRecordGoes ==
    ASSUME IInv, NEW s \in Slots, OkRecord(s)
    PROVE  Goes
<1>1. /\ Become(Awaits(Now, s, [task[s] EXCEPT !.do = "okFresh"]))
      /\ task[s].do = "okRecord" /\ StillCurrent(s)
  BY DEF OkRecord, Resumes
<1> QED
  BY <1>1, NowRunning, RecordGoes DEF Recording, Holding

LEMMA OkFreshGoes ==
    ASSUME IInv, NEW s \in Slots, OkFresh(s)
    PROVE  Goes
<1> DEFINE n == [Now EXCEPT !.fresh = TRUE]
<1>1. /\ n \in WorkerState /\ n.port = port /\ n.state = state /\ n.held = held
      /\ n.task = task /\ n.far = far
  BY NowRunning DEF WorkerState
<1>2. /\ Become(Awaits(n, s, [task[s] EXCEPT !.do = "okReady"]))
      /\ task[s].do = "okFresh" /\ StillCurrent(s)
  BY DEF OkFresh, Resumes
<1> HIDE DEF n
<1>3. Ready(n) /\ Holds(n)
  BY <1>1, NowRunning DEF Ready, Holds, SoundBut
<1>4. SoundBut(n, s)
  BY <1>1, <1>3, NowRunning, WritesSound
<1> QED
  BY <1>1, <1>2, <1>4, RecordGoes DEF Recording, Holding

(* READY is written for the port that was answered, and is about it. *)
LEMMA OkReadyGoes ==
    ASSUME IInv, NEW s \in Slots, OkReady(s)
    PROVE  Goes
<1> DEFINE n == [Now EXCEPT !.state = "READY"]
<1>1. /\ n \in WorkerState /\ n.port = port /\ n.held = held
      /\ n.task = task /\ n.far = far
  BY NowRunning DEF WorkerState, LinkState
<1>2. /\ Become(Awaits(n, s, [task[s] EXCEPT !.do = "settle"]))
      /\ task[s].do = "okReady" /\ StillCurrent(s)
  BY DEF OkReady, Resumes
<1>3. port # NoPort /\ far[port] \in Answered
  BY <1>2, Current DEF Recording
<1> HIDE DEF n
<1>4. Ready(n) /\ Holds(n)
  BY <1>1, <1>3, NowRunning DEF Ready, Holds, SoundBut
<1>5. SoundBut(n, s)
  BY <1>1, <1>3, <1>4, NowRunning, WritesSound
<1> QED
  BY <1>1, <1>2, <1>5, RecordGoes DEF Recording, Holding

(* So is the hold. *)
LEMMA PanicHoldGoes ==
    ASSUME IInv, NEW s \in Slots, PanicHold(s)
    PROVE  Goes
<1> DEFINE n == [Now EXCEPT !.held = TRUE]
<1>1. /\ n \in WorkerState /\ n.port = port /\ n.state = state
      /\ n.task = task /\ n.far = far
  BY NowRunning DEF WorkerState
<1>2. /\ Become(Awaits(n, s, [task[s] EXCEPT !.do = "panicDown"]))
      /\ task[s].do = "panicHold" /\ StillCurrent(s)
  BY DEF PanicHold, Resumes
<1>3. port # NoPort /\ far[port] \in {"held", "gone"}
  BY <1>2, Current DEF Holding
<1> HIDE DEF n
<1>4. Ready(n) /\ Holds(n)
  BY <1>1, <1>3, NowRunning DEF Ready, Holds, SoundBut
<1>5. SoundBut(n, s)
  BY <1>1, <1>3, <1>4, NowRunning, WritesSound
<1> QED
  BY <1>1, <1>2, <1>5, RecordGoes DEF Recording, Holding

LEMMA PanicDownGoes ==
    ASSUME IInv, NEW s \in Slots, PanicDown(s)
    PROVE  Goes
<1> DEFINE d == SetDown(Now)
<1>1. /\ Become(Awaits(d, s, [task[s] EXCEPT !.do = "settle"]))
      /\ task[s].do = "panicDown" /\ StillCurrent(s)
  BY DEF PanicDown, Resumes
<1>2. SoundBut(d, s) /\ d.task = task /\ d.port = port /\ d.far = far
  BY SetDownSound
<1> HIDE DEF d
<1> QED
  BY <1>1, <1>2, RecordGoes DEF Recording, Holding

LEMMA FailsGoes ==
    ASSUME IInv, NEW s \in Slots, OpenFails(s) \/ IdentityFails(s)
    PROVE  Goes
<1>1. Sound(FailConnect(Now, s, task[s]))
  BY NowRunning, FailConnectSound
<1> QED
  BY <1>1 DEF OpenFails, IdentityFails, Goes

LEMMA StepKeeps ==
    ASSUME IInv, NEW s \in Slots, Step(s) \/ FailedStep(s)
    PROVE  IInv'
<1>1. (Continues(s) \/ Fails(s)) /\ (Calm \/ Trouble) /\ awake' = awake
  BY DEF Step, FailedStep
<1>2. ASSUME Continues(s) PROVE Goes
  BY <1>2, BootedGoes, StateReadGoes, HeldReadGoes, StaleReadGoes, HeldClearedGoes,
     DownedGoes, ConnectClearsHeldGoes, OpensGoes, PostsGoes, BumpedGoes, ReturnsGoes,
     OkHeldGoes, OkRecordGoes, OkFreshGoes, OkReadyGoes, PanicHoldGoes, PanicDownGoes,
     SettlesGoes DEF Continues
<1>3. ASSUME Fails(s) PROVE Goes
  BY <1>3, FailsGoes, PostsGoes, ReturnsGoes DEF Fails
<1> QED
  BY <1>1, <1>2, <1>3, GoesKeeps DEF IInv

-----------------------------------------------------------------------------
(* The world.                                                              *)

LEMMA HostDiesKeeps ==
    ASSUME IInv, NEW p \in Ports, HostDies(p)
    PROVE  IInv'
<1> DEFINE b == [Now EXCEPT !.far[p] = "gone"]
<1>1. /\ b \in WorkerState
      /\ b.port = port /\ b.state = state /\ b.held = held /\ b.task = task
      /\ b.far[p] = "gone" /\ \A x \in Ports : x # p => b.far[x] = far[x]
  BY FarChanges DEF FarState
<1>2. p = port /\ far[p] \notin {"none", "closed"}
  BY AskedIsCurrent DEF HostDies
<1>3. Become(b) /\ Trouble /\ awake' = awake
  BY DEF HostDies, Become, Now, worker, storage
<1> HIDE DEF b
<1>4. One(b) /\ Ready(b) /\ Holds(b)
  <2>1. /\ One(Now) /\ Ready(Now) /\ Holds(Now)
        /\ Now.port = port /\ Now.state = state /\ Now.held = held /\ Now.far = far
    BY DEF IInv, Sound, Now
  <2> QED
    BY <1>1, <1>2, <2>1 DEF One, Ready, Holds, Answered
<1>5. ASSUME NEW x \in Slots
      PROVE  Sane(b, b.task[x])
  <2>1. Sane(Now, task[x]) /\ Now.port = port /\ Now.state = state /\ Now.held = held
    BY NowRunning DEF Sound
  <2> QED
    BY <1>1, <1>2, <2>1 DEF Sane, Answered
<1>6. Sound(b)
  BY <1>1, <1>4, <1>5 DEF Sound, IInv, Now
<1> QED
  BY <1>3, <1>6, Become_, Budget DEF IInv

LEMMA FallsSilentKeeps ==
    ASSUME IInv, NEW p \in Ports, FallsSilent(p)
    PROVE  IInv'
<1> DEFINE b == [Now EXCEPT !.far[p] = "silent"]
<1>1. /\ b \in WorkerState
      /\ b.port = port /\ b.state = state /\ b.held = held /\ b.task = task
      /\ b.far[p] = "silent" /\ \A x \in Ports : x # p => b.far[x] = far[x]
  BY FarChanges DEF FarState
<1>2. p = port /\ far[p] = "routed"
  BY AskedIsCurrent DEF FallsSilent
<1>3. Become(b) /\ Trouble /\ awake' = awake
  BY DEF FallsSilent, Become, Now, worker, storage
<1> HIDE DEF b
<1>4. One(b) /\ Ready(b) /\ Holds(b)
  <2>1. /\ One(Now) /\ Ready(Now) /\ Holds(Now)
        /\ Now.port = port /\ Now.state = state /\ Now.held = held /\ Now.far = far
    BY DEF IInv, Sound, Now
  <2> QED
    BY <1>1, <1>2, <2>1 DEF One, Ready, Holds, Answered
<1>5. ASSUME NEW x \in Slots
      PROVE  Sane(b, b.task[x])
  <2>1. Sane(Now, task[x]) /\ Now.port = port /\ Now.state = state /\ Now.held = held
        /\ Now.far = far
    BY NowRunning DEF Sound
  <2> QED
    BY <1>1, <1>2, <2>1 DEF Sane, Answered
<1>6. Sound(b)
  BY <1>1, <1>4, <1>5 DEF Sound, IInv, Now
<1> QED
  BY <1>3, <1>6, Become_, Budget DEF IInv

LEMMA AgeKeeps ==
    ASSUME IInv, Age
    PROVE  IInv'
<1> DEFINE b == [Now EXCEPT !.fresh = FALSE]
<1>1. Become(b) /\ (Calm \/ Trouble) /\ awake' = awake
  BY DEF Age, Become, Now, worker
<1>2. Sound(b)
  BY DEF IInv, Sound, WorkerState, One, Ready, Holds, Sane
<1> QED
  BY <1>1, <1>2, Become_, Budget DEF IInv

(* A worker that has just been started: its ports and handlers are gone. *)
Fresh(k, h, f) ==
    [port |-> NoPort, ack |-> NoPort, retry |-> FALSE, arming |-> FALSE,
     task |-> [s \in Slots |-> Idle], state |-> k, held |-> h, fresh |-> f,
     far |-> [p \in Ports |-> "none"]]

LEMMA FreshSound ==
    ASSUME NEW k \in LinkState, NEW h \in BOOLEAN, NEW f \in BOOLEAN
    PROVE  Sound(Fresh(k, h, f))
<1> DEFINE b == Fresh(k, h, f)
<1>1. b \in WorkerState
  BY IdleTask DEF Fresh, WorkerState, FarState
<1>2. b.port = NoPort /\ b.far = [p \in Ports |-> "none"] /\ b.task = [s \in Slots |-> Idle]
  BY DEF Fresh
<1> HIDE DEF b
<1>3. One(b) /\ Ready(b) /\ Holds(b)
  BY <1>2 DEF One, Ready, Holds
<1>4. \A x \in Slots : Sane(b, b.task[x]) /\ ~b.task[x].dial
  <2>1. Sane(b, Idle) /\ ~Idle.dial
    BY DEF Sane, Idle, Recording, Holding
  <2> QED
    BY <1>2, <2>1
<1>5. Sound(b)
  BY <1>1, <1>3, <1>4 DEF Sound
<1> QED
  BY <1>5 DEF b

LEMMA StopsKeeps ==
    ASSUME IInv, Evicted \/ WorkerDies \/ BrowserRestarts
    PROVE  IInv'
<1>1. state' \in LinkState /\ held' \in BOOLEAN /\ fresh' \in BOOLEAN
  BY DEF IInv, Sound, Now, WorkerState, LinkState, Evicted, WorkerDies, BrowserRestarts, storage
<1>2. Become(Fresh(state', held', fresh')) /\ (Calm \/ Trouble) /\ awake' = FALSE
  BY DEF Evicted, WorkerDies, BrowserRestarts, Stops, Become, Fresh
<1> QED
  BY <1>1, <1>2, FreshSound, Become_, Budget DEF IInv

-----------------------------------------------------------------------------
(* The inductive invariant, and what follows from it.                      *)

LEMMA InitIInv == Init => IInv
<1> SUFFICES ASSUME Init PROVE IInv
  OBVIOUS
<1>1. Now = Fresh("DOWN", FALSE, FALSE)
  BY DEF Init, Now, Fresh
<1>2. Sound(Now)
  BY <1>1, FreshSound DEF LinkState
<1>3. trouble \in 0..MaxTrouble
  BY LinkAssumption DEF Init
<1>4. awake \in BOOLEAN
  BY DEF Init
<1> QED
  BY <1>2, <1>3, <1>4 DEF IInv

LEMMA NextIInv == IInv /\ [Next]_vars => IInv'
<1> SUFFICES ASSUME IInv, [Next]_vars PROVE IInv'
  OBVIOUS
<1>1. CASE UNCHANGED vars
  BY <1>1 DEF vars, worker, storage, IInv, Sound, Now
<1>2. ASSUME NEW s \in Slots,
             \/ Wake(s) \/ Alarm(s) \/ RetryFires(s) \/ PostFails(s) \/ AckTimeout(s)
             \/ Step(s) \/ FailedStep(s)
             \/ \E unlessPending \in BOOLEAN : ForceReconnect(s, unlessPending)
             \/ \E p \in Ports :
                 RegisterAck(s, p) \/ PanicAck(s, p) \/ Refused(s, p) \/ Disconnect(s, p)
      PROVE  IInv'
  BY <1>2, WakeKeeps, AlarmKeeps, RetryFiresKeeps, PostFailsKeeps, AckTimeoutKeeps, StepKeeps,
     ForceReconnectKeeps, RegisterAckKeeps, PanicAckKeeps, RefusedKeeps, DisconnectKeeps
<1>3. ASSUME NEW p \in Ports, Ping(p) \/ HostDies(p) \/ FallsSilent(p)
      PROVE  IInv'
  BY <1>3, PingKeeps, HostDiesKeeps, FallsSilentKeeps
<1>4. ASSUME Age \/ Evicted \/ WorkerDies \/ BrowserRestarts
      PROVE  IInv'
  BY <1>4, AgeKeeps, StopsKeeps
<1> QED
  BY <1>1, <1>2, <1>3, <1>4 DEF Next

LEMMA IInvHolds == Spec => []IInv
BY InitIInv, NextIInv, PTL DEF Spec

(* The ranges of the variables (link.js:52-67, 78-91).                     *)
THEOREM TypeCorrect == Spec => []TypeOK
<1>1. IInv => TypeOK
  BY DEF IInv, Sound, WorkerState, Now, TypeOK
<1> QED
  BY <1>1, IInvHolds, PTL

(* However many handlers interleave, a port that is not the current one    *)
(* has been disconnected: no native host outlives the link it was started  *)
(* for (link.js:20-29).                                                    *)
THEOREM OnePortPerWorker == Spec => []OnePort
<1>1. IInv => OnePort
  BY DEF IInv, Sound, One, Now, OnePort
<1> QED
  BY <1>1, IInvHolds, PTL

(* READY next to a live port is always about that port: its REGISTER was   *)
(* answered.  It is never the answer of a port let go of while the answer  *)
(* was being recorded (link.js:583-586, 658-663).                          *)
THEOREM ReadyIsRegistered == Spec => []ReadyMeansRegistered
<1>1. IInv => ReadyMeansRegistered
  BY DEF IInv, Sound, Ready, Now, ReadyMeansRegistered, Answered
<1> QED
  BY <1>1, IInvHolds, PTL

(* The hold in storage, which switches the heartbeat check off, is always  *)
(* that of the current port (link.js:329-332).                             *)
THEOREM HoldIsOfThisPort == Spec => []HeldMeansThisPort
<1>1. IInv => HeldMeansThisPort
  BY DEF IInv, Sound, Holds, Now, HeldMeansThisPort
<1> QED
  BY <1>1, IInvHolds, PTL

(* At most one handler dials, from whichever entry it came (link.js:83,    *)
(* 143-177).                                                               *)
THEOREM OneDialAtATime == Spec => []OneDial
<1>1. IInv => OneDial
  BY DEF IInv, Sound, Now, OneDial
<1> QED
  BY <1>1, IInvHolds, PTL

(* The four together: one port and one dial, and what storage says of the  *)
(* link is said of that port, for any number of ports, handlers and        *)
(* troubles (link.js).                                                     *)
THEOREM TheLinkIsOne == Spec => []OneLink
<1>1. [](OnePort /\ OneDial /\ ReadyMeansRegistered /\ HeldMeansThisPort) => []OneLink
  <2>1. OnePort /\ OneDial /\ ReadyMeansRegistered /\ HeldMeansThisPort => OneLink
    BY DEF OneLink
  <2> QED
    BY <2>1, PTL
<1> QED
  BY <1>1, OnePortPerWorker, OneDialAtATime, ReadyIsRegistered, HoldIsOfThisPort, PTL

-----------------------------------------------------------------------------
(***************************************************************************)
(* Steps: what a step of the worker may never do.  Acked adds to the       *)
(* invariant what a handler knows of the port it speaks of and of the link *)
(* it read; Careful says of a step that it keeps that, never gives the     *)
(* link up, and never drops one that works.                                *)
(***************************************************************************)

(* What a handler carries with it.  Only one that dials or records an      *)
(* answer speaks of a port; only these are a dial.                         *)
Acks == Recording \cup Holding \cup {"settle"}
Dials == {"cleared", "downed", "clearHeld", "open", "identity", "bumped"}

Shape(t) ==
    /\ t.dial => t.do \in Dials
    /\ t.do = "identity" => t.dial
    /\ t.do \in Acks \cup {"identity"} => t.port \in Ports
    /\ t.do \notin Acks \cup {"identity"} => t.port = NoPort
    /\ t.do = "decide" => t.sawReady /\ ~t.sawHeld

(* Nobody asks for the answer of a port but the current one.  The deadline *)
(* of a port that is answered runs until the answer is recorded, and one   *)
(* handler records it.  A handler that read the link before it was up      *)
(* knows that it moved.                                                    *)
Up(b) == b.port # NoPort /\ b.far[b.port] = "routed" /\ b.state = "READY" /\ b.ack = NoPort

Knows(b, t) ==
    /\ t.do \in Acks => /\ b.far[t.port] \notin {"new", "asked"}
                        /\ t.port = b.port => b.ack = b.port
    /\ t.do \in Reads /\ Up(b) => t.moved \/ t.sawReady

Asks(b) ==
    /\ b.ack # NoPort => b.ack = b.port
    /\ \A p \in Ports : b.far[p] = "asked" => b.ack = p

Apart(b, x, y) ==
    b.task[x].do \in Acks /\ b.task[y].do \in Acks /\ b.task[x].port = b.task[y].port => x = y

AckedBut(b, s) ==
    /\ Asks(b)
    /\ \A x \in Slots : x # s => Shape(b.task[x]) /\ Knows(b, b.task[x])
    /\ \A x, y \in Slots : x # s /\ y # s => Apart(b, x, y)

Acked(b) ==
    /\ Asks(b)
    /\ \A x \in Slots : Shape(b.task[x]) /\ Knows(b, b.task[x])
    /\ \A x, y \in Slots : Apart(b, x, y)

LInv == IInv /\ Acked(Now)

-----------------------------------------------------------------------------
(* What the functions of link.js do to the link, to the retries and to the *)
(* handlers other than their own.                                          *)

Elsewhere(b, c, s) == \A x \in Slots : x # s => Like(b.task[x], c.task[x])

LEMMA IdleShape ==
    /\ ~Idle.dial /\ Idle.do = "idle" /\ Shape(Idle)
    /\ Idle.do \notin Acks /\ Idle.do \notin Reads
BY DEF Shape, Acks, Dials, Recording, Holding, Reads, Idle

LEMMA LikeItself == ASSUME NEW t PROVE Like(t, t)
BY DEF Like

Same(b, c) ==
    /\ c.port = b.port /\ c.ack = b.ack /\ c.far = b.far
    /\ c.retry = b.retry /\ c.arming = b.arming

LEMMA AwaitsSame ==
    ASSUME NEW b \in WorkerState, NEW s \in Slots, NEW t \in Task
    PROVE  LET c == Awaits(b, s, t) IN
           /\ c \in WorkerState /\ Same(b, c) /\ c.state = b.state
           /\ Elsewhere(b, c, s) /\ c.task[s] = t
<1> DEFINE c == Awaits(b, s, t)
<1>1. /\ c \in WorkerState
      /\ c.port = b.port /\ c.state = b.state /\ c.held = b.held /\ c.far = b.far
      /\ c.ack = b.ack /\ c.retry = b.retry /\ c.arming = b.arming
      /\ c.task[s] = t /\ \A x \in Slots : x # s => c.task[x] = b.task[x]
  BY AwaitsEffect
<1> HIDE DEF c
<1>2. Elsewhere(b, c, s)
  BY <1>1, LikeItself DEF Elsewhere
<1> QED
  BY <1>1, <1>2 DEF Same, c

LEMMA ReturnsSame ==
    ASSUME NEW b \in WorkerState, NEW s \in Slots
    PROVE  LET c == Returns(b, s) IN
           /\ c \in WorkerState /\ Same(b, c) /\ c.state = b.state
           /\ Elsewhere(b, c, s) /\ c.task[s] = Idle
BY IdleTask, AwaitsSame DEF Returns

(* The link has lost its port, and waits for nothing. *)
Gone(b, c) ==
    /\ c.port = NoPort /\ c.ack = NoPort
    /\ \A p \in Ports : IF p = b.port THEN c.far[p] \in {"closed", "none"}
                                      ELSE c.far[p] = b.far[p]

LEMMA TeardownEffect ==
    ASSUME NEW b \in WorkerState, NEW s \in Slots, NEW t \in Task,
           NEW then \in {"connect", "ensure", "retry"}
    PROVE  LET c == Teardown(b, s, t, then) IN
           /\ c \in WorkerState /\ Gone(b, c) /\ c.retry = b.retry /\ c.arming = b.arming
           /\ Elsewhere(b, c, s) /\ c.task[s].do = "cleared" /\ Shape(c.task[s])
<1> DEFINE d == DropPort(b)
           n == [d EXCEPT !.ack = NoPort, !.held = FALSE]
           u == [Idle EXCEPT !.do = "cleared", !.then = then, !.dial = t.dial]
           c == Awaits(n, s, u)
<1>1. /\ d \in WorkerState
      /\ d.port = NoPort /\ d.retry = b.retry /\ d.arming = b.arming
      /\ \A p \in Ports : d.far[p] = IF p = b.port THEN "closed" ELSE b.far[p]
      /\ \A x \in Slots : Like(b.task[x], d.task[x])
  BY DropPortEffect
<1>2. u \in Task /\ u.do = "cleared" /\ u.port = NoPort
  BY DEF Task, Steps, Idle
<1>3. Teardown(b, s, t, then) = c
  BY DEF Teardown
<1> HIDE DEF d, u
<1>4. /\ n \in WorkerState /\ n.port = NoPort /\ n.ack = NoPort /\ n.far = d.far
      /\ n.retry = d.retry /\ n.arming = d.arming /\ n.task = d.task
  BY <1>1 DEF WorkerState
<1> HIDE DEF n
<1>5. /\ c \in WorkerState /\ Same(n, c) /\ c.task[s] = u
      /\ \A x \in Slots : x # s => c.task[x] = n.task[x]
  BY <1>2, <1>4, AwaitsEffect DEF Same
<1> HIDE DEF c
<1>6. Gone(b, c)
  BY <1>1, <1>4, <1>5 DEF Gone, Same
<1>7. Elsewhere(b, c, s) /\ Shape(c.task[s])
  BY <1>1, <1>2, <1>4, <1>5 DEF Elsewhere, Shape, Acks, Dials, Recording, Holding
<1> QED
  BY <1>1, <1>2, <1>3, <1>4, <1>5, <1>6, <1>7 DEF Same

LEMMA ScheduleReconnectEffect ==
    ASSUME NEW b \in WorkerState, NEW s \in Slots, NEW t \in Task
    PROVE  LET c == ScheduleReconnect(b, s, t) IN
           /\ c \in WorkerState
           /\ c.port = b.port /\ c.ack = b.ack /\ c.far = b.far /\ c.state = b.state
           /\ c.retry \/ c.arming
           /\ Elsewhere(b, c, s) /\ c.task[s].do \in {"idle", "bumped"} /\ Shape(c.task[s])
<1> DEFINE n == [b EXCEPT !.arming = TRUE]
           u == [Idle EXCEPT !.do = "bumped", !.dial = t.dial]
<1>1. /\ n \in WorkerState /\ n.port = b.port /\ n.ack = b.ack /\ n.far = b.far
      /\ n.state = b.state /\ n.arming = TRUE /\ n.task = b.task
  BY DEF WorkerState
<1>2. u \in Task /\ u.do = "bumped" /\ u.port = NoPort
  BY DEF Task, Steps, Idle
<1>3. Shape(u) /\ Shape(Idle) /\ Idle.do = "idle"
  BY <1>2 DEF Shape, Acks, Dials, Recording, Holding, Idle
<1>4. CASE b.retry \/ b.arming
  BY <1>3, <1>4, ReturnsSame DEF ScheduleReconnect, Same
<1>5. CASE ~(b.retry \/ b.arming)
  <2>1. ScheduleReconnect(b, s, t) = Awaits(n, s, u)
    BY <1>5 DEF ScheduleReconnect
  <2> HIDE DEF n, u
  <2>2. LET c == Awaits(n, s, u) IN
        /\ c \in WorkerState /\ Same(n, c) /\ c.state = n.state
        /\ Elsewhere(n, c, s) /\ c.task[s] = u
    BY <1>1, <1>2, AwaitsSame
  <2> QED
    BY <1>1, <1>2, <1>3, <2>1, <2>2 DEF Same, Elsewhere
<1> QED
  BY <1>4, <1>5

LEMMA ConnectEffect ==
    ASSUME NEW b \in WorkerState, NEW s \in Slots
    PROVE  LET c == Connect(b, s) IN
           /\ c \in WorkerState /\ Same(b, c) /\ c.state = "CONNECTING"
           /\ Elsewhere(b, c, s) /\ c.task[s].do = "clearHeld" /\ Shape(c.task[s])
<1> DEFINE n == [b EXCEPT !.state = "CONNECTING"]
           u == [Idle EXCEPT !.do = "clearHeld", !.dial = TRUE]
<1>1. n \in WorkerState /\ Same(b, n) /\ n.state = "CONNECTING" /\ n.task = b.task
  BY DEF WorkerState, LinkState, Same
<1>2. u \in Task /\ u.do = "clearHeld" /\ u.port = NoPort
  BY DEF Task, Steps, Idle
<1>3. Connect(b, s) = Awaits(n, s, u)
  BY DEF Connect
<1>4. Shape(u)
  BY <1>2 DEF Shape, Acks, Dials, Recording, Holding
<1> HIDE DEF n, u
<1>5. LET c == Awaits(n, s, u) IN
      /\ c \in WorkerState /\ Same(n, c) /\ c.state = n.state
      /\ Elsewhere(n, c, s) /\ c.task[s] = u
  BY <1>1, <1>2, AwaitsSame
<1> QED
  BY <1>1, <1>2, <1>3, <1>4, <1>5 DEF Same, Elsewhere

(* A handler that reads the link anew reads what is so; one that does not  *)
(* leaves it to a dial or to a port that waits on its answer.              *)
Reading(b, u) == u.do = "readHeld" /\ (b.state = "READY" => u.sawReady)

LEMMA EnsureConnectedEffect ==
    ASSUME NEW b \in WorkerState, NEW s \in Slots
    PROVE  LET c == EnsureConnected(b, s) IN
           /\ c \in WorkerState /\ Same(b, c) /\ c.state = b.state
           /\ Elsewhere(b, c, s) /\ Shape(c.task[s])
           /\ \/ Reading(b, c.task[s])
              \/ c.task[s] = Idle /\ (ConnectInFlight(b) \/ AckPending(b))
<1> DEFINE u == [Idle EXCEPT !.do = "readHeld", !.sawReady = (b.state = "READY")]
<1>1. u \in Task /\ u.do = "readHeld" /\ u.port = NoPort /\ ~u.dial /\ Reading(b, u)
  BY DEF Task, Steps, Reads, Idle, Reading
<1>2. Shape(u) /\ Shape(Idle)
  BY <1>1 DEF Shape, Acks, Dials, Recording, Holding, Idle
<1>3. CASE ConnectInFlight(b) \/ AckPending(b)
  BY <1>2, <1>3, ReturnsSame DEF EnsureConnected
<1>4. CASE ~(ConnectInFlight(b) \/ AckPending(b))
  <2>1. EnsureConnected(b, s) = Awaits(b, s, u)
    BY <1>4 DEF EnsureConnected
  <2> HIDE DEF u
  <2> QED
    BY <1>1, <1>2, <2>1, AwaitsSame
<1> QED
  BY <1>3, <1>4

(* What ensureConnected's last step may come to, for a handler that read   *)
(* t: it reads again, or leaves it to who else is at it, or lets the port  *)
(* go for what it read, or dials.                                          *)
Judged(t) == ~t.moved /\ ~(t.sawHeld \/ (t.sawReady /\ ~t.sawStale))

LEMMA DecideEffect ==
    ASSUME NEW b \in WorkerState, NEW s \in Slots, b.task[s].do \in Reads, Shape(b.task[s])
    PROVE  LET c == Decide(b, s, b.task[s]) IN
           /\ c \in WorkerState /\ Elsewhere(b, c, s) /\ Shape(c.task[s])
           /\ \/ /\ Same(b, c) /\ c.state = b.state
                 /\ \/ Reading(b, c.task[s])
                    \/ c.task[s] = Idle /\ (ConnectInFlight(b) \/ b.port # NoPort)
              \/ /\ Same(b, c) /\ c.state = "CONNECTING" /\ c.task[s].do = "clearHeld"
              \/ /\ b.port # NoPort /\ Judged(b.task[s])
                 /\ Gone(b, c) /\ c.task[s].do = "cleared"
                 /\ c.retry = b.retry /\ c.arming = b.arming
<1> DEFINE t == b.task[s]
           c == Decide(b, s, t)
<1>1. t \in Task /\ ~t.dial
  BY DEF Shape, Dials, Reads, WorkerState
<1>2. CASE t.moved
  <2> DEFINE r == Returns(b, s)
             e == EnsureConnected(r, s)
  <2>1. /\ r \in WorkerState /\ Same(b, r) /\ r.state = b.state
        /\ Elsewhere(b, r, s) /\ r.task[s] = Idle
    BY ReturnsSame
  <2>2. c = e
    BY <1>2 DEF Decide
  <2> HIDE DEF r, c
  <2>3. /\ e \in WorkerState /\ Same(r, e) /\ e.state = r.state
        /\ Elsewhere(r, e, s) /\ Shape(e.task[s])
        /\ \/ Reading(r, e.task[s])
           \/ e.task[s] = Idle /\ (ConnectInFlight(r) \/ AckPending(r))
    BY <2>1, EnsureConnectedEffect
  <2> HIDE DEF e
  <2>4. ConnectInFlight(r) => ConnectInFlight(b)
    BY <2>1, IdleShape DEF ConnectInFlight, Elsewhere, Like
  <2>5. Same(b, e) /\ e.state = b.state /\ Elsewhere(b, e, s)
    BY <2>1, <2>3 DEF Same, Elsewhere, Like
  <2>6. Reading(r, e.task[s]) => Reading(b, e.task[s])
    BY <2>1 DEF Reading
  <2>7. AckPending(r) => b.port # NoPort
    BY <2>1 DEF AckPending, Same
  <2> QED
    BY <2>2, <2>3, <2>4, <2>5, <2>6, <2>7 DEF c
<1>3. CASE ~t.moved /\ c = Returns(b, s) /\ (ConnectInFlight(b) \/ b.port # NoPort)
  <2>1. Shape(Idle)
    BY IdleShape
  <2>2. LET r == Returns(b, s) IN
        /\ r \in WorkerState /\ Same(b, r) /\ r.state = b.state
        /\ Elsewhere(b, r, s) /\ r.task[s] = Idle
    BY ReturnsSame
  <2> HIDE DEF c
  <2> QED
    BY <1>3, <2>1, <2>2 DEF c
<1>4. CASE ~t.moved /\ b.port = NoPort /\ c = Connect(b, s)
  BY <1>4, ConnectEffect
<1>5. CASE /\ b.port # NoPort /\ Judged(t)
           /\ c = Teardown(b, s, [t EXCEPT !.dial = TRUE], "connect")
  <2>1. [t EXCEPT !.dial = TRUE] \in Task
    BY <1>1 DEF Task
  <2> HIDE DEF c, t
  <2> QED
    BY <1>5, <2>1, TeardownEffect DEF c, t
<1>6. \/ t.moved
      \/ ~t.moved /\ c = Returns(b, s) /\ (ConnectInFlight(b) \/ b.port # NoPort)
      \/ ~t.moved /\ b.port = NoPort /\ c = Connect(b, s)
      \/ /\ b.port # NoPort /\ Judged(t)
         /\ c = Teardown(b, s, [t EXCEPT !.dial = TRUE], "connect")
  BY DEF Decide, Judged, AckPending
<1> QED
  BY <1>2, <1>3, <1>4, <1>5, <1>6

(* A dial that fails closes its port, and the link with it if it is the    *)
(* current one.                                                            *)
LEMMA FailConnectEffect ==
    ASSUME NEW b \in WorkerState, NEW s \in Slots, NEW t \in Task
    PROVE  LET c == FailConnect(b, s, t) IN
           /\ c \in WorkerState /\ Elsewhere(b, c, s) /\ Shape(c.task[s])
           /\ \/ /\ t.port \in Ports /\ t.port # b.port /\ c.task[s] = Idle
                 /\ c.port = b.port /\ c.ack = b.ack /\ c.state = b.state
                 /\ c.retry = b.retry /\ c.arming = b.arming
                 /\ \A p \in Ports : c.far[p] = IF p = t.port THEN "closed" ELSE b.far[p]
              \/ /\ t.port \in {NoPort, b.port}
                 /\ Gone(b, c) /\ c.task[s].do = "cleared"
<1>1. CASE t.port # NoPort /\ t.port # b.port
  <2> DEFINE n == ClosePort(b, t.port)
  <2>1. t.port \in Ports
    BY <1>1 DEF Task
  <2>2. /\ n \in WorkerState
        /\ n.port = b.port /\ n.state = b.state /\ n.held = b.held /\ n.task = b.task
        /\ n.ack = b.ack /\ n.retry = b.retry /\ n.arming = b.arming
        /\ n.far[t.port] = "closed" /\ \A x \in Ports : x # t.port => n.far[x] = b.far[x]
    BY <2>1, ClosePortEffect
  <2>3. FailConnect(b, s, t) = Returns(n, s)
    BY <1>1 DEF FailConnect
  <2> HIDE DEF n
  <2>4. LET c == Returns(n, s) IN
        /\ c \in WorkerState /\ Same(n, c) /\ c.state = n.state
        /\ Elsewhere(n, c, s) /\ c.task[s] = Idle
    BY <2>2, ReturnsSame
  <2>5. Shape(Idle)
    BY IdleShape
  <2> QED
    BY <1>1, <2>1, <2>2, <2>3, <2>4, <2>5 DEF Same, Elsewhere
<1>2. CASE ~(t.port # NoPort /\ t.port # b.port)
  <2>1. FailConnect(b, s, t) = Teardown(b, s, t, "retry")
    BY <1>2 DEF FailConnect
  <2> QED
    BY <1>2, <2>1, TeardownEffect
<1> QED
  BY <1>1, <1>2

LEMMA AfterTeardownEffect ==
    ASSUME NEW b \in WorkerState, NEW s \in Slots, NEW t \in Task,
           t.then \in {"connect", "ensure", "retry"}
    PROVE  LET c == AfterTeardown(b, s, t) IN
           /\ c \in WorkerState /\ Elsewhere(b, c, s) /\ Shape(c.task[s])
           /\ c.port = b.port /\ c.ack = b.ack /\ c.far = b.far
           /\ c.state \in {b.state, "CONNECTING"}
           /\ \/ c.task[s].do \in {"clearHeld", "reset"}
              \/ c.task[s].do \in {"idle", "bumped"} /\ (c.retry \/ c.arming)
<1>1. CASE t.then = "connect"
  BY <1>1, ConnectEffect DEF AfterTeardown, Same
<1>2. CASE t.then = "retry"
  BY <1>2, ScheduleReconnectEffect DEF AfterTeardown
<1>3. CASE t.then = "ensure"
  <2> DEFINE u == [Idle EXCEPT !.do = "reset"]
  <2>1. u \in Task /\ u.do = "reset" /\ u.port = NoPort /\ ~u.dial
    BY DEF Task, Steps, Idle
  <2>2. Shape(u)
    BY <2>1 DEF Shape, Acks, Dials, Recording, Holding
  <2>3. AfterTeardown(b, s, t) = Awaits(b, s, u)
    BY <1>3 DEF AfterTeardown
  <2> HIDE DEF u
  <2> QED
    BY <2>1, <2>2, <2>3, AwaitsSame DEF Same
<1> QED
  BY <1>1, <1>2, <1>3

-----------------------------------------------------------------------------
(* The ways in which Acked is kept.                                        *)

(* Slot s goes on, the port stays, and what is behind it is not asked anew. *)
LEMMA AckedSame ==
    ASSUME NEW b \in WorkerState, NEW c \in WorkerState, NEW s \in Slots,
           Acked(b), Elsewhere(b, c, s), Shape(c.task[s]),
           c.port = b.port, c.ack = b.ack,
           \A p \in Ports : c.far[p] = b.far[p] \/ c.far[p] \notin {"new", "asked", "routed"},
           Up(c) => Up(b),
           c.task[s].do \notin Acks,
           c.task[s].do \in Reads /\ Up(b) => c.task[s].moved \/ c.task[s].sawReady
    PROVE  Acked(c)
<1>1. Asks(c)
  BY DEF Acked, Asks
<1>2. ASSUME NEW x \in Slots PROVE Shape(c.task[x]) /\ Knows(c, c.task[x])
  <2>1. CASE x = s
    BY <2>1 DEF Knows
  <2>2. CASE x # s
    <3>1. Shape(b.task[x]) /\ Knows(b, b.task[x]) /\ Like(b.task[x], c.task[x])
      BY <2>2 DEF Acked, Elsewhere
    <3>2. Shape(c.task[x])
      BY <3>1 DEF Shape, Like
    <3>3. c.task[x].do \in Acks => c.task[x].port \in Ports
      BY <3>2 DEF Shape
    <3> QED
      BY <3>1, <3>2, <3>3 DEF Knows, Like
  <2> QED
    BY <2>1, <2>2
<1>3. ASSUME NEW x \in Slots, NEW y \in Slots PROVE Apart(c, x, y)
  BY DEF Apart, Acked, Elsewhere, Like
<1> QED
  BY <1>1, <1>2, <1>3 DEF Acked

(* The link loses its port. *)
LEMMA AckedGone ==
    ASSUME NEW b \in WorkerState, NEW c \in WorkerState, NEW s \in Slots,
           Acked(b), Elsewhere(b, c, s), Shape(c.task[s]), Gone(b, c),
           c.task[s].do \notin Acks
    PROVE  Acked(c)
<1>1. Asks(c)
  BY DEF Acked, Asks, Gone
<1>2. ASSUME NEW x \in Slots PROVE Shape(c.task[x]) /\ Knows(c, c.task[x])
  <2>1. CASE x = s
    BY <2>1 DEF Knows, Gone, Up
  <2>2. CASE x # s
    <3>1. Shape(b.task[x]) /\ Knows(b, b.task[x]) /\ Like(b.task[x], c.task[x])
      BY <2>2 DEF Acked, Elsewhere
    <3>2. Shape(c.task[x])
      BY <3>1 DEF Shape, Like
    <3>3. c.task[x].do \in Acks => c.task[x].port \in Ports /\ c.task[x].port # NoPort
      BY <3>2, LinkAssumption DEF Shape
    <3> QED
      BY <3>1, <3>2, <3>3 DEF Knows, Like, Gone, Up
  <2> QED
    BY <2>1, <2>2
<1>3. ASSUME NEW x \in Slots, NEW y \in Slots PROVE Apart(c, x, y)
  BY DEF Apart, Acked, Elsewhere, Like
<1> QED
  BY <1>1, <1>2, <1>3 DEF Acked

(* Nobody's handler goes on. *)
LEMMA AckedStill ==
    ASSUME NEW b \in WorkerState, NEW c \in WorkerState,
           Acked(b), c.task = b.task, c.port = b.port, c.ack = b.ack, c.state = b.state,
           \A p \in Ports : c.far[p] = b.far[p] \/ c.far[p] \notin {"new", "asked", "routed"}
    PROVE  Acked(c)
<1>1. Asks(c)
  BY DEF Acked, Asks
<1>2. ASSUME NEW x \in Slots PROVE Shape(c.task[x]) /\ Knows(c, c.task[x])
  <2>1. Shape(b.task[x]) /\ Knows(b, b.task[x])
    BY DEF Acked
  <2>2. b.task[x].do \in Acks => b.task[x].port \in Ports
    BY <2>1 DEF Shape
  <2>3. Up(c) => Up(b)
    BY DEF Up, WorkerState
  <2> QED
    BY <2>1, <2>2, <2>3 DEF Knows
<1>3. \A x, y \in Slots : Apart(c, x, y)
  BY DEF Apart, Acked
<1> QED
  BY <1>1, <1>2, <1>3 DEF Acked

-----------------------------------------------------------------------------
(* A careful step keeps Acked, comes to rest only where a dial was lost,   *)
(* and drops a link that works only for trouble or for a stale heartbeat.  *)

SawStale == \E x \in Slots : task[x].do = "decide" /\ task[x].sawStale

Careful ==
    /\ Acked(Now')
    /\ AtRest' => AtRest \/ \E x \in Slots : LostDial(x)
    /\ Linked /\ port' # port => trouble' # trouble \/ SawStale

Driving == Reads \cup
    {"boot", "reset", "cleared", "downed", "clearHeld", "open", "identity"}

LEMMA Becomes ==
    ASSUME NEW c \in WorkerState, Become(c)
    PROVE  /\ Now' = c /\ port' = c.port /\ retry' = c.retry /\ arming' = c.arming
           /\ task' = c.task
BY NowBecome DEF Become

LEMMA NowFields ==
    ASSUME LInv
    PROVE  /\ Now \in WorkerState /\ Acked(Now) /\ Now.port = port /\ Now.ack = ack
           /\ Now.retry = retry /\ Now.arming = arming /\ Now.task = task
           /\ Now.state = state /\ Now.far = far
           /\ Linked <=> Up(Now)
<1>1. Now.port = port /\ Now.ack = ack /\ Now.retry = retry /\ Now.arming = arming
      /\ Now.task = task /\ Now.state = state /\ Now.far = far
  BY DEF Now
<1> QED
  BY <1>1 DEF LInv, IInv, Sound, Linked, Up

LEMMA TaskShape ==
    ASSUME LInv, NEW s \in Slots
    PROVE  task[s] \in Task /\ Shape(task[s]) /\ Knows(Now, task[s])
BY NowFields DEF Acked, WorkerState

LEMMA TroubleCounts ==
    ASSUME LInv, Trouble
    PROVE  trouble' # trouble
BY DEF LInv, IInv, Trouble

(* Why the worker is not at rest after slot s went on to c: s itself, a    *)
(* retry, the port, or another's dial is left; or it was at rest before.   *)
StaysUp(c, s) ==
    \/ c.task[s].do \in Driving
    \/ c.retry \/ c.arming
    \/ c.port # NoPort
    \/ \E x \in Slots : (x # s /\ task[x].dial) \/ LostDial(x)
    \/ /\ task[s].do \notin Driving /\ awake' = awake
       /\ c.port = port /\ (retry \/ arming => c.retry \/ c.arming)

LEMMA RestsCarefully ==
    ASSUME LInv, NEW s \in Slots, NEW c \in WorkerState, Become(c), Elsewhere(Now, c, s),
           StaysUp(c, s), AtRest'
    PROVE  AtRest \/ \E x \in Slots : LostDial(x)
<1>1. port' = NoPort /\ ~retry' /\ ~arming' /\ awake'
  BY DEF AtRest
<1>2. \A x \in Slots : task'[x].do \notin Driving
  BY DEF AtRest, Drives, Driving
<1>3. c.port = NoPort /\ ~c.retry /\ ~c.arming /\ \A x \in Slots : c.task[x].do \notin Driving
  BY <1>1, <1>2, Becomes
<1>4. \A x \in Slots : x # s => task[x].do = c.task[x].do
  BY NowFields DEF Elsewhere, Like
<1>5. ASSUME NEW x \in Slots, x # s, task[x].dial
      PROVE  LostDial(x)
  <2>1. task[x].do \in Dials /\ task[x].do \notin Driving
    BY <1>3, <1>4, <1>5, TaskShape DEF Shape
  <2> QED
    BY <1>5, <2>1 DEF Dials, Driving, LostDial
<1>6. CASE /\ task[s].do \notin Driving /\ awake' = awake
           /\ c.port = port /\ (retry \/ arming => c.retry \/ c.arming)
  <2>1. \A x \in Slots : task[x].do \notin Driving
    BY <1>3, <1>4, <1>6
  <2> QED
    BY <1>1, <1>3, <1>6, <2>1 DEF AtRest, Drives, Driving
<1> QED
  BY <1>3, <1>5, <1>6 DEF StaysUp

LEMMA StaysCareful ==
    ASSUME LInv, NEW s \in Slots, NEW c \in WorkerState, Become(c), Elsewhere(Now, c, s),
           Shape(c.task[s]), c.port = port, c.ack = ack,
           \A p \in Ports : c.far[p] = far[p] \/ c.far[p] \notin {"new", "asked", "routed"},
           Up(c) => Up(Now),
           c.task[s].do \notin Acks,
           c.task[s].do \in Reads /\ Up(Now) => c.task[s].moved \/ c.task[s].sawReady,
           StaysUp(c, s)
    PROVE  Careful
<1>1. Acked(c)
  BY NowFields, AckedSame
<1> QED
  BY <1>1, Becomes, RestsCarefully DEF Careful

LEMMA DropsCareful ==
    ASSUME LInv, NEW s \in Slots, NEW c \in WorkerState, Become(c), Elsewhere(Now, c, s),
           Shape(c.task[s]), Gone(Now, c), c.task[s].do \in {"cleared", "downed"},
           Linked => trouble' # trouble \/ SawStale
    PROVE  Careful
<1>1. c.task[s].do \notin Acks /\ c.task[s].do \in Driving
  BY DEF Acks, Recording, Holding, Driving
<1>2. Acked(c)
  BY <1>1, NowFields, AckedGone
<1>3. StaysUp(c, s)
  BY <1>1 DEF StaysUp
<1> QED
  BY <1>2, <1>3, Becomes, RestsCarefully DEF Careful

LEMMA StillCareful ==
    ASSUME LInv, NEW c \in WorkerState, Become(c), awake' = awake,
           c.task = task, c.port = port, c.ack = ack, c.state = state,
           c.retry = retry, c.arming = arming,
           \A p \in Ports : c.far[p] = far[p] \/ c.far[p] \notin {"new", "asked", "routed"}
    PROVE  Careful
<1>1. Acked(c)
  BY NowFields, AckedStill
<1>2. AtRest' => AtRest
  BY Becomes DEF AtRest, Drives
<1> QED
  BY <1>1, <1>2, Becomes DEF Careful

-----------------------------------------------------------------------------
(* What starts a handler.                                                  *)

LEMMA WakeCareful ==
    ASSUME LInv, NEW s \in Slots, Wake(s)
    PROVE  Careful
<1> DEFINE u == [Idle EXCEPT !.do = "boot"]
           c == Awaits(Now, s, u)
<1>1. u \in Task /\ u.do = "boot" /\ u.port = NoPort /\ ~u.dial
  BY DEF Task, Steps, Idle
<1>2. Become(c)
  BY DEF Wake
<1> HIDE DEF u
<1>3. /\ c \in WorkerState /\ Same(Now, c) /\ c.state = Now.state
      /\ Elsewhere(Now, c, s) /\ c.task[s] = u
  BY <1>1, NowFields, AwaitsSame
<1> HIDE DEF c
<1>4. Shape(u) /\ u.do \notin Acks /\ u.do \notin Reads /\ u.do \in Driving
  BY <1>1 DEF Shape, Acks, Dials, Recording, Holding, Reads, Driving
<1>5. StaysUp(c, s)
  BY <1>3, <1>4 DEF StaysUp
<1>6. Up(c) => Up(Now)
  BY <1>3 DEF Up, Same
<1> QED
  BY <1>2, <1>3, <1>4, <1>5, <1>6, NowFields, StaysCareful DEF Same

(* A handler that asks ensureConnected of b, which differs from Now in the *)
(* retry timer and in its own task only.                                   *)
LEMMA EnsureCareful ==
    ASSUME LInv, NEW s \in Slots, NEW b \in WorkerState,
           b.port = port, b.ack = ack, b.far = far, b.state = state,
           Elsewhere(Now, b, s), ~b.task[s].dial,
           Become(EnsureConnected(b, s))
    PROVE  Careful
<1> DEFINE c == EnsureConnected(b, s)
<1>1. /\ c \in WorkerState /\ Same(b, c) /\ c.state = b.state
      /\ Elsewhere(b, c, s) /\ Shape(c.task[s])
      /\ \/ Reading(b, c.task[s])
         \/ c.task[s] = Idle /\ (ConnectInFlight(b) \/ AckPending(b))
  BY EnsureConnectedEffect
<1>2. Become(c)
  OBVIOUS
<1> HIDE DEF c
<1>3. Elsewhere(Now, c, s)
  BY <1>1 DEF Elsewhere, Like
<1>5. c.task[s].do \notin Acks /\ (c.task[s].do \in Reads /\ Up(Now) => c.task[s].sawReady)
  BY <1>1, IdleShape, NowFields DEF Reading, Acks, Recording, Holding, Reads, Up
<1>6. Up(c) => Up(Now)
  BY <1>1, NowFields DEF Up, Same
<1>7. StaysUp(c, s)
  <2>1. CASE Reading(b, c.task[s])
    BY <2>1 DEF Reading, StaysUp, Driving, Reads
  <2>2. CASE AckPending(b)
    BY <1>1, <2>2 DEF AckPending, StaysUp, Same
  <2>3. CASE ConnectInFlight(b)
    <3>1. PICK x \in Slots : x # s /\ b.task[x].dial
      BY <2>3 DEF ConnectInFlight
    <3>2. task[x].dial
      BY <3>1, NowFields DEF Elsewhere, Like
    <3> QED
      BY <3>1, <3>2 DEF StaysUp
  <2> QED
    BY <1>1, <2>1, <2>2, <2>3
<1> QED
  BY <1>1, <1>2, <1>3, <1>5, <1>6, <1>7, NowFields, StaysCareful DEF Same

LEMMA FreeSlot ==
    ASSUME LInv, NEW s \in Slots, Free(s)
    PROVE  task[s].do = "idle" /\ ~task[s].dial
BY TaskShape DEF Free, Shape, Dials

LEMMA AlarmCareful ==
    ASSUME LInv, NEW s \in Slots, Alarm(s)
    PROVE  Careful
<1>1. Elsewhere(Now, Now, s)
  BY LikeItself DEF Elsewhere
<1> QED
  BY <1>1, FreeSlot, NowFields, EnsureCareful DEF Alarm

LEMMA RetryFiresCareful ==
    ASSUME LInv, NEW s \in Slots, RetryFires(s)
    PROVE  Careful
<1> DEFINE n == [Now EXCEPT !.retry = FALSE]
<1>1. Become(EnsureConnected(n, s)) /\ Free(s)
  BY DEF RetryFires
<1>2. /\ n \in WorkerState /\ n.port = port /\ n.ack = ack /\ n.far = far /\ n.state = state
      /\ n.task = task
  BY NowFields DEF WorkerState
<1> HIDE DEF n
<1>3. Elsewhere(Now, n, s)
  BY <1>2, NowFields, LikeItself DEF Elsewhere
<1> QED
  BY <1>1, <1>2, <1>3, FreeSlot, EnsureCareful

(* A teardown of b, which differs from Now in the answer it waits for and  *)
(* in what is behind the port.                                             *)
LEMMA TeardownCareful ==
    ASSUME LInv, NEW s \in Slots, NEW b \in WorkerState, b.port = port, b.task = task,
           \A p \in Ports : p # port => b.far[p] = far[p],
           NEW t \in Task, NEW then \in {"connect", "ensure", "retry"},
           Become(Teardown(b, s, t, then)),
           Linked => trouble' # trouble \/ SawStale
    PROVE  Careful
<1> DEFINE c == Teardown(b, s, t, then)
<1>1. /\ c \in WorkerState /\ Gone(b, c)
      /\ Elsewhere(b, c, s) /\ c.task[s].do = "cleared" /\ Shape(c.task[s])
  BY TeardownEffect
<1>2. Become(c)
  OBVIOUS
<1> HIDE DEF c
<1>3. Gone(Now, c) /\ Elsewhere(Now, c, s)
  BY <1>1, NowFields DEF Gone, Elsewhere
<1> QED
  BY <1>1, <1>2, <1>3, DropsCareful

LEMMA ForceReconnectCareful ==
    ASSUME LInv, NEW s \in Slots, NEW u \in BOOLEAN, ForceReconnect(s, u)
    PROVE  Careful
BY NowFields, IdleTask, TroubleCounts, TeardownCareful DEF ForceReconnect

LEMMA PostFailsCareful ==
    ASSUME LInv, NEW s \in Slots, PostFails(s)
    PROVE  Careful
BY NowFields, IdleTask, TroubleCounts, TeardownCareful DEF PostFails

LEMMA RefusedCareful ==
    ASSUME LInv, NEW s \in Slots, NEW p \in Ports, Refused(s, p)
    PROVE  Careful
<1> DEFINE b == [Now EXCEPT !.far[p] = "mute"]
<1>1. /\ b \in WorkerState /\ b.port = port /\ b.task = task
      /\ \A x \in Ports : x # p => b.far[x] = far[x]
  BY FarChanges DEF FarState, LInv
<1>2. p = port
  BY AskedIsCurrent DEF Refused, LInv
<1>3. Become(Teardown(b, s, Idle, "retry"))
  BY <1>2 DEF Refused
<1>4. Linked => trouble' # trouble
  BY <1>2, TroubleCounts DEF Refused, Linked
<1> HIDE DEF b
<1> QED
  BY <1>1, <1>2, <1>3, <1>4, IdleTask, TeardownCareful

LEMMA AckTimeoutCareful ==
    ASSUME LInv, NEW s \in Slots, AckTimeout(s)
    PROVE  Careful
<1> DEFINE b == [Now EXCEPT !.ack = NoPort]
<1>1. b \in WorkerState /\ b.port = port /\ b.far = far /\ b.task = task
  BY NowFields DEF WorkerState
<1>2. ack = port /\ ~Linked
  BY NowFields DEF AckTimeout, Acked, Asks, Linked
<1>3. Become(Teardown(b, s, Idle, "retry"))
  BY <1>2 DEF AckTimeout
<1> HIDE DEF b
<1> QED
  BY <1>1, <1>2, <1>3, IdleTask, TeardownCareful

LEMMA DisconnectCareful ==
    ASSUME LInv, NEW s \in Slots, NEW p \in Ports, Disconnect(s, p)
    PROVE  Careful
<1> DEFINE b == [Now EXCEPT !.far[p] = "none"]
           n == [b EXCEPT !.port = NoPort, !.held = FALSE, !.ack = NoPort]
           m == Moves(n)
           d == SetDown(m)
           u == [Idle EXCEPT !.do = "downed", !.then = "retry"]
           c == Awaits(d, s, u)
<1>1. /\ b \in WorkerState
      /\ b.port = port /\ b.state = state /\ b.held = held /\ b.task = task /\ b.ack = ack
      /\ b.retry = retry /\ b.arming = arming
      /\ b.far[p] = "none" /\ \A x \in Ports : x # p => b.far[x] = far[x]
  BY FarChanges, NowFields DEF FarState, LInv
<1>2. awake' = awake /\ far[p] \in {"gone", "closed"}
  BY DEF Disconnect
<1>3. CASE p # port
  <2>1. Become(b)
    BY <1>3 DEF Disconnect
  <2> HIDE DEF b
  <2>2. \A x \in Ports : b.far[x] = far[x] \/ b.far[x] \notin {"new", "asked", "routed"}
    BY <1>1
  <2> QED
    BY <1>1, <1>2, <2>1, <2>2, StillCareful
<1>4. CASE p = port
  <2>1. Become(c)
    BY <1>4 DEF Disconnect
  <2>2. u \in Task /\ u.do = "downed" /\ u.port = NoPort
    BY DEF Task, Steps, Idle
  <2> HIDE DEF b, u
  <2>3. n \in WorkerState /\ n.port = NoPort /\ n.ack = NoPort /\ n.task = task /\ n.far = b.far
    BY <1>1 DEF WorkerState
  <2> HIDE DEF n
  <2>4. /\ m \in WorkerState /\ m.port = NoPort /\ m.ack = NoPort /\ m.far = b.far
        /\ \A x \in Slots : Like(task[x], m.task[x])
    BY <2>3, MovesEffect
  <2> HIDE DEF m
  <2>5. /\ d \in WorkerState /\ d.port = NoPort /\ d.ack = NoPort /\ d.far = b.far
        /\ d.task = m.task
    BY <2>4 DEF SetDown, WorkerState, LinkState
  <2> HIDE DEF d
  <2>6. c \in WorkerState /\ Same(d, c) /\ Elsewhere(d, c, s) /\ c.task[s] = u
    BY <2>2, <2>5, AwaitsSame
  <2> HIDE DEF c
  <2>7. Gone(Now, c)
    BY <1>1, <1>4, <2>5, <2>6, NowFields DEF Gone, Same
  <2>8. Elsewhere(Now, c, s)
    BY <2>4, <2>5, <2>6, NowFields DEF Elsewhere, Like
  <2>9. Shape(u)
    BY <2>2 DEF Shape, Acks, Dials, Recording, Holding
  <2>10. ~Linked
    BY <1>2, <1>4 DEF Linked
  <2> QED
    BY <2>1, <2>2, <2>6, <2>7, <2>8, <2>9, <2>10, DropsCareful
<1> QED
  BY <1>3, <1>4

(* The answer to REGISTER: whatever it is, its deadline runs, and the      *)
(* handler that records it is the only one for that port.                  *)
LEMMA AnswerCareful ==
    ASSUME LInv, NEW s \in Slots, NEW p \in Ports, far[p] = "asked",
           NEW f \in {"routed", "held"}, NEW do \in {"okHeld", "panicHold"},
           Become(Awaits([Now EXCEPT !.far[p] = f], s, [Idle EXCEPT !.do = do, !.port = p]))
    PROVE  Careful
<1> DEFINE b == [Now EXCEPT !.far[p] = f]
           u == [Idle EXCEPT !.do = do, !.port = p]
           c == Awaits(b, s, u)
<1>1. /\ b \in WorkerState
      /\ b.port = port /\ b.state = state /\ b.task = task /\ b.ack = ack
      /\ b.far[p] = f /\ \A x \in Ports : x # p => b.far[x] = far[x]
  <2>1. f \in FarState /\ IInv
    BY DEF FarState, LInv
  <2> QED
    BY <2>1, FarChanges
<1>2. u \in Task /\ u.do = do /\ u.port = p /\ ~u.dial
  BY DEF Task, Steps, Idle
<1>3. Become(c)
  OBVIOUS
<1>4. ack = p /\ p = port /\ p # NoPort
  BY NowFields, LinkAssumption DEF Acked, Asks
<1> HIDE DEF b, u
<1>5. c \in WorkerState /\ Same(b, c) /\ c.state = b.state /\ Elsewhere(b, c, s) /\ c.task[s] = u
  BY <1>1, <1>2, AwaitsSame
<1> HIDE DEF c
<1>6. Elsewhere(Now, c, s)
  BY <1>1, <1>5, NowFields DEF Elsewhere
<1>7. c.port = port /\ c.ack = port /\ ~Up(c)
  BY <1>1, <1>4, <1>5 DEF Same, Up
<1>8. c.far[p] = f /\ \A x \in Ports : x # p => c.far[x] = far[x]
  BY <1>1, <1>5 DEF Same
<1>9. Asks(c)
  BY <1>4, <1>7, <1>8, NowFields DEF Acked, Asks
<1>10. u.do \in Acks /\ u.do \notin Reads /\ Shape(u)
  BY <1>2 DEF Shape, Acks, Dials, Recording, Holding, Reads
<1>11. ASSUME NEW x \in Slots, x # s
       PROVE  /\ Shape(c.task[x]) /\ Knows(c, c.task[x])
              /\ c.task[x].do \in Acks => c.task[x].port # p
  <2>1. Shape(task[x]) /\ Knows(Now, task[x]) /\ Like(task[x], c.task[x])
    BY <1>6, <1>11, NowFields, TaskShape DEF Elsewhere
  <2>2. task[x].do \in Acks => task[x].port \in Ports /\ task[x].port # p
    BY <2>1, NowFields DEF Shape, Knows
  <2>3. Shape(c.task[x])
    BY <2>1 DEF Shape, Like
  <2> QED
    BY <1>4, <1>7, <1>8, <2>1, <2>2, <2>3, NowFields DEF Knows, Like
<1>12. Knows(c, u)
  BY <1>2, <1>4, <1>7, <1>8, <1>10 DEF Knows
<1>13. ASSUME NEW x \in Slots, NEW y \in Slots PROVE Apart(c, x, y)
  BY <1>2, <1>5, <1>6, <1>11, NowFields DEF Apart, Acked, Elsewhere, Like
<1>14. Acked(c)
  BY <1>5, <1>9, <1>10, <1>11, <1>12, <1>13 DEF Acked
<1> QED
  BY <1>3, <1>4, <1>5, <1>7, <1>14, Becomes, LinkAssumption DEF Careful, AtRest

LEMMA RegisterAckCareful ==
    ASSUME LInv, NEW s \in Slots, NEW p \in Ports, RegisterAck(s, p) \/ PanicAck(s, p)
    PROVE  Careful
<1>1. p = port /\ far[p] = "asked"
  BY AskedIsCurrent DEF RegisterAck, PanicAck, LInv
<1> QED
  BY <1>1, AnswerCareful DEF RegisterAck, PanicAck

-----------------------------------------------------------------------------
(* A handler goes on.                                                      *)

(* It returns, and leaves the link to who is at it. *)
LEMMA ReturnsCareful ==
    ASSUME LInv, NEW s \in Slots, NEW b \in WorkerState,
           b.port = port, b.ack = ack, b.far = far, b.state = state, b.task = task,
           retry \/ arming => b.retry \/ b.arming,
           Become(Returns(b, s)), awake' = awake,
           task[s].do \notin Driving \/ port # NoPort \/ LostDial(s)
    PROVE  Careful
<1> DEFINE c == Returns(b, s)
<1>1. /\ c \in WorkerState /\ Same(b, c) /\ c.state = b.state
      /\ Elsewhere(b, c, s) /\ c.task[s] = Idle
  BY ReturnsSame
<1>2. Become(c)
  OBVIOUS
<1> HIDE DEF c
<1>3. Shape(Idle) /\ Idle.do \notin Acks /\ Idle.do \notin Reads
  BY IdleShape
<1>4. Elsewhere(Now, c, s)
  BY <1>1, NowFields DEF Elsewhere
<1>5. Up(c) => Up(Now)
  BY <1>1, NowFields DEF Up, Same
<1>6. StaysUp(c, s)
  BY <1>1 DEF StaysUp, Same
<1> QED
  BY <1>1, <1>2, <1>3, <1>4, <1>5, <1>6, StaysCareful DEF Same

(* It awaits its next step, still driving the link. *)
LEMMA AwaitsCareful ==
    ASSUME LInv, NEW s \in Slots, NEW b \in WorkerState,
           b.port = port, b.ack = ack, b.far = far, b.task = task, Up(b) => Up(Now),
           NEW u \in Task, Shape(u), u.do \in Driving,
           u.do \in Reads /\ Up(Now) => u.moved \/ u.sawReady,
           Become(Awaits(b, s, u))
    PROVE  Careful
<1> DEFINE c == Awaits(b, s, u)
<1>1. /\ c \in WorkerState /\ Same(b, c) /\ c.state = b.state
      /\ Elsewhere(b, c, s) /\ c.task[s] = u
  BY AwaitsSame
<1>2. Become(c)
  OBVIOUS
<1> HIDE DEF c
<1>3. u.do \notin Acks
  BY DEF Acks, Recording, Holding, Driving, Reads
<1>4. Elsewhere(Now, c, s)
  BY <1>1, NowFields DEF Elsewhere
<1>5. Up(c) => Up(Now)
  BY <1>1 DEF Up, Same
<1>6. StaysUp(c, s)
  BY <1>1 DEF StaysUp
<1> QED
  BY <1>1, <1>2, <1>3, <1>4, <1>5, <1>6, StaysCareful DEF Same

LEMMA BootedCareful ==
    ASSUME LInv, NEW s \in Slots, Booted(s)
    PROVE  Careful
<1> DEFINE r == Returns(Now, s)
<1>1. /\ r \in WorkerState /\ Same(Now, r) /\ r.state = Now.state
      /\ Elsewhere(Now, r, s) /\ r.task[s] = Idle
  BY NowFields, ReturnsSame
<1>2. Become(EnsureConnected(r, s))
  BY DEF Booted
<1> HIDE DEF r
<1>3. ~r.task[s].dial
  BY <1>1, IdleShape
<1> QED
  BY <1>1, <1>2, <1>3, NowFields, EnsureCareful DEF Same

LEMMA DecideCareful ==
    ASSUME LInv, NEW s \in Slots, task[s].do \in Reads, Become(Decide(Now, s, task[s])),
           port # NoPort /\ Judged(task[s]) /\ Linked => SawStale
    PROVE  Careful
<1> DEFINE c == Decide(Now, s, task[s])
<1>1. /\ c \in WorkerState /\ Elsewhere(Now, c, s) /\ Shape(c.task[s])
      /\ \/ /\ Same(Now, c) /\ c.state = Now.state
            /\ \/ Reading(Now, c.task[s])
               \/ c.task[s] = Idle /\ (ConnectInFlight(Now) \/ Now.port # NoPort)
         \/ /\ Same(Now, c) /\ c.state = "CONNECTING" /\ c.task[s].do = "clearHeld"
         \/ /\ Now.port # NoPort /\ Judged(task[s])
            /\ Gone(Now, c) /\ c.task[s].do = "cleared"
            /\ c.retry = Now.retry /\ c.arming = Now.arming
  BY NowFields, TaskShape, DecideEffect
<1>2. Become(c)
  OBVIOUS
<1> HIDE DEF c
<1>3. ~task[s].dial
  BY TaskShape DEF Shape, Reads, Dials
<1>4. CASE Same(Now, c) /\ c.state = Now.state /\ Reading(Now, c.task[s])
  <2>1. c.task[s].do = "readHeld" /\ (Up(Now) => c.task[s].sawReady) /\ (Up(c) => Up(Now))
    BY <1>4 DEF Reading, Up, Same
  <2>2. StaysUp(c, s) /\ c.task[s].do \notin Acks
    BY <2>1 DEF StaysUp, Driving, Reads, Acks, Recording, Holding
  <2> QED
    BY <1>1, <1>2, <1>4, <2>1, <2>2, NowFields, StaysCareful DEF Same
<1>5. CASE /\ Same(Now, c) /\ c.state = Now.state /\ c.task[s] = Idle
           /\ ConnectInFlight(Now) \/ Now.port # NoPort
  <2>1. (Up(c) => Up(Now)) /\ c.task[s].do \notin Acks /\ c.task[s].do \notin Reads
    BY <1>5, IdleShape DEF Up, Same
  <2>2. StaysUp(c, s)
    BY <1>3, <1>5, NowFields DEF StaysUp, Same, ConnectInFlight
  <2> QED
    BY <1>1, <1>2, <1>5, <2>1, <2>2, NowFields, StaysCareful DEF Same
<1>6. CASE Same(Now, c) /\ c.state = "CONNECTING" /\ c.task[s].do = "clearHeld"
  <2>1. ~Up(c) /\ c.task[s].do \notin Acks /\ c.task[s].do \notin Reads /\ StaysUp(c, s)
    BY <1>6 DEF Up, Acks, Recording, Holding, Reads, StaysUp, Driving
  <2> QED
    BY <1>1, <1>2, <1>6, <2>1, NowFields, StaysCareful DEF Same
<1>7. CASE Now.port # NoPort /\ Judged(task[s]) /\ Gone(Now, c) /\ c.task[s].do = "cleared"
  BY <1>1, <1>2, <1>7, NowFields, DropsCareful
<1> QED
  BY <1>1, <1>4, <1>5, <1>6, <1>7

(* Reading on, a handler keeps what it read and whether the link moved. *)
LEMMA StateReadCareful ==
    ASSUME LInv, NEW s \in Slots, StateRead(s)
    PROVE  Careful
<1>1. task[s] \in Task /\ Shape(task[s]) /\ Knows(Now, task[s]) /\ task[s].do = "readHeld"
  BY TaskShape DEF StateRead, Resumes
<1>2. CASE port = NoPort
  BY <1>1, <1>2, DecideCareful DEF StateRead, Reads
<1>3. CASE port # NoPort
  <2> DEFINE u == [task[s] EXCEPT !.do = "readStale", !.sawHeld = held]
  <2>1. held \in BOOLEAN
    BY DEF LInv, IInv, Sound, WorkerState, Now
  <2>2. /\ u \in Task /\ u.do = "readStale" /\ u.port = task[s].port /\ u.dial = task[s].dial
        /\ u.moved = task[s].moved /\ u.sawReady = task[s].sawReady
    BY <1>1, <2>1 DEF Task, Steps, Reads
  <2>3. Become(Awaits(Now, s, u))
    BY <1>3 DEF StateRead
  <2> HIDE DEF u
  <2>4. Shape(u) /\ u.do \in Driving
    BY <1>1, <2>2 DEF Shape, Acks, Dials, Recording, Holding, Driving, Reads
  <2>5. Up(Now) => u.moved \/ u.sawReady
    BY <1>1, <2>2 DEF Knows, Reads
  <2> QED
    BY <2>2, <2>3, <2>4, <2>5, NowFields, AwaitsCareful
<1> QED
  BY <1>2, <1>3

LEMMA HeldReadCareful ==
    ASSUME LInv, NEW s \in Slots, HeldRead(s)
    PROVE  Careful
<1>1. task[s] \in Task /\ Shape(task[s]) /\ Knows(Now, task[s]) /\ task[s].do = "readStale"
  BY TaskShape DEF HeldRead, Resumes
<1>2. CASE ~(port # NoPort /\ ~task[s].sawHeld /\ task[s].sawReady)
  <2>1. ~(port # NoPort /\ Judged(task[s]) /\ Linked)
    BY <1>1, <1>2, NowFields DEF Judged, Knows, Reads
  <2> QED
    BY <1>1, <1>2, <2>1, DecideCareful DEF HeldRead, Reads
<1>3. CASE port # NoPort /\ ~task[s].sawHeld /\ task[s].sawReady
  <2> DEFINE u == [task[s] EXCEPT !.do = "decide", !.sawStale = ~fresh]
  <2>1. /\ u \in Task /\ u.do = "decide" /\ u.port = task[s].port /\ u.dial = task[s].dial
        /\ u.sawHeld = task[s].sawHeld /\ u.sawReady = task[s].sawReady
    BY <1>1 DEF Task, Steps, Reads
  <2>2. Become(Awaits(Now, s, u))
    BY <1>3 DEF HeldRead
  <2> HIDE DEF u
  <2>3. Shape(u) /\ u.do \in Driving
    BY <1>1, <1>3, <2>1 DEF Shape, Acks, Dials, Recording, Holding, Driving, Reads
  <2> QED
    BY <1>3, <2>1, <2>2, <2>3, NowFields, AwaitsCareful
<1> QED
  BY <1>2, <1>3

(* READY and not held, it was the stale heartbeat. *)
LEMMA StaleReadCareful ==
    ASSUME LInv, NEW s \in Slots, StaleRead(s)
    PROVE  Careful
<1>1. Shape(task[s]) /\ task[s].do = "decide"
  BY TaskShape DEF StaleRead, Resumes
<1>2. Judged(task[s]) => SawStale
  BY <1>1 DEF Shape, Judged, SawStale
<1> QED
  BY <1>1, <1>2, DecideCareful DEF StaleRead, Reads

LEMMA AfterTeardownCareful ==
    ASSUME LInv, NEW s \in Slots, task[s].do \in {"cleared", "downed"},
           Become(AfterTeardown(Now, s, task[s]))
    PROVE  Careful
<1> DEFINE c == AfterTeardown(Now, s, task[s])
<1>1. task[s].then \in {"connect", "ensure", "retry"}
  BY DEF LInv, IInv, Sound, Sane, Now
<1>2. /\ c \in WorkerState /\ Elsewhere(Now, c, s) /\ Shape(c.task[s])
      /\ c.port = port /\ c.ack = ack /\ c.far = far
      /\ c.state \in {state, "CONNECTING"}
      /\ \/ c.task[s].do \in {"clearHeld", "reset"}
         \/ c.task[s].do \in {"idle", "bumped"} /\ (c.retry \/ c.arming)
  BY <1>1, NowFields, TaskShape, AfterTeardownEffect
<1>3. Become(c)
  OBVIOUS
<1> HIDE DEF c
<1>4. c.task[s].do \notin Acks /\ c.task[s].do \notin Reads /\ StaysUp(c, s)
  BY <1>2 DEF Acks, Recording, Holding, Reads, StaysUp, Driving
<1>5. Up(c) => Up(Now)
  BY <1>2, NowFields DEF Up
<1> QED
  BY <1>2, <1>3, <1>4, <1>5, StaysCareful

LEMMA HeldClearedCareful ==
    ASSUME LInv, NEW s \in Slots, HeldCleared(s)
    PROVE  Careful
<1>1. task[s] \in Task /\ Shape(task[s]) /\ task[s].do = "cleared"
  BY TaskShape DEF HeldCleared, Resumes
<1>2. CASE port # NoPort
  BY <1>1, <1>2, AfterTeardownCareful DEF HeldCleared
<1>3. CASE port = NoPort
  <2> DEFINE d == SetDown(Now)
             u == [task[s] EXCEPT !.do = "downed"]
  <2>1. Become(Awaits(d, s, u))
    BY <1>3 DEF HeldCleared
  <2>2. u \in Task /\ u.do = "downed" /\ u.port = task[s].port /\ u.dial = task[s].dial
    BY <1>1 DEF Task, Steps
  <2>3. /\ d \in WorkerState /\ d.port = port /\ d.ack = ack /\ d.far = far /\ d.task = task
        /\ d.state = "DOWN"
    BY NowFields DEF SetDown, WorkerState, LinkState
  <2> HIDE DEF d, u
  <2>4. Shape(u) /\ u.do \in Driving /\ u.do \notin Reads /\ ~Up(d)
    BY <1>1, <2>2, <2>3 DEF Shape, Acks, Dials, Recording, Holding, Driving, Reads, Up
  <2> QED
    BY <2>1, <2>2, <2>3, <2>4, AwaitsCareful
<1> QED
  BY <1>2, <1>3

LEMMA DownedCareful ==
    ASSUME LInv, NEW s \in Slots, Downed(s)
    PROVE  Careful
BY AfterTeardownCareful DEF Downed, Resumes

LEMMA ConnectClearsHeldCareful ==
    ASSUME LInv, NEW s \in Slots, ConnectClearsHeld(s)
    PROVE  Careful
<1> DEFINE n == [Now EXCEPT !.held = FALSE]
           u == [task[s] EXCEPT !.do = "open"]
<1>1. task[s] \in Task /\ Shape(task[s]) /\ task[s].do = "clearHeld"
  BY TaskShape DEF ConnectClearsHeld, Resumes
<1>2. Become(Awaits(n, s, u))
  BY DEF ConnectClearsHeld
<1>3. u \in Task /\ u.do = "open" /\ u.port = task[s].port /\ u.dial = task[s].dial
  BY <1>1 DEF Task, Steps
<1>4. /\ n \in WorkerState /\ n.port = port /\ n.ack = ack /\ n.far = far /\ n.task = task
      /\ n.state = state
  BY NowFields DEF WorkerState
<1> HIDE DEF n, u
<1>5. Shape(u) /\ u.do \in Driving /\ u.do \notin Reads
  BY <1>1, <1>3 DEF Shape, Acks, Dials, Recording, Holding, Driving, Reads
<1>6. Up(n) => Up(Now)
  BY <1>4, NowFields DEF Up
<1> QED
  BY <1>2, <1>3, <1>4, <1>5, <1>6, AwaitsCareful

LEMMA FailsCareful ==
    ASSUME LInv, NEW s \in Slots, OpenFails(s) \/ IdentityFails(s), Trouble
    PROVE  Careful
<1> DEFINE c == FailConnect(Now, s, task[s])
<1>1. /\ task[s] \in Task /\ Shape(task[s]) /\ task[s].do \in {"open", "identity"}
      /\ Become(c)
  BY TaskShape DEF OpenFails, IdentityFails, Resumes
<1>2. /\ c \in WorkerState /\ Elsewhere(Now, c, s) /\ Shape(c.task[s])
      /\ \/ /\ task[s].port \in Ports /\ task[s].port # port /\ c.task[s] = Idle
            /\ c.port = port /\ c.ack = ack /\ c.state = state
            /\ c.retry = retry /\ c.arming = arming
            /\ \A p \in Ports : c.far[p] = IF p = task[s].port THEN "closed" ELSE far[p]
         \/ /\ task[s].port \in {NoPort, port}
            /\ Gone(Now, c) /\ c.task[s].do = "cleared"
  BY <1>1, NowFields, FailConnectEffect
<1> HIDE DEF c
<1>3. CASE Gone(Now, c) /\ c.task[s].do = "cleared"
  BY <1>1, <1>2, <1>3, TroubleCounts, DropsCareful
<1>4. CASE ~(Gone(Now, c) /\ c.task[s].do = "cleared")
  <2>1. task[s].port \in Ports /\ task[s].port # NoPort /\ task[s].port # port
    BY <1>2, <1>4, LinkAssumption
  <2>2. task[s].do = "identity" /\ LostDial(s)
    BY <1>1, <2>1 DEF Shape, LostDial, Acks, Recording, Holding
  <2>3. StaysUp(c, s)
    BY <2>2 DEF StaysUp
  <2>4. Up(c) => Up(Now)
    BY <1>2, <1>4, NowFields DEF Up, WorkerState
  <2>5. \A p \in Ports : c.far[p] = far[p] \/ c.far[p] \notin {"new", "asked", "routed"}
    BY <1>2, <1>4
  <2> QED
    BY <1>1, <1>2, <1>4, <2>3, <2>4, <2>5, IdleShape, StaysCareful
<1> QED
  BY <1>3, <1>4

(* A new port: nobody speaks of it, and it is not asked yet. *)
LEMMA OpensCareful ==
    ASSUME LInv, NEW s \in Slots, Opens(s)
    PROVE  Careful
<1>1. /\ task[s] \in Task /\ Shape(task[s]) /\ task[s].do = "open"
      /\ Sane(Now, task[s]) /\ task[s].dial
  BY TaskShape, NowRunning DEF Opens, Resumes, LInv, Sound, Sane
<1>2. port = NoPort /\ ack = NoPort
  BY <1>1, NowFields DEF Sane, Acked, Asks
<1>3. PICK p \in Ports :
        /\ far[p] = "none" /\ \A x \in Slots : task[x].port # p
        /\ Become(Awaits(Moves([Now EXCEPT !.port = p, !.far[p] = "new"]), s,
                         [task[s] EXCEPT !.do = "identity", !.port = p]))
  BY <1>2 DEF Opens
<1> DEFINE f == [Now EXCEPT !.far[p] = "new"]
           n == [f EXCEPT !.port = p]
           m == Moves(n)
           u == [task[s] EXCEPT !.do = "identity", !.port = p]
           c == Awaits(m, s, u)
<1>4. /\ f \in WorkerState /\ f.task = task /\ f.ack = ack
      /\ f.far[p] = "new" /\ \A x \in Ports : x # p => f.far[x] = far[x]
  BY FarChanges DEF FarState, LInv
<1>5. Become(c)
  <2>1. [Now EXCEPT !.port = p, !.far[p] = "new"] = n
    BY DEF Now
  <2> QED
    BY <1>3, <2>1
<1>6. /\ u \in Task /\ u.do = "identity" /\ u.port = p /\ u.dial = task[s].dial
  BY <1>1 DEF Task, Steps
<1> HIDE DEF f, u
<1>7. n \in WorkerState /\ n.port = p /\ n.ack = ack /\ n.task = task /\ n.far = f.far
  BY <1>4 DEF WorkerState
<1> HIDE DEF n
<1>8. /\ m \in WorkerState /\ m.port = p /\ m.ack = NoPort /\ m.far = f.far
      /\ \A x \in Slots : Like(task[x], m.task[x])
  BY <1>2, <1>7, MovesEffect
<1> HIDE DEF m
<1>9. c \in WorkerState /\ Same(m, c) /\ Elsewhere(m, c, s) /\ c.task[s] = u
  BY <1>6, <1>8, AwaitsSame
<1> HIDE DEF c
<1>10. Elsewhere(Now, c, s)
  BY <1>8, <1>9, NowFields DEF Elsewhere, Like
<1>11. c.port = p /\ c.ack = NoPort /\ c.far = f.far /\ ~Up(c)
  BY <1>4, <1>8, <1>9 DEF Same, Up
<1>12. Asks(c)
  BY <1>2, <1>4, <1>11, NowFields, LinkAssumption DEF Acked, Asks
<1>13. Shape(u) /\ u.do \notin Acks /\ u.do \notin Reads
  BY <1>1, <1>6 DEF Shape, Acks, Dials, Recording, Holding, Reads
<1>14. ASSUME NEW x \in Slots, x # s PROVE Shape(c.task[x]) /\ Knows(c, c.task[x])
  <2>1. Shape(task[x]) /\ Knows(Now, task[x]) /\ Like(task[x], c.task[x]) /\ task[x].port # p
    BY <1>3, <1>10, <1>14, NowFields, TaskShape DEF Elsewhere
  <2>2. Shape(c.task[x])
    BY <2>1 DEF Shape, Like
  <2>3. c.task[x].do \in Acks => c.task[x].port \in Ports
    BY <2>2 DEF Shape
  <2> QED
    BY <1>4, <1>11, <2>1, <2>2, <2>3, NowFields DEF Knows, Like
<1>15. ASSUME NEW x \in Slots, NEW y \in Slots PROVE Apart(c, x, y)
  BY <1>9, <1>10, <1>13, NowFields DEF Apart, Acked, Elsewhere, Like
<1>16. Acked(c)
  BY <1>9, <1>11, <1>12, <1>13, <1>14, <1>15 DEF Acked, Knows
<1> QED
  BY <1>2, <1>5, <1>9, <1>11, <1>16, Becomes, LinkAssumption DEF Careful, AtRest, Linked

(* REGISTER is posted for the current port; any other has lost its dial. *)
LEMMA PostsCareful ==
    ASSUME LInv, NEW s \in Slots, NEW g \in {"asked", "mute"}, Posts(s, g), awake' = awake
    PROVE  Careful
<1> DEFINE p == task[s].port
<1>1. /\ task[s] \in Task /\ Shape(task[s]) /\ task[s].do = "identity"
      /\ task[s].dial /\ p \in Ports /\ p # NoPort
  BY TaskShape, LinkAssumption DEF Posts, Resumes, Shape
<1>2. CASE p # port
  <2>1. LostDial(s)
    BY <1>1, <1>2 DEF LostDial
  <2> QED
    BY <1>2, <2>1, NowFields, ReturnsCareful DEF Posts
<1>3. CASE p = port
  <2> DEFINE h == IF far[p] = "new" THEN g ELSE far[p]
             f == [Now EXCEPT !.far[p] = h]
             n == [f EXCEPT !.ack = p]
             c == Returns(n, s)
  <2>1. far \in [Ports -> FarState] /\ h \in FarState
    BY <1>1, NowFields DEF WorkerState, FarState
  <2>2. Become(c)
    <3>1. [Now EXCEPT !.ack = p, !.far[p] = IF @ = "new" THEN g ELSE @] = n
      BY <1>1, <2>1 DEF Now
    <3> QED
      BY <1>3, <3>1 DEF Posts
  <2>3. far[p] # "new" => h = far[p]
    OBVIOUS
  <2>4. IInv
    BY DEF LInv
  <2> HIDE DEF h
  <2>5. /\ f \in WorkerState /\ f.port = port /\ f.state = state /\ f.task = task
        /\ f.far[p] = h /\ \A x \in Ports : x # p => f.far[x] = far[x]
    BY <1>1, <2>1, <2>4, FarChanges
  <2> HIDE DEF f
  <2>6. n \in WorkerState /\ n.port = port /\ n.ack = p /\ n.task = task /\ n.far = f.far
    BY <1>1, <2>5 DEF WorkerState
  <2> HIDE DEF n
  <2>7. c \in WorkerState /\ Same(n, c) /\ Elsewhere(n, c, s) /\ c.task[s] = Idle
    BY <2>6, ReturnsSame
  <2> HIDE DEF c
  <2>8. Elsewhere(Now, c, s)
    BY <2>6, <2>7, NowFields DEF Elsewhere
  <2>9. c.port = port /\ c.ack = port /\ c.far = f.far /\ ~Up(c)
    BY <1>1, <1>3, <2>6, <2>7 DEF Same, Up
  <2>10. Asks(c)
    BY <1>1, <1>3, <2>5, <2>9, NowFields, LinkAssumption DEF Acked, Asks
  <2>11. ASSUME NEW x \in Slots, x # s PROVE Shape(c.task[x]) /\ Knows(c, c.task[x])
    <3>1. Shape(task[x]) /\ Knows(Now, task[x]) /\ Like(task[x], c.task[x])
      BY <2>8, <2>11, NowFields, TaskShape DEF Elsewhere
    <3>2. Shape(c.task[x])
      BY <3>1 DEF Shape, Like
    <3>3. c.task[x].do \in Acks => c.task[x].port \in Ports
      BY <3>2 DEF Shape
    <3> QED
      BY <2>3, <2>5, <2>9, <3>1, <3>2, <3>3, NowFields DEF Knows, Like
  <2>12. ASSUME NEW x \in Slots, NEW y \in Slots PROVE Apart(c, x, y)
    BY <2>7, <2>8, IdleShape, NowFields DEF Apart, Acked, Elsewhere, Like
  <2>13. Acked(c)
    BY <2>7, <2>9, <2>10, <2>11, <2>12, IdleShape DEF Acked, Knows
  <2> QED
    BY <1>1, <1>3, <2>2, <2>7, <2>9, <2>13, Becomes DEF Careful, AtRest
<1> QED
  BY <1>2, <1>3

LEMMA BumpedCareful ==
    ASSUME LInv, NEW s \in Slots, Bumped(s), awake' = awake
    PROVE  Careful
<1> DEFINE n == [Now EXCEPT !.arming = FALSE, !.retry = TRUE]
<1>1. task[s].do \notin Driving
  BY DEF Bumped, Resumes, Driving, Reads
<1>2. CASE arming
  <2>1. /\ n \in WorkerState /\ n.port = port /\ n.ack = ack /\ n.far = far /\ n.task = task
        /\ n.state = state /\ n.retry
    BY NowFields DEF WorkerState
  <2>2. Become(Returns(n, s))
    BY <1>2 DEF Bumped
  <2> HIDE DEF n
  <2> QED
    BY <1>1, <2>1, <2>2, ReturnsCareful
<1>3. CASE ~arming
  BY <1>1, <1>3, NowFields, ReturnsCareful DEF Bumped
<1> QED
  BY <1>2, <1>3

LEMMA GivesUpCareful ==
    ASSUME LInv, NEW s \in Slots, Superseded(s) \/ RecordFails(s), awake' = awake
    PROVE  Careful
<1>1. task[s].do \notin Driving
  BY DEF Superseded, RecordFails, Driving, Reads
<1> QED
  BY <1>1, NowFields, ReturnsCareful DEF Superseded, RecordFails

(* The next step of recording an answer: the deadline still runs. *)
LEMMA RecordCareful ==
    ASSUME LInv, NEW s \in Slots, StillCurrent(s), task[s].do \in Acks,
           NEW next \in {"okRecord", "okFresh", "okReady", "panicDown", "settle"},
           NEW b \in WorkerState,
           b.port = port, b.ack = ack, b.far = far, b.task = task,
           Become(Awaits(b, s, [task[s] EXCEPT !.do = next]))
    PROVE  Careful
<1> DEFINE u == [task[s] EXCEPT !.do = next]
           c == Awaits(b, s, u)
<1>1. /\ task[s] \in Task /\ Shape(task[s]) /\ Knows(Now, task[s])
      /\ task[s].port = port /\ port \in Ports /\ port # NoPort
  BY TaskShape, LinkAssumption DEF StillCurrent, Shape
<1>2. u \in Task /\ u.do = next /\ u.port = port /\ u.dial = task[s].dial
  BY <1>1 DEF Task, Steps
<1>3. Become(c)
  OBVIOUS
<1> HIDE DEF u
<1>4. c \in WorkerState /\ Same(b, c) /\ Elsewhere(b, c, s) /\ c.task[s] = u
  BY <1>2, AwaitsSame
<1> HIDE DEF c
<1>5. Elsewhere(Now, c, s)
  BY <1>4, NowFields DEF Elsewhere
<1>6. ack = port /\ far[port] \notin {"new", "asked"}
  BY <1>1, NowFields DEF Knows
<1>7. c.port = port /\ c.ack = ack /\ c.far = far /\ ~Up(c)
  BY <1>1, <1>4, <1>6 DEF Same, Up
<1>8. Asks(c)
  BY <1>7, NowFields DEF Acked, Asks
<1>9. u.do \in Acks /\ u.do \notin Reads
  BY <1>2 DEF Acks, Recording, Holding, Reads
<1>10. Shape(u)
  <2>1. ~task[s].dial
    BY <1>1 DEF Shape, Acks, Recording, Holding, Dials
  <2> QED
    BY <1>1, <1>2, <1>9, <2>1 DEF Shape
<1>11. Knows(c, u)
  BY <1>2, <1>6, <1>7, <1>9 DEF Knows
<1>12. ASSUME NEW x \in Slots, x # s PROVE Shape(c.task[x]) /\ Knows(c, c.task[x])
  <2>1. Shape(task[x]) /\ Knows(Now, task[x]) /\ Like(task[x], c.task[x])
    BY <1>5, <1>12, NowFields, TaskShape DEF Elsewhere
  <2> QED
    BY <1>7, <2>1, NowFields DEF Shape, Knows, Like
<1>13. ASSUME NEW x \in Slots, NEW y \in Slots PROVE Apart(c, x, y)
  BY <1>1, <1>2, <1>4, <1>5, NowFields DEF Apart, Acked, Elsewhere, Like
<1>14. Acked(c)
  BY <1>4, <1>8, <1>10, <1>11, <1>12, <1>13 DEF Acked
<1> QED
  BY <1>1, <1>3, <1>4, <1>7, <1>14, Becomes DEF Careful, AtRest

LEMMA AnswersCareful ==
    ASSUME LInv, NEW s \in Slots,
           OkHeld(s) \/ OkRecord(s) \/ OkFresh(s) \/ OkReady(s) \/ PanicHold(s) \/ PanicDown(s)
    PROVE  Careful
<1>1. Now \in WorkerState /\ Now.port = port /\ Now.ack = ack /\ Now.far = far /\ Now.task = task
  BY NowFields
<1>2. ASSUME task[s].do \in Recording \cup Holding PROVE task[s].do \in Acks
  BY <1>2 DEF Acks
<1>3. CASE OkHeld(s)
  <2> DEFINE n == [Now EXCEPT !.held = FALSE]
  <2>1. n \in WorkerState /\ n.port = port /\ n.ack = ack /\ n.far = far /\ n.task = task
    BY <1>1 DEF WorkerState
  <2>2. Become(Awaits(n, s, [task[s] EXCEPT !.do = "okRecord"]))
    BY <1>3 DEF OkHeld
  <2> HIDE DEF n
  <2> QED
    BY <1>2, <1>3, <2>1, <2>2, RecordCareful DEF OkHeld, Resumes, Recording
<1>4. CASE OkRecord(s)
  BY <1>1, <1>2, <1>4, RecordCareful DEF OkRecord, Resumes, Recording
<1>5. CASE OkFresh(s)
  <2> DEFINE n == [Now EXCEPT !.fresh = TRUE]
  <2>1. n \in WorkerState /\ n.port = port /\ n.ack = ack /\ n.far = far /\ n.task = task
    BY <1>1 DEF WorkerState
  <2>2. Become(Awaits(n, s, [task[s] EXCEPT !.do = "okReady"]))
    BY <1>5 DEF OkFresh
  <2> HIDE DEF n
  <2> QED
    BY <1>2, <1>5, <2>1, <2>2, RecordCareful DEF OkFresh, Resumes, Recording
<1>6. CASE OkReady(s)
  <2> DEFINE n == [Now EXCEPT !.state = "READY"]
  <2>1. n \in WorkerState /\ n.port = port /\ n.ack = ack /\ n.far = far /\ n.task = task
    BY <1>1 DEF WorkerState, LinkState
  <2>2. Become(Awaits(n, s, [task[s] EXCEPT !.do = "settle"]))
    BY <1>6 DEF OkReady
  <2> HIDE DEF n
  <2> QED
    BY <1>2, <1>6, <2>1, <2>2, RecordCareful DEF OkReady, Resumes, Recording
<1>7. CASE PanicHold(s)
  <2> DEFINE n == [Now EXCEPT !.held = TRUE]
  <2>1. n \in WorkerState /\ n.port = port /\ n.ack = ack /\ n.far = far /\ n.task = task
    BY <1>1 DEF WorkerState
  <2>2. Become(Awaits(n, s, [task[s] EXCEPT !.do = "panicDown"]))
    BY <1>7 DEF PanicHold
  <2> HIDE DEF n
  <2> QED
    BY <1>2, <1>7, <2>1, <2>2, RecordCareful DEF PanicHold, Resumes, Holding
<1>8. CASE PanicDown(s)
  <2> DEFINE n == SetDown(Now)
  <2>1. n \in WorkerState /\ n.port = port /\ n.ack = ack /\ n.far = far /\ n.task = task
    BY <1>1 DEF WorkerState, LinkState, SetDown
  <2>2. Become(Awaits(n, s, [task[s] EXCEPT !.do = "settle"]))
    BY <1>8 DEF PanicDown
  <2> HIDE DEF n
  <2> QED
    BY <1>2, <1>8, <2>1, <2>2, RecordCareful DEF PanicDown, Resumes, Holding
<1> QED
  BY <1>3, <1>4, <1>5, <1>6, <1>7, <1>8

(* The link is up: whoever read it before knows that it moved. *)
LEMMA SettlesCareful ==
    ASSUME LInv, NEW s \in Slots, Settles(s), awake' = awake
    PROVE  Careful
<1>1. /\ task[s] \in Task /\ Shape(task[s]) /\ Knows(Now, task[s]) /\ task[s].do = "settle"
      /\ task[s].do \in Acks /\ task[s].do \notin Driving /\ task[s].port \in Ports
  BY TaskShape DEF Settles, Resumes, Shape, Acks, Driving, Reads
<1>2. CASE task[s].port # port
  BY <1>1, <1>2, NowFields, ReturnsCareful DEF Settles, Settle
<1>3. CASE task[s].port = port
  <2> DEFINE n == [Now EXCEPT !.ack = NoPort, !.retry = FALSE, !.arming = FALSE]
             m == Moves(n)
             c == Returns(m, s)
  <2>1. Become(c)
    BY <1>3, NowFields DEF Settles, Settle
  <2>2. /\ n \in WorkerState /\ n.port = port /\ n.ack = NoPort /\ n.far = far /\ n.task = task
        /\ n.state = state
    BY NowFields DEF WorkerState
  <2> HIDE DEF n
  <2>3. /\ m \in WorkerState /\ m.port = port /\ m.ack = NoPort /\ m.far = far
        /\ \A x \in Slots : /\ Like(task[x], m.task[x])
                            /\ task[x].do \in Reads => m.task[x].moved
    BY <2>2, MovesEffect
  <2> HIDE DEF m
  <2>4. c \in WorkerState /\ Same(m, c) /\ Elsewhere(m, c, s) /\ c.task[s] = Idle
    BY <2>3, ReturnsSame
  <2> HIDE DEF c
  <2>5. c.port = port /\ c.ack = NoPort /\ c.far = far
    BY <2>3, <2>4 DEF Same
  <2>6. far[port] \notin {"new", "asked"}
    BY <1>1, <1>3, NowFields DEF Knows
  <2>7. Asks(c)
    BY <1>1, <1>3, <2>5, <2>6, NowFields, LinkAssumption DEF Acked, Asks
  <2>8. ASSUME NEW x \in Slots, x # s
        PROVE  Like(task[x], c.task[x]) /\ Shape(c.task[x]) /\ Knows(c, c.task[x])
    <3>1. Shape(task[x]) /\ Knows(Now, task[x]) /\ Like(task[x], c.task[x])
      BY <2>3, <2>4, <2>8, TaskShape DEF Elsewhere, Like
    <3>2. task[x].do \in Acks => task[x].port # port
      BY <1>1, <1>3, <2>8, NowFields DEF Acked, Apart
    <3>3. task[x].do \in Reads => c.task[x].moved
      BY <2>3, <2>4, <2>8 DEF Elsewhere, Like
    <3> QED
      BY <2>5, <3>1, <3>2, <3>3, NowFields DEF Shape, Knows, Like
  <2>9. ASSUME NEW x \in Slots, NEW y \in Slots PROVE Apart(c, x, y)
    BY <2>4, <2>8, IdleShape, NowFields DEF Apart, Acked, Like
  <2>10. Acked(c)
    BY <2>4, <2>7, <2>8, <2>9, IdleShape DEF Acked, Knows
  <2> QED
    BY <1>1, <1>3, <2>1, <2>4, <2>5, <2>10, Becomes, LinkAssumption DEF Careful, AtRest
<1> QED
  BY <1>2, <1>3

LEMMA StepCareful ==
    ASSUME LInv, NEW s \in Slots, Step(s) \/ FailedStep(s)
    PROVE  Careful
<1>1. \/ Continues(s) /\ awake' = awake
      \/ Fails(s) /\ Trouble /\ awake' = awake
  BY DEF Step, FailedStep
<1>2. CASE Continues(s) /\ awake' = awake
  BY <1>2, BootedCareful, StateReadCareful, HeldReadCareful, StaleReadCareful,
     HeldClearedCareful, DownedCareful, ConnectClearsHeldCareful, OpensCareful, PostsCareful,
     BumpedCareful, GivesUpCareful, AnswersCareful, SettlesCareful DEF Continues
<1>3. CASE Fails(s) /\ Trouble /\ awake' = awake
  BY <1>3, FailsCareful, PostsCareful, GivesUpCareful DEF Fails
<1> QED
  BY <1>1, <1>2, <1>3

-----------------------------------------------------------------------------
(* The world.                                                              *)

LEMMA WorldCareful ==
    ASSUME LInv, NEW p \in Ports, Ping(p) \/ HostDies(p) \/ FallsSilent(p)
    PROVE  Careful
<1>1. IInv
  BY DEF LInv
<1>2. CASE Ping(p)
  <2> DEFINE n == [Now EXCEPT !.fresh = TRUE]
  <2>1. Become(n) /\ awake' = awake
    BY <1>1, <1>2, AskedIsCurrent DEF Ping
  <2>2. /\ n \in WorkerState /\ n.task = task /\ n.port = port /\ n.ack = ack /\ n.state = state
        /\ n.retry = retry /\ n.arming = arming /\ n.far = far
    BY NowFields DEF WorkerState
  <2> HIDE DEF n
  <2> QED
    BY <2>1, <2>2, StillCareful
<1>3. ASSUME NEW f \in {"gone", "silent"}, far' = [far EXCEPT ![p] = f],
             awake' = awake, UNCHANGED <<worker, storage>>
      PROVE  Careful
  <2> DEFINE n == [Now EXCEPT !.far[p] = f]
  <2>1. Become(n)
    BY <1>3 DEF Become, Now, worker, storage
  <2>2. f \in FarState
    BY DEF FarState
  <2>3. /\ n \in WorkerState /\ n.task = task /\ n.port = port /\ n.ack = ack /\ n.state = state
        /\ n.retry = retry /\ n.arming = arming
        /\ n.far[p] = f /\ \A x \in Ports : x # p => n.far[x] = far[x]
    BY <1>1, <2>2, FarChanges
  <2> HIDE DEF n
  <2>4. \A x \in Ports : n.far[x] = far[x] \/ n.far[x] \notin {"new", "asked", "routed"}
    BY <2>3
  <2> QED
    BY <1>3, <2>1, <2>3, <2>4, StillCareful
<1> QED
  BY <1>2, <1>3 DEF HostDies, FallsSilent

LEMMA AgeCareful ==
    ASSUME LInv, Age
    PROVE  Careful
<1> DEFINE n == [Now EXCEPT !.fresh = FALSE]
<1>1. Become(n) /\ awake' = awake
  BY DEF Age, Become, Now, worker
<1>2. /\ n \in WorkerState /\ n.task = task /\ n.port = port /\ n.ack = ack /\ n.state = state
      /\ n.retry = retry /\ n.arming = arming /\ n.far = far
  BY NowFields DEF WorkerState
<1> HIDE DEF n
<1> QED
  BY <1>1, <1>2, StillCareful

LEMMA FreshAcked ==
    ASSUME NEW k, NEW h, NEW f
    PROVE  Acked(Fresh(k, h, f))
<1> DEFINE b == Fresh(k, h, f)
<1>1. /\ b.ack = NoPort /\ b.port = NoPort
      /\ \A p \in Ports : b.far[p] = "none"
      /\ \A x \in Slots : b.task[x] = Idle
  BY DEF Fresh
<1> HIDE DEF b
<1>2. Asks(b)
  BY <1>1 DEF Asks
<1>3. \A x \in Slots : Shape(b.task[x]) /\ Knows(b, b.task[x])
  BY <1>1, IdleShape DEF Knows
<1>4. \A x, y \in Slots : Apart(b, x, y)
  BY <1>1, IdleShape DEF Apart
<1>5. Acked(b)
  BY <1>2, <1>3, <1>4 DEF Acked
<1> QED
  BY <1>5 DEF b

LEMMA StopsCareful ==
    ASSUME LInv, Evicted \/ WorkerDies \/ BrowserRestarts
    PROVE  Careful
<1>1. state' \in LinkState /\ held' \in BOOLEAN /\ fresh' \in BOOLEAN
  BY DEF LInv, IInv, Sound, Now, WorkerState, LinkState, Evicted, WorkerDies, BrowserRestarts, storage
<1>2. Now' = Fresh(state', held', fresh') /\ awake' = FALSE
  BY DEF Evicted, WorkerDies, BrowserRestarts, Stops, Now, Fresh
<1>3. Acked(Now')
  BY <1>2, FreshAcked
<1>4. ~AtRest'
  BY <1>2 DEF AtRest
<1>5. Linked => trouble' # trouble
  BY TroubleCounts DEF Evicted, WorkerDies, BrowserRestarts, Linked
<1> QED
  BY <1>3, <1>4, <1>5 DEF Careful

-----------------------------------------------------------------------------
LEMMA NextCareful ==
    ASSUME LInv, [Next]_vars
    PROVE  Careful
<1>1. CASE UNCHANGED vars
  <2>1. Now' = Now /\ (AtRest' <=> AtRest) /\ port' = port
    BY <1>1 DEF vars, worker, storage, Now, AtRest, Drives
  <2> QED
    BY <2>1, NowFields DEF Careful
<1>2. ASSUME NEW s \in Slots,
             \/ Wake(s) \/ Alarm(s) \/ RetryFires(s) \/ PostFails(s) \/ AckTimeout(s)
             \/ Step(s) \/ FailedStep(s)
             \/ \E unlessPending \in BOOLEAN : ForceReconnect(s, unlessPending)
             \/ \E p \in Ports :
                 RegisterAck(s, p) \/ PanicAck(s, p) \/ Refused(s, p) \/ Disconnect(s, p)
      PROVE  Careful
  BY <1>2, WakeCareful, AlarmCareful, RetryFiresCareful, PostFailsCareful, AckTimeoutCareful,
     StepCareful, ForceReconnectCareful, RegisterAckCareful, RefusedCareful, DisconnectCareful
<1>3. ASSUME NEW p \in Ports, Ping(p) \/ HostDies(p) \/ FallsSilent(p)
      PROVE  Careful
  BY <1>3, WorldCareful
<1>4. ASSUME Age \/ Evicted \/ WorkerDies \/ BrowserRestarts
      PROVE  Careful
  BY <1>4, AgeCareful, StopsCareful
<1> QED
  BY <1>1, <1>2, <1>3, <1>4 DEF Next

LEMMA LInvHolds == Spec => []LInv
<1>1. Init => LInv
  <2>1. Init => Now = Fresh("DOWN", FALSE, FALSE)
    BY DEF Init, Now, Fresh
  <2> QED
    BY <2>1, InitIInv, FreshAcked DEF LInv
<1>2. LInv /\ [Next]_vars => LInv'
  BY NextIInv, NextCareful DEF LInv, Careful
<1> QED
  BY <1>1, <1>2, PTL DEF Spec

(* The worker comes to rest without a port and without a retry only where  *)
(* a dial ends that had lost its port, or whose own retry was counted when *)
(* another fired into it: every other way to lose or to give up a port,    *)
(* from any interleaving of any number of handlers, leaves one driving the *)
(* link or a retry to come (link.js:119, 364, 666-680, 868-891).           *)
THEOREM ARetryIsLeft == Spec => NeverGivesUp
<1>1. LInv /\ [Next]_vars => [AtRest' => AtRest \/ \E s \in Slots : LostDial(s)]_vars
  BY NextCareful DEF Careful
<1> QED
  BY <1>1, LInvHolds, PTL DEF Spec, NeverGivesUp

(* A link that works is let go of only for something that went wrong or    *)
(* for a stale heartbeat: never for what a handler read while the link was *)
(* still coming up, which the moved link makes it read again               *)
(* (link.js:127-132, 340-352).                                             *)
THEOREM AWorkingLinkIsKept == Spec => OnlyTroubleDropsALink
<1>1. LInv /\ [Next]_vars =>
        [Linked /\ port' # port =>
           trouble' # trouble \/ \E s \in Slots : task[s].do = "decide" /\ task[s].sawStale]_vars
  BY NextCareful DEF Careful, SawStale
<1> QED
  BY <1>1, LInvHolds, PTL DEF Spec, OnlyTroubleDropsALink
=============================================================================
