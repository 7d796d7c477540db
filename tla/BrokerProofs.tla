---------------------------- MODULE BrokerProofs ----------------------------
(***************************************************************************)
(* What the broker guarantees for any number of connections, installs and  *)
(* requests.  The handlers compute with values of BrokerState; Sound says  *)
(* of such a value what has to hold whenever a handler is over, and is     *)
(* inductive.                                                              *)
(*                                                                         *)
(* Then what holds outside it, for any number of broker processes, of      *)
(* calls and of things that go wrong: no call of a session is carried out  *)
(* twice or handed to a stranger, where the pipe's name is the system's to *)
(* give, runtime.json is the running broker's, and a call made when        *)
(* nothing is wrong does not fail for what an earlier one left behind.     *)
(***************************************************************************)
EXTENDS Broker, Session, TLAPS

BrokerState ==
    [conn : [Conns -> ConnState], reg : [Hosts -> RegState], held : SUBSET Hosts,
     route : [Installs -> Hosts \cup {NoHost}],
     who : [Installs -> People \cup {Nobody}], pings : [Installs -> 0..EvictAfter],
     armed : [Installs -> People \cup {Nobody}], req : [Requests -> ReqState],
     audits : [Requests -> Nat], answers : [Requests -> Nat], panic : BOOLEAN]

(* Panic leaves nothing to be driven. *)
Quiet(b) ==
    b.panic => /\ \A i \in Installs : b.route[i] = NoHost
               /\ \A i \in Installs : b.armed[i] = Nobody
               /\ Pending(b) = {}

(* A live route is on a connection of its own install, whose registration  *)
(* is over and whose socket is there.                                      *)
RoutesLive(b) ==
    \A i \in Installs : b.route[i] # NoHost =>
        /\ InstallOf[b.route[i]] = i
        /\ b.conn[b.route[i]] # "gone"
        /\ b.reg[b.route[i]] = "over"

(* What is pending was sent to the live route of its target. *)
WaitingIsThere(b) == \A r \in Pending(b) : at[r] # NoHost /\ b.route[Target[r]] = at[r]

Once(b) ==
    \A r \in Requests :
        /\ b.audits[r] = (IF b.req[r] = "answered" THEN 1 ELSE 0)
        /\ b.answers[r] <= b.audits[r]

(* What holds of the broker whenever a handler is over. *)
Sound(b) == b \in BrokerState /\ Quiet(b) /\ RoutesLive(b) /\ WaitingIsThere(b) /\ Once(b)

IInv ==
    /\ Sound(Now)
    /\ at \in [Requests -> Hosts \cup {NoHost}]
    /\ file \in BOOLEAN /\ unwritten \in BOOLEAN
    /\ newest \in [Installs -> Hosts \cup {NoHost}]

-----------------------------------------------------------------------------
(* What the steps of a handler change, and what they leave alone.          *)

LEMMA NowBecome ==
    ASSUME NEW b \in BrokerState, Become(b)
    PROVE  Now' = b
BY DEF Become, Now, BrokerState

LEMMA FinishEffect ==
    ASSUME NEW b \in BrokerState, Once(b), NEW R \in SUBSET Requests,
           \A r \in R : b.req[r] # "answered"
    PROVE  LET f == Finish(b, R) IN
           /\ f \in BrokerState
           /\ Once(f)
           /\ Pending(f) = Pending(b) \ R
           /\ f.conn = b.conn /\ f.reg = b.reg /\ f.held = b.held /\ f.route = b.route
           /\ f.who = b.who /\ f.pings = b.pings /\ f.armed = b.armed /\ f.panic = b.panic
<1> DEFINE req_    == [r \in Requests |-> IF r \in R THEN "answered" ELSE b.req[r]]
           audits_  == [r \in Requests |-> b.audits[r] + (IF r \in R THEN 1 ELSE 0)]
           answers_ == [r \in Requests |->
                 b.answers[r] + (IF r \in R /\ Writable(b, Asker[r]) THEN 1 ELSE 0)]
           f == Finish(b, R)
<1>1. b.req \in [Requests -> ReqState] /\ b.audits \in [Requests -> Nat]
      /\ b.answers \in [Requests -> Nat]
  BY DEF BrokerState
<1>2. req_ \in [Requests -> ReqState] /\ audits_ \in [Requests -> Nat]
      /\ answers_ \in [Requests -> Nat]
  BY <1>1 DEF ReqState
<1>3. f = [b EXCEPT !.req = req_, !.audits = audits_, !.answers = answers_]
  BY DEF Finish
<1>4. \A r \in Requests :
         /\ audits_[r] = (IF req_[r] = "answered" THEN 1 ELSE 0)
         /\ answers_[r] <= audits_[r]
  BY <1>1 DEF Once
<1>5. {r \in Requests : req_[r] \in {"waiting", "unsent"}} = Pending(b) \ R
  BY DEF Pending
<1> HIDE DEF req_, audits_, answers_, f
<1>6. /\ f \in BrokerState
      /\ f.req = req_ /\ f.audits = audits_ /\ f.answers = answers_
      /\ f.conn = b.conn /\ f.reg = b.reg /\ f.held = b.held /\ f.route = b.route
      /\ f.who = b.who /\ f.pings = b.pings /\ f.armed = b.armed /\ f.panic = b.panic
  BY <1>2, <1>3 DEF BrokerState
<1> QED
  BY <1>4, <1>5, <1>6 DEF Once, Pending, f

LEMMA DestroyEffect ==
    ASSUME NEW b \in BrokerState, NEW C
    PROVE  LET d == Destroy(b, C) IN
           /\ d \in BrokerState
           /\ \A c \in Conns : d.conn[c] = "gone" <=> b.conn[c] = "gone"
           /\ d.reg = b.reg /\ d.held = b.held /\ d.route = b.route /\ d.who = b.who
           /\ d.pings = b.pings /\ d.armed = b.armed /\ d.panic = b.panic
           /\ d.req = b.req /\ d.audits = b.audits /\ d.answers = b.answers
<1> DEFINE conn_ == [c \in Conns |-> IF c \in C /\ b.conn[c] # "gone"
                                        THEN "destroyed" ELSE b.conn[c]]
<1>1. conn_ \in [Conns -> ConnState] /\ \A c \in Conns : conn_[c] = "gone" <=> b.conn[c] = "gone"
  BY DEF BrokerState, ConnState
<1>2. Destroy(b, C) = [b EXCEPT !.conn = conn_]
  BY DEF Destroy
<1> HIDE DEF conn_
<1> QED
  BY <1>1, <1>2 DEF BrokerState

LEMMA SendAndCloseEffect ==
    ASSUME NEW b \in BrokerState, NEW c \in Conns
    PROVE  LET d == SendAndClose(b, c) IN
           /\ d \in BrokerState
           /\ \A x \in Conns : d.conn[x] = "gone" <=> b.conn[x] = "gone"
           /\ d.reg = b.reg /\ d.held = b.held /\ d.route = b.route /\ d.who = b.who
           /\ d.pings = b.pings /\ d.armed = b.armed /\ d.panic = b.panic
           /\ d.req = b.req /\ d.audits = b.audits /\ d.answers = b.answers
BY DEF SendAndClose, BrokerState, ConnState

LEMMA DetachEffect ==
    ASSUME NEW b \in BrokerState, NEW I
    PROVE  LET d == Detach(b, I) IN
           /\ d \in BrokerState
           /\ \A i \in Installs : d.route[i] = (IF i \in I THEN NoHost ELSE b.route[i])
           /\ \A i \in Installs : d.pings[i] = (IF i \in I THEN 0 ELSE b.pings[i])
           /\ d.conn = b.conn /\ d.reg = b.reg /\ d.held = b.held
           /\ d.armed = b.armed /\ d.panic = b.panic
           /\ d.req = b.req /\ d.audits = b.audits /\ d.answers = b.answers
<1> DEFINE route_ == [i \in Installs |-> IF i \in I THEN NoHost ELSE b.route[i]]
           who_ == [i \in Installs |-> IF i \in I THEN Nobody ELSE b.who[i]]
           pings_ == [i \in Installs |-> IF i \in I THEN 0 ELSE b.pings[i]]
<1>1. /\ route_ \in [Installs -> Hosts \cup {NoHost}]
      /\ who_ \in [Installs -> People \cup {Nobody}]
      /\ pings_ \in [Installs -> 0..EvictAfter]
  BY BrokerAssumption DEF BrokerState
<1>2. Detach(b, I) = [b EXCEPT !.route = route_, !.who = who_, !.pings = pings_]
  BY DEF Detach
<1>3. \A i \in Installs : /\ route_[i] = (IF i \in I THEN NoHost ELSE b.route[i])
                          /\ pings_[i] = (IF i \in I THEN 0 ELSE b.pings[i])
  OBVIOUS
<1> HIDE DEF route_, who_, pings_
<1> QED
  BY <1>1, <1>2, <1>3 DEF BrokerState

LEMMA DisarmedEffect ==
    ASSUME NEW b \in BrokerState, NEW I
    PROVE  LET d == Disarmed(b, I) IN
           /\ d \in BrokerState
           /\ \A i \in Installs : d.armed[i] = (IF i \in I THEN Nobody ELSE b.armed[i])
           /\ d.conn = b.conn /\ d.reg = b.reg /\ d.held = b.held /\ d.route = b.route
           /\ d.who = b.who /\ d.pings = b.pings /\ d.panic = b.panic
           /\ d.req = b.req /\ d.audits = b.audits /\ d.answers = b.answers
<1> DEFINE armed_ == [i \in Installs |-> IF i \in I THEN Nobody ELSE b.armed[i]]
<1>1. /\ armed_ \in [Installs -> People \cup {Nobody}]
      /\ \A i \in Installs : armed_[i] = (IF i \in I THEN Nobody ELSE b.armed[i])
  BY DEF BrokerState
<1>2. Disarmed(b, I) = [b EXCEPT !.armed = armed_]
  BY DEF Disarmed
<1> HIDE DEF armed_
<1> QED
  BY <1>1, <1>2 DEF BrokerState

-----------------------------------------------------------------------------
(* Panic, and the check every handler begins with.                         *)

LEMMA EnterPanicSound ==
    ASSUME NEW b \in BrokerState, RoutesLive(b), Once(b), NEW x
    PROVE  LET e == EnterPanic(b, x) IN
           /\ Sound(e)
           /\ e.panic = b.panic /\ e.reg = b.reg /\ e.held = b.held
           /\ \A c \in Conns : e.conn[c] = "gone" <=> b.conn[c] = "gone"
           /\ \A i \in Installs : e.route[i] = NoHost
<1> DEFINE disarmed == Disarmed(b, Installs)
           failed   == Finish(disarmed, Pending(b))
           detached == Detach(failed, Installs)
           e        == EnterPanic(b, x)
<1>1. /\ disarmed \in BrokerState /\ Once(disarmed) /\ Pending(disarmed) = Pending(b)
      /\ \A i \in Installs : disarmed.armed[i] = Nobody
      /\ disarmed.conn = b.conn /\ disarmed.reg = b.reg /\ disarmed.held = b.held
      /\ disarmed.panic = b.panic /\ disarmed.req = b.req
  BY DisarmedEffect DEF Once, Pending
<1>2. \A r \in Pending(b) : disarmed.req[r] # "answered"
  BY <1>1 DEF Pending
<1>3. Pending(b) \in SUBSET Requests
  BY DEF Pending
<1> HIDE DEF disarmed
<1>4. /\ failed \in BrokerState /\ Once(failed) /\ Pending(failed) = {}
      /\ failed.armed = disarmed.armed /\ failed.conn = b.conn /\ failed.reg = b.reg
      /\ failed.held = b.held /\ failed.panic = b.panic
  BY <1>1, <1>2, <1>3, FinishEffect
<1> HIDE DEF failed
<1>5. /\ detached \in BrokerState
      /\ \A i \in Installs : detached.route[i] = NoHost
      /\ detached.conn = b.conn /\ detached.reg = b.reg /\ detached.held = b.held
      /\ detached.armed = disarmed.armed /\ detached.panic = b.panic
      /\ detached.req = failed.req /\ detached.audits = failed.audits
      /\ detached.answers = failed.answers
  BY <1>4, DetachEffect
<1> HIDE DEF detached
<1>6. e = Destroy(detached, Routed(b) \ {x})
  BY DEF EnterPanic, detached, failed, disarmed
<1> HIDE DEF e
<1>7. /\ e \in BrokerState
      /\ \A c \in Conns : e.conn[c] = "gone" <=> b.conn[c] = "gone"
      /\ e.route = detached.route /\ e.reg = b.reg /\ e.held = b.held
      /\ e.armed = disarmed.armed /\ e.panic = b.panic
      /\ e.req = failed.req /\ e.audits = failed.audits /\ e.answers = failed.answers
  BY <1>5, <1>6, DestroyEffect
<1>8. \A i \in Installs : e.route[i] = NoHost
  BY <1>5, <1>7
<1>9. Pending(e) = {} /\ Once(e)
  BY <1>4, <1>7 DEF Pending, Once
<1>10. Quiet(e) /\ RoutesLive(e) /\ WaitingIsThere(e)
  BY <1>1, <1>7, <1>8, <1>9 DEF Quiet, RoutesLive, WaitingIsThere
<1> QED
  BY <1>7, <1>8, <1>9, <1>10 DEF Sound, e

(* Destroying connections, as sending a last message, disturbs nothing.    *)
LEMMA DestroySound ==
    ASSUME NEW b, Sound(b), NEW C
    PROVE  Sound(Destroy(b, C))
<1>1. b \in BrokerState
  BY DEF Sound
<1> DEFINE d == Destroy(b, C)
<1>2. /\ d \in BrokerState
      /\ \A c \in Conns : d.conn[c] = "gone" <=> b.conn[c] = "gone"
      /\ d.reg = b.reg /\ d.route = b.route /\ d.armed = b.armed /\ d.panic = b.panic
      /\ d.req = b.req /\ d.audits = b.audits /\ d.answers = b.answers
  BY <1>1, DestroyEffect
<1> HIDE DEF d
<1>3. RoutesLive(d)
  BY <1>1, <1>2 DEF Sound, RoutesLive, BrokerState, Conns
<1> QED
  BY <1>2, <1>3 DEF Sound, Quiet, WaitingIsThere, Once, Pending, d

LEMMA SendAndCloseSound ==
    ASSUME NEW b, Sound(b), NEW c \in Conns
    PROVE  Sound(SendAndClose(b, c))
<1>1. b \in BrokerState
  BY DEF Sound
<1> DEFINE d == SendAndClose(b, c)
<1>2. /\ d \in BrokerState
      /\ \A x \in Conns : d.conn[x] = "gone" <=> b.conn[x] = "gone"
      /\ d.reg = b.reg /\ d.route = b.route /\ d.armed = b.armed /\ d.panic = b.panic
      /\ d.req = b.req /\ d.audits = b.audits /\ d.answers = b.answers
  BY <1>1, SendAndCloseEffect
<1> HIDE DEF d
<1>3. RoutesLive(d)
  BY <1>1, <1>2 DEF Sound, RoutesLive, BrokerState, Conns
<1> QED
  BY <1>2, <1>3 DEF Sound, Quiet, WaitingIsThere, Once, Pending, d

(* After the check the broker is sound, in panic exactly when the file is  *)
(* there, and has no route or registration it did not have.                *)
LEMMA CheckSound ==
    ASSUME NEW b, Sound(b), file \in BOOLEAN
    PROVE  LET k == Check(b) IN
           /\ Sound(k)
           /\ k.panic = file
           /\ k.reg = b.reg /\ k.held = b.held
           /\ \A c \in Conns : k.conn[c] = "gone" <=> b.conn[c] = "gone"
           /\ \A i \in Installs : k.route[i] \in {b.route[i], NoHost}
<1>1. b \in BrokerState /\ b.panic \in BOOLEAN
  BY DEF Sound, BrokerState
<1>2. CASE b.panic = file
  BY <1>2 DEF Check
<1>3. CASE b.panic # file /\ file
  <2> DEFINE p == [b EXCEPT !.panic = TRUE]
  <2>1. /\ p \in BrokerState /\ p.panic = TRUE /\ p.reg = b.reg /\ p.held = b.held
        /\ p.conn = b.conn /\ p.route = b.route
        /\ p.req = b.req /\ p.audits = b.audits /\ p.answers = b.answers
    BY <1>1 DEF BrokerState
  <2>2. RoutesLive(p) /\ Once(p)
    BY <2>1 DEF Sound, RoutesLive, Once
  <2>3. Check(b) = EnterPanic(p, NoHost)
    BY <1>3 DEF Check
  <2> DEFINE k == EnterPanic(p, NoHost)
  <2> HIDE DEF p
  <2>4. /\ Sound(k) /\ k.panic = p.panic /\ k.reg = p.reg /\ k.held = p.held
        /\ \A c \in Conns : k.conn[c] = "gone" <=> p.conn[c] = "gone"
        /\ \A i \in Installs : k.route[i] = NoHost
    BY <2>1, <2>2, EnterPanicSound
  <2>5. file = TRUE
    BY <1>3
  <2> HIDE DEF k
  <2> QED
    BY <2>1, <2>3, <2>4, <2>5 DEF k
<1>4. CASE b.panic # file /\ ~file
  <2> DEFINE p == [b EXCEPT !.panic = FALSE]
  <2>1. /\ p \in BrokerState /\ p.panic = FALSE /\ p.reg = b.reg /\ p.held = b.held
        /\ p.conn = b.conn /\ p.route = b.route
        /\ p.req = b.req /\ p.audits = b.audits /\ p.answers = b.answers
    BY <1>1 DEF BrokerState
  <2>2. Sound(p)
    BY <2>1 DEF Sound, Quiet, RoutesLive, WaitingIsThere, Once, Pending
  <2>3. Check(b) = Destroy(p, p.held \ {NoHost})
    BY <1>4 DEF Check, LeavePanic
  <2> DEFINE k == Destroy(p, p.held \ {NoHost})
  <2> HIDE DEF p
  <2>4. Sound(k)
    BY <2>2, DestroySound
  <2>5. /\ k.panic = p.panic /\ k.reg = p.reg /\ k.held = p.held /\ k.route = p.route
        /\ \A c \in Conns : k.conn[c] = "gone" <=> p.conn[c] = "gone"
    BY <2>1, DestroyEffect
  <2>6. file = FALSE
    BY <1>4
  <2> HIDE DEF k
  <2> QED
    BY <2>1, <2>3, <2>4, <2>5, <2>6 DEF k
<1> QED
  BY <1>1, <1>2, <1>3, <1>4

-----------------------------------------------------------------------------
(* The handlers, one lemma each: what a handler makes of a sound broker is *)
(* sound.                                                                  *)

LEMMA KeepsIInv ==
    ASSUME IInv, NEW b, Sound(b), Become(b), at' = at,
           file' \in BOOLEAN, unwritten' \in BOOLEAN,
           newest' \in [Installs -> Hosts \cup {NoHost}]
    PROVE  IInv'
<1>1. Now' = b
  BY NowBecome DEF Sound
<1>2. Sound(Now)'
  BY <1>1 DEF Sound, WaitingIsThere, Quiet, RoutesLive, Once, BrokerState, Pending
<1> QED
  BY <1>2 DEF IInv

LEMMA HelloKeeps ==
    ASSUME IInv, NEW c \in Conns, Hello(c)
    PROVE  IInv'
<1> DEFINE b == Check(Now)
           n == IF c \in Hosts
                THEN [b EXCEPT !.conn[c] = "open", !.reg[c] = "owed", !.held = @ \ {c}]
                ELSE [b EXCEPT !.conn[c] = "open"]
<1>1. /\ Sound(b)
      /\ \A x \in Conns : b.conn[x] = "gone" <=> conn[x] = "gone"
  BY CheckSound DEF IInv, Now
<1>2. Become(n) /\ UNCHANGED <<at, file, unwritten, newest>> /\ conn[c] = "gone"
  BY DEF Hello
<1> HIDE DEF b
<1>3. b \in BrokerState /\ b.conn[c] = "gone"
  BY <1>1, <1>2 DEF Sound
<1>4. n \in BrokerState
  BY <1>3 DEF BrokerState, ConnState, RegState
<1>5. /\ n.route = b.route /\ n.armed = b.armed /\ n.panic = b.panic
      /\ n.req = b.req /\ n.audits = b.audits /\ n.answers = b.answers
  BY <1>3 DEF BrokerState
<1>6. RoutesLive(n)
  <2> SUFFICES ASSUME NEW i \in Installs, n.route[i] # NoHost
               PROVE  /\ InstallOf[n.route[i]] = i
                      /\ n.conn[n.route[i]] # "gone"
                      /\ n.reg[n.route[i]] = "over"
    BY DEF RoutesLive
  <2>1. /\ InstallOf[b.route[i]] = i /\ b.conn[b.route[i]] # "gone"
        /\ b.reg[b.route[i]] = "over" /\ b.route[i] \in Hosts
    BY <1>1, <1>3, <1>5 DEF Sound, RoutesLive, BrokerState
  <2>2. b.route[i] # c
    BY <1>3, <2>1
  <2> QED
    BY <1>3, <1>5, <2>1, <2>2 DEF BrokerState, Conns
<1>7. Sound(n)
  BY <1>1, <1>4, <1>5, <1>6 DEF Sound, Quiet, WaitingIsThere, Once, Pending
<1> HIDE DEF n
<1> QED
  BY <1>2, <1>7, KeepsIInv DEF IInv

LEMMA ClosedKeeps ==
    ASSUME IInv, NEW c \in Conns, Closed(c) \/ Break(c)
    PROVE  IInv'
<1>1. Sound(Destroy(Now, {c}))
  BY DestroySound DEF IInv
<1>2. Become(Destroy(Now, {c})) /\ UNCHANGED <<at, file, unwritten, newest>>
  BY DEF Closed, Break
<1> QED
  BY <1>1, <1>2, KeepsIInv DEF IInv

(* When the route of a connection goes and what was sent to it fails, the  *)
(* rest is as it was.                                                      *)
LEMMA SocketClosesKeeps ==
    ASSUME IInv, NEW c \in Conns, SocketCloses(c)
    PROVE  IInv'
<1> DEFINE g     == [Now EXCEPT !.conn[c] = "gone"]
           owned == {i \in Installs : g.route[i] = c}
           d     == Detach(g, owned)
           n     == ReleaseConnection(g, c)
<1>1. Become(n) /\ UNCHANGED <<at, file, unwritten, newest>>
  BY DEF SocketCloses
<1>2. Sound(Now) /\ Now \in BrokerState
  BY DEF IInv, Sound
<1>3. /\ g \in BrokerState /\ g.route = route /\ g.armed = armed /\ g.panic = panic
      /\ g.req = req /\ g.audits = audits /\ g.answers = answers /\ g.reg = reg
      /\ \A x \in Conns \ {c} : g.conn[x] = conn[x]
  BY <1>2 DEF BrokerState, ConnState, Now
<1>4. /\ \A i \in Installs : route[i] \in Hosts \cup {NoHost}
      /\ \A i \in Installs : route[i] # NoHost =>
            InstallOf[route[i]] = i /\ conn[route[i]] # "gone" /\ reg[route[i]] = "over"
  BY <1>2 DEF Sound, RoutesLive, BrokerState, Now
<1>5. CASE owned = {}
  <2>1. n = g
    BY <1>5 DEF ReleaseConnection
  <2>2. \A i \in Installs : route[i] # c
    BY <1>3, <1>5
  <2> HIDE DEF g, n
  <2>3. RoutesLive(g)
    BY <1>3, <1>4, <2>2 DEF RoutesLive, Conns
  <2>4. Quiet(g) /\ WaitingIsThere(g) /\ Once(g)
    BY <1>2, <1>3 DEF Sound, Quiet, WaitingIsThere, Once, Pending, Now
  <2>5. Sound(n)
    BY <1>3, <2>1, <2>3, <2>4 DEF Sound
  <2> QED
    BY <1>1, <2>5, KeepsIInv DEF IInv
<1>6. CASE owned # {}
  <2>1. n = Finish(d, SentTo(d, {c}))
    BY <1>6 DEF ReleaseConnection, FailPendingsFor
  <2>2. owned = {i \in Installs : route[i] = c}
    BY <1>3
  <2> HIDE DEF g, owned, n
  <2>3. /\ d \in BrokerState
        /\ \A i \in Installs : d.route[i] = (IF route[i] = c THEN NoHost ELSE route[i])
        /\ d.conn = g.conn /\ d.reg = reg /\ d.armed = armed /\ d.panic = panic
        /\ d.req = req /\ d.audits = audits /\ d.answers = answers
    BY <1>3, <2>2, DetachEffect
  <2> HIDE DEF d
  <2>4. Once(d) /\ Pending(d) = Pending(Now)
    BY <1>2, <2>3 DEF Sound, Once, Pending, Now
  <2>5. /\ SentTo(d, {c}) \in SUBSET Requests
        /\ SentTo(d, {c}) = {r \in Pending(d) : at[r] = c}
        /\ \A r \in SentTo(d, {c}) : d.req[r] # "answered"
    BY DEF SentTo, Pending
  <2>6. /\ n \in BrokerState /\ Once(n) /\ Pending(n) = Pending(d) \ SentTo(d, {c})
        /\ n.conn = d.conn /\ n.reg = d.reg /\ n.route = d.route
        /\ n.armed = d.armed /\ n.panic = d.panic
    BY <2>1, <2>3, <2>4, <2>5, FinishEffect
  <2>7. RoutesLive(n)
    BY <1>3, <1>4, <2>3, <2>6 DEF RoutesLive, Conns
  <2>8. WaitingIsThere(n)
    <3> SUFFICES ASSUME NEW r \in Pending(n)
                 PROVE  at[r] # NoHost /\ n.route[Target[r]] = at[r]
      BY DEF WaitingIsThere
    <3>1. r \in Pending(Now) /\ at[r] # c /\ r \in Requests
      BY <2>4, <2>5, <2>6 DEF Pending
    <3>2. at[r] # NoHost /\ route[Target[r]] = at[r] /\ Target[r] \in Installs
      BY <1>2, <3>1, BrokerAssumption DEF Sound, WaitingIsThere, Now
    <3> QED
      BY <2>3, <2>6, <3>1, <3>2
  <2>9. Quiet(n)
    BY <1>2, <2>3, <2>4, <2>6 DEF Sound, Quiet, Now
  <2>10. Sound(n)
    BY <2>6, <2>7, <2>8, <2>9 DEF Sound
  <2> QED
    BY <1>1, <2>10, KeepsIInv DEF IInv
<1> QED
  BY <1>5, <1>6

(* A change of who is armed, claimed, held, pinged or still to register    *)
(* disturbs nothing, as long as nobody is armed in panic.                  *)
LEMMA SameRoutesSound ==
    ASSUME NEW b, Sound(b), NEW n \in BrokerState,
           n.route = b.route, n.req = b.req, n.audits = b.audits,
           n.answers = b.answers, n.panic = b.panic,
           \A c \in Conns : n.conn[c] = "gone" <=> b.conn[c] = "gone",
           \A h \in Hosts : b.reg[h] = "over" => n.reg[h] = "over",
           \A i \in Installs : b.panic => n.armed[i] \in {Nobody, b.armed[i]}
    PROVE  Sound(n)
<1>1. RoutesLive(n)
  BY DEF Sound, RoutesLive, BrokerState, Conns
<1>2. Quiet(n)
  BY DEF Sound, Quiet, Pending
<1> QED
  BY <1>1, <1>2 DEF Sound, WaitingIsThere, Once, Pending

LEMMA FailPendingsEffect ==
    ASSUME NEW b \in BrokerState, Once(b), NEW H
    PROVE  LET f == FailPendingsFor(b, H) IN
           /\ f \in BrokerState
           /\ Once(f)
           /\ Pending(f) = {r \in Pending(b) : at[r] \notin H}
           /\ f.conn = b.conn /\ f.reg = b.reg /\ f.held = b.held /\ f.route = b.route
           /\ f.who = b.who /\ f.pings = b.pings /\ f.armed = b.armed /\ f.panic = b.panic
<1>1. /\ SentTo(b, H) \in SUBSET Requests
      /\ SentTo(b, H) = {r \in Pending(b) : at[r] \in H}
      /\ \A r \in SentTo(b, H) : b.req[r] # "answered"
  BY DEF SentTo, Pending
<1> DEFINE f == Finish(b, SentTo(b, H))
<1>2. /\ f \in BrokerState /\ Once(f) /\ Pending(f) = Pending(b) \ SentTo(b, H)
      /\ f.conn = b.conn /\ f.reg = b.reg /\ f.held = b.held /\ f.route = b.route
      /\ f.who = b.who /\ f.pings = b.pings /\ f.armed = b.armed /\ f.panic = b.panic
  BY <1>1, FinishEffect
<1>3. f = FailPendingsFor(b, H)
  BY DEF FailPendingsFor
<1> HIDE DEF f
<1> QED
  BY <1>1, <1>2, <1>3

LEMMA RegisterDeadlineKeeps ==
    ASSUME IInv, NEW h \in Hosts, RegisterDeadline(h)
    PROVE  IInv'
<1> DEFINE s == SendAndClose(Now, h)
           n == [s EXCEPT !.reg[h] = "overdue"]
<1>1. Become(n) /\ UNCHANGED <<at, file, unwritten, newest>> /\ Now.reg[h] = "owed"
  BY DEF RegisterDeadline, Now
<1>2. Sound(s) /\ s \in BrokerState /\ s.reg = Now.reg
  <2>1. h \in Conns /\ Now \in BrokerState /\ Sound(Now)
    BY DEF Conns, IInv, Sound
  <2> QED
    BY <2>1, SendAndCloseSound, SendAndCloseEffect
<1> HIDE DEF s
<1>3. /\ n \in BrokerState /\ n.conn = s.conn /\ n.route = s.route /\ n.req = s.req
      /\ n.audits = s.audits /\ n.answers = s.answers /\ n.panic = s.panic
      /\ n.armed = s.armed
      /\ \A x \in Hosts : s.reg[x] = "over" => n.reg[x] = "over"
  BY <1>1, <1>2 DEF BrokerState, RegState
<1> HIDE DEF n
<1>4. Sound(n)
  BY <1>2, <1>3, SameRoutesSound
<1> QED
  BY <1>1, <1>4, KeepsIInv DEF IInv

(* What a handler that begins with the check starts from. *)
LEMMA Checked ==
    ASSUME IInv
    PROVE  /\ Sound(Check(Now)) /\ Check(Now) \in BrokerState
           /\ Check(Now).panic = file
           /\ Check(Now).reg = reg /\ Check(Now).held = held
           /\ \A c \in Conns : Check(Now).conn[c] = "gone" <=> conn[c] = "gone"
           /\ \A i \in Installs : Check(Now).route[i] \in {route[i], NoHost}
<1>1. /\ Now.reg = reg /\ Now.held = held /\ Now.conn = conn /\ Now.route = route
  BY DEF Now
<1>2. Sound(Now) /\ file \in BOOLEAN
  BY DEF IInv
<1> QED
  BY <1>1, <1>2, CheckSound DEF Sound

LEMMA HoldSound ==
    ASSUME NEW b, Sound(b), NEW h \in Hosts
    PROVE  Sound(Hold(b, h))
<1> DEFINE n == Hold(b, h)
<1>1. b \in BrokerState
  BY DEF Sound
<1>2. /\ n \in BrokerState /\ n.conn = b.conn /\ n.route = b.route /\ n.req = b.req
      /\ n.audits = b.audits /\ n.answers = b.answers /\ n.panic = b.panic
      /\ n.armed = b.armed
      /\ \A x \in Hosts : b.reg[x] = "over" => n.reg[x] = "over"
  BY <1>1 DEF Hold, BrokerState, RegState
<1> HIDE DEF n
<1>3. Sound(n)
  BY <1>2, SameRoutesSound
<1> QED
  BY <1>3 DEF n

LEMMA RegisterArrivesKeeps ==
    ASSUME IInv, NEW h \in Hosts, RegisterArrives(h)
    PROVE  IInv'
<1> DEFINE b == Check(Now)
           w == [b EXCEPT !.reg[h] = "awaiting"]
           n == IF b.panic THEN Hold(b, h) ELSE w
<1>1. /\ Become(n) /\ UNCHANGED <<at, file, unwritten>>
      /\ reg[h] \in {"owed", "overdue"}
      /\ newest' = [newest EXCEPT ![InstallOf[h]] = h]
  BY DEF RegisterArrives
<1>2. Sound(b) /\ b \in BrokerState /\ b.reg = reg
  BY Checked
<1> HIDE DEF b
<1>3. /\ w \in BrokerState /\ w.conn = b.conn /\ w.route = b.route /\ w.req = b.req
      /\ w.audits = b.audits /\ w.answers = b.answers /\ w.panic = b.panic
      /\ w.armed = b.armed
      /\ \A x \in Hosts : b.reg[x] = "over" => w.reg[x] = "over"
  BY <1>1, <1>2 DEF BrokerState, RegState
<1> HIDE DEF w
<1>4. Sound(w)
  BY <1>2, <1>3, SameRoutesSound
<1>5. Sound(n)
  BY <1>2, <1>4, HoldSound
<1>6. newest' \in [Installs -> Hosts \cup {NoHost}]
  BY <1>1 DEF IInv
<1> HIDE DEF n
<1> QED
  BY <1>1, <1>5, <1>6, KeepsIInv DEF IInv

(* A new route takes the place of the old one of its install, whose        *)
(* requests have failed: no request of another install is disturbed.       *)
LEMMA AttachSound ==
    ASSUME NEW b, Sound(b), ~b.panic, NEW h \in Hosts, b.conn[h] # "gone",
           NEW p \in People \cup {Nobody}, NEW changed \in BOOLEAN
    PROVE  Sound(AttachUnchecked(b, h, p, changed))
<1> DEFINE i   == InstallOf[h]
           old == b.route[i]
           f   == FailPendingsFor(b, {old})
           new == Replace(b, old)
           n   == AttachUnchecked(b, h, p, changed)
<1>1. b \in BrokerState /\ i \in Installs /\ old \in Hosts \cup {NoHost} /\ NoHost \notin Hosts
  BY BrokerAssumption DEF Sound, BrokerState, Conns
<1> HIDE DEF i, old
<1>2. /\ new \in BrokerState /\ Once(new)
      /\ new.route = b.route /\ new.reg = b.reg /\ new.panic = b.panic
      /\ \A c \in Conns : new.conn[c] = "gone" <=> b.conn[c] = "gone"
      /\ \A r \in Pending(new) : r \in Pending(b) /\ at[r] # old
  <2>1. CASE old = NoHost
    <3>1. new = b
      BY <2>1 DEF Replace
    <3>2. \A r \in Pending(b) : at[r] # old
      BY <2>1 DEF Sound, WaitingIsThere
    <3> QED
      BY <1>1, <3>1, <3>2 DEF Sound
  <2>2. CASE old # NoHost
    <3>1. new = SendAndClose(f, old)
      BY <2>2 DEF Replace
    <3>2. /\ f \in BrokerState /\ Once(f)
          /\ Pending(f) = {r \in Pending(b) : at[r] \notin {old}}
          /\ f.conn = b.conn /\ f.reg = b.reg /\ f.route = b.route /\ f.panic = b.panic
      BY <1>1, FailPendingsEffect DEF Sound
    <3> HIDE DEF f, new
    <3>3. old \in Conns
      BY <1>1, <2>2 DEF Conns
    <3>4. /\ new \in BrokerState
          /\ \A x \in Conns : new.conn[x] = "gone" <=> f.conn[x] = "gone"
          /\ new.reg = f.reg /\ new.route = f.route /\ new.panic = f.panic
          /\ new.req = f.req /\ new.audits = f.audits /\ new.answers = f.answers
      BY <3>1, <3>2, <3>3, SendAndCloseEffect
    <3>5. Once(new) /\ Pending(new) = Pending(f)
      BY <3>2, <3>4 DEF Once, Pending
    <3> QED
      BY <3>2, <3>4, <3>5
  <2> QED
    BY <2>1, <2>2
<1>3. n = [new EXCEPT !.route[i] = h, !.who[i] = p, !.pings[i] = 0, !.reg[h] = "over",
                      !.armed[i] = IF changed THEN Nobody ELSE @]
  BY DEF AttachUnchecked, i, old
<1> HIDE DEF new, n
<1>4. /\ n \in BrokerState
      /\ n.route = [new.route EXCEPT ![i] = h] /\ n.reg = [new.reg EXCEPT ![h] = "over"]
      /\ n.conn = new.conn /\ n.panic = new.panic
      /\ n.req = new.req /\ n.audits = new.audits /\ n.answers = new.answers
  <2> DEFINE route_ == [new.route EXCEPT ![i] = h]
             who_   == [new.who EXCEPT ![i] = p]
             pings_ == [new.pings EXCEPT ![i] = 0]
             reg_   == [new.reg EXCEPT ![h] = "over"]
             armed_ == [new.armed EXCEPT ![i] = IF changed THEN Nobody ELSE @]
  <2>1. /\ route_ \in [Installs -> Hosts \cup {NoHost}]
        /\ who_ \in [Installs -> People \cup {Nobody}]
        /\ pings_ \in [Installs -> 0..EvictAfter]
        /\ reg_ \in [Hosts -> RegState]
        /\ armed_ \in [Installs -> People \cup {Nobody}]
    BY <1>1, <1>2, BrokerAssumption DEF BrokerState, RegState
  <2>2. n = [new EXCEPT !.route = route_, !.who = who_, !.pings = pings_, !.reg = reg_,
                        !.armed = armed_]
    BY <1>3
  <2> HIDE DEF route_, who_, pings_, reg_, armed_
  <2>3. /\ n \in BrokerState /\ n.route = route_ /\ n.reg = reg_
        /\ n.conn = new.conn /\ n.panic = new.panic
        /\ n.req = new.req /\ n.audits = new.audits /\ n.answers = new.answers
    BY <1>2, <2>1, <2>2 DEF BrokerState
  <2> QED
    BY <2>3 DEF route_, reg_
<1>5. RoutesLive(n)
  <2> SUFFICES ASSUME NEW j \in Installs, n.route[j] # NoHost
               PROVE  /\ InstallOf[n.route[j]] = j
                      /\ n.conn[n.route[j]] # "gone"
                      /\ n.reg[n.route[j]] = "over"
    BY DEF RoutesLive
  <2>0. b.route \in [Installs -> Hosts \cup {NoHost}] /\ b.reg \in [Hosts -> RegState]
        /\ Hosts \subseteq Conns
    BY <1>1 DEF BrokerState, Conns
  <2>1. CASE j = i
    BY <1>1, <1>2, <1>4, <2>0, <2>1 DEF i
  <2>2. CASE j # i
    <3>1. n.route[j] = b.route[j] /\ b.route[j] \in Hosts
      BY <1>2, <1>4, <2>0, <2>2
    <3>2. InstallOf[b.route[j]] = j /\ b.conn[b.route[j]] # "gone" /\ b.reg[b.route[j]] = "over"
      BY <3>1, BrokerAssumption DEF Sound, RoutesLive, Conns
    <3> QED
      BY <1>2, <1>4, <2>0, <3>1, <3>2
  <2> QED
    BY <2>1, <2>2
<1>6. WaitingIsThere(n)
  <2> SUFFICES ASSUME NEW r \in Pending(n)
               PROVE  at[r] # NoHost /\ n.route[Target[r]] = at[r]
    BY DEF WaitingIsThere
  <2>1. r \in Requests /\ r \in Pending(b) /\ at[r] # old
    BY <1>2, <1>4 DEF Pending
  <2>2. at[r] # NoHost /\ b.route[Target[r]] = at[r] /\ Target[r] \in Installs
    BY <2>1, BrokerAssumption DEF Sound, WaitingIsThere
  <2>3. Target[r] # i
    BY <2>1, <2>2 DEF old
  <2> QED
    BY <1>1, <1>2, <1>4, <2>2, <2>3 DEF BrokerState
<1>7. Quiet(n) /\ Once(n)
  BY <1>2, <1>4 DEF Quiet, Once
<1> QED
  BY <1>4, <1>5, <1>6, <1>7 DEF Sound, n

LEMMA RegisterResumesKeeps ==
    ASSUME IInv, NEW h \in Hosts, NEW p \in People \cup {Nobody}, NEW changed \in BOOLEAN,
           RegisterResumes(h, p, changed)
    PROVE  IInv'
<1> DEFINE k == Check(Now)
           g == [Now EXCEPT !.reg[h] = "over"]
<1>1. UNCHANGED <<at, file, unwritten, newest>>
  BY DEF RegisterResumes
<1>2. CASE conn[h] \in {"destroyed", "gone"}
  <2>1. Become(g)
    BY <1>2 DEF RegisterResumes
  <2>2. Sound(Now) /\ Now \in BrokerState
    BY DEF IInv, Sound
  <2>3. /\ g \in BrokerState /\ g.conn = Now.conn /\ g.route = Now.route /\ g.req = Now.req
        /\ g.audits = Now.audits /\ g.answers = Now.answers /\ g.panic = Now.panic
        /\ g.armed = Now.armed
        /\ \A x \in Hosts : Now.reg[x] = "over" => g.reg[x] = "over"
    BY <2>2 DEF BrokerState, RegState
  <2> HIDE DEF g
  <2>4. Sound(g)
    BY <2>2, <2>3, SameRoutesSound
  <2> QED
    BY <1>1, <2>1, <2>4, KeepsIInv DEF IInv
<1>3. CASE conn[h] \notin {"destroyed", "gone"}
  <2>1. Become(IF k.panic THEN Hold(k, h) ELSE AttachUnchecked(k, h, p, changed))
    BY <1>3 DEF RegisterResumes, Attach
  <2>2. Sound(k) /\ k.conn[h] # "gone"
    BY <1>3, Checked DEF Conns
  <2> HIDE DEF k
  <2>3. CASE k.panic
    BY <1>1, <2>1, <2>2, <2>3, HoldSound, KeepsIInv DEF IInv
  <2>4. CASE ~k.panic
    BY <1>1, <2>1, <2>2, <2>4, AttachSound, KeepsIInv DEF IInv
  <2> QED
    BY <2>3, <2>4
<1> QED
  BY <1>2, <1>3

(* Evicting, dropping claims and failing what they had in flight.          *)
LEMMA EvictSound ==
    ASSUME NEW b, Sound(b), NEW I \in SUBSET Installs
    PROVE  LET e == Evict(b, I) IN
           /\ Sound(e)
           /\ \A i \in Installs : e.pings[i] = (IF i \in I THEN 0 ELSE b.pings[i])
<1> DEFINE gone   == {b.route[i] : i \in I}
           failed == FailPendingsFor(b, gone)
           d      == Destroy(failed, gone)
           e      == Evict(b, I)
<1>1. b \in BrokerState /\ Once(b)
  BY DEF Sound
<1> HIDE DEF gone
<1>2. /\ failed \in BrokerState /\ Once(failed)
      /\ Pending(failed) = {r \in Pending(b) : at[r] \notin gone}
      /\ failed.conn = b.conn /\ failed.reg = b.reg /\ failed.route = b.route
      /\ failed.pings = b.pings /\ failed.armed = b.armed /\ failed.panic = b.panic
  BY <1>1, FailPendingsEffect
<1> HIDE DEF failed
<1>3. /\ d \in BrokerState
      /\ \A c \in Conns : d.conn[c] = "gone" <=> b.conn[c] = "gone"
      /\ d.reg = b.reg /\ d.route = b.route /\ d.pings = b.pings /\ d.armed = b.armed
      /\ d.panic = b.panic /\ d.req = failed.req /\ d.audits = failed.audits
      /\ d.answers = failed.answers
  BY <1>2, DestroyEffect
<1>4. e = Detach(d, I)
  BY DEF Evict, failed, gone
<1> HIDE DEF d, e
<1>5. /\ e \in BrokerState
      /\ \A i \in Installs : e.route[i] = (IF i \in I THEN NoHost ELSE b.route[i])
      /\ \A i \in Installs : e.pings[i] = (IF i \in I THEN 0 ELSE b.pings[i])
      /\ e.conn = d.conn /\ e.reg = b.reg /\ e.armed = b.armed /\ e.panic = b.panic
      /\ e.req = failed.req /\ e.audits = failed.audits /\ e.answers = failed.answers
  BY <1>3, <1>4, DetachEffect
<1>6. Once(e) /\ Pending(e) = {r \in Pending(b) : at[r] \notin gone}
  BY <1>2, <1>5 DEF Once, Pending
<1>7. RoutesLive(e)
  BY <1>1, <1>3, <1>5 DEF Sound, RoutesLive, BrokerState, Conns
<1>8. WaitingIsThere(e)
  <2> SUFFICES ASSUME NEW r \in Pending(e)
               PROVE  at[r] # NoHost /\ e.route[Target[r]] = at[r]
    BY DEF WaitingIsThere
  <2>1. r \in Pending(b) /\ at[r] \notin gone /\ r \in Requests
    BY <1>6 DEF Pending
  <2>2. at[r] # NoHost /\ b.route[Target[r]] = at[r] /\ Target[r] \in Installs
    BY <2>1, BrokerAssumption DEF Sound, WaitingIsThere
  <2>3. Target[r] \notin I
    BY <2>1, <2>2 DEF gone
  <2> QED
    BY <1>5, <2>2, <2>3
<1>9. Quiet(e)
  BY <1>5, <1>6 DEF Sound, Quiet
<1> QED
  BY <1>5, <1>6, <1>7, <1>8, <1>9 DEF Sound, e

LEMMA DropClaimsSound ==
    ASSUME NEW b, Sound(b), NEW I \in SUBSET Installs
    PROVE  LET e == DropClaims(b, I) IN Sound(e) /\ e.pings = b.pings
<1> DEFINE who_ == [i \in Installs |-> IF i \in I THEN Nobody ELSE b.who[i]]
           u    == [b EXCEPT !.who = who_]
           d    == Disarmed(u, I)
           H    == {b.route[i] : i \in I}
           e    == DropClaims(b, I)
<1>1. b \in BrokerState
  BY DEF Sound
<1>2. who_ \in [Installs -> People \cup {Nobody}]
  BY <1>1 DEF BrokerState
<1> HIDE DEF who_
<1>3. /\ u \in BrokerState /\ u.conn = b.conn /\ u.reg = b.reg /\ u.route = b.route
      /\ u.pings = b.pings /\ u.armed = b.armed /\ u.panic = b.panic
      /\ u.req = b.req /\ u.audits = b.audits /\ u.answers = b.answers
  BY <1>1, <1>2 DEF BrokerState
<1> HIDE DEF u
<1>4. /\ d \in BrokerState /\ d.conn = b.conn /\ d.reg = b.reg /\ d.route = b.route
      /\ d.pings = b.pings /\ d.panic = b.panic
      /\ d.req = b.req /\ d.audits = b.audits /\ d.answers = b.answers
      /\ \A i \in Installs : d.armed[i] \in {Nobody, b.armed[i]}
  BY <1>3, DisarmedEffect
<1>5. e = FailPendingsFor(d, H)
  <2>1. u = [b EXCEPT !.who = [i \in Installs |-> IF i \in I THEN Nobody ELSE @[i]]]
    BY DEF u, who_
  <2> QED
    BY <2>1 DEF DropClaims
<1> HIDE DEF d, H, e
<1>6. Sound(d)
  BY <1>4, SameRoutesSound
<1>7. /\ e \in BrokerState /\ Once(e)
      /\ Pending(e) = {r \in Pending(d) : at[r] \notin H}
      /\ e.conn = d.conn /\ e.reg = d.reg /\ e.route = d.route
      /\ e.pings = d.pings /\ e.armed = d.armed /\ e.panic = d.panic
  BY <1>4, <1>5, <1>6, FailPendingsEffect DEF Sound
<1>8. Quiet(e) /\ RoutesLive(e) /\ WaitingIsThere(e)
  BY <1>6, <1>7 DEF Sound, Quiet, RoutesLive, WaitingIsThere
<1> QED
  BY <1>4, <1>7, <1>8 DEF Sound, e

LEMMA HeartbeatKeeps ==
    ASSUME IInv, NEW drifted \in SUBSET Installs, Heartbeat(drifted)
    PROVE  IInv'
<1> DEFINE live   == {i \in Installs : route[i] # NoHost}
           silent == Silent(Now)
           e      == Evict(Now, silent)
           d      == DropClaims(e, drifted)
           I      == live \ silent
           pings_ == [i \in Installs |-> IF i \in I THEN d.pings[i] + 1 ELSE d.pings[i]]
           n      == Ping(d, I)
<1>1. Become(n) /\ UNCHANGED <<at, file, unwritten, newest>>
  BY DEF Heartbeat
<1>2. Sound(Now) /\ Now.pings = pings /\ pings \in [Installs -> 0..EvictAfter]
  BY DEF IInv, Sound, BrokerState, Now
<1>3. \A i \in I : pings[i] < EvictAfter /\ i \notin silent
  BY <1>2, BrokerAssumption DEF Silent, Now
<1>4. silent \in SUBSET Installs
  BY DEF Silent
<1> HIDE DEF silent, I
<1>5. Sound(e) /\ \A i \in Installs : e.pings[i] = (IF i \in silent THEN 0 ELSE pings[i])
  BY <1>2, <1>4, EvictSound
<1> HIDE DEF e
<1>6. Sound(d) /\ d.pings = e.pings /\ d \in BrokerState
  BY <1>5, DropClaimsSound DEF Sound
<1> HIDE DEF d
<1>7. pings_ \in [Installs -> 0..EvictAfter]
  <2>1. d.pings \in [Installs -> 0..EvictAfter]
    BY <1>6 DEF BrokerState
  <2>2. \A i \in I \cap Installs : d.pings[i] < EvictAfter
    BY <1>3, <1>5, <1>6
  <2> QED
    BY <2>1, <2>2, BrokerAssumption
<1>8. n = [d EXCEPT !.pings = pings_]
  BY <1>6 DEF Ping, BrokerState
<1> HIDE DEF pings_, n
<1>9. /\ n \in BrokerState /\ n.conn = d.conn /\ n.route = d.route /\ n.req = d.req
      /\ n.audits = d.audits /\ n.answers = d.answers /\ n.panic = d.panic
      /\ n.armed = d.armed /\ n.reg = d.reg
  BY <1>6, <1>7, <1>8 DEF BrokerState
<1>10. Sound(n)
  BY <1>6, <1>9, SameRoutesSound
<1> QED
  BY <1>1, <1>10, KeepsIInv DEF IInv

LEMMA PongKeeps ==
    ASSUME IInv, NEW h \in Hosts, Pong(h)
    PROVE  IInv'
<1> DEFINE n == [Now EXCEPT !.pings[InstallOf[h]] = 0]
<1>1. Become(n) /\ UNCHANGED <<at, file, unwritten, newest>>
  BY DEF Pong
<1>2. Sound(Now) /\ Now \in BrokerState
  BY DEF IInv, Sound
<1>3. /\ n \in BrokerState /\ n.conn = Now.conn /\ n.route = Now.route /\ n.req = Now.req
      /\ n.audits = Now.audits /\ n.answers = Now.answers /\ n.panic = Now.panic
      /\ n.armed = Now.armed /\ n.reg = Now.reg
  BY <1>2, BrokerAssumption DEF BrokerState
<1> HIDE DEF n
<1>4. Sound(n)
  BY <1>2, <1>3, SameRoutesSound
<1> QED
  BY <1>1, <1>4, KeepsIInv DEF IInv

(* Ending requests that have not ended disturbs nothing else.              *)
LEMMA FinishSound ==
    ASSUME NEW b, Sound(b), NEW R \in SUBSET Requests, \A r \in R : b.req[r] # "answered"
    PROVE  Sound(Finish(b, R))
<1> DEFINE f == Finish(b, R)
<1>1. /\ f \in BrokerState /\ Once(f) /\ Pending(f) = Pending(b) \ R
      /\ f.conn = b.conn /\ f.reg = b.reg /\ f.route = b.route
      /\ f.armed = b.armed /\ f.panic = b.panic
  BY FinishEffect DEF Sound
<1> HIDE DEF f
<1>2. Quiet(f) /\ RoutesLive(f) /\ WaitingIsThere(f)
  BY <1>1 DEF Sound, Quiet, RoutesLive, WaitingIsThere
<1> QED
  BY <1>1, <1>2 DEF Sound, f

LEMMA ResKeeps ==
    ASSUME IInv, NEW r \in Requests, Res(r) \/ Timeout(r)
    PROVE  IInv'
<1>1. /\ Become(Finish(Now, {r})) /\ UNCHANGED <<at, file, unwritten, newest>>
      /\ Now.req[r] # "answered"
  BY DEF Res, Timeout, Now
<1>2. Sound(Finish(Now, {r}))
  BY <1>1, FinishSound DEF IInv
<1> QED
  BY <1>1, <1>2, KeepsIInv DEF IInv

(* After the check a request that is new is still new: nothing but its own *)
(* handler ends it.                                                        *)
LEMMA CheckLeavesNew ==
    ASSUME IInv, NEW r \in Requests, req[r] = "new"
    PROVE  Check(Now).req[r] = "new"
<1>1. r \notin Pending(Now) /\ Now.req[r] = "new" /\ Now \in BrokerState
  BY DEF Pending, Now, IInv, Sound
<1>2. CASE Now.panic = file
  BY <1>1, <1>2 DEF Check
<1>3. CASE Now.panic # file /\ file
  <2> DEFINE p == [Now EXCEPT !.panic = TRUE]
             d == Disarmed(p, Installs)
             f == Finish(d, Pending(p))
  <2>1. p \in BrokerState /\ p.req = Now.req
    BY <1>1 DEF BrokerState
  <2>2. Pending(p) = Pending(Now)
    BY <2>1 DEF Pending
  <2>3. Check(Now) = Destroy(Detach(f, Installs), Routed(p) \ {NoHost})
    BY <1>3 DEF Check, EnterPanic
  <2> HIDE DEF p
  <2>4. d.req = p.req
    BY <2>1, DisarmedEffect
  <2> HIDE DEF d
  <2>5. f.req[r] = "new"
    <3>1. f.req = [q \in Requests |-> IF q \in Pending(p) THEN "answered" ELSE d.req[q]]
      BY DEF Finish
    <3> QED
      BY <1>1, <2>1, <2>2, <2>4, <3>1
  <2>6. Check(Now).req = f.req
    BY <2>3 DEF Destroy, Detach
  <2> QED
    BY <2>5, <2>6
<1>4. CASE Now.panic # file /\ ~file
  BY <1>1, <1>4 DEF Check, LeavePanic, Destroy, BrokerState
<1> QED
  BY <1>2, <1>3, <1>4

LEMMA ReqKeeps ==
    ASSUME IInv, NEW r \in Requests, Req(r)
    PROVE  IInv'
<1> DEFINE b == Check(Now)
           i == Target[r]
           n == Forward(b, r)
<1>1. Sound(b) /\ b \in BrokerState /\ b.req[r] = "new" /\ i \in Installs
  BY Checked, CheckLeavesNew, BrokerAssumption DEF Req
<1>2. UNCHANGED <<file, unwritten, newest>>
  BY DEF Req
<1>3. CASE Refused(b, r)
  <2>1. Become(Finish(b, {r})) /\ UNCHANGED at
    BY <1>3 DEF Req
  <2> HIDE DEF b
  <2>2. Sound(Finish(b, {r}))
    BY <1>1, FinishSound
  <2> QED
    BY <1>2, <2>1, <2>2, KeepsIInv DEF IInv
<1>4. CASE ~Refused(b, r)
  <2>1. Become(n) /\ at' = [at EXCEPT ![r] = b.route[i]]
    BY <1>4 DEF Req
  <2>2. ~b.panic /\ b.route[i] # NoHost
    BY <1>4 DEF Refused
  <2> HIDE DEF b
  <2>3. /\ n \in BrokerState /\ n.conn = b.conn /\ n.route = b.route /\ n.reg = b.reg
        /\ n.armed = b.armed /\ n.panic = b.panic
        /\ n.audits = b.audits /\ n.answers = b.answers
        /\ n.req[r] \in {"waiting", "unsent"}
        /\ \A q \in Requests \ {r} : n.req[q] = b.req[q]
    BY <1>1 DEF Forward, BrokerState, ReqState
  <2> HIDE DEF n, i
  <2>4. Quiet(n) /\ RoutesLive(n)
    BY <1>1, <2>2, <2>3 DEF Sound, Quiet, RoutesLive
  <2>5. Once(n)
    BY <1>1, <2>3 DEF Sound, Once
  <2>6. b.route[i] \in Hosts
    BY <1>1, <2>2 DEF BrokerState
  <2>7. at' \in [Requests -> Hosts \cup {NoHost}]
    BY <2>1, <2>6 DEF IInv
  <2>8. \A q \in Pending(n) : at'[q] # NoHost /\ n.route[Target[q]] = at'[q]
    <3> SUFFICES ASSUME NEW q \in Pending(n)
                 PROVE  at'[q] # NoHost /\ n.route[Target[q]] = at'[q]
      OBVIOUS
    <3>1. CASE q = r
      BY <2>1, <2>2, <2>3, <3>1 DEF IInv, Pending, i
    <3>2. CASE q # r
      <4>1. q \in Pending(b) /\ at'[q] = at[q]
        BY <2>1, <2>3, <3>2 DEF Pending, IInv
      <4> QED
        BY <1>1, <2>3, <4>1 DEF Sound, WaitingIsThere
    <3> QED
      BY <3>1, <3>2
  <2>9. Now' = n
    BY <2>1, <2>3, NowBecome
  <2>10. Sound(Now)'
    <3>1. Now' \in BrokerState /\ Quiet(Now)' /\ RoutesLive(Now)' /\ Once(Now)'
      BY <2>3, <2>4, <2>5, <2>9 DEF Quiet, RoutesLive, Once, Pending
    <3>2. WaitingIsThere(Now)'
      BY <2>8, <2>9 DEF WaitingIsThere, Pending
    <3>3. BrokerState' = BrokerState
      OBVIOUS
    <3> QED
      BY <3>1, <3>2, <3>3 DEF Sound
  <2> QED
    BY <1>2, <2>7, <2>10 DEF IInv
<1> QED
  BY <1>3, <1>4

LEMMA DisarmedSound ==
    ASSUME NEW b, Sound(b), NEW I
    PROVE  Sound(Disarmed(b, I))
<1> DEFINE n == Disarmed(b, I)
<1>1. /\ n \in BrokerState /\ n.conn = b.conn /\ n.route = b.route /\ n.req = b.req
      /\ n.audits = b.audits /\ n.answers = b.answers /\ n.panic = b.panic
      /\ n.reg = b.reg
      /\ \A i \in Installs : n.armed[i] \in {Nobody, b.armed[i]}
  BY DisarmedEffect DEF Sound
<1> HIDE DEF n
<1>2. Sound(n)
  BY <1>1, SameRoutesSound
<1> QED
  BY <1>2 DEF n

LEMMA ArmKeeps ==
    ASSUME IInv, NEW c \in Conns, NEW i \in Installs,
           Arm(c, i) \/ Disarm(c, i) \/ ArmExpires(i)
    PROVE  IInv'
<1> DEFINE b == Check(Now)
           a == [b EXCEPT !.armed[i] = b.who[i]]
<1>1. Sound(b) /\ b \in BrokerState /\ Sound(Now)
  BY Checked DEF IInv
<1>2. UNCHANGED <<at, file, unwritten, newest>>
  BY DEF Arm, Disarm, ArmExpires
<1>3. \/ Become(b)
      \/ ~b.panic /\ Become(a)
      \/ Become(Disarmed(b, {i}))
      \/ Become(Disarmed(Now, {i}))
  BY DEF Arm, Disarm, ArmExpires
<1> HIDE DEF b
<1>4. ASSUME ~b.panic
      PROVE  Sound(a)
  <2>1. /\ a \in BrokerState /\ a.conn = b.conn /\ a.route = b.route /\ a.req = b.req
        /\ a.audits = b.audits /\ a.answers = b.answers /\ a.panic = b.panic
        /\ a.reg = b.reg
    BY <1>1 DEF BrokerState
  <2> HIDE DEF a
  <2> QED
    BY <1>1, <1>4, <2>1, SameRoutesSound
<1> HIDE DEF a
<1>5. Sound(Disarmed(b, {i})) /\ Sound(Disarmed(Now, {i}))
  BY <1>1, DisarmedSound
<1> QED
  BY <1>1, <1>2, <1>3, <1>4, <1>5, KeepsIInv DEF IInv

LEMMA ClaimProfileKeeps ==
    ASSUME IInv, NEW c \in Conns, NEW i \in Installs, NEW p \in People,
           ClaimProfile(c, i, p)
    PROVE  IInv'
<1> DEFINE b == Check(Now)
           a == [b EXCEPT !.who[i] = p]
<1>1. Sound(b) /\ b \in BrokerState
  BY Checked
<1>2. UNCHANGED <<at, file, unwritten, newest>> /\ (Become(b) \/ Become(a))
  BY DEF ClaimProfile
<1> HIDE DEF b
<1>3. Sound(a)
  <2>1. /\ a \in BrokerState /\ a.conn = b.conn /\ a.route = b.route /\ a.req = b.req
        /\ a.audits = b.audits /\ a.answers = b.answers /\ a.panic = b.panic
        /\ a.reg = b.reg /\ a.armed = b.armed
    BY <1>1 DEF BrokerState
  <2> HIDE DEF a
  <2> QED
    BY <1>1, <2>1, SameRoutesSound
<1> HIDE DEF a
<1> QED
  BY <1>1, <1>2, <1>3, KeepsIInv DEF IInv

LEMMA PanicKeeps ==
    ASSUME IInv, NEW c \in Conns, Panic(c)
    PROVE  IInv'
<1> DEFINE k == Check(Now)
           t == [k EXCEPT !.panic = TRUE]
           b == SendAndClose(t, c)
           n == EnterPanic(b, c)
<1>1. Become(n) /\ UNCHANGED <<at, newest>>
  BY DEF Panic
<1>2. file' \in BOOLEAN /\ unwritten' \in BOOLEAN
  BY DEF Panic, IInv
<1>3. Sound(k) /\ k \in BrokerState
  BY Checked
<1> HIDE DEF k
<1>4. /\ t \in BrokerState /\ t.conn = k.conn /\ t.reg = k.reg /\ t.route = k.route
      /\ t.req = k.req /\ t.audits = k.audits /\ t.answers = k.answers
  BY <1>3 DEF BrokerState
<1> HIDE DEF t
<1>5. /\ b \in BrokerState
      /\ \A x \in Conns : b.conn[x] = "gone" <=> t.conn[x] = "gone"
      /\ b.reg = t.reg /\ b.route = t.route
      /\ b.req = t.req /\ b.audits = t.audits /\ b.answers = t.answers
  BY <1>4, SendAndCloseEffect
<1> HIDE DEF b
<1>6. RoutesLive(b) /\ Once(b)
  BY <1>3, <1>4, <1>5 DEF Sound, RoutesLive, Once, BrokerState, Conns
<1>7. Sound(n)
  BY <1>5, <1>6, EnterPanicSound
<1> HIDE DEF n
<1> QED
  BY <1>1, <1>2, <1>7, KeepsIInv DEF IInv

LEMMA ResumeKeeps ==
    ASSUME IInv, NEW h \in Hosts, Resume(h)
    PROVE  IInv'
<1> DEFINE b == Check(Now)
           t == [b EXCEPT !.panic = FALSE]
           s == SendAndClose(t, h)
<1>1. /\ Become(Destroy(s, s.held \ {h})) \/ Become(b)
      /\ UNCHANGED <<at, unwritten, newest>>
  BY DEF Resume, LeavePanic
<1>2. file' \in BOOLEAN
  BY DEF Resume, IInv
<1>3. Sound(b) /\ b \in BrokerState
  BY Checked
<1> HIDE DEF b
<1>4. /\ t \in BrokerState /\ t.conn = b.conn /\ t.reg = b.reg /\ t.route = b.route
      /\ t.req = b.req /\ t.audits = b.audits /\ t.answers = b.answers /\ t.panic = FALSE
  BY <1>3 DEF BrokerState
<1> HIDE DEF t
<1>5. Sound(t)
  BY <1>3, <1>4 DEF Sound, Quiet, RoutesLive, WaitingIsThere, Once, Pending
<1>6. Sound(s)
  BY <1>5, SendAndCloseSound DEF Conns
<1> HIDE DEF s
<1>7. Sound(Destroy(s, s.held \ {h}))
  BY <1>6, DestroySound
<1> QED
  BY <1>1, <1>2, <1>3, <1>7, KeepsIInv DEF IInv

LEMMA BrokerRestartKeeps ==
    ASSUME IInv, BrokerRestart
    PROVE  IInv'
<1>1. Now \in BrokerState /\ Once(Now) /\ Pending(Now) \subseteq Requests
  BY DEF IInv, Sound, Pending
<1>2. /\ Now'.conn = [c \in Conns |-> "gone"]
      /\ Now'.reg = [h \in Hosts |-> "none"]
      /\ Now'.held = {}
      /\ Now'.route = [i \in Installs |-> NoHost]
      /\ Now'.who = [i \in Installs |-> Nobody]
      /\ Now'.pings = [i \in Installs |-> 0]
      /\ Now'.armed = [i \in Installs |-> Nobody]
      /\ Now'.req = [r \in Requests |-> IF r \in Pending(Now) THEN "lost" ELSE Now.req[r]]
      /\ Now'.audits = Now.audits /\ Now'.answers = Now.answers
      /\ Now'.panic = file
  BY DEF BrokerRestart, Now
<1>3. Now' \in BrokerState
  <2>1. [r \in Requests |-> IF r \in Pending(Now) THEN "lost" ELSE Now.req[r]]
          \in [Requests -> ReqState]
    BY <1>1 DEF BrokerState, ReqState
  <2>2. [c \in Conns |-> "gone"] \in [Conns -> ConnState]
        /\ [h \in Hosts |-> "none"] \in [Hosts -> RegState]
        /\ [i \in Installs |-> 0] \in [Installs -> 0..EvictAfter]
        /\ file \in BOOLEAN
    BY BrokerAssumption DEF ConnState, RegState, IInv
  <2>3. Now' = [conn |-> Now'.conn, reg |-> Now'.reg, held |-> Now'.held,
                route |-> Now'.route, who |-> Now'.who, pings |-> Now'.pings,
                armed |-> Now'.armed, req |-> Now'.req, audits |-> Now'.audits,
                answers |-> Now'.answers, panic |-> Now'.panic]
    BY DEF Now
  <2> QED
    BY <1>1, <1>2, <2>1, <2>2, <2>3 DEF BrokerState
<1>4. Pending(Now)' = {}
  BY <1>1, <1>2 DEF Pending
<1>5. Quiet(Now)' /\ RoutesLive(Now)' /\ WaitingIsThere(Now)'
  BY <1>2, <1>4 DEF Quiet, RoutesLive, WaitingIsThere
<1>6. Once(Now)'
  BY <1>1, <1>2 DEF Once, Pending
<1>7. Sound(Now)'
  BY <1>3, <1>5, <1>6 DEF Sound
<1> QED
  BY <1>7 DEF BrokerRestart, IInv

LEMMA FileKeeps ==
    ASSUME IInv, FileChanges \/ Watch
    PROVE  IInv'
<1>1. CASE FileChanges
  <2>1. Become(Now) /\ UNCHANGED <<at, unwritten, newest>> /\ file' \in BOOLEAN
    BY <1>1 DEF FileChanges, Become, Now, IInv
  <2> QED
    BY <2>1, KeepsIInv DEF IInv
<1>2. CASE Watch
  <2>1. Become(Check(Now)) /\ UNCHANGED <<at, file, unwritten, newest>>
    BY <1>2 DEF Watch
  <2> QED
    BY <2>1, Checked, KeepsIInv DEF IInv
<1> QED
  BY <1>1, <1>2

-----------------------------------------------------------------------------
LEMMA InitIInv == Init => IInv
<1> SUFFICES ASSUME Init PROVE IInv
  OBVIOUS
<1>1. Now \in BrokerState
  BY BrokerAssumption DEF Init, Now, BrokerState, ConnState, RegState, ReqState
<1>2. Pending(Now) = {} /\ Quiet(Now) /\ RoutesLive(Now) /\ Once(Now)
  BY DEF Init, Now, Pending, Quiet, RoutesLive, Once
<1>3. WaitingIsThere(Now)
  BY <1>2 DEF WaitingIsThere
<1> QED
  BY <1>1, <1>2, <1>3 DEF IInv, Sound, Init

LEMMA NextIInv == IInv /\ [Next]_vars => IInv'
<1> SUFFICES ASSUME IInv, [Next]_vars
             PROVE  IInv'
  OBVIOUS
<1>1. ASSUME NEW c \in Conns,
             Hello(c) \/ Closed(c) \/ Break(c) \/ SocketCloses(c) \/ Panic(c)
      PROVE  IInv'
  BY <1>1, HelloKeeps, ClosedKeeps, SocketClosesKeeps, PanicKeeps
<1>2. ASSUME NEW c \in Conns, NEW i \in Installs, Arm(c, i) \/ Disarm(c, i)
      PROVE  IInv'
  BY <1>2, ArmKeeps
<1>3. ASSUME NEW h \in Hosts,
             RegisterDeadline(h) \/ RegisterArrives(h) \/ Pong(h) \/ Resume(h)
      PROVE  IInv'
  BY <1>3, RegisterDeadlineKeeps, RegisterArrivesKeeps, PongKeeps, ResumeKeeps
<1>4. ASSUME NEW h \in Hosts, NEW p \in People \cup {Nobody}, NEW changed \in BOOLEAN,
             RegisterResumes(h, p, changed)
      PROVE  IInv'
  BY <1>4, RegisterResumesKeeps
<1>5. ASSUME NEW c \in Conns, NEW i \in Installs, NEW p \in People, ClaimProfile(c, i, p)
      PROVE  IInv'
  BY <1>5, ClaimProfileKeeps
<1>6. ASSUME NEW drifted \in SUBSET Installs, Heartbeat(drifted)
      PROVE  IInv'
  BY <1>6, HeartbeatKeeps
<1>7. ASSUME NEW r \in Requests, Req(r) \/ Res(r) \/ Timeout(r)
      PROVE  IInv'
  BY <1>7, ReqKeeps, ResKeeps
<1>8. ASSUME NEW i \in Installs, ArmExpires(i)
      PROVE  IInv'
  <2>1. Become(Disarmed(Now, {i})) /\ UNCHANGED <<at, file, unwritten, newest>>
    BY <1>8 DEF ArmExpires
  <2> QED
    BY <2>1, DisarmedSound, KeepsIInv DEF IInv
<1>9. CASE FileChanges \/ Watch \/ BrokerRestart
  BY <1>9, FileKeeps, BrokerRestartKeeps
<1>10. CASE UNCHANGED vars
  <2>1. Become(Now) /\ UNCHANGED <<at, file, unwritten, newest>>
    BY <1>10 DEF vars, Become, Now
  <2> QED
    BY <2>1, KeepsIInv DEF IInv
<1> QED
  BY <1>1, <1>2, <1>3, <1>4, <1>5, <1>6, <1>7, <1>8, <1>9, <1>10 DEF Next

LEMMA IInvHolds == Spec => []IInv
BY InitIInv, NextIInv, PTL DEF Spec

LEMMA IInvImplies ==
    ASSUME IInv
    PROVE  /\ TypeOK /\ PanicStopsEverything
           /\ NoRequestWaitsOnADeadRoute /\ EndedOnce
<1>1. TypeOK
  BY DEF IInv, Sound, BrokerState, Now, TypeOK
<1>2. PanicStopsEverything
  BY DEF IInv, Sound, Quiet, Now, PanicStopsEverything
<1>3. NoRequestWaitsOnADeadRoute
  <2> SUFFICES ASSUME NEW r \in Pending(Now)
               PROVE  at[r] # NoHost /\ route[Target[r]] = at[r] /\ conn[at[r]] # "gone"
    BY DEF NoRequestWaitsOnADeadRoute
  <2>1. at[r] # NoHost /\ route[Target[r]] = at[r]
    BY DEF IInv, Sound, WaitingIsThere, Now
  <2>2. Target[r] \in Installs
    BY BrokerAssumption DEF Pending
  <2> QED
    BY <2>1, <2>2 DEF IInv, Sound, RoutesLive, Now
<1>4. EndedOnce
  BY DEF IInv, Sound, Once, Now, EndedOnce
<1> QED
  BY <1>1, <1>2, <1>3, <1>4

(* Every variable keeps its type, whatever messages arrive in whatever     *)
(* order.                                                                  *)
THEOREM TypeCorrect == Spec => []TypeOK
BY IInvHolds, IInvImplies, PTL

(* Panic is total, for any number of profiles, sessions and requests, and  *)
(* whatever is awaiting when it is tripped (enterPanic, holdThroughPanic,  *)
(* handleReq).                                                             *)
THEOREM PanicIsTotal == Spec => []PanicStopsEverything
BY IInvHolds, IInvImplies, PTL

(* No request is left to its timeout by the end of its route               *)
(* (failPendingsFor on replacement, release, eviction and drift).          *)
THEOREM RequestsFollowTheirRoute == Spec => []NoRequestWaitsOnADeadRoute
BY IInvHolds, IInvImplies, PTL

(* One line in the audit log and at most one answer for each request, from *)
(* whichever of answer, timeout, lost route and panic comes first (finish).*)
THEOREM RequestsEndOnce == Spec => []EndedOnce
BY IInvHolds, IInvImplies, PTL

(* The two together: a request that reached a browser is owed by a route   *)
(* that lives, and is settled once.                                        *)
THEOREM EveryRequestIsAccountedFor == Spec => []RequestsAreSettled
<1>1. IInv => RequestsAreSettled
  BY IInvImplies DEF RequestsAreSettled
<1> QED
  BY <1>1, IInvHolds, PTL

-----------------------------------------------------------------------------
(***************************************************************************)
(* Panic as it comes and goes: nobody stays held once it is over, and the  *)
(* file is obeyed from the moment it exists.  Both follow from what a      *)
(* handler can never do outside registration: open a connection, give a    *)
(* profile a route, put a request in flight.  Tamer says that of a step of *)
(* a handler, and is transitive.                                           *)
(***************************************************************************)

(* Nothing new is routed and nothing new is in flight. *)
Shrinks(n, b) ==
    /\ \A i \in Installs : n.route[i] \in {b.route[i], NoHost}
    /\ Pending(n) \subseteq Pending(b)

Tamer(n, b) ==
    /\ Shrinks(n, b)
    /\ \A c \in Conns : n.conn[c] = "open" => b.conn[c] = "open"
    /\ n.panic = b.panic /\ n.held = b.held

(* HeldOnlyThroughPanic, of a broker value. *)
LetGo(b) == \A h \in b.held : b.panic \/ b.conn[h] # "open"

(* What TheFileIsObeyedUnseen says of a step. *)
FileObeyed ==
    file => /\ \A r \in Requests : req[r] = "new" => req'[r] \notin {"waiting", "unsent"}
            /\ \A i \in Installs : route'[i] \in {route[i], NoHost}

Kept == HeldOnlyThroughPanic' /\ FileObeyed

-----------------------------------------------------------------------------
LEMMA ShrinksFurther ==
    ASSUME NEW n, NEW m, NEW b, Shrinks(n, m), Shrinks(m, b)
    PROVE  Shrinks(n, b)
BY DEF Shrinks

LEMMA TamerStill ==
    ASSUME NEW n, NEW m, NEW b, Tamer(n, m), Tamer(m, b)
    PROVE  Tamer(n, b)
BY ShrinksFurther DEF Tamer

LEMMA TamerSelf == ASSUME NEW b PROVE Tamer(b, b)
BY DEF Tamer, Shrinks

(* The broker's own functions. *)
LEMMA FinishTamer ==
    ASSUME NEW b \in BrokerState, NEW R
    PROVE  Finish(b, R) \in BrokerState /\ Tamer(Finish(b, R), b)
<1> DEFINE req_    == [r \in Requests |-> IF r \in R THEN "answered" ELSE b.req[r]]
           audits_ == [r \in Requests |-> b.audits[r] + (IF r \in R THEN 1 ELSE 0)]
           answers_ == [r \in Requests |->
                 b.answers[r] + (IF r \in R /\ Writable(b, Asker[r]) THEN 1 ELSE 0)]
           f == Finish(b, R)
<1>1. b.req \in [Requests -> ReqState] /\ b.audits \in [Requests -> Nat]
      /\ b.answers \in [Requests -> Nat]
  BY DEF BrokerState
<1>2. req_ \in [Requests -> ReqState] /\ audits_ \in [Requests -> Nat]
      /\ answers_ \in [Requests -> Nat]
  BY <1>1 DEF ReqState
<1>3. f = [b EXCEPT !.req = req_, !.audits = audits_, !.answers = answers_]
  BY DEF Finish
<1>4. {r \in Requests : req_[r] \in {"waiting", "unsent"}} \subseteq Pending(b)
  BY DEF Pending
<1> HIDE DEF req_, audits_, answers_, f
<1>5. /\ f \in BrokerState /\ f.req = req_ /\ f.conn = b.conn /\ f.held = b.held
      /\ f.route = b.route /\ f.panic = b.panic
  BY <1>2, <1>3 DEF BrokerState
<1> QED
  BY <1>4, <1>5 DEF Tamer, Shrinks, Pending, f

LEMMA DestroyTamer ==
    ASSUME NEW b \in BrokerState, NEW C
    PROVE  Destroy(b, C) \in BrokerState /\ Tamer(Destroy(b, C), b)
<1>1. \A c \in Conns : Destroy(b, C).conn[c] = "open" => b.conn[c] = "open"
  BY DEF Destroy, BrokerState
<1> QED
  BY <1>1, DestroyEffect DEF Tamer, Shrinks, Pending

LEMMA SendAndCloseTamer ==
    ASSUME NEW b \in BrokerState, NEW c \in Conns
    PROVE  SendAndClose(b, c) \in BrokerState /\ Tamer(SendAndClose(b, c), b)
<1>1. \A x \in Conns : SendAndClose(b, c).conn[x] = "open" => b.conn[x] = "open"
  BY DEF SendAndClose, BrokerState
<1> QED
  BY <1>1, SendAndCloseEffect DEF Tamer, Shrinks, Pending

LEMMA DetachTamer ==
    ASSUME NEW b \in BrokerState, NEW I
    PROVE  Detach(b, I) \in BrokerState /\ Tamer(Detach(b, I), b)
BY DetachEffect DEF Tamer, Shrinks, Pending

LEMMA DisarmedTamer ==
    ASSUME NEW b \in BrokerState, NEW I
    PROVE  Disarmed(b, I) \in BrokerState /\ Tamer(Disarmed(b, I), b)
BY DisarmedEffect DEF Tamer, Shrinks, Pending

LEMMA EnterPanicTamer ==
    ASSUME NEW b \in BrokerState, NEW x
    PROVE  EnterPanic(b, x) \in BrokerState /\ Tamer(EnterPanic(b, x), b)
<1> DEFINE d == Disarmed(b, Installs)
           f == Finish(d, Pending(b))
           t == Detach(f, Installs)
           e == Destroy(t, Routed(b) \ {x})
<1>1. d \in BrokerState /\ Tamer(d, b)
  BY DisarmedTamer
<1> HIDE DEF d
<1>2. f \in BrokerState /\ Tamer(f, b)
  BY <1>1, FinishTamer, TamerStill
<1> HIDE DEF f
<1>3. t \in BrokerState /\ Tamer(t, b)
  BY <1>2, DetachTamer, TamerStill
<1> HIDE DEF t
<1>4. e \in BrokerState /\ Tamer(e, b)
  BY <1>3, DestroyTamer, TamerStill
<1> QED
  BY <1>4 DEF EnterPanic, e, t, f, d

-----------------------------------------------------------------------------
(* A tamer broker lets go of whoever the one before did.                   *)
LEMMA TamerLetsGo ==
    ASSUME NEW n, NEW b \in BrokerState, Tamer(n, b), LetGo(b)
    PROVE  LetGo(n)
BY DEF Tamer, LetGo, BrokerState, Conns

(* What is destroyed lets go. *)
LEMMA DestroyedLetsGo ==
    ASSUME NEW b \in BrokerState, NEW C,
           \A h \in b.held \ C : b.conn[h] # "open"
    PROVE  LetGo(Destroy(b, C))
BY DEF Destroy, LetGo, BrokerState, Conns

(* The check of the file lets go of everyone when panic is over, and gives *)
(* nothing new.                                                            *)
LEMMA CheckLetsGo ==
    ASSUME IInv, HeldOnlyThroughPanic
    PROVE  LetGo(Check(Now)) /\ Shrinks(Check(Now), Now)
<1>1. /\ Now \in BrokerState /\ LetGo(Now) /\ Now.panic \in BOOLEAN /\ file \in BOOLEAN
      /\ Shrinks(Now, Now)
  BY DEF IInv, Sound, HeldOnlyThroughPanic, LetGo, Now, BrokerState, Shrinks
<1>2. CASE Now.panic = file
  BY <1>1, <1>2 DEF Check
<1>3. CASE Now.panic # file /\ file
  <2> DEFINE p == [Now EXCEPT !.panic = TRUE]
             e == EnterPanic(p, NoHost)
  <2>1. p \in BrokerState /\ p.panic = TRUE /\ p.route = Now.route /\ p.req = Now.req
    BY <1>1 DEF BrokerState
  <2>2. Check(Now) = e
    BY <1>3 DEF Check
  <2> HIDE DEF p
  <2>3. Tamer(e, p)
    BY <2>1, EnterPanicTamer
  <2>4. Shrinks(p, Now) /\ LetGo(p)
    BY <1>1, <2>1 DEF Shrinks, Pending, LetGo, BrokerState
  <2> QED
    BY <2>1, <2>2, <2>3, <2>4, TamerLetsGo, ShrinksFurther DEF Tamer
<1>4. CASE Now.panic # file /\ ~file
  <2> DEFINE p == [Now EXCEPT !.panic = FALSE]
             e == Destroy(p, p.held \ {NoHost})
  <2>1. p \in BrokerState /\ p.route = Now.route /\ p.req = Now.req
    BY <1>1 DEF BrokerState
  <2>2. Check(Now) = e
    BY <1>4 DEF Check, LeavePanic
  <2> HIDE DEF p
  <2>3. NoHost \notin p.held
    BY <2>1, BrokerAssumption DEF BrokerState, Conns
  <2>4. Tamer(e, p) /\ LetGo(e)
    BY <2>1, <2>3, DestroyTamer, DestroyedLetsGo
  <2>5. Shrinks(p, Now)
    BY <1>1, <2>1 DEF Shrinks, Pending, BrokerState
  <2> QED
    BY <2>2, <2>4, <2>5, ShrinksFurther DEF Tamer
<1> QED
  BY <1>1, <1>2, <1>3, <1>4

(* A handler that becomes n, and n lets go. *)
LEMMA Keeps ==
    ASSUME NEW n, Become(n), LetGo(n), file => Shrinks(n, Now)
    PROVE  Kept
<1>1. HeldOnlyThroughPanic'
  BY DEF HeldOnlyThroughPanic, Become, LetGo
<1>2. FileObeyed
  <2> SUFFICES ASSUME file PROVE FileObeyed
    BY DEF FileObeyed
  <2>1. \A r \in Requests : req'[r] \in {"waiting", "unsent"} => req[r] \in {"waiting", "unsent"}
    BY DEF Shrinks, Become, Pending, Now
  <2>2. \A i \in Installs : route'[i] \in {route[i], NoHost}
    BY DEF Shrinks, Become, Now
  <2> QED
    BY <2>1, <2>2 DEF FileObeyed
<1> QED
  BY <1>1, <1>2 DEF Kept

(* Where a handler starts: at the broker as it is, or at the check.        *)
LEMMA StartsKeep ==
    ASSUME IInv, HeldOnlyThroughPanic
    PROVE  /\ Now \in BrokerState /\ LetGo(Now) /\ Shrinks(Now, Now)
           /\ Check(Now) \in BrokerState /\ LetGo(Check(Now)) /\ Shrinks(Check(Now), Now)
           /\ Check(Now).panic = file
BY CheckLetsGo, Checked, TamerSelf DEF IInv, Sound, HeldOnlyThroughPanic, LetGo, Now, Tamer

LEMMA TamerKeeps ==
    ASSUME NEW b \in BrokerState, LetGo(b), Shrinks(b, Now), NEW n, Tamer(n, b), Become(n)
    PROVE  Kept
BY TamerLetsGo, ShrinksFurther, Keeps DEF Tamer

-----------------------------------------------------------------------------
(* The handlers.                                                           *)

LEMMA HelloLetsGo ==
    ASSUME IInv, HeldOnlyThroughPanic, NEW c \in Conns, Hello(c)
    PROVE  Kept
<1> DEFINE b == Check(Now)
           n == IF c \in Hosts
                THEN [b EXCEPT !.conn[c] = "open", !.reg[c] = "owed", !.held = @ \ {c}]
                ELSE [b EXCEPT !.conn[c] = "open"]
<1>1. b \in BrokerState /\ LetGo(b) /\ Shrinks(b, Now)
  BY StartsKeep
<1>2. Become(n)
  BY DEF Hello
<1> HIDE DEF b
<1>3. n.route = b.route /\ n.req = b.req /\ n.panic = b.panic
      /\ n.held = b.held \ {c}
      /\ \A x \in Conns \ {c} : n.conn[x] = b.conn[x]
  BY <1>1 DEF BrokerState
<1> HIDE DEF n
<1>4. LetGo(n) /\ Shrinks(n, b)
  BY <1>1, <1>3 DEF LetGo, Shrinks, Pending, BrokerState, Conns
<1> QED
  BY <1>1, <1>2, <1>4, Keeps, ShrinksFurther

LEMMA ConnectionsLetGo ==
    ASSUME IInv, HeldOnlyThroughPanic, NEW c \in Conns, Closed(c) \/ Break(c)
    PROVE  Kept
<1>1. Become(Destroy(Now, {c}))
  BY DEF Closed, Break
<1> QED
  BY <1>1, StartsKeep, DestroyTamer, TamerKeeps

LEMMA SocketClosesLetsGo ==
    ASSUME IInv, HeldOnlyThroughPanic, NEW c \in Conns, SocketCloses(c)
    PROVE  Kept
<1> DEFINE g     == [Now EXCEPT !.conn[c] = "gone"]
           owned == {i \in Installs : g.route[i] = c}
           d     == Detach(g, owned)
           n     == ReleaseConnection(g, c)
<1>1. Become(n)
  BY DEF SocketCloses
<1>2. g \in BrokerState /\ Tamer(g, Now)
  BY StartsKeep DEF BrokerState, ConnState, Tamer, Shrinks, Pending
<1>3. n = (IF owned = {} THEN g ELSE Finish(d, SentTo(d, {c})))
  BY DEF ReleaseConnection, FailPendingsFor
<1> HIDE DEF g, owned, n
<1>4. d \in BrokerState /\ Tamer(d, Now)
  BY <1>2, DetachTamer, TamerStill
<1> HIDE DEF d
<1>5. Tamer(n, Now)
  BY <1>2, <1>3, <1>4, FinishTamer, TamerStill
<1> QED
  BY <1>1, <1>5, StartsKeep, TamerKeeps

LEMMA RegisterDeadlineLetsGo ==
    ASSUME IInv, HeldOnlyThroughPanic, NEW h \in Hosts, RegisterDeadline(h)
    PROVE  Kept
<1> DEFINE s == SendAndClose(Now, h)
           n == [s EXCEPT !.reg[h] = "overdue"]
<1>1. Become(n)
  BY DEF RegisterDeadline
<1>2. s \in BrokerState /\ Tamer(s, Now)
  BY StartsKeep, SendAndCloseTamer DEF Conns
<1> HIDE DEF s
<1>3. Tamer(n, s)
  BY <1>2 DEF BrokerState, Tamer, Shrinks, Pending
<1> HIDE DEF n
<1> QED
  BY <1>1, <1>2, <1>3, StartsKeep, TamerStill, TamerKeeps

(* A profile is held only while there is panic. *)
LEMMA HoldLetsGo ==
    ASSUME NEW b \in BrokerState, LetGo(b), b.panic, NEW h \in Hosts
    PROVE  LetGo(Hold(b, h)) /\ Shrinks(Hold(b, h), b)
BY DEF Hold, LetGo, Shrinks, Pending, BrokerState

LEMMA RegisterArrivesLetsGo ==
    ASSUME IInv, HeldOnlyThroughPanic, NEW h \in Hosts, RegisterArrives(h)
    PROVE  Kept
<1> DEFINE b == Check(Now)
           w == [b EXCEPT !.reg[h] = "awaiting"]
<1>1. Become(IF b.panic THEN Hold(b, h) ELSE w)
  BY DEF RegisterArrives
<1>2. b \in BrokerState /\ LetGo(b) /\ Shrinks(b, Now)
  BY StartsKeep
<1> HIDE DEF b
<1>3. Tamer(w, b)
  BY <1>2 DEF BrokerState, Tamer, Shrinks, Pending
<1> HIDE DEF w
<1>4. CASE b.panic
  BY <1>1, <1>2, <1>4, HoldLetsGo, ShrinksFurther, Keeps
<1>5. CASE ~b.panic
  BY <1>1, <1>2, <1>3, <1>5, TamerKeeps
<1> QED
  BY <1>4, <1>5

(* What is attached was attached outside panic, so the file was not there. *)
LEMMA AttachLetsGo ==
    ASSUME NEW b \in BrokerState, LetGo(b), NEW h \in Hosts, NEW p, NEW changed
    PROVE  LetGo(AttachUnchecked(b, h, p, changed))
<1> DEFINE i   == InstallOf[h]
           old == b.route[i]
           f   == FailPendingsFor(b, {old})
           new == Replace(b, old)
           n   == AttachUnchecked(b, h, p, changed)
<1>1. i \in Installs /\ old \in Hosts \cup {NoHost}
  BY BrokerAssumption DEF BrokerState
<1>2. f \in BrokerState /\ Tamer(f, b)
  BY FinishTamer DEF FailPendingsFor
<1>3. new \in BrokerState /\ Tamer(new, b)
  <2>1. CASE old = NoHost
    BY <2>1, TamerSelf DEF Replace
  <2>2. CASE old # NoHost
    <3>1. old \in Conns
      BY <1>1, <2>2 DEF Conns
    <3>2. new = SendAndClose(f, old)
      BY <2>2 DEF Replace
    <3> HIDE DEF f, old, new
    <3> QED
      BY <1>2, <3>1, <3>2, SendAndCloseTamer, TamerStill
  <2> QED
    BY <2>1, <2>2
<1>4. n = [new EXCEPT !.route[i] = h, !.who[i] = p, !.pings[i] = 0, !.reg[h] = "over",
                      !.armed[i] = IF changed THEN Nobody ELSE @]
  BY DEF AttachUnchecked
<1> HIDE DEF i, old, f, new, n
<1>5. n.held = new.held /\ n.panic = new.panic /\ n.conn = new.conn
  BY <1>3, <1>4 DEF BrokerState
<1>6. LetGo(new)
  BY <1>3, TamerLetsGo
<1> QED
  BY <1>5, <1>6 DEF LetGo, n

LEMMA RegisterResumesLetsGo ==
    ASSUME IInv, HeldOnlyThroughPanic, NEW h \in Hosts, NEW p, NEW changed,
           RegisterResumes(h, p, changed)
    PROVE  Kept
<1> DEFINE k == Check(Now)
           g == [Now EXCEPT !.reg[h] = "over"]
<1>1. CASE conn[h] \in {"destroyed", "gone"}
  <2>1. Become(g)
    BY <1>1 DEF RegisterResumes
  <2>2. Tamer(g, Now)
    BY StartsKeep DEF BrokerState, Tamer, Shrinks, Pending
  <2> QED
    BY <2>1, <2>2, StartsKeep, TamerKeeps
<1>2. CASE conn[h] \notin {"destroyed", "gone"}
  <2>1. Become(IF k.panic THEN Hold(k, h) ELSE AttachUnchecked(k, h, p, changed))
    BY <1>2 DEF RegisterResumes, Attach
  <2>2. k \in BrokerState /\ LetGo(k) /\ Shrinks(k, Now) /\ k.panic = file
    BY StartsKeep
  <2> HIDE DEF k
  <2>3. CASE k.panic
    BY <2>1, <2>2, <2>3, HoldLetsGo, ShrinksFurther, Keeps
  <2>4. CASE ~k.panic
    BY <2>1, <2>2, <2>4, AttachLetsGo, Keeps
  <2> QED
    BY <2>3, <2>4
<1> QED
  BY <1>1, <1>2

LEMMA HeartbeatLetsGo ==
    ASSUME IInv, HeldOnlyThroughPanic, NEW drifted \in SUBSET Installs, Heartbeat(drifted)
    PROVE  Kept
<1> DEFINE live   == {i \in Installs : route[i] # NoHost}
           silent == Silent(Now)
           gone   == {Now.route[i] : i \in silent}
           failed == FailPendingsFor(Now, gone)
           killed == Destroy(failed, gone)
           e      == Evict(Now, silent)
           u      == [e EXCEPT !.who = [i \in Installs |-> IF i \in drifted THEN Nobody ELSE @[i]]]
           a      == Disarmed(u, drifted)
           d      == DropClaims(e, drifted)
           n      == Ping(d, live \ silent)
<1>1. Become(n)
  BY DEF Heartbeat
<1>2. e = Detach(killed, silent)
  BY DEF Evict
<1>3. d = FailPendingsFor(a, {e.route[i] : i \in drifted})
  BY DEF DropClaims
<1> HIDE DEF live, silent, gone, e, d
<1>4. failed \in BrokerState /\ Tamer(failed, Now)
  BY StartsKeep, FinishTamer DEF FailPendingsFor
<1> HIDE DEF failed
<1>5. killed \in BrokerState /\ Tamer(killed, Now)
  BY <1>4, DestroyTamer, TamerStill
<1> HIDE DEF killed
<1>6. e \in BrokerState /\ Tamer(e, Now)
  BY <1>2, <1>5, DetachTamer, TamerStill
<1>7. u \in BrokerState /\ Tamer(u, e)
  <2> DEFINE who_ == [i \in Installs |-> IF i \in drifted THEN Nobody ELSE e.who[i]]
  <2>1. who_ \in [Installs -> People \cup {Nobody}]
    BY <1>6 DEF BrokerState
  <2>2. u = [e EXCEPT !.who = who_]
    OBVIOUS
  <2> HIDE DEF who_, u
  <2> QED
    BY <1>6, <2>1, <2>2 DEF BrokerState, Tamer, Shrinks, Pending
<1> HIDE DEF u
<1>8. a \in BrokerState /\ Tamer(a, Now)
  BY <1>6, <1>7, DisarmedTamer, TamerStill
<1> HIDE DEF a
<1>9. d \in BrokerState /\ Tamer(d, Now)
  BY <1>3, <1>8, FinishTamer, TamerStill DEF FailPendingsFor
<1>10. Tamer(n, d)
  BY <1>9 DEF Ping, BrokerState, Tamer, Shrinks, Pending
<1> HIDE DEF n
<1> QED
  BY <1>1, <1>9, <1>10, StartsKeep, TamerStill, TamerKeeps

LEMMA PongLetsGo ==
    ASSUME IInv, HeldOnlyThroughPanic, NEW h \in Hosts, Pong(h)
    PROVE  Kept
<1> DEFINE n == [Now EXCEPT !.pings[InstallOf[h]] = 0]
<1>1. Become(n)
  BY DEF Pong
<1>2. Tamer(n, Now)
  BY StartsKeep DEF BrokerState, Tamer, Shrinks, Pending
<1> HIDE DEF n
<1> QED
  BY <1>1, <1>2, StartsKeep, TamerKeeps

(* A request is forwarded outside panic only, so when the file is not      *)
(* there.                                                                  *)
LEMMA RequestsLetGo ==
    ASSUME IInv, HeldOnlyThroughPanic, NEW r \in Requests, Req(r) \/ Res(r) \/ Timeout(r)
    PROVE  Kept
<1> DEFINE b == Check(Now)
<1>1. CASE Res(r) \/ Timeout(r)
  <2>1. Become(Finish(Now, {r}))
    BY <1>1 DEF Res, Timeout
  <2> QED
    BY <2>1, StartsKeep, FinishTamer, TamerKeeps
<1>2. CASE Req(r)
  <2>1. Become(IF Refused(b, r) THEN Finish(b, {r}) ELSE Forward(b, r))
    BY <1>2 DEF Req
  <2>2. b \in BrokerState /\ LetGo(b) /\ Shrinks(b, Now) /\ b.panic = file
    BY StartsKeep
  <2> HIDE DEF b
  <2>3. CASE Refused(b, r)
    BY <2>1, <2>2, <2>3, FinishTamer, TamerKeeps
  <2>4. CASE ~Refused(b, r)
    <3>1. ~file
      BY <2>2, <2>4 DEF Refused
    <3>2. LetGo(Forward(b, r))
      BY <2>2 DEF Forward, LetGo, BrokerState
    <3> QED
      BY <2>1, <2>4, <3>1, <3>2, Keeps
  <2> QED
    BY <2>3, <2>4
<1> QED
  BY <1>1, <1>2

LEMMA ArmingLetsGo ==
    ASSUME IInv, HeldOnlyThroughPanic, NEW c \in Conns, NEW i \in Installs,
           \/ Arm(c, i) \/ Disarm(c, i)
           \/ \E p \in People : ClaimProfile(c, i, p)
    PROVE  Kept
<1> DEFINE b    == Check(Now)
           a    == [b EXCEPT !.armed[i] = b.who[i]]
           w(p) == [b EXCEPT !.who[i] = p]
<1>1. b \in BrokerState /\ LetGo(b) /\ Shrinks(b, Now)
  BY StartsKeep
<1>2. \/ Become(b) \/ Become(a) \/ Become(Disarmed(b, {i}))
      \/ \E p \in People : Become(w(p))
  BY DEF Arm, Disarm, ClaimProfile
<1> HIDE DEF b
<1>3. /\ Tamer(b, b) /\ Tamer(a, b) /\ Tamer(Disarmed(b, {i}), b)
      /\ \A p \in People : Tamer(w(p), b)
  <2>1. Tamer(b, b) /\ Tamer(Disarmed(b, {i}), b)
    BY <1>1, TamerSelf, DisarmedTamer
  <2>2. Tamer(a, b)
    BY <1>1 DEF BrokerState, Tamer, Shrinks, Pending
  <2>3. ASSUME NEW p \in People PROVE Tamer(w(p), b)
    BY <1>1 DEF BrokerState, Tamer, Shrinks, Pending
  <2> QED
    BY <2>1, <2>2, <2>3
<1> HIDE DEF a, w
<1> QED
  BY <1>1, <1>2, <1>3, TamerKeeps

LEMMA ArmExpiresLetsGo ==
    ASSUME IInv, HeldOnlyThroughPanic, NEW i \in Installs, ArmExpires(i)
    PROVE  Kept
<1>1. Become(Disarmed(Now, {i}))
  BY DEF ArmExpires
<1> QED
  BY <1>1, StartsKeep, DisarmedTamer, TamerKeeps

LEMMA PanicLetsGo ==
    ASSUME IInv, HeldOnlyThroughPanic, NEW c \in Conns, Panic(c)
    PROVE  Kept
<1> DEFINE k == Check(Now)
           t == [k EXCEPT !.panic = TRUE]
           b == SendAndClose(t, c)
           n == EnterPanic(b, c)
<1>1. Become(n)
  BY DEF Panic
<1>2. k \in BrokerState /\ Shrinks(k, Now)
  BY StartsKeep
<1> HIDE DEF k
<1>3. t \in BrokerState /\ t.panic = TRUE /\ Shrinks(t, k)
  BY <1>2 DEF BrokerState, Shrinks, Pending
<1> HIDE DEF t
<1>4. b \in BrokerState /\ Tamer(b, t)
  BY <1>3, SendAndCloseTamer
<1> HIDE DEF b
<1>5. Tamer(n, t)
  BY <1>4, EnterPanicTamer, TamerStill
<1> HIDE DEF n
<1>6. LetGo(t)
  BY <1>3 DEF LetGo
<1>7. Shrinks(t, Now)
  BY <1>2, <1>3, ShrinksFurther
<1> QED
  BY <1>1, <1>3, <1>5, <1>6, <1>7, TamerKeeps

(* A resume lets go of every held profile: of the one that asked by its    *)
(* last message, of the others at once.                                    *)
LEMMA ResumeLetsGo ==
    ASSUME IInv, HeldOnlyThroughPanic, NEW h \in Hosts, Resume(h)
    PROVE  Kept
<1> DEFINE b == Check(Now)
           t == [b EXCEPT !.panic = FALSE]
           s == SendAndClose(t, h)
           n == Destroy(s, s.held \ {h})
<1>1. Become(n) \/ Become(b)
  BY DEF Resume, LeavePanic
<1>2. b \in BrokerState /\ LetGo(b) /\ Shrinks(b, Now)
  BY StartsKeep
<1> HIDE DEF b
<1>3. t \in BrokerState /\ Shrinks(t, b)
  BY <1>2 DEF BrokerState, Shrinks, Pending
<1> HIDE DEF t
<1>4. s \in BrokerState /\ Tamer(s, t) /\ s.conn[h] # "open"
  <2>1. s.conn[h] # "open"
    BY <1>3 DEF SendAndClose, BrokerState, Conns
  <2> QED
    BY <1>3, <2>1, SendAndCloseTamer DEF Conns
<1> HIDE DEF s
<1>5. LetGo(n) /\ Tamer(n, s)
  BY <1>4, DestroyedLetsGo, DestroyTamer
<1> HIDE DEF n
<1>6. Shrinks(n, Now)
  BY <1>2, <1>3, <1>4, <1>5, ShrinksFurther DEF Tamer
<1> QED
  BY <1>1, <1>2, <1>5, <1>6, Keeps

LEMMA FileLetsGo ==
    ASSUME IInv, HeldOnlyThroughPanic, FileChanges \/ Watch \/ BrokerRestart
    PROVE  Kept
<1>1. CASE FileChanges
  BY <1>1 DEF FileChanges, Kept, HeldOnlyThroughPanic, FileObeyed
<1>2. CASE Watch
  BY <1>2, StartsKeep, Keeps DEF Watch
<1>3. CASE BrokerRestart
  <2>1. HeldOnlyThroughPanic'
    BY <1>3 DEF BrokerRestart, HeldOnlyThroughPanic
  <2>2. FileObeyed
    BY <1>3 DEF BrokerRestart, FileObeyed, Pending, Now
  <2> QED
    BY <2>1, <2>2 DEF Kept
<1> QED
  BY <1>1, <1>2, <1>3

-----------------------------------------------------------------------------
LEMMA NextKeeps == IInv /\ HeldOnlyThroughPanic /\ [Next]_vars => Kept
<1> SUFFICES ASSUME IInv, HeldOnlyThroughPanic, [Next]_vars
             PROVE  Kept
  OBVIOUS
<1>1. ASSUME NEW c \in Conns,
             Hello(c) \/ Closed(c) \/ Break(c) \/ SocketCloses(c) \/ Panic(c)
      PROVE  Kept
  BY <1>1, HelloLetsGo, ConnectionsLetGo, SocketClosesLetsGo, PanicLetsGo
<1>2. ASSUME NEW c \in Conns, NEW i \in Installs,
             Arm(c, i) \/ Disarm(c, i) \/ \E p \in People : ClaimProfile(c, i, p)
      PROVE  Kept
  BY <1>2, ArmingLetsGo
<1>3. ASSUME NEW h \in Hosts,
             RegisterDeadline(h) \/ RegisterArrives(h) \/ Pong(h) \/ Resume(h)
      PROVE  Kept
  BY <1>3, RegisterDeadlineLetsGo, RegisterArrivesLetsGo, PongLetsGo, ResumeLetsGo
<1>4. ASSUME NEW h \in Hosts, NEW p \in People \cup {Nobody}, NEW changed \in BOOLEAN,
             RegisterResumes(h, p, changed)
      PROVE  Kept
  BY <1>4, RegisterResumesLetsGo
<1>5. ASSUME NEW drifted \in SUBSET Installs, Heartbeat(drifted)
      PROVE  Kept
  BY <1>5, HeartbeatLetsGo
<1>6. ASSUME NEW r \in Requests, Req(r) \/ Res(r) \/ Timeout(r)
      PROVE  Kept
  BY <1>6, RequestsLetGo
<1>7. ASSUME NEW i \in Installs, ArmExpires(i)
      PROVE  Kept
  BY <1>7, ArmExpiresLetsGo
<1>8. CASE FileChanges \/ Watch \/ BrokerRestart
  BY <1>8, FileLetsGo
<1>9. CASE UNCHANGED vars
  BY <1>9 DEF vars, Kept, HeldOnlyThroughPanic, FileObeyed
<1> QED
  BY <1>1, <1>2, <1>3, <1>4, <1>5, <1>6, <1>7, <1>8, <1>9 DEF Next

LEMMA InitLetsGo == Init => HeldOnlyThroughPanic
BY DEF Init, HeldOnlyThroughPanic

(* No profile stays held once panic is over, however it ended: by the      *)
(* file, by RESUME or with the broker (leavePanic, holdThroughPanic).      *)
THEOREM NobodyStaysHeld == Spec => []HeldOnlyThroughPanic
<1>1. IInv /\ HeldOnlyThroughPanic /\ [Next]_vars => HeldOnlyThroughPanic'
  BY NextKeeps DEF Kept
<1> QED
  BY <1>1, InitLetsGo, IInvHolds, PTL DEF Spec

(* From the moment the panic file exists no request reaches a browser and  *)
(* no profile joins, whatever the broker remembers (PanicSwitch.check in   *)
(* handleReq and handleRegister).                                          *)
THEOREM FileObeyedUnseen == Spec => TheFileIsObeyedUnseen
<1>1. IInv /\ HeldOnlyThroughPanic /\ [Next]_vars => [FileObeyed]_vars
  BY NextKeeps DEF Kept
<1>2. Spec => [][FileObeyed]_vars
  BY <1>1, NobodyStaysHeld, IInvHolds, PTL DEF Spec
<1>3. [FileObeyed]_vars <=>
        [file =>
            /\ \A r \in Requests : req[r] = "new" => req'[r] \notin {"waiting", "unsent"}
            /\ \A i \in Installs : route'[i] \in {route[i], NoHost}]_vars
  BY DEF FileObeyed
<1> QED
  BY <1>2, <1>3, PTL DEF TheFileIsObeyedUnseen

(***************************************************************************)
(* Broker processes, and the client of one session.                        *)
(***************************************************************************)
Others == {None, Stranger, Legacy, "stale"}

LEMMA NotBrokers == \A b \in Brokers : b \notin Others
BY SessionAssumption DEF Others, Stranger, Legacy

-----------------------------------------------------------------------------
(* Types.                                                                  *)

Places == {"off", "probing", "clearing", "binding", "bound", "up", "leaving", "gone"}
States == {"idle", "waiting", "sent", "ok", "refused", "failed", "late"}

LEMMA FailAllTypes ==
    ASSUME NEW cs, call \in [Calls -> States]
    PROVE  FailAll(cs) \in [Calls -> States]
BY DEF FailAll, States

LEMMA WriteTypes ==
    ASSUME SessionTypeOK, NEW cs \in SUBSET Calls, Write(cs)
    PROVE  /\ call' \in [Calls -> States]
           /\ writtenTo' \in [Calls -> Brokers \cup {None}]
           /\ strangers' \subseteq Calls
BY DEF SessionTypeOK, Write, States, Done

LEMMA TroubleTypes ==
    ASSUME SessionTypeOK, Trouble \/ Calm
    PROVE  trouble' \in 0..MaxTrouble
BY SessionAssumption DEF SessionTypeOK, Trouble, Calm

LEMMA MachineTypes ==
    ASSUME SessionTypeOK, NEW b \in Brokers,
           Starts(b) \/ Probes(b) \/ Binds(b) \/ Publishes(b) \/ Leaves(b) \/ Closes(b) \/ Dies(b)
    PROVE  SessionTypeOK'
<1> USE DEF client, calls, SessionTypeOK, Calm, Trouble, Forgotten
<1>1. CASE Starts(b)
  BY <1>1 DEF Starts
<1>2. CASE Probes(b)
  BY <1>2 DEF Probes
<1>3. CASE Binds(b)
  BY <1>3 DEF Binds
<1>4. CASE Publishes(b)
  BY <1>4 DEF Publishes
<1>5. CASE Leaves(b)
  BY <1>5, SessionAssumption DEF Leaves
<1>6. CASE Closes(b)
  BY <1>6 DEF Closes
<1>7. CASE Dies(b)
  BY <1>7, SessionAssumption DEF Dies
<1> QED
  BY <1>1, <1>2, <1>3, <1>4, <1>5, <1>6, <1>7

LEMMA LinkTypes ==
    ASSUME SessionTypeOK,
           StrangerGoes \/ Dials \/ DialFails \/ Greeted \/ Unproven \/ HelloTimeout \/ ClientSocketCloses \/ Close
    PROVE  SessionTypeOK'
<1>1. call \in [Calls -> States] /\ {"idle", "waiting", "sent"} \cup Done = States
  BY DEF SessionTypeOK, States, Done
<1>2. \A cs : FailAll(cs) \in [Calls -> States]
  BY <1>1, FailAllTypes
<1>3. Answering(path) => path \in Brokers \cup {None, Stranger}
  BY DEF Answering
<1>a. Trouble \/ Calm => trouble' \in 0..MaxTrouble
  BY TroubleTypes
<1> USE <1>1 DEF machine, client, calls, SessionTypeOK
<1>4. CASE StrangerGoes
  BY <1>4 DEF StrangerGoes
<1>5. CASE Dials
  BY <1>3, <1>5 DEF Dials
<1>6. CASE DialFails
  BY <1>2, <1>6, <1>a DEF DialFails
<1>7. CASE Greeted
  <2>1. Waiting \subseteq Calls
    BY DEF Waiting
  <2> QED
    BY <1>7, <2>1, WriteTypes DEF Greeted
<1>8. CASE Unproven \/ HelloTimeout \/ ClientSocketCloses
  <2>1. Trouble \/ Calm
    BY <1>8 DEF Unproven, HelloTimeout, ClientSocketCloses, Calm
  <2>2. Teardown /\ UNCHANGED <<machine, writtenTo, ran, begun, strangers>>
    BY <1>8 DEF Unproven, HelloTimeout, ClientSocketCloses
  <2> QED
    BY <1>2, <1>a, <2>1, <2>2 DEF Teardown
<1>9. CASE Close
  BY <1>2, <1>9 DEF Close
<1> QED
  BY <1>4, <1>5, <1>6, <1>7, <1>8, <1>9

LEMMA CallTypes ==
    ASSUME SessionTypeOK, NEW c \in Calls,
           Request(c) \/ Runs(c) \/ Answered(c) \/ CallRefused(c) \/ LocalTimeout(c)
    PROVE  SessionTypeOK'
<1>1. call \in [Calls -> States] /\ {"idle", "waiting", "sent"} \cup Done = States
  BY DEF SessionTypeOK, States, Done
<1>2. CASE Request(c)
  <2>1. begun' \subseteq Calls
    BY <1>2 DEF Request, Make, SessionTypeOK
  <2>2. UNCHANGED <<machine, ran, trouble>>
    BY <1>2 DEF Request
  <2>3. /\ call' \in [Calls -> States]
        /\ writtenTo' \in [Calls -> Brokers \cup {None}]
        /\ strangers' \subseteq Calls
    <3>1. CASE Write({c})
      BY <3>1, WriteTypes
    <3>2. CASE UNCHANGED <<writtenTo, strangers>> /\ \E s \in {"failed", "waiting"} : call' = [call EXCEPT ![c] = s]
      BY <1>1, <3>2 DEF SessionTypeOK, States
    <3> QED
      BY <1>2, <3>1, <3>2 DEF Request
  <2>4. phase' \in {"none", "dialing", "hello", "ready"} /\ closed' \in BOOLEAN
        /\ cred' \in Brokers \cup {None, "stale"} /\ peer' \in Brokers \cup {None, Stranger}
    BY <1>2 DEF Request, SessionTypeOK, client, Usable, Credentials
  <2> QED
    BY <1>1, <2>1, <2>2, <2>3, <2>4 DEF SessionTypeOK, machine
<1>3. CASE Runs(c)
  BY <1>3 DEF Runs, SessionTypeOK, machine, client
<1>4. CASE Answered(c) \/ CallRefused(c) \/ LocalTimeout(c)
  <2>1. call' \in [Calls -> States]
    BY <1>1, <1>4 DEF Answered, CallRefused, LocalTimeout, States
  <2>2. writtenTo' \in [Calls -> Brokers \cup {None}] /\ UNCHANGED <<machine, client, ran, begun, strangers, trouble>>
    BY <1>4 DEF Answered, CallRefused, LocalTimeout, SessionTypeOK
  <2> QED
    BY <1>1, <2>1, <2>2 DEF SessionTypeOK, machine, client
<1> QED
  BY <1>2, <1>3, <1>4

LEMMA TypeStep ==
    ASSUME SessionTypeOK, [SessionNext]_sessionVars
    PROVE  SessionTypeOK'
<1>1. CASE UNCHANGED sessionVars
  BY <1>1 DEF sessionVars, machine, client, calls, SessionTypeOK
<1> QED
  BY <1>1, MachineTypes, LinkTypes, CallTypes DEF SessionNext

LEMMA TypeInitially == SessionInit => SessionTypeOK
<1> SUFFICES ASSUME SessionInit PROVE SessionTypeOK
  OBVIOUS
<1>1. call \in [Calls -> {"idle", "waiting", "sent"} \cup Done] /\ ran \in [Calls -> 0..2]
  BY DEF SessionInit
<1>2. proc \in [Brokers -> Places] /\ writtenTo \in [Calls -> Brokers \cup {None}]
  BY DEF SessionInit, Places
<1>3. posix \in BOOLEAN /\ path \in Brokers \cup {None, Stranger, "stale"} /\ runtime \in Brokers \cup {None, Legacy, "stale"}
  BY DEF SessionInit
<1>4. /\ phase = "none" /\ closed = FALSE /\ cred = None /\ peer = None
      /\ begun = {} /\ strangers = {} /\ trouble \in 0..MaxTrouble
  BY SessionAssumption DEF SessionInit
<1> QED
  BY <1>1, <1>2, <1>3, <1>4 DEF SessionTypeOK, Places

(* The ranges of the variables, for every instance. *)
THEOREM SessionTypes == SessionSpec => []SessionTypeOK
<1> QED
  BY TypeInitially, TypeStep, PTL DEF SessionSpec

-----------------------------------------------------------------------------
(* Who has the pipe's name.  Nothing is probed where there is no file.     *)

NameInv ==
    ~posix => \A b \in Brokers :
        /\ proc[b] \notin {"probing", "clearing"}
        /\ proc[b] \in {"bound", "up"} => path = b
        /\ proc[b] = "up" => runtime = b

LEMMA NameStep ==
    ASSUME SessionTypeOK, NameInv, [SessionNext]_sessionVars
    PROVE  NameInv'
<1>1. CASE UNCHANGED machine
  BY <1>1 DEF machine, NameInv
<1> SUFFICES ASSUME ~posix, ~UNCHANGED machine PROVE NameInv'
  <2>1. posix' = posix
    BY DEF SessionNext, sessionVars, machine, Starts, Probes, Binds, Publishes, Leaves, Closes, Dies, StrangerGoes,
       Request, Runs, Answered, CallRefused, LocalTimeout, Dials, DialFails, Greeted, Unproven,
       HelloTimeout, ClientSocketCloses, Close
  <2> QED
    BY <1>1, <2>1 DEF NameInv
<1> USE DEF NameInv, SessionTypeOK
<1>2. ASSUME NEW b \in Brokers, Starts(b) PROVE NameInv'
  BY <1>2 DEF Starts
<1>3. ASSUME NEW b \in Brokers, Probes(b) PROVE NameInv'
  BY <1>3 DEF Probes
<1>4. ASSUME NEW b \in Brokers, Binds(b) PROVE NameInv'
  BY <1>4, NotBrokers DEF Binds, Others
<1>5. ASSUME NEW b \in Brokers, Publishes(b) PROVE NameInv'
  BY <1>5 DEF Publishes
<1>6. ASSUME NEW b \in Brokers, Leaves(b) PROVE NameInv'
  BY <1>6 DEF Leaves
<1>7. ASSUME NEW b \in Brokers, Closes(b) PROVE NameInv'
  BY <1>7 DEF Closes
<1>8. ASSUME NEW b \in Brokers, Dies(b) PROVE NameInv'
  BY <1>8 DEF Dies
<1>9. CASE StrangerGoes
  BY <1>9, NotBrokers DEF StrangerGoes, Others
<1> QED
  BY <1>2, <1>3, <1>4, <1>5, <1>6, <1>7, <1>8, <1>9
     DEF SessionNext, sessionVars, Request, Runs, Answered, CallRefused, LocalTimeout, Dials, DialFails, Greeted, Unproven,
         HelloTimeout, ClientSocketCloses, Close

(* Where the pipe's name is the system's to give, one broker has it and    *)
(* runtime.json is of no other one (bridged/index.mjs, writeRuntime and    *)
(* shutdown).                                                              *)
THEOREM TheFileIsOfWhoAnswers == SessionSpec => []TheFileIsTheBrokers
<1>1. SessionInit => NameInv
  BY DEF SessionInit, NameInv
<1>2. SessionTypeOK /\ NameInv /\ [SessionNext]_sessionVars => NameInv'
  BY NameStep
<1>3. NameInv => TheFileIsTheBrokers
  BY DEF NameInv, TheFileIsTheBrokers
<1> QED
  BY <1>1, <1>2, <1>3, SessionTypes, PTL DEF SessionSpec

-----------------------------------------------------------------------------
(* What is written is written once.  A call that was not written has not   *)
(* run, one that a broker still holds has not either, and only the peer of *)
(* a proven link is written to.                                            *)

Unwritten == {"idle", "waiting"}

OnceInv ==
    /\ \A c \in Calls :
         /\ ran[c] <= 1
         /\ call[c] \in Unwritten => ran[c] = 0 /\ writtenTo[c] = None
         /\ writtenTo[c] # None => ran[c] = 0
         /\ call[c] = "ok" => ran[c] = 1
    /\ phase = "ready" => peer \in Brokers
    /\ strangers = {}

LEMMA FailAllKeeps ==
    ASSUME SessionTypeOK, OnceInv, NEW cs, call' = FailAll(cs), UNCHANGED <<writtenTo, ran, strangers>>,
           phase' = "ready" => peer' \in Brokers
    PROVE  OnceInv'
BY DEF SessionTypeOK, OnceInv, FailAll, Unwritten

LEMMA WriteKeeps ==
    ASSUME SessionTypeOK, OnceInv, NEW cs \in SUBSET Calls, \A c \in cs : call[c] \in Unwritten,
           peer \in Brokers, peer' = peer, Write(cs), UNCHANGED ran
    PROVE  OnceInv'
BY DEF SessionTypeOK, OnceInv, Write, Unwritten

LEMMA OnceStep ==
    ASSUME SessionTypeOK, OnceInv, [SessionNext]_sessionVars
    PROVE  OnceInv'
<1>1. CASE UNCHANGED <<call, writtenTo, ran, strangers, phase, peer>>
  BY <1>1 DEF OnceInv
<1>2. ASSUME NEW b \in Brokers, Leaves(b) \/ Dies(b) PROVE OnceInv'
  BY <1>2 DEF Leaves, Dies, Forgotten, client, OnceInv, SessionTypeOK
<1>3. ASSUME NEW c \in Calls, Request(c) PROVE OnceInv'
  <2>1. call[c] = "idle" /\ UNCHANGED <<ran>>
    BY <1>3 DEF Request, Make
  <2>2. CASE phase = "ready" /\ Write({c}) /\ UNCHANGED client
    <3>1. peer \in Brokers /\ peer' = peer
      BY <2>2 DEF OnceInv, client
    <3> QED
      BY <2>1, <2>2, <3>1, WriteKeeps DEF Unwritten
  <2>3. CASE /\ \E s \in {"failed", "waiting"} : call' = [call EXCEPT ![c] = s]
             /\ UNCHANGED <<writtenTo, strangers, peer>> /\ phase' \in {phase, "dialing"}
    BY <2>1, <2>3 DEF OnceInv, SessionTypeOK, Unwritten
  <2> QED
    BY <1>3, <2>2, <2>3 DEF Request, client
<1>4. ASSUME NEW c \in Calls, Runs(c) PROVE OnceInv'
  BY <1>4, NotBrokers DEF Runs, client, OnceInv, SessionTypeOK, Unwritten, Others
<1>5. ASSUME NEW c \in Calls, Answered(c) \/ LocalTimeout(c) PROVE OnceInv'
  BY <1>5 DEF Answered, LocalTimeout, client, OnceInv, SessionTypeOK, Unwritten
<1>6. ASSUME NEW c \in Calls, CallRefused(c) PROVE OnceInv'
  BY <1>6 DEF CallRefused, client, OnceInv, SessionTypeOK, Unwritten
<1>7. CASE Dials
  BY <1>7 DEF Dials, calls, OnceInv
<1>8. CASE DialFails
  BY <1>8, FailAllKeeps DEF DialFails
<1>9. CASE Greeted
  <2>1. peer \in Brokers /\ peer' = peer /\ UNCHANGED ran /\ Write(Waiting)
    BY <1>9 DEF Greeted, Proves, BrokerAccepts
  <2>2. Waiting \in SUBSET Calls /\ \A c \in Waiting : call[c] \in Unwritten
    BY DEF Waiting, Unwritten
  <2> QED
    BY <2>1, <2>2, WriteKeeps
<1>10. CASE Unproven \/ HelloTimeout \/ ClientSocketCloses
  BY <1>10, FailAllKeeps DEF Unproven, HelloTimeout, ClientSocketCloses, Teardown
<1>11. CASE Close
  <2>1. CASE phase \in {"hello", "ready"}
    BY <1>11, <2>1, FailAllKeeps DEF Close
  <2>2. CASE phase \notin {"hello", "ready"}
    BY <1>1, <1>11, <2>2 DEF Close
  <2> QED
    BY <2>1, <2>2
<1>12. ASSUME NEW b \in Brokers, Starts(b) \/ Probes(b) \/ Binds(b) \/ Publishes(b) \/ Closes(b) PROVE OnceInv'
  BY <1>1, <1>12 DEF Starts, Probes, Binds, Publishes, Closes, client, calls
<1>13. CASE StrangerGoes \/ UNCHANGED sessionVars
  BY <1>1, <1>13 DEF StrangerGoes, sessionVars, client, calls
<1> QED
  BY <1>2, <1>3, <1>4, <1>5, <1>6, <1>7, <1>8, <1>9, <1>10, <1>11, <1>12, <1>13 DEF SessionNext

(* No call is carried out twice, none is handed to something that is not   *)
(* the broker, and what reports success was carried out (client.mjs,       *)
(* request and #teardown).                                                 *)
THEOREM CallsAreCarriedOutOnce == SessionSpec => []CarriedOutOnce
<1>1. SessionInit => OnceInv
  BY SessionAssumption DEF SessionInit, OnceInv, Unwritten
<1>2. SessionTypeOK /\ OnceInv /\ [SessionNext]_sessionVars => OnceInv'
  BY OnceStep
<1>3. OnceInv => CarriedOutOnce
  BY DEF OnceInv, CarriedOutOnce
<1> QED
  BY <1>1, <1>2, <1>3, SessionTypes, PTL DEF SessionSpec
-----------------------------------------------------------------------------
(* Once nothing is wrong any more, one broker has the pipe's name, its     *)
(* token is in runtime.json, every other one finds the name taken, and the *)
(* client is unconnected or on its way to that broker with that token.     *)

Settled(b) ==
    /\ proc[b] = "up" /\ path = b /\ runtime = b
    /\ \A o \in Brokers \ {b} : proc[o] \in {"off", "probing", "binding", "gone"}
    /\ phase = "none" \/ (phase = "dialing" /\ cred = b) \/ (peer = b /\ cred = b)

LeftInv ==
    /\ begun # {} => trouble = 0 /\ \E b \in Brokers : Settled(b)
    /\ NoLeftovers

LEMMA WellSettles ==
    ASSUME Well
    PROVE  trouble = 0 /\ \E b \in Brokers : Settled(b)
BY DEF Well, Settled

(* What nothing but trouble can end. *)
LEMMA SettledStays ==
    ASSUME SessionTypeOK, trouble = 0, NEW b \in Brokers, Settled(b), [SessionNext]_sessionVars
    PROVE  trouble' = 0 /\ Settled(b)'
<1>1. b # Stranger /\ b # None /\ b # Legacy
  BY NotBrokers DEF Others
<1>2. ~Trouble
  BY DEF Trouble
<1>3. Answering(b) /\ Usable(b)
  BY <1>1 DEF Settled, Answering, Usable
<1> USE DEF Settled, SessionTypeOK
<1>4. ASSUME NEW o \in Brokers,
             Starts(o) \/ Probes(o) \/ Binds(o) \/ Publishes(o) \/ Leaves(o) \/ Closes(o) \/ Dies(o)
      PROVE  trouble' = 0 /\ Settled(b)'
  <2>1. CASE Starts(o)
    BY <2>1 DEF Starts, client
  <2>2. CASE Probes(o)
    BY <1>3, <2>2 DEF Probes, client
  <2>3. CASE Binds(o)
    BY <1>1, <2>3 DEF Binds, client
  <2>4. CASE Publishes(o) \/ Closes(o)
    BY <2>4 DEF Publishes, Closes
  <2>5. CASE Leaves(o) \/ Dies(o)
    BY <1>2, <2>5 DEF Leaves, Dies
  <2> QED
    BY <1>4, <2>1, <2>2, <2>3, <2>4, <2>5
<1>5. ASSUME NEW c \in Calls, Request(c)
      PROVE  trouble' = 0 /\ Settled(b)'
  BY <1>5 DEF Request, machine, client, Credentials
<1>6. ASSUME NEW c \in Calls, Runs(c) \/ Answered(c) \/ CallRefused(c) \/ LocalTimeout(c)
      PROVE  trouble' = 0 /\ Settled(b)'
  BY <1>6 DEF Runs, Answered, CallRefused, LocalTimeout, machine, client
<1>7. CASE StrangerGoes
  BY <1>1, <1>7 DEF StrangerGoes
<1>8. CASE Dials
  BY <1>8 DEF Dials, machine
<1>9. CASE DialFails
  BY <1>2, <1>3, <1>9 DEF DialFails
<1>10. CASE Greeted
  BY <1>10 DEF Greeted, Proves, machine
<1>11. CASE Unproven \/ HelloTimeout \/ ClientSocketCloses
  BY <1>11, <1>2 DEF Unproven, HelloTimeout, ClientSocketCloses, Teardown, Calm, machine
<1>12. CASE Close
  BY <1>12 DEF Close, machine
<1>13. CASE UNCHANGED sessionVars
  BY <1>13 DEF sessionVars, machine, client
<1> QED
  BY <1>4, <1>5, <1>6, <1>7, <1>8, <1>9, <1>10, <1>11, <1>12, <1>13 DEF SessionNext

(* A client that fails its calls was closed, or had trouble to do it. *)
LEMMA OnlyTroubleFails ==
    ASSUME SessionTypeOK, trouble = 0, NEW b \in Brokers, Settled(b), NoLeftovers, [SessionNext]_sessionVars
    PROVE  NoLeftovers'
<1>1. b # Stranger /\ b # None /\ b # Legacy
  BY NotBrokers DEF Others
<1>2. ~Trouble
  BY DEF Trouble
<1>3. Answering(b) /\ Usable(b)
  BY <1>1 DEF Settled, Answering, Usable
<1>4. call \in [Calls -> States]
  BY DEF SessionTypeOK, States, Done
<1>5. CASE closed' = closed /\ UNCHANGED begun /\ \A c \in begun : call'[c] = "failed" => call[c] = "failed"
  BY <1>5 DEF NoLeftovers
<1>6. CASE UNCHANGED <<closed, begun, call>>
  BY <1>6 DEF NoLeftovers
<1>7. ASSUME NEW o \in Brokers,
             Starts(o) \/ Probes(o) \/ Binds(o) \/ Publishes(o) \/ Leaves(o) \/ Closes(o) \/ Dies(o)
      PROVE  NoLeftovers'
  BY <1>6, <1>7 DEF Starts, Probes, Binds, Publishes, Leaves, Closes, Dies, client, calls
<1>8. ASSUME NEW c \in Calls, Request(c)
      PROVE  NoLeftovers'
  <2>1. /\ closed' = closed
        /\ begun' \subseteq begun \cup {c}
        /\ call'[c] # "failed" \/ closed
        /\ \A d \in Calls \ {c} : call'[d] = call[d]
    BY <1>3, <1>4, <1>8 DEF Request, Make, client, Credentials, Write, Settled
  <2>2. begun \subseteq Calls
    BY DEF SessionTypeOK
  <2> QED
    BY <2>1, <2>2 DEF NoLeftovers
<1>9. ASSUME NEW c \in Calls, Runs(c) \/ Answered(c) \/ CallRefused(c) \/ LocalTimeout(c)
      PROVE  NoLeftovers'
  <2>1. UNCHANGED <<closed, begun>> /\ \A d \in Calls : call'[d] = "failed" => call[d] = "failed"
    BY <1>4, <1>9 DEF Runs, Answered, CallRefused, LocalTimeout, client
  <2> QED
    BY <1>5, <2>1 DEF SessionTypeOK
<1>10. CASE StrangerGoes \/ Dials \/ UNCHANGED sessionVars
  BY <1>6, <1>10 DEF StrangerGoes, Dials, sessionVars, client, calls
<1>11. CASE Greeted
  <2>1. UNCHANGED <<closed, begun>> /\ \A d \in Calls : call'[d] = "failed" => call[d] = "failed"
    BY <1>4, <1>11 DEF Greeted, Write
  <2> QED
    BY <1>5, <2>1 DEF SessionTypeOK
<1>12. CASE Close
  BY <1>12 DEF Close, NoLeftovers
<1>13. ~DialFails
  BY <1>2, <1>3 DEF DialFails, Settled
<1>14. ~Unproven /\ ~HelloTimeout
  BY <1>1, <1>2 DEF Unproven, HelloTimeout, BrokerAccepts, BrokerRefuses, Settled
<1>15. ~ClientSocketCloses
  BY <1>2, <1>3 DEF ClientSocketCloses, Settled
<1> QED
  BY <1>7, <1>8, <1>9, <1>10, <1>11, <1>12, <1>13, <1>14, <1>15 DEF SessionNext

LEMMA BegunWhenWell ==
    ASSUME [SessionNext]_sessionVars, begun = {}, begun' # {}
    PROVE  Well
BY DEF SessionNext, sessionVars, machine, client, calls, Starts, Probes, Binds, Publishes, Leaves, Closes, Dies,
       StrangerGoes, Request, Make, Runs, Answered, CallRefused, LocalTimeout, Dials, DialFails, Greeted,
       Unproven, HelloTimeout, ClientSocketCloses, Close

LEMMA LeftStep ==
    ASSUME SessionTypeOK, LeftInv, [SessionNext]_sessionVars
    PROVE  LeftInv'
<1>1. CASE begun' = {}
  BY <1>1 DEF LeftInv, NoLeftovers
<1>2. CASE begun' # {}
  <2>1. trouble = 0 /\ \E b \in Brokers : Settled(b)
    BY <1>2, BegunWhenWell, WellSettles DEF LeftInv
  <2>2. PICK b \in Brokers : Settled(b)
    BY <2>1
  <2>3. trouble' = 0 /\ Settled(b)'
    BY <2>1, <2>2, SettledStays
  <2>4. NoLeftovers'
    BY <2>1, <2>2, OnlyTroubleFails DEF LeftInv
  <2> QED
    BY <2>3, <2>4 DEF LeftInv
<1> QED
  BY <1>1, <1>2

(* A call made once nothing is wrong any more is not failed by what an     *)
(* earlier one left behind: a rejected dial, a stale token, an old socket  *)
(* (client.mjs, #ready, #connect and #teardown).                           *)
THEOREM NothingIsLeftBehind == SessionSpec => []NoLeftovers
<1>1. SessionInit => LeftInv
  BY DEF SessionInit, LeftInv, NoLeftovers
<1>2. SessionTypeOK /\ LeftInv /\ [SessionNext]_sessionVars => LeftInv'
  BY LeftStep
<1>3. LeftInv => NoLeftovers
  BY DEF LeftInv
<1> QED
  BY <1>1, <1>2, <1>3, SessionTypes, PTL DEF SessionSpec
=============================================================================
