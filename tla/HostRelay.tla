----------------------------- MODULE HostRelay ------------------------------
(***************************************************************************)
(* The native messaging host (host/index.mjs): one process behind one port *)
(* of the extension, relaying between the browser's stdio and the broker's *)
(* pipe, which it dials again whenever it is lost.  A handler here never   *)
(* awaits, so each is one step; what interleaves is the browser's frames,  *)
(* the pipe's events, the timers, and both pipes filling up.               *)
(* The extension posts one REGISTER on a port (link.js).  The peer of the  *)
(* pipe is the broker, or something else that owns the pipe's name.        *)
(***************************************************************************)
EXTENDS Naturals, Sequences, SequencesExt

CONSTANTS
    Reqs,          \* ids of the browser's own requests
    Register,      \* its introduction
    Frame,         \* anything else it says: a PONG, a RES, an EVENT
    BufferMax,     \* OUTBOUND_BUFFER_MAX
    PendingMax,    \* PENDING_REQ_MAX
    MaxTrouble     \* a bound of the model: how often something goes wrong

ASSUME HostAssumption ==
    /\ Register \notin Reqs /\ Frame \notin Reqs \cup {Register}
    /\ BufferMax \in Nat \ {0} /\ PendingMax \in Nat \ {0} /\ MaxTrouble \in Nat

VARIABLES
    link, sock, peer, awaiting,     \* the broker's side of the relay
    retry,                          \* reconnectTimer is set
    registered, replaced, shut,     \* browserRegistered, replaced, shuttingDown
    outbound, pending,              \* outbound, pendingReqIds in their order
    socketBlocked, stdinPaused,     \* the pipe is full; the browser is not read
    stdoutBlocked, sockPaused,      \* stdout is full; the pipe is not read
    has,                            \* what the peer of this socket was given
    posted, told, answered,         \* what the browser said, and heard
    lost, trouble                   \* history; what may still go wrong

relay == <<link, sock, peer, awaiting, retry, registered, replaced, shut, outbound, pending>>
pipes == <<socketBlocked, stdinPaused, stdoutBlocked, sockPaused>>
world == <<has, posted, told, answered, lost>>
vars == <<relay, pipes, world, trouble>>

Msgs == Reqs \cup {Register, Frame}

-----------------------------------------------------------------------------
(* The relay as a value, and the functions of host/index.mjs on it.        *)

Now == [link |-> link, sock |-> sock, peer |-> peer, awaiting |-> awaiting, retry |-> retry,
        registered |-> registered, replaced |-> replaced, shut |-> shut,
        outbound |-> outbound, pending |-> pending,
        socketBlocked |-> socketBlocked, stdinPaused |-> stdinPaused,
        stdoutBlocked |-> stdoutBlocked, sockPaused |-> sockPaused,
        has |-> has, posted |-> posted, told |-> told, answered |-> answered,
        lost |-> lost]

Become(b) ==
    /\ link' = b.link /\ sock' = b.sock /\ peer' = b.peer /\ awaiting' = b.awaiting
    /\ retry' = b.retry /\ registered' = b.registered /\ replaced' = b.replaced
    /\ shut' = b.shut /\ outbound' = b.outbound /\ pending' = b.pending
    /\ socketBlocked' = b.socketBlocked /\ stdinPaused' = b.stdinPaused
    /\ stdoutBlocked' = b.stdoutBlocked /\ sockPaused' = b.sockPaused
    /\ has' = b.has /\ posted' = b.posted /\ told' = b.told /\ answered' = b.answered
    /\ lost' = b.lost

(* A process that has just started: its first connect() has dialed, or     *)
(* found no credentials to dial with.                                      *)
Started(dialed) ==
    [link |-> IF dialed THEN "CONNECTING" ELSE "DOWN",
     sock |-> IF dialed THEN "dialing" ELSE "none",
     peer |-> "broker", awaiting |-> dialed, retry |-> ~dialed,
     registered |-> FALSE, replaced |-> FALSE, shut |-> FALSE,
     outbound |-> <<>>, pending |-> <<>>,
     socketBlocked |-> FALSE, stdinPaused |-> FALSE,
     stdoutBlocked |-> FALSE, sockPaused |-> FALSE,
     has |-> {}, posted |-> {}, told |-> "none", answered |-> [q \in Reqs |-> 0],
     lost |-> {}]

(* What of s is in S, in its order. *)
Only(s, S) ==
    LET f[i \in 0..Len(s)] ==
            IF i = 0 THEN <<>> ELSE IF s[i] \in S THEN Append(f[i - 1], s[i]) ELSE f[i - 1]
    IN f[Len(s)]

(* The frames of s are written to the pipe in order.  Ids past the bound   *)
(* are no longer remembered, oldest first.                                 *)
HandOver(b, s) ==
    LET ids  == b.pending \o Only(s, Reqs)
        over == IF Len(ids) > PendingMax THEN Len(ids) - PendingMax ELSE 0
    IN [b EXCEPT !.pending = SubSeq(ids, over + 1, Len(ids)),
                 !.lost = @ \cup {ids[i] : i \in 1..over},
                 !.registered = @ \/ Register \in ToSet(s),
                 !.has = @ \cup (ToSet(s) \ {Frame})]

(* The pipe asks to wait: the browser is not read until it drains.         *)
WriteFills(b, full) ==
    IF full /\ ~b.socketBlocked
    THEN [b EXCEPT !.socketBlocked = TRUE, !.stdinPaused = TRUE] ELSE b

(* A frame for the browser; stdout may ask to wait.                        *)
SendToBrowser(b, full) ==
    IF full /\ ~b.stdoutBlocked
    THEN [b EXCEPT !.stdoutBlocked = TRUE, !.sockPaused = (b.sock # "none")] ELSE b

(* A full buffer drops its oldest frame.                                   *)
BufferOutbound(b, m) ==
    LET s == Append(b.outbound, m) IN
    IF Len(s) > BufferMax
    THEN [b EXCEPT !.outbound = Tail(s), !.lost = @ \cup ({Head(s)} \cap Reqs)]
    ELSE [b EXCEPT !.outbound = s]

FlushOutbound(b) == HandOver([b EXCEPT !.outbound = <<>>], b.outbound)

(* Mutant: what was asked is forgotten with the socket.                    *)
ForgetPendingRequests(b) == [b EXCEPT !.pending = <<>>]

FailPendingRequests(b) ==
    [b EXCEPT !.pending = <<>>,
              !.answered = [q \in Reqs |->
                               IF q \in ToSet(b.pending) THEN @[q] + 1 ELSE @[q]]]

(* At most one REGISTER waits: the extension posts one on a port.          *)
DropRegister(s) ==
    LET at == {i \in DOMAIN s : s[i] = Register}
    IN IF at = {} THEN s ELSE RemoveAt(s, CHOOSE i \in at : TRUE)

(* Mutant: a REGISTER still in the buffer goes out at the next dial.       *)
RefuseButReplay(b) ==
    IF ~b.registered THEN b ELSE [b EXCEPT !.registered = FALSE, !.told = "void"]

RefuseRegistration(b) ==
    IF ~b.registered THEN b
    ELSE [b EXCEPT !.registered = FALSE,
                   !.outbound = DropRegister(@),
                   !.told = "void"]

(* Mutant: only a link that was lost is dialed again.                      *)
OnSocketClosedOnce(b) ==
    LET c == [b EXCEPT !.link = "DOWN", !.sock = "none", !.awaiting = FALSE,
                       !.socketBlocked = FALSE, !.stdinPaused = FALSE,
                       !.sockPaused = FALSE, !.has = {}]
    IN IF c.replaced
       THEN [c EXCEPT !.pending = <<>>, !.lost = @ \cup ToSet(c.pending)]
       ELSE [RefuseRegistration(FailPendingRequests(c)) EXCEPT !.retry = (b.link = "READY")]

OnSocketClosed(b) ==
    LET c == [b EXCEPT !.link = "DOWN", !.sock = "none", !.awaiting = FALSE,
                       !.socketBlocked = FALSE, !.stdinPaused = FALSE,
                       !.sockPaused = FALSE, !.has = {}]
    IN IF c.replaced
       THEN [c EXCEPT !.pending = <<>>, !.lost = @ \cup ToSet(c.pending)]
       ELSE [RefuseRegistration(FailPendingRequests(c)) EXCEPT !.retry = TRUE]

(* Only the broker can prove that it holds this boot's token. *)
JudgeFirstFrame(frame, who) ==
    CASE frame = "other" -> "out-of-order"
      [] frame = "nack"  -> "refused"
      [] frame = "ack"   -> IF who = "broker" THEN "ready" ELSE "impostor"

-----------------------------------------------------------------------------
Calm == UNCHANGED trouble
Trouble == trouble > 0 /\ trouble' = trouble - 1

Init ==
    /\ \E dialed \in BOOLEAN :
        LET b == Started(dialed) IN
        /\ link = b.link /\ sock = b.sock /\ peer = b.peer /\ awaiting = b.awaiting
        /\ retry = b.retry /\ registered = b.registered /\ replaced = b.replaced
        /\ shut = b.shut /\ outbound = b.outbound /\ pending = b.pending
        /\ socketBlocked = b.socketBlocked /\ stdinPaused = b.stdinPaused
        /\ stdoutBlocked = b.stdoutBlocked /\ sockPaused = b.sockPaused
        /\ has = b.has /\ posted = b.posted /\ told = b.told /\ answered = b.answered
        /\ lost = b.lost
    /\ trouble = MaxTrouble

(* The broker link.                                                        *)

(* The reconnect timer.  Without a token or a scheme it comes back to this. *)
Connect ==
    /\ ~shut /\ retry
    /\ Become([Now EXCEPT !.retry = FALSE, !.link = "CONNECTING", !.sock = "dialing",
                          !.awaiting = TRUE])
    /\ Calm

Connected(who) ==
    /\ ~shut /\ sock = "dialing"
    /\ Become([Now EXCEPT !.sock = "open", !.peer = who])
    /\ IF who = "broker" THEN Calm ELSE Trouble

DialFails ==
    /\ ~shut /\ sock = "dialing"
    /\ \E full \in BOOLEAN : Become(OnSocketClosed(SendToBrowser(Now, full)))
    /\ Trouble

(* No answer to our HELLO. *)
AckTimeout ==
    /\ ~shut /\ sock = "open" /\ awaiting
    /\ Become([Now EXCEPT !.sock = "destroyed"])
    /\ IF peer = "broker" THEN Trouble ELSE Calm

(* The peer closes, the pipe breaks, a frame does not decode. *)
Breaks ==
    /\ ~shut /\ sock = "open"
    /\ Become([Now EXCEPT !.sock = "destroyed"])
    /\ IF replaced THEN Calm ELSE Trouble

Closed ==
    /\ ~shut /\ sock = "destroyed"
    /\ \E full \in BOOLEAN : Become(SendToBrowser(OnSocketClosed(Now), full))
    /\ Calm

(* handleFromBroker: the first frame must answer our own HELLO. *)
FirstFrame(frame) ==
    /\ ~shut /\ sock = "open" /\ awaiting /\ ~sockPaused
    /\ LET b == [Now EXCEPT !.awaiting = FALSE] IN
       IF JudgeFirstFrame(frame, peer) = "ready"
       THEN \E full \in BOOLEAN :
              Become(WriteFills(FlushOutbound([b EXCEPT !.link = "READY"]),
                                full /\ outbound # <<>>))
       ELSE Become([b EXCEPT !.sock = "destroyed"])
    /\ IF peer = "broker" /\ frame # "ack" THEN Trouble ELSE Calm

(* The rest of a chunk may be handled while the socket is being destroyed. *)
Heard == ~shut /\ ~awaiting /\ ~sockPaused
         /\ (sock = "open" \/ (sock = "destroyed" /\ link # "READY"))

(* A PING, a REQ, an EVENT: only a proven link relays. *)
Speaks ==
    /\ Heard
    /\ IF link = "READY"
       THEN \E full \in BOOLEAN :
              Become(SendToBrowser(Now, full))
       ELSE Become(Now)
    /\ Calm

Routed == Heard /\ link = "READY" /\ peer = "broker"

Answers(q) ==
    /\ Routed /\ q \in has
    /\ \E full \in BOOLEAN :
        Become(SendToBrowser([Now EXCEPT !.has = @ \ {q},
                                         !.pending = Only(@, Reqs \ {q}),
                                         !.answered[q] = @ + 1], full))
    /\ Calm

RegisterAcked(ok) ==
    /\ Routed /\ Register \in has /\ told = "asked"
    /\ \E full \in BOOLEAN :
        Become(SendToBrowser(
            IF ok THEN [Now EXCEPT !.told = "ok"]
            ELSE [Now EXCEPT !.told = "refused", !.has = @ \ {Register}], full))
    /\ IF ok THEN Calm ELSE Trouble

(* A newer registration of the profile took this connection's route. *)
NoticeReplaced ==
    /\ Routed /\ Register \in has
    /\ Become([Now EXCEPT !.replaced = TRUE])
    /\ Trouble

-----------------------------------------------------------------------------
(* The browser.                                                            *)

FromBrowserConnecting(b, m) ==
    BufferOutbound([b EXCEPT !.registered = @ \/ m = Register], m)

FromBrowserDown(b, m) ==
    CASE m = Register -> [b EXCEPT !.told = "void"]
      [] m \in Reqs   -> [b EXCEPT !.answered[m] = @ + 1]
      [] m = Frame    -> BufferOutbound(b, m)

(* handleFromBrowser. *)
BrowserSays(m) ==
    /\ ~shut /\ ~stdinPaused /\ m \notin posted \ {Frame}
    /\ LET b == [Now EXCEPT !.posted = @ \cup ({m} \ {Frame}),
                            !.told = IF m = Register THEN "asked" ELSE @]
       IN \E full \in BOOLEAN :
            Become(CASE link = "READY"      -> WriteFills(HandOver(b, <<m>>), full)
                     [] link = "CONNECTING" -> FromBrowserConnecting(b, m)
                     [] link = "DOWN"       -> SendToBrowser(FromBrowserDown(b, m),
                                                             full /\ m # Frame))
    /\ Calm

Drains ==
    /\ ~shut /\ sock = "open" /\ socketBlocked
    /\ Become([Now EXCEPT !.socketBlocked = FALSE, !.stdinPaused = FALSE])
    /\ Calm

StdoutDrains ==
    /\ ~shut /\ stdoutBlocked
    /\ Become([Now EXCEPT !.stdoutBlocked = FALSE, !.sockPaused = FALSE])
    /\ Calm

(* Only a broker that has proven itself gets what is buffered. *)
Shutdown(b) ==
    IF b.sock # "none" /\ b.link = "READY" THEN [FlushOutbound(b) EXCEPT !.shut = TRUE]
    ELSE [b EXCEPT !.shut = TRUE, !.outbound = <<>>]

(* An extension that heard its link is over closes the port, or the browser *)
(* does; so does a stdout that fails.                                      *)
PortCloses ==
    /\ ~shut /\ Become(Shutdown(Now))
    /\ IF told \in {"void", "refused"} \/ replaced THEN Calm ELSE Trouble

(* The extension opens another port: another process. *)
PortOpens ==
    /\ shut
    /\ \E dialed \in BOOLEAN :
        /\ Become(Started(dialed))
        /\ IF dialed THEN Calm ELSE Trouble

-----------------------------------------------------------------------------
Next ==
    \/ Connect \/ DialFails \/ AckTimeout \/ Breaks \/ Closed
    \/ \E who \in {"broker", "impostor"} : Connected(who)
    \/ \E frame \in {"ack", "nack", "other"} : FirstFrame(frame)
    \/ Speaks \/ NoticeReplaced
    \/ \E q \in Reqs : Answers(q)
    \/ \E ok \in BOOLEAN : RegisterAcked(ok)
    \/ \E m \in Msgs : BrowserSays(m)
    \/ Drains \/ StdoutDrains \/ PortCloses \/ PortOpens

Spec == Init /\ [][Next]_vars

(* Timers fire, a socket that was destroyed closes, a dial ends, the broker *)
(* answers HELLO, stdout drains because the browser reads, and a port that *)
(* closed is opened again.                                                 *)
Fairness ==
    /\ WF_vars(Connect) /\ WF_vars(Closed) /\ WF_vars(Connected("broker"))
    /\ WF_vars(peer # "broker" /\ AckTimeout)
    /\ SF_vars(FirstFrame("ack"))
    /\ WF_vars(StdoutDrains) /\ WF_vars(PortOpens)

FairSpec == Spec /\ Fairness

-----------------------------------------------------------------------------
(* Properties.                                                             *)

(* While no broker is linked, no introduction stands: whether it was       *)
(* handed over or still waited in the buffer, and even if the buffer       *)
(* dropped it, the extension has been told that it is void                 *)
(* (host/index.mjs:121-127, 339-341, 402-440).                             *)
OrphanHears ==
    link = "DOWN" /\ ~replaced /\ ~shut => told \notin {"asked", "ok"}

(* A request of the browser is answered at most once, and one that was not *)
(* is with a broker that is still linked, or waits for one, unless a bound *)
(* or a replacement dropped it (host/index.mjs:365-400).                   *)
RequestsAccounted ==
    \A q \in posted \cap Reqs :
        /\ answered[q] <= 1
        /\ answered[q] = 0 /\ ~shut =>
            \/ q \in ToSet(outbound) \cup lost
            \/ link = "READY" /\ q \in ToSet(pending)

(* What the relay loses with its link it says: an introduction is void,    *)
(* a request of the browser is failed.                                     *)
NothingIsLostInSilence == OrphanHears /\ RequestsAccounted

(* Behind the relay, a registration is what the extension takes it for.    *)
Promise == INSTANCE Registration WITH
    told  <- IF shut THEN "none" ELSE told,
    route <- Register \in has /\ ~shut,
    newer <- replaced /\ ~shut

(* No broker holds an introduction that was voided, refused or never made; *)
(* one that holds it is lost only with a word to the extension, or to a    *)
(* newer registration (host/index.mjs:402-440).                            *)
Registers == Promise!Spec

(* Once things stop going wrong the relay is linked for good, or a newer   *)
(* registration has taken its place (host/index.mjs:263-274).              *)
RelayRecovers == <>[](link = "READY" \/ replaced)
=============================================================================
