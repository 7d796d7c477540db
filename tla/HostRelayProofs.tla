-------------------------- MODULE HostRelayProofs ---------------------------
(***************************************************************************)
(* The relay implements Registration for any buffer, any number of         *)
(* requests and any amount of trouble: an introduction stands with a       *)
(* broker only while the extension takes it to stand, and while none is    *)
(* linked the extension knows that it does not.                            *)
(*                                                                         *)
(* Stands(b) is what holds of the relay's state between two steps.  The    *)
(* introduction is either with the broker of a proven link, or waits in    *)
(* the buffer of one that is being dialed, and registered is set in both   *)
(* cases: a socket that closes then finds something to refuse.             *)
(***************************************************************************)
EXTENDS HostRelay, WellFoundedInduction, TLAPS

Has(b) == Register \in b.has

Types(b) ==
    /\ b.link \in {"DOWN", "CONNECTING", "READY"}
    /\ b.sock \in {"none", "dialing", "open", "destroyed"}
    /\ b.awaiting \in BOOLEAN /\ b.retry \in BOOLEAN /\ b.registered \in BOOLEAN
    /\ b.replaced \in BOOLEAN /\ b.shut \in BOOLEAN
    /\ b.outbound \in Seq(Msgs)
    /\ b.told \in {"none", "asked", "ok", "refused", "void"}

Posted(b) ==
    /\ b.told = "none" <=> Register \notin b.posted
    /\ b.replaced \/ b.registered => b.told # "none"
    /\ b.told \in {"asked", "ok"} => b.registered /\ (b.link # "DOWN" \/ b.replaced)

Waits(b) ==
    /\ \A i \in 1..Len(b.outbound) : b.outbound[i] = Register =>
         b.told = "asked" /\ ~Has(b) /\ ~b.replaced
    /\ \A i, j \in 1..Len(b.outbound) :
         b.outbound[i] = Register /\ b.outbound[j] = Register => i = j

Linked(b) ==
    /\ Has(b) => b.link = "READY" /\ b.told \in {"asked", "ok"}
    /\ b.link = "READY" => b.sock \in {"open", "destroyed"}
    /\ b.awaiting => b.link = "CONNECTING"
    /\ b.sock = "dialing" => b.link = "CONNECTING"
    /\ b.retry => b.link = "DOWN"

Stands(b) == Types(b) /\ (~b.shut => Posted(b) /\ Waits(b) /\ Linked(b))

HostInv == Stands(Now)

(* What the relay shows of the registration, and how that may change:      *)
(* Registration!Next, of two states of the relay.                          *)
Told(b) == IF b.shut THEN "none" ELSE b.told
Route(b) == Has(b) /\ ~b.shut
Newer(b) == b.replaced /\ ~b.shut

Allowed(b, c) ==
    \/ Told(c) = Told(b) /\ (Route(c) <=> Route(b)) /\ (Newer(c) <=> Newer(b))
    \/ Told(b) = "none" /\ Told(c) = "asked" /\ (Newer(c) <=> Newer(b))
    \/ Told(b) = "asked" /\ ~Route(b) /\ Told(c) = "asked" /\ Route(c) /\ (Newer(c) <=> Newer(b))
    \/ Told(b) = "asked" /\ Route(b) /\ Told(c) = "ok" /\ Route(c) /\ (Newer(c) <=> Newer(b))
    \/ Told(b) = "asked" /\ Route(b) /\ Told(c) = "refused" /\ ~Route(c) /\ (Newer(c) <=> Newer(b))
    \/ Told(c) = "void" /\ ~Route(c) /\ (Newer(c) <=> Newer(b))
    \/ Route(b) /\ Told(c) = Told(b) /\ Route(c) /\ Newer(c)
    \/ Newer(b) /\ Route(b) /\ Told(c) = Told(b) /\ ~Route(c) /\ Newer(c)
    \/ Told(c) = "none" /\ ~Route(c) /\ ~Newer(c)

Good(b, c) == Stands(c) /\ Allowed(b, c)

(* b and c differ in nothing that matters to the introduction.             *)
Same(b, c) ==
    /\ c.link = b.link /\ c.sock = b.sock /\ c.awaiting = b.awaiting /\ c.retry = b.retry
    /\ c.registered = b.registered /\ c.replaced = b.replaced /\ c.shut = b.shut
    /\ c.outbound = b.outbound /\ c.posted = b.posted /\ c.told = b.told
    /\ Has(c) <=> Has(b)

LEMMA SameIsGood ==
    ASSUME NEW b, NEW c, NEW d, Same(c, d), Good(b, c)
    PROVE  Good(b, d)
BY DEF Same, Good, Stands, Types, Posted, Waits, Linked, Allowed, Told, Route, Newer

(* b has the fields of a relay. *)
Shaped(b) ==
    DOMAIN b = {"link", "sock", "peer", "awaiting", "retry", "registered", "replaced", "shut",
                "outbound", "pending", "socketBlocked", "stdinPaused", "stdoutBlocked",
                "sockPaused", "has", "posted", "told", "answered", "lost"}

LEMMA NowShaped == Shaped(Now)
BY DEF Shaped, Now

LEMMA SendKeeps ==
    ASSUME NEW b, Shaped(b), NEW full
    PROVE  Same(b, SendToBrowser(b, full)) /\ Same(b, WriteFills(b, full))
BY DEF Shaped, Same, Has, SendToBrowser, WriteFills

LEMMA HandOverKeeps ==
    ASSUME NEW b, Shaped(b), b.registered \in BOOLEAN, NEW s
    PROVE  LET c == HandOver(b, s) IN
           /\ Shaped(c)
           /\ c.link = b.link /\ c.sock = b.sock /\ c.awaiting = b.awaiting /\ c.retry = b.retry
           /\ c.replaced = b.replaced /\ c.shut = b.shut
           /\ c.outbound = b.outbound /\ c.posted = b.posted /\ c.told = b.told
           /\ c.registered = (b.registered \/ Register \in ToSet(s))
           /\ Has(c) <=> Has(b) \/ Register \in ToSet(s)
BY HostAssumption DEF Shaped, Has, HandOver

LEMMA DropsRegister ==
    ASSUME NEW s \in Seq(Msgs),
           \A i, j \in 1..Len(s) : s[i] = Register /\ s[j] = Register => i = j
    PROVE  /\ DropRegister(s) \in Seq(Msgs)
           /\ \A i \in 1..Len(DropRegister(s)) : DropRegister(s)[i] # Register
<1> DEFINE at == {i \in DOMAIN s : s[i] = Register}
<1>1. CASE at = {}
  BY <1>1 DEF DropRegister
<1>2. CASE at # {}
  <2>1. PICK k \in at : k = CHOOSE i \in at : TRUE
    BY <1>2
  <2>2. /\ k \in 1..Len(s) /\ Len(s) \in Nat
        /\ \A i \in 1..Len(s) : i # k => s[i] # Register
        /\ \A i \in 1..Len(s) : s[i] \in Msgs
    BY <2>1
  <2>3. DropRegister(s) = SubSeq(s, 1, k - 1) \o SubSeq(s, k + 1, Len(s))
    BY <1>2, <2>1 DEF DropRegister, RemoveAt
  <2> DEFINE before == SubSeq(s, 1, k - 1)
             after == SubSeq(s, k + 1, Len(s))
  <2>4. /\ before \in Seq(Msgs) /\ Len(before) = k - 1
        /\ \A i \in 1..(k - 1) : before[i] = s[i]
    BY <2>2
  <2>5. /\ after \in Seq(Msgs) /\ Len(after) = Len(s) - k
        /\ \A i \in 1..(Len(s) - k) : after[i] = s[i + k]
    BY <2>2
  <2> HIDE DEF before, after
  <2>6. /\ before \o after \in Seq(Msgs) /\ Len(before \o after) = Len(s) - 1
        /\ \A i \in 1..(Len(s) - 1) :
             (before \o after)[i] = IF i <= k - 1 THEN before[i] ELSE after[i - (k - 1)]
    BY <2>2, <2>4, <2>5
  <2>7. ASSUME NEW i \in 1..(Len(s) - 1) PROVE (before \o after)[i] # Register
    <3>1. CASE i <= k - 1
      BY <2>2, <2>4, <2>6, <3>1
    <3>2. CASE i > k - 1
      <4>1. i - (k - 1) \in 1..(Len(s) - k) /\ i - (k - 1) + k \in 1..Len(s) /\ i - (k - 1) + k # k
        BY <2>2, <3>2
      <4>2. (before \o after)[i] = s[i - (k - 1) + k]
        BY <2>2, <2>5, <2>6, <3>2, <4>1
      <4> QED
        BY <2>2, <4>1, <4>2
    <3>3. i <= k - 1 \/ i > k - 1
      BY <2>2
    <3> QED
      BY <3>1, <3>2, <3>3
  <2>8. DropRegister(s) = before \o after
    BY <2>3 DEF before, after
  <2>9. Len(DropRegister(s)) = Len(s) - 1
    BY <2>6, <2>8
  <2> QED
    BY <2>6, <2>7, <2>8, <2>9
<1> QED
  BY <1>1, <1>2

(* A socket that closes takes the introduction with it, and says so.       *)
LEMMA CloseIsHeard ==
    ASSUME NEW b, Shaped(b), Stands(b), ~b.shut
    PROVE  Shaped(OnSocketClosed(b)) /\ Good(b, OnSocketClosed(b))
<1> DEFINE c == [b EXCEPT !.link = "DOWN", !.sock = "none", !.awaiting = FALSE,
                          !.socketBlocked = FALSE, !.stdinPaused = FALSE,
                          !.sockPaused = FALSE, !.has = {}]
           d == OnSocketClosed(b)
<1>1. /\ Shaped(c)
      /\ c.replaced = b.replaced /\ c.registered = b.registered /\ c.told = b.told
      /\ c.outbound = b.outbound /\ c.posted = b.posted /\ c.shut = b.shut
      /\ c.retry = b.retry
      /\ c.link = "DOWN" /\ c.sock = "none" /\ c.awaiting = FALSE /\ c.has = {}
  BY DEF Shaped
<1>2. CASE b.replaced
  <2>1. d = [c EXCEPT !.pending = <<>>, !.lost = @ \cup ToSet(c.pending)]
    BY <1>1, <1>2 DEF OnSocketClosed
  <2> HIDE DEF c, d
  <2>2. Shaped(d) /\ Same(c, d)
    BY <1>1, <2>1 DEF Shaped, Same, Has
  <2>3. Good(b, c)
    BY <1>1, <1>2 DEF Good, Stands, Types, Posted, Waits, Linked, Allowed, Told, Route, Newer, Has
  <2> QED
    BY <2>2, <2>3, SameIsGood DEF d
<1>3. CASE ~b.replaced
  <2> DEFINE e == FailPendingRequests(c)
  <2>1. d = [RefuseRegistration(e) EXCEPT !.retry = TRUE]
    BY <1>1, <1>3 DEF OnSocketClosed
  <2>2. /\ Shaped(e)
        /\ e.replaced = b.replaced /\ e.registered = b.registered /\ e.told = b.told
        /\ e.outbound = b.outbound /\ e.posted = b.posted /\ e.shut = b.shut
        /\ e.link = "DOWN" /\ e.sock = "none" /\ e.awaiting = FALSE /\ e.has = {}
    BY <1>1 DEF FailPendingRequests, Shaped
  <2> HIDE DEF e, c, d
  <2>3. CASE b.registered
    <3> DEFINE f == [e EXCEPT !.registered = FALSE, !.outbound = DropRegister(@), !.told = "void"]
    <3>1. d = [f EXCEPT !.retry = TRUE]
      BY <2>1, <2>2, <2>3 DEF RefuseRegistration
    <3>2. /\ Shaped(f) /\ f.replaced = b.replaced /\ f.registered = FALSE /\ f.told = "void"
          /\ f.outbound = DropRegister(b.outbound) /\ f.posted = b.posted /\ f.shut = b.shut
          /\ f.link = "DOWN" /\ f.sock = "none" /\ f.awaiting = FALSE /\ f.has = {}
      BY <2>2 DEF Shaped
    <3> HIDE DEF f
    <3>3. /\ Shaped(d) /\ d.replaced = b.replaced /\ d.registered = FALSE /\ d.told = "void"
          /\ d.outbound = DropRegister(b.outbound) /\ d.posted = b.posted /\ d.shut = b.shut
          /\ d.link = "DOWN" /\ d.sock = "none" /\ d.awaiting = FALSE /\ d.has = {} /\ d.retry = TRUE
      BY <3>1, <3>2 DEF Shaped
    <3>4. /\ DropRegister(b.outbound) \in Seq(Msgs)
          /\ \A i \in 1..Len(DropRegister(b.outbound)) : DropRegister(b.outbound)[i] # Register
      BY DropsRegister DEF Stands, Types, Waits
    <3>5. Stands(d)
      BY <1>3, <2>3, <3>3, <3>4 DEF Stands, Types, Posted, Waits, Linked, Has
    <3>6. Allowed(b, d)
      BY <3>3 DEF Allowed, Told, Route, Newer, Has
    <3> QED
      BY <3>3, <3>5, <3>6 DEF Good, d
  <2>4. CASE ~b.registered
    <3>1. d = [e EXCEPT !.retry = TRUE]
      BY <2>1, <2>2, <2>4 DEF RefuseRegistration
    <3>2. /\ Shaped(d) /\ d.replaced = b.replaced /\ d.registered = b.registered /\ d.told = b.told
          /\ d.outbound = b.outbound /\ d.posted = b.posted /\ d.shut = b.shut
          /\ d.link = "DOWN" /\ d.sock = "none" /\ d.awaiting = FALSE /\ d.has = {} /\ d.retry = TRUE
      BY <2>2, <3>1 DEF Shaped
    <3>3. Stands(d)
      BY <1>3, <2>4, <3>2 DEF Stands, Types, Posted, Waits, Linked, Has
    <3>4. Allowed(b, d)
      BY <1>3, <2>4, <3>2 DEF Allowed, Told, Route, Newer, Has, Stands, Types, Posted, Linked
    <3> QED
      BY <3>2, <3>3, <3>4 DEF Good, d
  <2> QED
    BY <2>3, <2>4 DEF Stands, Types
<1> QED
  BY <1>2, <1>3 DEF Stands, Types
-----------------------------------------------------------------------------
(* The steps.                                                              *)

LEMMA NowIs ==
    /\ Shaped(Now)
    /\ Now.link = link /\ Now.sock = sock /\ Now.awaiting = awaiting /\ Now.retry = retry
    /\ Now.registered = registered /\ Now.replaced = replaced /\ Now.shut = shut
    /\ Now.outbound = outbound /\ Now.posted = posted /\ Now.told = told
    /\ Now.has = has
BY DEF Now, Shaped

LEMMA BecomeIs ==
    ASSUME NEW b, Become(b), Good(Now, b)
    PROVE  Good(Now, Now')
<1>1. Same(b, Now')
  BY DEF Become, Same, Has, Now
<1> QED
  BY <1>1, SameIsGood

LEMMA StandsStill ==
    ASSUME NEW b, Stands(b)
    PROVE  Good(b, b)
BY DEF Good, Allowed

(* What is being dialed, or opened, holds no introduction.                 *)
LEMMA ConnectGood ==
    ASSUME HostInv, Connect
    PROVE  Good(Now, Now')
<1> DEFINE b == [Now EXCEPT !.retry = FALSE, !.link = "CONNECTING", !.sock = "dialing",
                            !.awaiting = TRUE]
<1>1. ~shut /\ retry /\ Become(b)
  BY DEF Connect
<1>2. /\ b.link = "CONNECTING" /\ b.sock = "dialing" /\ b.awaiting = TRUE /\ b.retry = FALSE
      /\ b.registered = registered /\ b.replaced = replaced /\ b.shut = shut
      /\ b.outbound = outbound /\ b.posted = posted /\ b.told = told /\ b.has = has
  BY DEF Now
<1> HIDE DEF b
<1>3. Good(Now, b)
  BY <1>1, <1>2, NowIs DEF HostInv, Good, Stands, Types, Posted, Waits, Linked, Allowed, Told, Route, Newer, Has
<1> QED
  BY <1>1, <1>3, BecomeIs

LEMMA ConnectedGood ==
    ASSUME HostInv, NEW who, Connected(who)
    PROVE  Good(Now, Now')
<1> DEFINE b == [Now EXCEPT !.sock = "open", !.peer = who]
<1>1. ~shut /\ sock = "dialing" /\ Become(b)
  BY DEF Connected
<1>2. /\ b.sock = "open" /\ b.link = link /\ b.awaiting = awaiting /\ b.retry = retry
      /\ b.registered = registered /\ b.replaced = replaced /\ b.shut = shut
      /\ b.outbound = outbound /\ b.posted = posted /\ b.told = told /\ b.has = has
  BY DEF Now
<1> HIDE DEF b
<1>3. Good(Now, b)
  BY <1>1, <1>2, NowIs DEF HostInv, Good, Stands, Types, Posted, Waits, Linked, Allowed, Told, Route, Newer, Has
<1> QED
  BY <1>1, <1>3, BecomeIs

(* A socket that is destroyed, with or without its proof still to come,    *)
(* keeps what its broker holds until it closes.                            *)
LEMMA DestroyedGood ==
    ASSUME HostInv, AckTimeout \/ Breaks
    PROVE  Good(Now, Now')
<1> DEFINE b == [Now EXCEPT !.sock = "destroyed"]
<1>1. sock = "open" /\ Become(b)
  BY DEF AckTimeout, Breaks
<1>2. /\ b.sock = "destroyed" /\ b.link = link /\ b.awaiting = awaiting /\ b.retry = retry
      /\ b.registered = registered /\ b.replaced = replaced /\ b.shut = shut
      /\ b.outbound = outbound /\ b.posted = posted /\ b.told = told /\ b.has = has
  BY DEF Now
<1> HIDE DEF b
<1>3. Good(Now, b)
  BY <1>1, <1>2, NowIs DEF HostInv, Good, Stands, Types, Posted, Waits, Linked, Allowed, Told, Route, Newer, Has
<1> QED
  BY <1>1, <1>3, BecomeIs

(* A proof that holds lets out what the buffer keeps; anything else ends   *)
(* the socket.                                                             *)
LEMMA FirstFrameGood ==
    ASSUME HostInv, NEW frame \in {"ack", "nack", "other"}, FirstFrame(frame)
    PROVE  Good(Now, Now')
<1> DEFINE b == [Now EXCEPT !.awaiting = FALSE]
<1>1. ~shut /\ sock = "open" /\ awaiting
  BY DEF FirstFrame
<1>2. /\ Shaped(b) /\ b.awaiting = FALSE /\ b.sock = sock /\ b.link = link /\ b.retry = retry
      /\ b.registered = registered /\ b.replaced = replaced /\ b.shut = shut
      /\ b.outbound = outbound /\ b.posted = posted /\ b.told = told /\ b.has = has
  BY DEF Now, Shaped
<1>3. \/ Become([b EXCEPT !.sock = "destroyed"])
      \/ \E full \in BOOLEAN :
           Become(WriteFills(FlushOutbound([b EXCEPT !.link = "READY"]), full /\ outbound # <<>>))
  BY DEF FirstFrame
<1> HIDE DEF b
<1>4. CASE Become([b EXCEPT !.sock = "destroyed"])
  <2> DEFINE c == [b EXCEPT !.sock = "destroyed"]
  <2>1. /\ c.awaiting = FALSE /\ c.sock = "destroyed" /\ c.link = link /\ c.retry = retry
        /\ c.registered = registered /\ c.replaced = replaced /\ c.shut = shut
        /\ c.outbound = outbound /\ c.posted = posted /\ c.told = told /\ c.has = has
    BY <1>2 DEF Shaped
  <2> HIDE DEF c
  <2>2. link = "CONNECTING" /\ Register \notin has
    BY <1>1, NowIs DEF HostInv, Stands, Linked, Has
  <2>3. Stands(c)
    <3>1. Types(c)
      BY <2>1, NowIs DEF HostInv, Stands, Types
    <3>2. Posted(c)
      BY <1>1, <2>1, NowIs DEF HostInv, Stands, Posted
    <3>3. Waits(c)
      BY <1>1, <2>1, NowIs DEF HostInv, Stands, Waits, Has
    <3>4. Linked(c)
      BY <1>1, <2>1, <2>2, NowIs DEF HostInv, Stands, Linked, Has
    <3> QED
      BY <3>1, <3>2, <3>3, <3>4 DEF Stands
  <2>4. Allowed(Now, c)
    BY <2>1, NowIs DEF Allowed, Told, Route, Newer, Has
  <2> QED
    BY <1>4, <2>3, <2>4, BecomeIs DEF c, Good
<1>5. ASSUME NEW full \in BOOLEAN,
             Become(WriteFills(FlushOutbound([b EXCEPT !.link = "READY"]), full /\ outbound # <<>>))
      PROVE  Good(Now, Now')
  <2> DEFINE c == [[b EXCEPT !.link = "READY"] EXCEPT !.outbound = <<>>]
             d == HandOver(c, outbound)
  <2>1. d = FlushOutbound([b EXCEPT !.link = "READY"])
    BY <1>2 DEF FlushOutbound, Shaped
  <2>2. /\ Shaped(c) /\ c.awaiting = FALSE /\ c.sock = "open" /\ c.link = "READY" /\ c.retry = retry
        /\ c.registered = registered /\ c.replaced = replaced /\ c.shut = shut
        /\ c.outbound = <<>> /\ c.posted = posted /\ c.told = told /\ c.has = has
    BY <1>1, <1>2 DEF Shaped
  <2> HIDE DEF c
  <2>3. registered \in BOOLEAN
    BY NowIs DEF HostInv, Stands, Types
  <2>4. /\ Shaped(d) /\ d.awaiting = FALSE /\ d.sock = "open" /\ d.link = "READY" /\ d.retry = retry
        /\ d.replaced = replaced /\ d.shut = shut
        /\ d.outbound = <<>> /\ d.posted = posted /\ d.told = told
        /\ d.registered = (registered \/ Register \in ToSet(outbound))
        /\ Has(d) <=> Register \in has \/ Register \in ToSet(outbound)
    BY <2>2, <2>3, HandOverKeeps DEF Has
  <2> HIDE DEF d
  <2>5. Register \in ToSet(outbound) => told = "asked" /\ Register \notin has /\ ~replaced
    BY <1>1, NowIs DEF HostInv, Stands, Types, Waits, Has, ToSet
  <2>6. link = "CONNECTING" /\ Register \notin has /\ ~retry
    BY <1>1, NowIs DEF HostInv, Stands, Linked, Has
  <2>7. Stands(d)
    <3>1. Types(d)
      <4>1. d.registered \in BOOLEAN
        BY <2>3, <2>4
      <4>2. d.outbound \in Seq(Msgs)
        BY <2>4
      <4> QED
        BY <2>4, <4>1, <4>2, NowIs DEF HostInv, Stands, Types
    <3>2. Posted(d)
      BY <1>1, <2>3, <2>4, <2>5, <2>6, NowIs DEF HostInv, Stands, Posted
    <3>3. Waits(d)
      BY <2>4 DEF Waits
    <3>4. Linked(d)
      BY <1>1, <2>4, <2>5, <2>6, NowIs DEF HostInv, Stands, Linked
    <3> QED
      BY <3>1, <3>2, <3>3, <3>4 DEF Stands
  <2>8. Allowed(Now, d)
    BY <1>1, <2>4, <2>5, <2>6, NowIs DEF Allowed, Told, Route, Newer, Has
  <2>9. Good(Now, WriteFills(d, full /\ outbound # <<>>))
    BY <2>4, <2>7, <2>8, SendKeeps, SameIsGood DEF Good
  <2> QED
    BY <1>5, <2>1, <2>9, BecomeIs
<1> QED
  BY <1>3, <1>4, <1>5

LEMMA SpeaksGood ==
    ASSUME HostInv, Speaks
    PROVE  Good(Now, Now')
<1>1. Good(Now, Now)
  BY StandsStill DEF HostInv
<1>2. \A full \in BOOLEAN : Good(Now, SendToBrowser(Now, full))
  BY <1>1, NowIs, SendKeeps, SameIsGood
<1> QED
  BY <1>1, <1>2, BecomeIs DEF Speaks

LEMMA AnswersGood ==
    ASSUME HostInv, NEW q \in Reqs, Answers(q)
    PROVE  Good(Now, Now')
<1> DEFINE b == [Now EXCEPT !.has = @ \ {q},
                            !.pending = Only(@, Reqs \ {q}),
                            !.answered[q] = @ + 1]
<1>1. PICK full \in BOOLEAN : Become(SendToBrowser(b, full))
  BY DEF Answers
<1>2. Shaped(b) /\ Same(Now, b)
  BY HostAssumption DEF Now, Shaped, Same, Has
<1> HIDE DEF b
<1>3. Good(Now, b)
  BY <1>2, StandsStill, SameIsGood DEF HostInv
<1> QED
  BY <1>1, <1>2, <1>3, SendKeeps, SameIsGood, BecomeIs

LEMMA RegisterAckedGood ==
    ASSUME HostInv, NEW ok \in BOOLEAN, RegisterAcked(ok)
    PROVE  Good(Now, Now')
<1> DEFINE b == IF ok THEN [Now EXCEPT !.told = "ok"]
                ELSE [Now EXCEPT !.told = "refused", !.has = @ \ {Register}]
<1>1. PICK full \in BOOLEAN : Become(SendToBrowser(b, full))
  BY DEF RegisterAcked
<1>2. ~shut /\ Register \in has /\ told = "asked"
  BY DEF RegisterAcked, Routed, Heard
<1>3. /\ Shaped(b) /\ b.awaiting = awaiting /\ b.sock = sock /\ b.link = link /\ b.retry = retry
      /\ b.registered = registered /\ b.replaced = replaced /\ b.shut = shut
      /\ b.outbound = outbound /\ b.posted = posted
      /\ b.told = IF ok THEN "ok" ELSE "refused"
      /\ b.has = IF ok THEN has ELSE has \ {Register}
  BY DEF Now, Shaped
<1> HIDE DEF b
<1>4. Stands(b)
  BY <1>2, <1>3, NowIs DEF HostInv, Stands, Types, Posted, Waits, Linked, Has
<1>5. Allowed(Now, b)
  BY <1>2, <1>3, NowIs DEF Allowed, Told, Route, Newer, Has
<1> QED
  BY <1>1, <1>3, <1>4, <1>5, SendKeeps, SameIsGood, BecomeIs DEF Good

LEMMA ReplacedGood ==
    ASSUME HostInv, NoticeReplaced
    PROVE  Good(Now, Now')
<1> DEFINE b == [Now EXCEPT !.replaced = TRUE]
<1>1. ~shut /\ Register \in has /\ Become(b)
  BY DEF NoticeReplaced, Routed, Heard
<1>2. /\ b.awaiting = awaiting /\ b.sock = sock /\ b.link = link /\ b.retry = retry
      /\ b.registered = registered /\ b.replaced = TRUE /\ b.shut = shut
      /\ b.outbound = outbound /\ b.posted = posted /\ b.told = told /\ b.has = has
  BY DEF Now
<1> HIDE DEF b
<1>3. Stands(b)
  BY <1>1, <1>2, NowIs DEF HostInv, Stands, Types, Posted, Waits, Linked, Has
<1>4. Allowed(Now, b)
  BY <1>1, <1>2, NowIs DEF Allowed, Told, Route, Newer, Has
<1> QED
  BY <1>1, <1>3, <1>4, BecomeIs DEF Good

LEMMA ClosesGood ==
    ASSUME HostInv, DialFails \/ Closed
    PROVE  Good(Now, Now')
<1>1. PICK full \in BOOLEAN : Become(OnSocketClosed(SendToBrowser(Now, full)))
                           \/ Become(SendToBrowser(OnSocketClosed(Now), full))
  BY DEF DialFails, Closed
<1>2. ~Now.shut /\ Stands(Now) /\ Shaped(Now)
  BY NowIs DEF DialFails, Closed, HostInv
<1>3. CASE Become(SendToBrowser(OnSocketClosed(Now), full))
  BY <1>2, <1>3, CloseIsHeard, SendKeeps, SameIsGood, BecomeIs
<1>4. CASE Become(OnSocketClosed(SendToBrowser(Now, full)))
  <2> DEFINE b == SendToBrowser(Now, full)
  <2>1. Shaped(b) /\ Same(Now, b)
    BY <1>2, SendKeeps DEF SendToBrowser, Shaped
  <2> HIDE DEF b
  <2>2. Stands(b) /\ ~b.shut
    BY <1>2, <2>1, StandsStill, SameIsGood DEF Good, Same
  <2>3. Good(b, OnSocketClosed(b))
    BY <2>1, <2>2, CloseIsHeard
  <2>4. Good(Now, OnSocketClosed(b))
    BY <2>1, <2>3 DEF Good, Same, Allowed, Told, Route, Newer
  <2> QED
    BY <1>4, <2>4, BecomeIs DEF b
<1> QED
  BY <1>1, <1>3, <1>4

-----------------------------------------------------------------------------
(* What the browser says.                                                  *)

LEMMA AppendsOne ==
    ASSUME NEW s \in Seq(Msgs), NEW m \in Msgs,
           \A i, j \in 1..Len(s) : s[i] = Register /\ s[j] = Register => i = j,
           m = Register => \A i \in 1..Len(s) : s[i] # Register,
           NEW t, t = Append(s, m) \/ t = Tail(Append(s, m))
    PROVE  /\ t \in Seq(Msgs)
           /\ \A i, j \in 1..Len(t) : t[i] = Register /\ t[j] = Register => i = j
           /\ \A i \in 1..Len(t) : t[i] = Register => m = Register \/ \E j \in 1..Len(s) : s[j] = Register
<1> DEFINE u == Append(s, m)
<1>1. /\ u \in Seq(Msgs) /\ Len(u) = Len(s) + 1 /\ Len(s) \in Nat
      /\ \A i \in 1..Len(s) : u[i] = s[i]
      /\ u[Len(s) + 1] = m
  OBVIOUS
<1> HIDE DEF u
<1>2. \A i, j \in 1..Len(u) : u[i] = Register /\ u[j] = Register => i = j
  <2> SUFFICES ASSUME NEW i \in 1..Len(u), NEW j \in 1..Len(u), u[i] = Register, u[j] = Register
               PROVE  i = j
    OBVIOUS
  <2>1. i \in 1..Len(s) \/ i = Len(s) + 1
    BY <1>1
  <2>2. j \in 1..Len(s) \/ j = Len(s) + 1
    BY <1>1
  <2> QED
    BY <1>1, <2>1, <2>2
<1>3. \A i \in 1..Len(u) : u[i] = Register => m = Register \/ \E j \in 1..Len(s) : s[j] = Register
  BY <1>1
<1>4. CASE t = u
  BY <1>1, <1>2, <1>3, <1>4
<1>5. CASE t = Tail(u)
  <2>1. t \in Seq(Msgs) /\ Len(t) = Len(u) - 1 /\ \A i \in 1..Len(t) : t[i] = u[i + 1] /\ i + 1 \in 1..Len(u)
    BY <1>1, <1>5
  <2>2. \A i, j \in 1..Len(t) : t[i] = Register /\ t[j] = Register => i = j
    <3> SUFFICES ASSUME NEW i \in 1..Len(t), NEW j \in 1..Len(t), t[i] = Register, t[j] = Register
                 PROVE  i = j
      OBVIOUS
    <3>1. i + 1 = j + 1
      BY <1>2, <2>1
    <3> QED
      BY <3>1
  <2> QED
    BY <1>3, <2>1, <2>2
<1> QED
  BY <1>4, <1>5 DEF u

LEMMA BuffersIs ==
    ASSUME NEW b, Shaped(b), NEW m
    PROVE  LET c == BufferOutbound(b, m) IN
           /\ Shaped(c)
           /\ c.link = b.link /\ c.sock = b.sock /\ c.awaiting = b.awaiting /\ c.retry = b.retry
           /\ c.registered = b.registered /\ c.replaced = b.replaced /\ c.shut = b.shut
           /\ c.posted = b.posted /\ c.told = b.told /\ c.has = b.has
           /\ c.outbound = Append(b.outbound, m) \/ c.outbound = Tail(Append(b.outbound, m))
BY DEF BufferOutbound, Shaped

LEMMA SaysGood ==
    ASSUME HostInv, NEW m \in Msgs, BrowserSays(m)
    PROVE  Good(Now, Now')
<1> DEFINE b == [Now EXCEPT !.posted = @ \cup ({m} \ {Frame}),
                            !.told = IF m = Register THEN "asked" ELSE @]
<1>1. ~shut /\ m \notin posted \ {Frame}
  BY DEF BrowserSays
<1>2. /\ Shaped(b) /\ b.awaiting = awaiting /\ b.sock = sock /\ b.link = link /\ b.retry = retry
      /\ b.registered = registered /\ b.replaced = replaced /\ b.shut = shut
      /\ b.outbound = outbound /\ b.has = has
      /\ b.posted = posted \cup ({m} \ {Frame})
      /\ b.told = IF m = Register THEN "asked" ELSE told
  BY DEF Now, Shaped
<1>3. PICK full \in BOOLEAN :
         \/ link = "READY" /\ Become(WriteFills(HandOver(b, <<m>>), full))
         \/ link = "CONNECTING" /\ Become(FromBrowserConnecting(b, m))
         \/ link = "DOWN" /\ Become(SendToBrowser(FromBrowserDown(b, m), full /\ m # Frame))
  BY NowIs DEF BrowserSays, HostInv, Stands, Types
<1> HIDE DEF b
<1>4. Register # Frame /\ Register \notin Reqs
  BY HostAssumption
<1>5. m = Register => told = "none" /\ ~replaced /\ ~registered /\ Register \notin has
  BY <1>1, <1>4, NowIs DEF HostInv, Stands, Types, Posted, Linked, Has
<1>6. m = Register => \A i \in 1..Len(outbound) : outbound[i] # Register
  BY <1>1, <1>5, NowIs DEF HostInv, Stands, Waits
<1>7. b.told = "none" <=> Register \notin b.posted
  BY <1>1, <1>2, <1>4, NowIs DEF HostInv, Stands, Posted
<1>8. CASE link = "READY" /\ Become(WriteFills(HandOver(b, <<m>>), full))
  <2> DEFINE c == HandOver(b, <<m>>)
  <2>1. Register \in ToSet(<<m>>) <=> m = Register
    BY DEF ToSet
  <2>2. registered \in BOOLEAN
    BY NowIs DEF HostInv, Stands, Types
  <2>3. /\ Shaped(c) /\ c.awaiting = awaiting /\ c.sock = sock /\ c.link = link /\ c.retry = retry
        /\ c.registered = (registered \/ m = Register) /\ c.replaced = replaced /\ c.shut = shut
        /\ c.outbound = outbound /\ c.posted = b.posted /\ c.told = b.told
        /\ Has(c) <=> Register \in has \/ m = Register
    BY <1>2, <2>1, <2>2, HandOverKeeps DEF Has
  <2> HIDE DEF c
  <2>4. Types(c)
    <3>1. c.registered \in BOOLEAN
      BY <2>2, <2>3
    <3> QED
      BY <1>2, <2>3, <3>1, NowIs DEF HostInv, Stands, Types
  <2>5. Posted(c)
    BY <1>1, <1>2, <1>5, <1>7, <1>8, <2>2, <2>3, NowIs DEF HostInv, Stands, Posted
  <2>6. Waits(c)
    BY <1>1, <1>2, <1>6, <2>3, NowIs DEF HostInv, Stands, Waits, Has
  <2>7. Linked(c)
    BY <1>1, <1>2, <1>8, <2>3, NowIs DEF HostInv, Stands, Linked, Has
  <2>8. Allowed(Now, c)
    BY <1>1, <1>2, <1>5, <2>3, NowIs DEF Allowed, Told, Route, Newer, Has
  <2> QED
    BY <1>8, <2>3, <2>4, <2>5, <2>6, <2>7, <2>8, SendKeeps, SameIsGood, BecomeIs DEF c, Good, Stands
<1>9. CASE link = "CONNECTING" /\ Become(FromBrowserConnecting(b, m))
  <2> DEFINE c == FromBrowserConnecting(b, m)
             e == [b EXCEPT !.registered = @ \/ m = Register]
  <2>1. registered \in BOOLEAN
    BY NowIs DEF HostInv, Stands, Types
  <2>2. /\ Shaped(e) /\ e.awaiting = awaiting /\ e.sock = sock /\ e.link = link /\ e.retry = retry
        /\ e.registered = (registered \/ m = Register) /\ e.replaced = replaced /\ e.shut = shut
        /\ e.outbound = outbound /\ e.posted = b.posted /\ e.told = b.told /\ e.has = has
    BY <1>2 DEF Shaped
  <2> HIDE DEF e
  <2>3. /\ Shaped(c) /\ c.awaiting = awaiting /\ c.sock = sock /\ c.link = link /\ c.retry = retry
        /\ c.registered = (registered \/ m = Register) /\ c.replaced = replaced /\ c.shut = shut
        /\ c.posted = b.posted /\ c.told = b.told /\ c.has = has
        /\ c.outbound = Append(outbound, m) \/ c.outbound = Tail(Append(outbound, m))
    <3>1. c = BufferOutbound(e, m)
      BY DEF FromBrowserConnecting, e
    <3> QED
      BY <2>2, <3>1, BuffersIs
  <2> HIDE DEF c
  <2>4. /\ c.outbound \in Seq(Msgs)
        /\ \A i, j \in 1..Len(c.outbound) :
             c.outbound[i] = Register /\ c.outbound[j] = Register => i = j
        /\ \A i \in 1..Len(c.outbound) : c.outbound[i] = Register =>
             m = Register \/ \E j \in 1..Len(outbound) : outbound[j] = Register
    <3>1. /\ outbound \in Seq(Msgs)
          /\ \A i, j \in 1..Len(outbound) : outbound[i] = Register /\ outbound[j] = Register => i = j
      BY <1>1, NowIs DEF HostInv, Stands, Types, Waits
    <3> QED
      BY <1>6, <2>3, <3>1, AppendsOne
  <2>5. Types(c)
    <3>1. c.registered \in BOOLEAN
      BY <2>1, <2>3
    <3> QED
      BY <1>2, <2>3, <2>4, <3>1, NowIs DEF HostInv, Stands, Types
  <2>6. Posted(c)
    BY <1>1, <1>2, <1>5, <1>7, <1>9, <2>1, <2>3, NowIs DEF HostInv, Stands, Posted
  <2>7. Waits(c)
    <3>1. \A j \in 1..Len(outbound) : outbound[j] = Register => told = "asked" /\ Register \notin has /\ ~replaced
      BY <1>1, NowIs DEF HostInv, Stands, Waits, Has
    <3> QED
      BY <1>2, <1>5, <2>3, <2>4, <3>1 DEF Waits, Has
  <2>8. Linked(c)
    BY <1>1, <1>2, <1>5, <1>9, <2>3, NowIs DEF HostInv, Stands, Linked, Has
  <2>9. Allowed(Now, c)
    BY <1>1, <1>2, <1>5, <2>3, NowIs DEF Allowed, Told, Route, Newer, Has
  <2> QED
    BY <1>9, <2>5, <2>6, <2>7, <2>8, <2>9, BecomeIs DEF c, Good, Stands
<1>10. CASE link = "DOWN" /\ Become(SendToBrowser(FromBrowserDown(b, m), full /\ m # Frame))
  <2> DEFINE c == FromBrowserDown(b, m)
  <2>1. /\ Shaped(c) /\ c.awaiting = awaiting /\ c.sock = sock /\ c.link = link /\ c.retry = retry
        /\ c.registered = registered /\ c.replaced = replaced /\ c.shut = shut
        /\ c.posted = b.posted /\ c.has = has
        /\ c.told = IF m = Register THEN "void" ELSE told
        /\ \/ c.outbound = outbound
           \/ m = Frame /\ c.outbound = Append(outbound, m)
           \/ m = Frame /\ c.outbound = Tail(Append(outbound, m))
    <3>1. CASE m = Register
      BY <1>2, <1>4, <3>1 DEF FromBrowserDown, Shaped
    <3>2. CASE m \in Reqs
      <4>1. c = [b EXCEPT !.answered[m] = @ + 1]
        BY <1>4, <3>2, HostAssumption DEF FromBrowserDown
      <4> QED
        BY <1>2, <1>4, <3>2, <4>1 DEF Shaped
    <3>3. CASE m = Frame
      <4>1. c = BufferOutbound(b, m)
        BY <3>3, HostAssumption DEF FromBrowserDown
      <4> QED
        BY <1>2, <1>4, <3>3, <4>1, BuffersIs
    <3> QED
      BY <3>1, <3>2, <3>3 DEF Msgs
  <2> HIDE DEF c
  <2>2. /\ outbound \in Seq(Msgs)
        /\ \A i, j \in 1..Len(outbound) : outbound[i] = Register /\ outbound[j] = Register => i = j
        /\ \A j \in 1..Len(outbound) : outbound[j] = Register => told = "asked" /\ Register \notin has /\ ~replaced
    BY <1>1, NowIs DEF HostInv, Stands, Types, Waits, Has
  <2>3. /\ c.outbound \in Seq(Msgs)
        /\ \A i, j \in 1..Len(c.outbound) :
             c.outbound[i] = Register /\ c.outbound[j] = Register => i = j
        /\ \A i \in 1..Len(c.outbound) : c.outbound[i] = Register =>
             \E j \in 1..Len(outbound) : outbound[j] = Register
    <3>1. CASE c.outbound = outbound
      BY <2>2, <3>1
    <3>2. CASE m = Frame /\ (c.outbound = Append(outbound, m) \/ c.outbound = Tail(Append(outbound, m)))
      <4>1. m # Register
        BY <1>4, <3>2
      <4> QED
        <5>1. outbound \in Seq(Msgs)
          BY <2>2
        <5>2. \A i, j \in 1..Len(outbound) : outbound[i] = Register /\ outbound[j] = Register => i = j
          BY <2>2
        <5>3. /\ c.outbound \in Seq(Msgs)
              /\ \A i, j \in 1..Len(c.outbound) :
                   c.outbound[i] = Register /\ c.outbound[j] = Register => i = j
              /\ \A i \in 1..Len(c.outbound) : c.outbound[i] = Register =>
                   m = Register \/ \E j \in 1..Len(outbound) : outbound[j] = Register
          <6>1. c.outbound = Append(outbound, m) \/ c.outbound = Tail(Append(outbound, m))
            BY <3>2
          <6> QED
            BY <4>1, <5>1, <5>2, <6>1, AppendsOne
        <5> QED
          BY <4>1, <5>3
    <3> QED
      BY <2>1, <3>1, <3>2
  <2>4. Types(c)
    BY <2>1, <2>3, NowIs DEF HostInv, Stands, Types
  <2>5. Posted(c)
    <3>1. c.told = "none" <=> Register \notin c.posted
      BY <1>2, <1>7, <2>1
    <3> QED
      BY <1>1, <1>5, <2>1, <3>1, NowIs DEF HostInv, Stands, Posted
  <2>6. Waits(c)
    BY <1>6, <2>1, <2>2, <2>3 DEF Waits, Has
  <2>7. Linked(c)
    BY <1>1, <1>5, <1>10, <2>1, NowIs DEF HostInv, Stands, Linked, Has
  <2>8. Allowed(Now, c)
    <3>1. Register \notin has
      BY <1>1, <1>10, NowIs DEF HostInv, Stands, Linked, Has
    <3> QED
      BY <1>1, <2>1, <3>1, NowIs DEF Allowed, Told, Route, Newer, Has
  <2> QED
    BY <1>10, <2>1, <2>4, <2>5, <2>6, <2>7, <2>8, SendKeeps, SameIsGood, BecomeIs DEF c, Good, Stands
<1> QED
  BY <1>3, <1>8, <1>9, <1>10

-----------------------------------------------------------------------------
(* The pipes and the port.                                                 *)

LEMMA DrainsGood ==
    ASSUME HostInv, Drains \/ StdoutDrains
    PROVE  Good(Now, Now')
<1>1. Same(Now, [Now EXCEPT !.socketBlocked = FALSE, !.stdinPaused = FALSE])
  BY DEF Same, Has, Now
<1>2. Same(Now, [Now EXCEPT !.stdoutBlocked = FALSE, !.sockPaused = FALSE])
  BY DEF Same, Has, Now
<1> QED
  BY <1>1, <1>2, StandsStill, SameIsGood, BecomeIs DEF Drains, StdoutDrains, HostInv

LEMMA PortClosesGood ==
    ASSUME HostInv, PortCloses
    PROVE  Good(Now, Now')
<1> DEFINE b == Shutdown(Now)
<1>1. Become(b)
  BY DEF PortCloses
<1>2. Types(b) /\ b.shut = TRUE
  <2>1. Types(Now) /\ registered \in BOOLEAN /\ <<>> \in Seq(Msgs)
    BY NowIs DEF HostInv, Stands, Types
  <2>2. CASE sock # "none" /\ link = "READY"
    <3> DEFINE c == [Now EXCEPT !.outbound = <<>>]
    <3>1. /\ Shaped(c) /\ c.awaiting = awaiting /\ c.sock = sock /\ c.link = link /\ c.retry = retry
          /\ c.registered = registered /\ c.replaced = replaced /\ c.shut = shut
          /\ c.outbound = <<>> /\ c.told = told
      BY DEF Now, Shaped
    <3>2. b = [HandOver(c, outbound) EXCEPT !.shut = TRUE]
      BY <2>2, NowIs DEF Shutdown, FlushOutbound
    <3> DEFINE d == HandOver(c, outbound)
    <3> HIDE DEF c
    <3>3. /\ Shaped(d) /\ d.awaiting = awaiting /\ d.sock = sock /\ d.link = link /\ d.retry = retry
          /\ d.replaced = replaced /\ d.outbound = <<>> /\ d.told = told
          /\ d.registered = (registered \/ Register \in ToSet(outbound))
      BY <2>1, <3>1, HandOverKeeps
    <3> HIDE DEF d
    <3>4. /\ b.awaiting = awaiting /\ b.sock = sock /\ b.link = link /\ b.retry = retry
          /\ b.replaced = replaced /\ b.outbound = <<>> /\ b.told = told /\ b.shut = TRUE
          /\ b.registered \in BOOLEAN
      BY <2>1, <3>2, <3>3 DEF Shaped, d
    <3> QED
      BY <2>1, <3>4, NowIs DEF Types
  <2>3. CASE ~(sock # "none" /\ link = "READY")
    <3>1. b = [Now EXCEPT !.shut = TRUE, !.outbound = <<>>]
      BY <2>3, NowIs DEF Shutdown
    <3>2. /\ b.awaiting = awaiting /\ b.sock = sock /\ b.link = link /\ b.retry = retry
          /\ b.replaced = replaced /\ b.outbound = <<>> /\ b.told = told /\ b.shut = TRUE
          /\ b.registered = registered
      BY <3>1, NowIs DEF Shaped
    <3> QED
      BY <2>1, <3>2, NowIs DEF Types
  <2> QED
    BY <2>2, <2>3
<1> HIDE DEF b
<1> QED
  BY <1>1, <1>2, BecomeIs DEF Good, Stands, Allowed, Told, Route, Newer

LEMMA StartedStands ==
    ASSUME NEW dialed \in BOOLEAN
    PROVE  Stands(Started(dialed)) /\ Shaped(Started(dialed))
<1>1. Types(Started(dialed))
  BY DEF Started, Types
<1>2. Posted(Started(dialed)) /\ Linked(Started(dialed))
  BY DEF Started, Posted, Linked, Has
<1>3. Waits(Started(dialed))
  <2>1. Started(dialed).outbound = <<>>
    BY DEF Started
  <2> QED
    BY <2>1 DEF Waits
<1> QED
  BY <1>1, <1>2, <1>3 DEF Stands, Started, Shaped

LEMMA PortOpensGood ==
    ASSUME HostInv, PortOpens
    PROVE  Good(Now, Now')
<1>1. PICK dialed \in BOOLEAN : Become(Started(dialed))
  BY DEF PortOpens
<1>2. Allowed(Now, Started(dialed))
  BY DEF Allowed, Told, Route, Newer, Has, Started
<1> QED
  BY <1>1, <1>2, StartedStands, BecomeIs DEF Good

-----------------------------------------------------------------------------
(* The theorems.                                                           *)

LEMMA HostInitially == Init => HostInv
<1> SUFFICES ASSUME Init PROVE HostInv
  OBVIOUS
<1>1. PICK dialed \in BOOLEAN : Same(Started(dialed), Now)
  BY DEF Init, Same, Has, Now, Started
<1> QED
  BY <1>1, StartedStands, StandsStill, SameIsGood DEF Good, HostInv

LEMMA HostStep ==
    ASSUME HostInv, [Next]_vars
    PROVE  Good(Now, Now')
<1>1. CASE UNCHANGED vars
  <2>1. Now' = Now
    BY <1>1 DEF vars, relay, pipes, world, Now
  <2> QED
    BY <2>1, StandsStill DEF HostInv
<1>2. CASE Next
  BY <1>2, ConnectGood, ConnectedGood, DestroyedGood, ClosesGood, FirstFrameGood, SpeaksGood, AnswersGood,
     RegisterAckedGood, ReplacedGood, SaysGood, DrainsGood, PortClosesGood, PortOpensGood
     DEF Next
<1> QED
  BY <1>1, <1>2

LEMMA HostInvariant == Spec => []HostInv
<1>1. HostInv /\ [Next]_vars => HostInv'
  BY HostStep DEF Good, HostInv
<1> QED
  BY <1>1, HostInitially, PTL DEF Spec

(* While no broker is linked no introduction stands, and the extension     *)
(* knows (host/index.mjs, refuseRegistration and onSocketClosed).          *)
THEOREM AnOrphanHears == Spec => []OrphanHears
<1>1. HostInv => OrphanHears
  BY NowIs DEF HostInv, Stands, Types, Posted, OrphanHears
<1> QED
  BY <1>1, HostInvariant, PTL

(* The relay implements the abstract registration: its start is a start of *)
(* it, and what a step shows is a step of it or nothing                    *)
(* (host/index.mjs, the whole relay).                                      *)
THEOREM TheRelayRegisters == Spec => Registers
<1>1. Init => Promise!Init
  BY DEF Init, Promise!Init, Started
<1>2. HostInv /\ [Next]_vars => [Promise!Next]_(Promise!registration)
  <2> SUFFICES ASSUME HostInv, [Next]_vars PROVE [Promise!Next]_(Promise!registration)
    OBVIOUS
  <2>1. Allowed(Now, Now')
    BY HostStep DEF Good
  <2>2. /\ Told(Now) = (IF shut THEN "none" ELSE told) /\ Told(Now') = (IF shut THEN "none" ELSE told)'
        /\ Route(Now) <=> Register \in has /\ ~shut
        /\ Route(Now') <=> (Register \in has /\ ~shut)'
        /\ Newer(Now) <=> replaced /\ ~shut
        /\ Newer(Now') <=> (replaced /\ ~shut)'
    BY DEF Told, Route, Newer, Has, Now
  <2> QED
    BY <2>1, <2>2 DEF Allowed, Promise!Next, Promise!registration, Promise!Introduce, Promise!Join,
       Promise!Accept, Promise!Refuse, Promise!Void, Promise!Replace, Promise!Forget, Promise!Reopen
<1> QED
  BY <1>1, <1>2, HostInvariant, PTL DEF Spec, Registers, Promise!Spec
-----------------------------------------------------------------------------
(* The browser's requests.  What is remembered is filtered from what was   *)
(* written by a recursive function; what that computes for every sequence  *)
(* is shown by induction, of which the least element of a set of numbers   *)
(* is the form the provers can use.                                        *)

LEMMA LeastElement ==
    ASSUME NEW T \in SUBSET Nat, T # {}
    PROVE  \E n \in T : \A m \in T : n <= m
<1> DEFINE R == OpToRel(<, Nat)
<1>1. R = {ss \in Nat \X Nat : ss[1] < ss[2]}
  BY DEF OpToRel
<1>2. IsWellFoundedOn(R, Nat)
  BY NatLessThanWellFounded
<1> HIDE DEF R
<1>3. PICK n \in T : \A m \in T : <<m, n>> \notin R
  BY <1>2, WFMin
<1>4. ASSUME NEW m \in T PROVE n <= m
  <2>1. ~(m < n)
    BY <1>1, <1>3
  <2> QED
    BY <2>1
<1> QED
  BY <1>3, <1>4

(* Induction, of sets. *)
LEMMA UpTo ==
    ASSUME NEW n \in Nat, NEW T, 0 \in T, \A k \in 1..n : k - 1 \in T => k \in T
    PROVE  \A k \in 0..n : k \in T
<1> DEFINE bad == {k \in 0..n : k \notin T}
<1>1. SUFFICES ASSUME bad # {} PROVE FALSE
  OBVIOUS
<1>2. bad \in SUBSET Nat
  OBVIOUS
<1>3. PICK k \in bad : \A m \in bad : k <= m
  BY <1>1, <1>2, LeastElement
<1>4. k \in 1..n /\ k - 1 \in 0..n /\ ~(k <= k - 1)
  BY <1>3
<1>5. k - 1 \notin bad
  BY <1>3, <1>4
<1> QED
  BY <1>3, <1>4, <1>5

LEMMA ToSetAppend ==
    ASSUME NEW T, NEW s \in Seq(T), NEW e
    PROVE  ToSet(Append(s, e)) = ToSet(s) \cup {e}
<1>1. /\ DOMAIN Append(s, e) = 1..(Len(s) + 1) /\ Len(s) \in Nat /\ DOMAIN s = 1..Len(s)
      /\ \A i \in 1..Len(s) : Append(s, e)[i] = s[i]
      /\ Append(s, e)[Len(s) + 1] = e
  OBVIOUS
<1>2. 1..(Len(s) + 1) = 1..Len(s) \cup {Len(s) + 1}
  BY <1>1
<1> QED
  BY <1>1, <1>2 DEF ToSet

(* What the recursive definition of Only computes, for every sequence.     *)
LEMMA OnlyIs ==
    ASSUME NEW T, NEW s \in Seq(T), NEW S
    PROVE  Only(s, S) \in Seq(T \cap S) /\ ToSet(Only(s, S)) = ToSet(s) \cap S
<1> DEFINE At(f, i) == IF i = 0 THEN <<>> ELSE IF s[i] \in S THEN Append(f[i - 1], s[i]) ELSE f[i - 1]
           Filters(f, n) == f = [i \in 0..n |-> At(f, i)]
           Right(f, i) == f[i] \in Seq(T \cap S) /\ ToSet(f[i]) = {s[j] : j \in 1..i} \cap S
           n == Len(s)
<1>1. n \in Nat /\ \A i \in 1..n : s[i] \in T
  OBVIOUS
<1>2. \E f : Filters(f, n)
  <2> DEFINE good == {k \in 0..n : \E f : Filters(f, k)}
  <2>1. 0 \in good
    <3> DEFINE g == [i \in 0..0 |-> <<>>]
    <3>1. Filters(g, 0)
      OBVIOUS
    <3> HIDE DEF g
    <3>2. \E f : Filters(f, 0)
      BY <3>1
    <3> QED
      BY <1>1, <3>2
  <2>2. ASSUME NEW k \in 1..n, k - 1 \in good PROVE k \in good
    <3>1. PICK f : Filters(f, k - 1)
      BY <2>2
    <3> DEFINE g == [i \in 0..k |-> IF i = k THEN At(f, k) ELSE f[i]]
    <3>a. \A i \in 0..(k - 1) : f[i] = At(f, i)
      BY <3>1
    <3>2. \A i \in 0..(k - 1) : g[i] = f[i]
      BY <1>1
    <3>3. \A i \in 0..k : g[i] = At(g, i)
      <4>1. g[k] = At(f, k)
        BY <1>1
      <4>2. \A i \in 1..k : g[i - 1] = f[i - 1]
        BY <1>1, <3>2
      <4>3. At(g, k) = At(f, k)
        BY <1>1, <4>2
      <4>4. \A i \in 0..(k - 1) : At(g, i) = At(f, i)
        BY <1>1, <4>2
      <4>5. 0..k = 0..(k - 1) \cup {k}
        BY <1>1
      <4> HIDE DEF g, At
      <4> QED
        BY <3>2, <3>a, <4>1, <4>3, <4>4, <4>5
    <3>4. g = [i \in 0..k |-> g[i]]
      OBVIOUS
    <3> HIDE DEF g
    <3>5. Filters(g, k)
      BY <3>3, <3>4
    <3> QED
      BY <1>1, <3>5
  <2> HIDE DEF good
  <2>3. \A k \in 1..n : k - 1 \in good => k \in good
    BY <2>2
  <2>4. n \in Nat /\ n \in 0..n
    BY <1>1
  <2> HIDE DEF n
  <2>5. n \in good
    BY <2>1, <2>3, <2>4, UpTo
  <2> QED
    BY <2>5 DEF good
<1> DEFINE f == CHOOSE f : Filters(f, n)
<1>3. Filters(f, n) /\ Only(s, S) = f[n]
  <2>1. Filters(f, n)
    BY <1>2
  <2>2. Only(s, S) = f[n]
    BY DEF Only
  <2> QED
    BY <2>1, <2>2
<1> HIDE DEF f
<1>4. \A i \in 0..n : f[i] = At(f, i)
  BY <1>3
<1>5. \A i \in 0..n : Right(f, i)
  <2> DEFINE good == {k \in 0..n : Right(f, k)}
  <2>1. 0 \in good
    <3>1. f[0] = <<>>
      BY <1>1, <1>4
    <3>2. Right(f, 0)
      BY <3>1 DEF ToSet
    <3> QED
      BY <1>1, <3>2
  <2>2. ASSUME NEW k \in 1..n, k - 1 \in good PROVE k \in good
    <3>1. Right(f, k - 1) /\ k \in 0..n
      BY <1>1, <2>2
    <3>2. f[k] = IF s[k] \in S THEN Append(f[k - 1], s[k]) ELSE f[k - 1]
      BY <1>1, <1>4
    <3>3. {s[j] : j \in 1..k} = {s[j] : j \in 1..(k - 1)} \cup {s[k]}
      BY <1>1
    <3>4. Right(f, k)
      <4>1. CASE s[k] \in S
        <5>1. f[k] = Append(f[k - 1], s[k]) /\ s[k] \in T \cap S
          BY <1>1, <3>2, <4>1
        <5>2. ToSet(f[k]) = ToSet(f[k - 1]) \cup {s[k]}
          BY <3>1, <5>1, ToSetAppend
        <5>3. f[k] \in Seq(T \cap S)
          BY <3>1, <5>1
        <5> QED
          BY <3>1, <3>3, <4>1, <5>2, <5>3
      <4>2. CASE s[k] \notin S
        BY <3>1, <3>2, <3>3, <4>2
      <4> QED
        BY <4>1, <4>2
    <3> QED
      BY <3>1, <3>4
  <2> HIDE DEF good
  <2>3. \A k \in 0..n : k \in good
    BY <1>1, <2>1, <2>2, UpTo
  <2> QED
    BY <2>3 DEF good
<1>6. ToSet(s) = {s[j] : j \in 1..n}
  BY DEF ToSet
<1>7. n \in 0..n
  BY <1>1
<1>8. Only(s, S) = f[n]
  BY <1>3
<1> HIDE DEF n, At
<1>9. Right(f, n)
  BY <1>5, <1>7
<1> QED
  BY <1>6, <1>8, <1>9

LEMMA ToSetConcat ==
    ASSUME NEW T, NEW s \in Seq(T), NEW t \in Seq(T)
    PROVE  s \o t \in Seq(T) /\ ToSet(s \o t) = ToSet(s) \cup ToSet(t)
<1>1. /\ Len(s) \in Nat /\ Len(t) \in Nat /\ DOMAIN s = 1..Len(s) /\ DOMAIN t = 1..Len(t)
      /\ s \o t \in Seq(T) /\ DOMAIN (s \o t) = 1..(Len(s) + Len(t))
      /\ \A i \in 1..(Len(s) + Len(t)) : (s \o t)[i] = IF i <= Len(s) THEN s[i] ELSE t[i - Len(s)]
  OBVIOUS
<1>2. \A i \in 1..Len(s) : i \in 1..(Len(s) + Len(t)) /\ (s \o t)[i] = s[i]
  BY <1>1
<1>3. \A i \in 1..Len(t) : i + Len(s) \in 1..(Len(s) + Len(t)) /\ (s \o t)[i + Len(s)] = t[i]
  BY <1>1
<1>4. \A i \in 1..(Len(s) + Len(t)) : i \in 1..Len(s) \/ i - Len(s) \in 1..Len(t)
  BY <1>1
<1>5. ToSet(s \o t) \subseteq ToSet(s) \cup ToSet(t)
  BY <1>1, <1>4 DEF ToSet
<1>6. ToSet(s) \subseteq ToSet(s \o t)
  BY <1>1, <1>2 DEF ToSet
<1>7. ASSUME NEW x \in ToSet(t) PROVE x \in ToSet(s \o t)
  <2>1. PICK i \in 1..Len(t) : x = t[i]
    BY <1>1, <1>7 DEF ToSet
  <2> QED
    BY <1>1, <1>3, <2>1 DEF ToSet
<1> QED
  BY <1>1, <1>5, <1>6, <1>7

LEMMA SplitsAt ==
    ASSUME NEW T, NEW s \in Seq(T), NEW k \in 0..Len(s)
    PROVE  /\ SubSeq(s, k + 1, Len(s)) \in Seq(T)
           /\ ToSet(SubSeq(s, k + 1, Len(s))) = {s[i] : i \in (k + 1)..Len(s)}
           /\ SubSeq(s, 1, k) \in Seq(T)
           /\ ToSet(SubSeq(s, 1, k)) = {s[i] : i \in 1..k}
           /\ ToSet(s) = {s[i] : i \in 1..k} \cup {s[i] : i \in (k + 1)..Len(s)}
<1>1. Len(s) \in Nat /\ DOMAIN s = 1..Len(s) /\ k \in Nat /\ k <= Len(s)
  OBVIOUS
<1> DEFINE t == SubSeq(s, k + 1, Len(s))
           u == SubSeq(s, 1, k)
<1>2. /\ t \in Seq(T) /\ DOMAIN t = 1..(Len(s) - k)
      /\ \A i \in 1..(Len(s) - k) : t[i] = s[i + k]
  BY <1>1
<1>3. u \in Seq(T) /\ DOMAIN u = 1..k /\ \A i \in 1..k : u[i] = s[i]
  BY <1>1
<1> HIDE DEF t, u
<1>4. /\ \A i \in 1..(Len(s) - k) : i + k \in (k + 1)..Len(s)
      /\ \A i \in (k + 1)..Len(s) : i - k \in 1..(Len(s) - k) /\ t[i - k] = s[i]
  BY <1>1, <1>2
<1>5. ToSet(t) = {s[i] : i \in (k + 1)..Len(s)}
  <2>1. ASSUME NEW x \in ToSet(t) PROVE \E i \in (k + 1)..Len(s) : x = s[i]
    <3>1. PICK i \in 1..(Len(s) - k) : x = t[i]
      BY <1>2, <2>1 DEF ToSet
    <3> QED
      BY <1>2, <1>4, <3>1
  <2>2. \A i \in (k + 1)..Len(s) : s[i] \in ToSet(t)
    BY <1>2, <1>4 DEF ToSet
  <2> QED
    BY <2>1, <2>2
<1>6. ToSet(u) = {s[i] : i \in 1..k}
  BY <1>3 DEF ToSet
<1>7. 1..Len(s) = 1..k \cup (k + 1)..Len(s)
  BY <1>1
<1>8. ToSet(s) = {s[i] : i \in 1..k} \cup {s[i] : i \in (k + 1)..Len(s)}
  BY <1>1, <1>7 DEF ToSet
<1> QED
  BY <1>2, <1>3, <1>5, <1>6, <1>8 DEF t, u

LEMMA HeadAndTail ==
    ASSUME NEW T, NEW s \in Seq(T), s # <<>>
    PROVE  ToSet(Tail(s)) \cup {Head(s)} = ToSet(s)
<1>1. /\ Len(s) \in Nat /\ 1 \in 1..Len(s) /\ DOMAIN s = 1..Len(s) /\ Head(s) = s[1]
      /\ Tail(s) \in Seq(T) /\ DOMAIN Tail(s) = 1..(Len(s) - 1)
      /\ \A i \in 1..(Len(s) - 1) : i + 1 \in 1..Len(s) /\ Tail(s)[i] = s[i + 1]
  OBVIOUS
<1>2. ASSUME NEW i \in 1..Len(s) PROVE s[i] \in ToSet(Tail(s)) \cup {Head(s)}
  <2>1. CASE i = 1
    BY <1>1, <2>1
  <2>2. CASE i # 1
    <3>1. i - 1 \in 1..(Len(s) - 1) /\ (i - 1) + 1 = i
      BY <1>1, <2>2
    <3> QED
      BY <1>1, <3>1 DEF ToSet
  <2> QED
    BY <2>1, <2>2
<1>3. ToSet(Tail(s)) \cup {Head(s)} \subseteq ToSet(s)
  BY <1>1 DEF ToSet
<1> QED
  BY <1>1, <1>2, <1>3 DEF ToSet

LEMMA DropKeeps ==
    ASSUME NEW s \in Seq(Msgs)
    PROVE  ToSet(DropRegister(s)) \cap Reqs = ToSet(s) \cap Reqs
<1> DEFINE at == {i \in DOMAIN s : s[i] = Register}
<1>1. CASE at = {}
  BY <1>1 DEF DropRegister
<1>2. CASE at # {}
  <2>1. PICK k \in at : k = CHOOSE i \in at : TRUE
    BY <1>2
  <2>2. k \in 1..Len(s) /\ s[k] = Register /\ Len(s) \in Nat
    BY <2>1
  <2>3. DropRegister(s) = SubSeq(s, 1, k - 1) \o SubSeq(s, k + 1, Len(s))
    BY <1>2, <2>1 DEF DropRegister, RemoveAt
  <2>4. /\ SubSeq(s, 1, k - 1) \in Seq(Msgs) /\ SubSeq(s, k + 1, Len(s)) \in Seq(Msgs)
        /\ ToSet(SubSeq(s, 1, k - 1)) = {s[i] : i \in 1..(k - 1)}
        /\ ToSet(SubSeq(s, k + 1, Len(s))) = {s[i] : i \in (k + 1)..Len(s)}
        /\ ToSet(s) = {s[i] : i \in 1..k} \cup {s[i] : i \in (k + 1)..Len(s)}
    <3>1. k - 1 \in 0..Len(s) /\ k \in 0..Len(s)
      BY <2>2
    <3> QED
      BY <3>1, SplitsAt
  <2>5. {s[i] : i \in 1..k} = {s[i] : i \in 1..(k - 1)} \cup {Register}
    <3>1. 1..k = 1..(k - 1) \cup {k}
      BY <2>2
    <3> QED
      BY <2>2, <3>1
  <2>6. ToSet(DropRegister(s)) = {s[i] : i \in 1..(k - 1)} \cup {s[i] : i \in (k + 1)..Len(s)}
    <3> DEFINE before == SubSeq(s, 1, k - 1)
               after == SubSeq(s, k + 1, Len(s))
    <3>1. before \in Seq(Msgs) /\ after \in Seq(Msgs)
      BY <2>4
    <3> HIDE DEF before, after
    <3>2. ToSet(before \o after) = ToSet(before) \cup ToSet(after)
      BY <3>1, ToSetConcat
    <3> QED
      BY <2>3, <2>4, <3>2 DEF before, after
  <2>7. Register \notin Reqs
    BY HostAssumption
  <2> QED
    BY <2>4, <2>5, <2>6, <2>7
<1> QED
  BY <1>1, <1>2

(* Where a request of the browser is: in the buffer, with a broker whose   *)
(* link is proved, given up, or answered; and nowhere else once it is      *)
(* answered.                                                               *)
Counted(b) ==
    /\ b.pending \in Seq(Reqs) /\ b.answered \in [Reqs -> 0..1]
    /\ ~b.shut =>
         /\ b.link = "READY" => b.outbound = <<>>
         /\ b.link # "READY" => b.pending = <<>> /\ b.has \cap Reqs = {}
         /\ \A q \in Reqs :
              /\ q \in b.posted /\ b.answered[q] = 0 =>
                   q \in ToSet(b.outbound) \cup ToSet(b.pending) \cup b.lost
              /\ q \notin b.posted \/ b.answered[q] = 1 =>
                   q \notin ToSet(b.outbound) \cup ToSet(b.pending) \cup b.has
              /\ q \notin b.posted => b.answered[q] = 0

CountInv == Counted(Now)

(* b and c differ in nothing that matters to the requests. *)
SameCount(b, c) ==
    /\ c.pending = b.pending /\ c.answered = b.answered /\ c.shut = b.shut /\ c.link = b.link
    /\ c.outbound = b.outbound /\ c.has \cap Reqs = b.has \cap Reqs
    /\ c.posted \cap Reqs = b.posted \cap Reqs /\ c.lost = b.lost

LEMMA SameCounts ==
    ASSUME NEW b, NEW c, SameCount(b, c), Counted(b)
    PROVE  Counted(c)
BY DEF SameCount, Counted

LEMMA SendCounts ==
    ASSUME NEW b, Shaped(b), NEW full
    PROVE  SameCount(b, SendToBrowser(b, full)) /\ SameCount(b, WriteFills(b, full))
BY DEF Shaped, SameCount, SendToBrowser, WriteFills

LEMMA BecomeCounts ==
    ASSUME NEW b, Become(b), Counted(b)
    PROVE  CountInv'
<1>1. SameCount(b, Now')
  BY DEF Become, SameCount, Now
<1> QED
  BY <1>1, SameCounts DEF CountInv

LEMMA NowCounts ==
    /\ Now.pending = pending /\ Now.answered = answered /\ Now.shut = shut /\ Now.link = link
    /\ Now.outbound = outbound /\ Now.has = has /\ Now.posted = posted /\ Now.lost = lost
BY DEF Now

(* What is handed over is remembered, or pushed out and lost.              *)
LEMMA HandOverCounts ==
    ASSUME NEW b, Shaped(b), b.pending \in Seq(Reqs), NEW s \in Seq(Msgs)
    PROVE  LET c == HandOver(b, s) IN
           /\ c.pending \in Seq(Reqs)
           /\ ToSet(c.pending) \subseteq ToSet(b.pending) \cup (ToSet(s) \cap Reqs)
           /\ ToSet(b.pending) \cup (ToSet(s) \cap Reqs) \subseteq ToSet(c.pending) \cup c.lost
           /\ b.lost \subseteq c.lost
           /\ c.has \cap Reqs = (b.has \cup ToSet(s)) \cap Reqs
           /\ c.answered = b.answered /\ c.shut = b.shut /\ c.link = b.link
           /\ c.outbound = b.outbound /\ c.posted = b.posted
<1> DEFINE ids == b.pending \o Only(s, Reqs)
           over == IF Len(ids) > PendingMax THEN Len(ids) - PendingMax ELSE 0
           c == HandOver(b, s)
           kept == SubSeq(ids, over + 1, Len(ids))
           gone == {ids[i] : i \in 1..over}
<1>1. /\ c.pending = kept /\ c.lost = b.lost \cup gone
      /\ c.has = b.has \cup (ToSet(s) \ {Frame})
      /\ c.answered = b.answered /\ c.shut = b.shut /\ c.link = b.link
      /\ c.outbound = b.outbound /\ c.posted = b.posted
  BY DEF HandOver, Shaped
<1>2. Only(s, Reqs) \in Seq(Reqs) /\ ToSet(Only(s, Reqs)) = ToSet(s) \cap Reqs
  <2>1. Only(s, Reqs) \in Seq(Msgs \cap Reqs) /\ Msgs \cap Reqs = Reqs
    BY OnlyIs DEF Msgs
  <2> QED
    BY <2>1, OnlyIs
<1>3. ids \in Seq(Reqs) /\ ToSet(ids) = ToSet(b.pending) \cup (ToSet(s) \cap Reqs)
  BY <1>2, ToSetConcat
<1>4. over \in 0..Len(ids) /\ Len(ids) \in Nat
  BY <1>3, HostAssumption
<1> HIDE DEF ids, over
<1>5. kept \in Seq(Reqs) /\ ToSet(kept) \subseteq ToSet(ids) /\ ToSet(ids) = ToSet(kept) \cup gone
  BY <1>3, <1>4, SplitsAt
<1> HIDE DEF kept, gone, c
<1>6. Frame \notin Reqs
  BY HostAssumption
<1> QED
  BY <1>1, <1>3, <1>5, <1>6 DEF c

LEMMA StartedCounts ==
    ASSUME NEW dialed \in BOOLEAN
    PROVE  Counted(Started(dialed))
<1> DEFINE b == Started(dialed)
<1>1. /\ b.pending = <<>> /\ b.outbound = <<>> /\ b.has = {} /\ b.posted = {} /\ b.lost = {}
      /\ b.answered = [q \in Reqs |-> 0] /\ b.link # "READY"
  BY DEF Started
<1> HIDE DEF b
<1>2. <<>> \in Seq(Reqs) /\ ToSet(<<>>) = {}
  BY DEF ToSet
<1>3. b.answered \in [Reqs -> 0..1] /\ \A q \in Reqs : b.answered[q] = 0
  BY <1>1
<1>4. Counted(b)
  BY <1>1, <1>2, <1>3 DEF Counted
<1> QED
  BY <1>4 DEF b

(* A socket that closes: what its broker had is failed, or lost to a newer *)
(* registration; what waits in the buffer goes on waiting.                 *)
LEMMA CloseCounts ==
    ASSUME NEW b, Shaped(b), Counted(b), ~b.shut, b.outbound \in Seq(Msgs)
    PROVE  Counted(OnSocketClosed(b))
<1> DEFINE c == [b EXCEPT !.link = "DOWN", !.sock = "none", !.awaiting = FALSE,
                          !.socketBlocked = FALSE, !.stdinPaused = FALSE,
                          !.sockPaused = FALSE, !.has = {}]
           d == OnSocketClosed(b)
<1>1. /\ Shaped(c) /\ c.link = "DOWN" /\ c.has = {} /\ c.replaced = b.replaced /\ c.registered = b.registered
      /\ c.pending = b.pending /\ c.answered = b.answered /\ c.shut = b.shut
      /\ c.outbound = b.outbound /\ c.posted = b.posted /\ c.lost = b.lost
  BY DEF Shaped
<1>2. b.link # "READY" => b.pending = <<>>
  BY DEF Counted
<1>3. ToSet(<<>>) = {}
  BY DEF ToSet
<1>4. <<>> \in Seq(Reqs)
  OBVIOUS
<1>5. CASE b.replaced
  <2>1. d = [c EXCEPT !.pending = <<>>, !.lost = @ \cup ToSet(c.pending)]
    BY <1>1, <1>5 DEF OnSocketClosed
  <2> HIDE DEF c, d
  <2>2. /\ d.link = "DOWN" /\ d.has = {} /\ d.pending = <<>> /\ d.lost = b.lost \cup ToSet(b.pending)
        /\ d.answered = b.answered /\ d.shut = b.shut /\ d.outbound = b.outbound /\ d.posted = b.posted
    BY <1>1, <2>1 DEF Shaped
  <2>3. Counted(d)
    BY <1>3, <1>4, <2>2 DEF Counted
  <2> QED
    BY <2>3 DEF d
<1>6. CASE ~b.replaced
  <2> DEFINE e == FailPendingRequests(c)
  <2>1. /\ Shaped(e) /\ e.link = "DOWN" /\ e.has = {} /\ e.pending = <<>> /\ e.lost = b.lost
        /\ e.shut = b.shut /\ e.outbound = b.outbound /\ e.posted = b.posted
        /\ e.answered = [q \in Reqs |-> IF q \in ToSet(b.pending) THEN b.answered[q] + 1 ELSE b.answered[q]]
    BY <1>1 DEF FailPendingRequests, Shaped
  <2>2. d = [RefuseRegistration(e) EXCEPT !.retry = TRUE]
    BY <1>1, <1>6 DEF OnSocketClosed
  <2> HIDE DEF c, e, d
  <2>3. /\ d.link = "DOWN" /\ d.has = {} /\ d.pending = <<>> /\ d.lost = b.lost
        /\ d.shut = b.shut /\ d.posted = b.posted /\ d.answered = e.answered
        /\ d.outbound = b.outbound \/ d.outbound = DropRegister(b.outbound)
    BY <2>1, <2>2 DEF RefuseRegistration, Shaped
  <2>4. ToSet(d.outbound) \cap Reqs = ToSet(b.outbound) \cap Reqs
    BY <2>3, DropKeeps
  <2>5. \A q \in Reqs : q \in ToSet(b.pending) => b.answered[q] = 0 /\ q \in b.posted /\ q \notin ToSet(b.outbound)
    BY <1>2, <1>3 DEF Counted
  <2>6. d.answered \in [Reqs -> 0..1]
    BY <2>1, <2>3, <2>5 DEF Counted
  <2>7. \A q \in Reqs : d.answered[q] = IF q \in ToSet(b.pending) THEN 1 ELSE b.answered[q]
    BY <2>1, <2>3, <2>5
  <2>8. Counted(d)
    BY <1>3, <1>4, <2>3, <2>4, <2>5, <2>6, <2>7 DEF Counted
  <2> QED
    BY <2>8 DEF d
<1> QED
  BY <1>5, <1>6

LEMMA ClosesCounts ==
    ASSUME HostInv, CountInv, DialFails \/ Closed
    PROVE  CountInv'
<1>1. PICK full \in BOOLEAN : Become(OnSocketClosed(SendToBrowser(Now, full)))
                           \/ Become(SendToBrowser(OnSocketClosed(Now), full))
  BY DEF DialFails, Closed
<1>2. ~Now.shut /\ Stands(Now) /\ Shaped(Now) /\ Now.outbound \in Seq(Msgs)
  BY NowIs DEF DialFails, Closed, HostInv, Stands, Types
<1>3. CASE Become(SendToBrowser(OnSocketClosed(Now), full))
  <2>1. Shaped(OnSocketClosed(Now)) /\ Counted(OnSocketClosed(Now))
    BY <1>2, CloseIsHeard, CloseCounts DEF CountInv
  <2> QED
    BY <1>3, <2>1, SendCounts, SameCounts, BecomeCounts
<1>4. CASE Become(OnSocketClosed(SendToBrowser(Now, full)))
  <2> DEFINE b == SendToBrowser(Now, full)
  <2>1. Shaped(b) /\ SameCount(Now, b)
    BY <1>2, SendCounts DEF SendToBrowser, Shaped
  <2> HIDE DEF b
  <2>2. Counted(b) /\ ~b.shut /\ b.outbound \in Seq(Msgs)
    BY <1>2, <2>1, SameCounts DEF SameCount, CountInv
  <2> QED
    BY <1>4, <2>1, <2>2, CloseCounts, BecomeCounts DEF b
<1> QED
  BY <1>1, <1>3, <1>4

LEMMA ConnectCounts ==
    ASSUME HostInv, CountInv, Connect
    PROVE  CountInv'
<1> DEFINE b == [Now EXCEPT !.retry = FALSE, !.link = "CONNECTING", !.sock = "dialing",
                            !.awaiting = TRUE]
<1>1. ~shut /\ retry /\ Become(b)
  BY DEF Connect
<1>2. /\ b.pending = pending /\ b.answered = answered /\ b.shut = shut /\ b.link = "CONNECTING"
      /\ b.outbound = outbound /\ b.has = has /\ b.posted = posted /\ b.lost = lost
  BY DEF Now
<1> HIDE DEF b
<1>3. link # "READY"
  BY <1>1, NowIs DEF HostInv, Stands, Linked
<1>4. Counted(b)
  BY <1>2, <1>3, NowCounts DEF CountInv, Counted
<1> QED
  BY <1>1, <1>4, BecomeCounts

(* Nothing of a request is touched. *)
LEMMA QuietCounts ==
    ASSUME CountInv,
           \/ \E who : Connected(who)
           \/ AckTimeout \/ Breaks \/ Speaks \/ NoticeReplaced \/ Drains \/ StdoutDrains
           \/ \E ok \in BOOLEAN : RegisterAcked(ok)
    PROVE  CountInv'
<1>1. SameCount(Now, Now)
  BY DEF SameCount
<1>2. ASSUME NEW b, NEW full, SameCount(Now, b), Shaped(b), Become(b) \/ Become(SendToBrowser(b, full))
      PROVE  CountInv'
  BY <1>2, SendCounts, SameCounts, BecomeCounts DEF CountInv
<1>3. Shaped(Now)
  BY NowShaped
<1>4. ASSUME NEW who, Connected(who) PROVE CountInv'
  <2>1. SameCount(Now, [Now EXCEPT !.sock = "open", !.peer = who])
    BY DEF SameCount, Now
  <2>2. Shaped([Now EXCEPT !.sock = "open", !.peer = who])
    BY DEF Shaped, Now
  <2> QED
    BY <1>2, <1>4, <2>1, <2>2 DEF Connected
<1>5. CASE AckTimeout \/ Breaks
  <2>1. SameCount(Now, [Now EXCEPT !.sock = "destroyed"]) /\ Shaped([Now EXCEPT !.sock = "destroyed"])
    BY DEF SameCount, Now, Shaped
  <2> QED
    BY <1>2, <1>5, <2>1 DEF AckTimeout, Breaks
<1>6. CASE Speaks
  BY <1>1, <1>2, <1>3, <1>6 DEF Speaks
<1>7. CASE NoticeReplaced
  <2>1. SameCount(Now, [Now EXCEPT !.replaced = TRUE]) /\ Shaped([Now EXCEPT !.replaced = TRUE])
    BY DEF SameCount, Now, Shaped
  <2> QED
    BY <1>2, <1>7, <2>1 DEF NoticeReplaced
<1>8. CASE Drains
  <2>1. SameCount(Now, [Now EXCEPT !.socketBlocked = FALSE, !.stdinPaused = FALSE])
        /\ Shaped([Now EXCEPT !.socketBlocked = FALSE, !.stdinPaused = FALSE])
    BY DEF SameCount, Now, Shaped
  <2> QED
    BY <1>2, <1>8, <2>1 DEF Drains
<1>9. CASE StdoutDrains
  <2>1. SameCount(Now, [Now EXCEPT !.stdoutBlocked = FALSE, !.sockPaused = FALSE])
        /\ Shaped([Now EXCEPT !.stdoutBlocked = FALSE, !.sockPaused = FALSE])
    BY DEF SameCount, Now, Shaped
  <2> QED
    BY <1>2, <1>9, <2>1 DEF StdoutDrains
<1>10. ASSUME NEW ok \in BOOLEAN, RegisterAcked(ok) PROVE CountInv'
  <2> DEFINE b == IF ok THEN [Now EXCEPT !.told = "ok"]
                  ELSE [Now EXCEPT !.told = "refused", !.has = @ \ {Register}]
  <2>1. PICK full \in BOOLEAN : Become(SendToBrowser(b, full))
    BY <1>10 DEF RegisterAcked
  <2>2. SameCount(Now, b) /\ Shaped(b)
    BY HostAssumption DEF SameCount, Now, Shaped
  <2> HIDE DEF b
  <2> QED
    BY <1>2, <2>1, <2>2
<1> QED
  BY <1>4, <1>5, <1>6, <1>7, <1>8, <1>9, <1>10

LEMMA FirstFrameCounts ==
    ASSUME HostInv, CountInv, NEW frame \in {"ack", "nack", "other"}, FirstFrame(frame)
    PROVE  CountInv'
<1> DEFINE b == [Now EXCEPT !.awaiting = FALSE]
<1>1. ~shut /\ sock = "open" /\ awaiting
  BY DEF FirstFrame
<1>2. Shaped(b) /\ SameCount(Now, b)
  BY DEF Now, Shaped, SameCount
<1>3. \/ Become([b EXCEPT !.sock = "destroyed"])
      \/ \E full \in BOOLEAN :
           Become(WriteFills(FlushOutbound([b EXCEPT !.link = "READY"]), full /\ outbound # <<>>))
  BY DEF FirstFrame
<1> HIDE DEF b
<1>4. CASE Become([b EXCEPT !.sock = "destroyed"])
  <2>1. SameCount(Now, [b EXCEPT !.sock = "destroyed"])
    BY <1>2 DEF SameCount, Shaped
  <2> QED
    BY <1>4, <2>1, SameCounts, BecomeCounts DEF CountInv
<1>5. ASSUME NEW full \in BOOLEAN,
             Become(WriteFills(FlushOutbound([b EXCEPT !.link = "READY"]), full /\ outbound # <<>>))
      PROVE  CountInv'
  <2> DEFINE c == [[b EXCEPT !.link = "READY"] EXCEPT !.outbound = <<>>]
             d == HandOver(c, outbound)
  <2>1. b.outbound = outbound /\ b.shut = shut
    BY <1>2, NowCounts DEF SameCount
  <2>2. d = FlushOutbound([b EXCEPT !.link = "READY"])
    BY <1>2, <2>1 DEF FlushOutbound, Shaped
  <2>3. link # "READY" /\ outbound \in Seq(Msgs)
    BY <1>1, NowIs DEF HostInv, Stands, Types, Linked
  <2>4. pending = <<>> /\ has \cap Reqs = {} /\ pending \in Seq(Reqs)
    BY <1>1, <2>3, NowCounts DEF CountInv, Counted
  <2>5. /\ Shaped(c) /\ c.link = "READY" /\ c.outbound = <<>> /\ c.pending = <<>> /\ c.has \cap Reqs = {}
        /\ c.answered = answered /\ c.shut = shut /\ c.posted \cap Reqs = posted \cap Reqs /\ c.lost = lost
    BY <1>2, <2>4, NowCounts DEF Shaped, SameCount
  <2> HIDE DEF c
  <2>6. /\ d.pending \in Seq(Reqs)
        /\ ToSet(d.pending) \subseteq ToSet(outbound) \cap Reqs
        /\ ToSet(outbound) \cap Reqs \subseteq ToSet(d.pending) \cup d.lost
        /\ lost \subseteq d.lost
        /\ d.has \cap Reqs = ToSet(outbound) \cap Reqs
        /\ d.answered = answered /\ d.shut = shut /\ d.link = "READY"
        /\ d.outbound = <<>> /\ d.posted \cap Reqs = posted \cap Reqs
    <3>1. ToSet(c.pending) = {} /\ c.pending \in Seq(Reqs)
      BY <2>5 DEF ToSet
    <3>2. /\ d.pending \in Seq(Reqs)
          /\ ToSet(d.pending) \subseteq ToSet(c.pending) \cup (ToSet(outbound) \cap Reqs)
          /\ ToSet(c.pending) \cup (ToSet(outbound) \cap Reqs) \subseteq ToSet(d.pending) \cup d.lost
          /\ c.lost \subseteq d.lost
          /\ d.has \cap Reqs = (c.has \cup ToSet(outbound)) \cap Reqs
          /\ d.answered = c.answered /\ d.shut = c.shut /\ d.link = c.link
          /\ d.outbound = c.outbound /\ d.posted = c.posted
      BY <2>3, <2>5, <3>1, HandOverCounts
    <3> HIDE DEF d
    <3> QED
      BY <2>5, <3>1, <3>2
  <2>7. Shaped(d)
    BY <2>5 DEF HandOver, Shaped
  <2> HIDE DEF d
  <2>8. Counted(d)
    <3>1. ToSet(<<>>) = {} /\ ToSet(pending) = {}
      BY <2>4 DEF ToSet
    <3>2. /\ answered \in [Reqs -> 0..1]
          /\ \A q \in Reqs :
              /\ q \in posted /\ answered[q] = 0 => q \in ToSet(outbound) \cup lost
              /\ q \notin posted \/ answered[q] = 1 => q \notin ToSet(outbound)
              /\ q \notin posted => answered[q] = 0
      BY <1>1, <3>1, NowCounts DEF CountInv, Counted
    <3> QED
      BY <2>6, <3>1, <3>2 DEF Counted
  <2> QED
    BY <1>5, <2>2, <2>7, <2>8, SendCounts, SameCounts, BecomeCounts
<1> QED
  BY <1>3, <1>4, <1>5

(* An answer is for a request that is with the broker, and it leaves it.   *)
LEMMA AnswersCounts ==
    ASSUME CountInv, NEW q \in Reqs, Answers(q)
    PROVE  CountInv'
<1> DEFINE b == [Now EXCEPT !.has = @ \ {q},
                            !.pending = Only(@, Reqs \ {q}),
                            !.answered[q] = @ + 1]
<1>1. PICK full \in BOOLEAN : Become(SendToBrowser(b, full))
  BY DEF Answers
<1>2. ~shut /\ link = "READY" /\ q \in has
  BY DEF Answers, Routed, Heard
<1>3. /\ Shaped(b) /\ b.has = has \ {q} /\ b.pending = Only(pending, Reqs \ {q})
      /\ b.answered = [answered EXCEPT ![q] = @ + 1]
      /\ b.shut = shut /\ b.link = link /\ b.outbound = outbound /\ b.posted = posted /\ b.lost = lost
  BY DEF Now, Shaped
<1> HIDE DEF b
<1>4. pending \in Seq(Reqs) /\ answered \in [Reqs -> 0..1]
  BY NowCounts DEF CountInv, Counted
<1>5. b.pending \in Seq(Reqs) /\ ToSet(b.pending) = ToSet(pending) \ {q}
  <2> DEFINE rest == Reqs \ {q}
  <2>1. Only(pending, rest) \in Seq(Reqs \cap rest) /\ ToSet(Only(pending, rest)) = ToSet(pending) \cap rest
    BY <1>4, OnlyIs
  <2>2. ToSet(pending) \subseteq Reqs
    BY <1>4 DEF ToSet
  <2>3. Reqs \cap rest \subseteq Reqs
    OBVIOUS
  <2> HIDE DEF rest
  <2>4. Only(pending, rest) \in Seq(Reqs)
    BY <2>1, <2>3
  <2> QED
    BY <1>3, <2>1, <2>2, <2>4 DEF rest
<1>6. q \in posted /\ answered[q] = 0 /\ outbound = <<>>
  BY <1>2, <1>4, NowCounts DEF CountInv, Counted
<1>7. b.answered \in [Reqs -> 0..1] /\ \A p \in Reqs : b.answered[p] = IF p = q THEN 1 ELSE answered[p]
  BY <1>3, <1>4, <1>6
<1>8. ToSet(<<>>) = {}
  BY DEF ToSet
<1>9. Counted(b)
  BY <1>2, <1>3, <1>5, <1>6, <1>7, <1>8, NowCounts DEF CountInv, Counted
<1> QED
  BY <1>1, <1>3, <1>9, SendCounts, SameCounts, BecomeCounts

(* A request the browser makes now is handed over, waits, or is failed.    *)
LEMMA SaysCounts ==
    ASSUME HostInv, CountInv, NEW m \in Msgs, BrowserSays(m)
    PROVE  CountInv'
<1> DEFINE b == [Now EXCEPT !.posted = @ \cup ({m} \ {Frame}),
                            !.told = IF m = Register THEN "asked" ELSE @]
<1>1. ~shut /\ m \notin posted \ {Frame}
  BY DEF BrowserSays
<1>2. /\ Shaped(b) /\ b.pending = pending /\ b.answered = answered /\ b.shut = shut /\ b.link = link
      /\ b.outbound = outbound /\ b.has = has /\ b.posted = posted \cup ({m} \ {Frame}) /\ b.lost = lost
  BY DEF Now, Shaped
<1>3. PICK full \in BOOLEAN :
         \/ link = "READY" /\ Become(WriteFills(HandOver(b, <<m>>), full))
         \/ link = "CONNECTING" /\ Become(FromBrowserConnecting(b, m))
         \/ link = "DOWN" /\ Become(SendToBrowser(FromBrowserDown(b, m), full /\ m # Frame))
  BY NowIs DEF BrowserSays, HostInv, Stands, Types
<1> HIDE DEF b
<1>4. Frame \notin Reqs /\ Register \notin Reqs /\ Register # Frame
  BY HostAssumption
<1>5. /\ pending \in Seq(Reqs) /\ answered \in [Reqs -> 0..1] /\ outbound \in Seq(Msgs)
      /\ link = "READY" => outbound = <<>>
      /\ link # "READY" => pending = <<>> /\ has \cap Reqs = {}
      /\ \A q \in Reqs :
           /\ q \in posted /\ answered[q] = 0 => q \in ToSet(outbound) \cup ToSet(pending) \cup lost
           /\ q \notin posted \/ answered[q] = 1 => q \notin ToSet(outbound) \cup ToSet(pending) \cup has
           /\ q \notin posted => answered[q] = 0
  BY <1>1, NowIs, NowCounts DEF CountInv, Counted, HostInv, Stands, Types
<1>6. ToSet(<<>>) = {} /\ ToSet(<<m>>) = {m}
  BY DEF ToSet
<1>7. \A q \in Reqs : q \in b.posted <=> q \in posted \/ q = m
  BY <1>2, <1>4
<1>8. m \in Reqs => m \notin posted
  BY <1>1, <1>4
<1>9. CASE link = "READY" /\ Become(WriteFills(HandOver(b, <<m>>), full))
  <2> DEFINE c == HandOver(b, <<m>>)
  <2>1. /\ c.pending \in Seq(Reqs)
        /\ ToSet(c.pending) \subseteq ToSet(pending) \cup ({m} \cap Reqs)
        /\ ToSet(pending) \cup ({m} \cap Reqs) \subseteq ToSet(c.pending) \cup c.lost
        /\ lost \subseteq c.lost
        /\ c.has \cap Reqs = (has \cup {m}) \cap Reqs
        /\ c.answered = answered /\ c.shut = shut /\ c.link = link
        /\ c.outbound = outbound /\ c.posted = b.posted
    <3>1. <<m>> \in Seq(Msgs)
      OBVIOUS
    <3> QED
      BY <1>2, <1>5, <1>6, <3>1, HandOverCounts
  <2>2. Shaped(c)
    BY <1>2 DEF HandOver, Shaped
  <2> HIDE DEF c
  <2>3. Counted(c)
    BY <1>5, <1>6, <1>7, <1>8, <1>9, <2>1 DEF Counted
  <2> QED
    BY <1>9, <2>2, <2>3, SendCounts, SameCounts, BecomeCounts DEF c
<1>10. ASSUME NEW e, NEW c, Shaped(e), SameCount(b, e), c = BufferOutbound(e, m), link # "READY",
              m \in Reqs => link = "CONNECTING"
       PROVE  Counted(c) /\ Shaped(c)
  <2> DEFINE s == Append(outbound, m)
  <2>1. s \in Seq(Msgs) /\ ToSet(s) = ToSet(outbound) \cup {m} /\ s # <<>>
    <3>1. s \in Seq(Msgs) /\ Len(s) = Len(outbound) + 1 /\ Len(outbound) \in Nat
      BY <1>5
    <3>2. ToSet(s) = ToSet(outbound) \cup {m}
      BY <1>5, ToSetAppend
    <3> QED
      BY <3>1, <3>2
  <2>2. /\ c.pending = pending /\ c.answered = answered /\ c.shut = shut /\ c.link = link
        /\ c.has \cap Reqs = has \cap Reqs /\ c.posted \cap Reqs = b.posted \cap Reqs
        /\ Shaped(c)
        /\ \/ c.outbound = s /\ c.lost = lost
           \/ c.outbound = Tail(s) /\ c.lost = lost \cup ({Head(s)} \cap Reqs)
    BY <1>2, <1>10 DEF BufferOutbound, SameCount, Shaped
  <2> HIDE DEF s
  <2>3. ToSet(Tail(s)) \cup {Head(s)} = ToSet(s)
    BY <2>1, HeadAndTail
  <2>4. /\ ToSet(c.outbound) \subseteq ToSet(outbound) \cup {m}
        /\ (ToSet(outbound) \cup {m}) \cap Reqs \subseteq ToSet(c.outbound) \cup c.lost
        /\ lost \subseteq c.lost
    BY <2>1, <2>2, <2>3
  <2> QED
    BY <1>1, <1>5, <1>6, <1>7, <1>8, <1>10, <2>2, <2>4 DEF Counted
<1>11. CASE link = "CONNECTING" /\ Become(FromBrowserConnecting(b, m))
  <2> DEFINE e == [b EXCEPT !.registered = @ \/ m = Register]
  <2>1. Shaped(e) /\ SameCount(b, e)
    BY <1>2 DEF Shaped, SameCount
  <2>2. FromBrowserConnecting(b, m) = BufferOutbound(e, m)
    BY DEF FromBrowserConnecting
  <2> HIDE DEF e
  <2> QED
    BY <1>10, <1>11, <2>1, <2>2, BecomeCounts
<1>12. CASE link = "DOWN" /\ Become(SendToBrowser(FromBrowserDown(b, m), full /\ m # Frame))
  <2> DEFINE c == FromBrowserDown(b, m)
  <2>1. Shaped(c) /\ Counted(c)
    <3>1. CASE m = Register
      <4>1. c = [b EXCEPT !.told = "void"]
        BY <1>4, <3>1 DEF FromBrowserDown
      <4>2. SameCount(Now, c) /\ Shaped(c)
        BY <1>2, <1>4, <3>1, <4>1, NowCounts DEF SameCount, Shaped
      <4> QED
        BY <4>2, SameCounts DEF CountInv
    <3>2. CASE m \in Reqs
      <4>1. c = [b EXCEPT !.answered[m] = @ + 1]
        BY <1>4, <3>2 DEF FromBrowserDown
      <4> HIDE DEF c
      <4>2. /\ Shaped(c) /\ c.pending = pending /\ c.shut = shut /\ c.link = link
            /\ c.outbound = outbound /\ c.has = has /\ c.posted = b.posted /\ c.lost = lost
            /\ c.answered = [answered EXCEPT ![m] = @ + 1]
        BY <1>2, <4>1 DEF Shaped
      <4>3. answered[m] = 0
        BY <1>5, <1>8, <3>2
      <4>4. c.answered \in [Reqs -> 0..1] /\ \A q \in Reqs : c.answered[q] = IF q = m THEN 1 ELSE answered[q]
        BY <1>5, <3>2, <4>2, <4>3
      <4>5. Counted(c)
        BY <1>5, <1>6, <1>7, <1>8, <1>12, <3>2, <4>2, <4>4 DEF Counted
      <4> QED
        BY <4>2, <4>5
    <3>3. CASE m = Frame
      <4>1. c = BufferOutbound(b, m)
        BY <1>4, <3>3 DEF FromBrowserDown
      <4>2. SameCount(b, b)
        BY DEF SameCount
      <4> QED
        BY <1>2, <1>4, <1>10, <1>12, <3>3, <4>1, <4>2
    <3> QED
      BY <3>1, <3>2, <3>3 DEF Msgs
  <2> HIDE DEF c
  <2> QED
    BY <1>12, <2>1, SendCounts, SameCounts, BecomeCounts DEF c
<1> QED
  BY <1>3, <1>9, <1>11, <1>12

LEMMA PortCounts ==
    ASSUME HostInv, CountInv, PortCloses \/ PortOpens
    PROVE  CountInv'
<1>1. CASE PortCloses
  <2> DEFINE b == Shutdown(Now)
  <2>1. Become(b)
    BY <1>1 DEF PortCloses
  <2>2. pending \in Seq(Reqs) /\ answered \in [Reqs -> 0..1] /\ outbound \in Seq(Msgs)
    BY NowIs, NowCounts DEF CountInv, Counted, HostInv, Stands, Types
  <2>3. b.pending \in Seq(Reqs) /\ b.answered = answered /\ b.shut = TRUE
    <3>1. CASE sock # "none" /\ link = "READY"
      <4> DEFINE c == [Now EXCEPT !.outbound = <<>>]
                 d == HandOver(c, outbound)
      <4>1. Shaped(c) /\ c.pending = pending /\ c.answered = answered
        BY NowCounts DEF Now, Shaped
      <4>2. b = [d EXCEPT !.shut = TRUE]
        BY <3>1, NowIs DEF Shutdown, FlushOutbound
      <4> HIDE DEF c
      <4>3. Shaped(d) /\ d.pending \in Seq(Reqs) /\ d.answered = answered
        BY <2>2, <4>1, HandOverCounts DEF HandOver, Shaped
      <4> HIDE DEF d
      <4> QED
        BY <4>2, <4>3 DEF Shaped
    <3>2. CASE ~(sock # "none" /\ link = "READY")
      <4>1. b = [Now EXCEPT !.shut = TRUE, !.outbound = <<>>]
        BY <3>2, NowIs DEF Shutdown
      <4> QED
        BY <2>2, <4>1, NowCounts, NowShaped DEF Shaped
    <3> QED
      BY <3>1, <3>2
  <2> HIDE DEF b
  <2>4. Counted(b)
    BY <2>2, <2>3 DEF Counted
  <2> QED
    BY <2>1, <2>4, BecomeCounts
<1>2. CASE PortOpens
  <2>1. \A dialed \in BOOLEAN : Counted(Started(dialed))
    BY StartedCounts
  <2> QED
    BY <1>2, <2>1, BecomeCounts DEF PortOpens
<1> QED
  BY <1>1, <1>2

LEMMA CountStep ==
    ASSUME HostInv, CountInv, [Next]_vars
    PROVE  CountInv'
<1>1. CASE UNCHANGED vars
  <2>1. Now' = Now
    BY <1>1 DEF vars, relay, pipes, world, Now
  <2> QED
    BY <2>1 DEF CountInv
<1>2. CASE Next
  BY <1>2, ConnectCounts, QuietCounts, ClosesCounts, FirstFrameCounts, AnswersCounts, SaysCounts, PortCounts
     DEF Next
<1> QED
  BY <1>1, <1>2

(* What the relay loses with its link it says: an introduction is void, a  *)
(* request of the browser is failed; and no request is answered twice, or  *)
(* forgotten but by a bound or a replacement (host/index.mjs,              *)
(* failPendingRequests, refuseRegistration and rememberRequest).           *)
THEOREM WhatIsLostIsSaid == Spec => []NothingIsLostInSilence
<1>1. Init => CountInv
  <2> SUFFICES ASSUME Init PROVE CountInv
    OBVIOUS
  <2>1. PICK dialed \in BOOLEAN : SameCount(Started(dialed), Now)
    BY DEF Init, SameCount, Now, Started
  <2> QED
    BY <2>1, StartedCounts, SameCounts DEF CountInv
<1>2. HostInv /\ CountInv /\ [Next]_vars => CountInv'
  BY CountStep
<1>3. CountInv => RequestsAccounted
  <2> SUFFICES ASSUME CountInv, NEW q \in posted \cap Reqs
               PROVE  /\ answered[q] <= 1
                      /\ answered[q] = 0 /\ ~shut =>
                           \/ q \in ToSet(outbound) \cup lost
                           \/ link = "READY" /\ q \in ToSet(pending)
    BY DEF RequestsAccounted
  <2>1. answered[q] \in 0..1
    BY NowCounts DEF CountInv, Counted
  <2>2. ToSet(<<>>) = {}
    BY DEF ToSet
  <2> QED
    BY <2>1, <2>2, NowCounts DEF CountInv, Counted
<1>4. OrphanHears /\ RequestsAccounted => NothingIsLostInSilence
  BY DEF NothingIsLostInSilence
<1> QED
  BY <1>1, <1>2, <1>3, <1>4, HostInvariant, AnOrphanHears, PTL DEF Spec
=============================================================================
