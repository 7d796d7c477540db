------------------------------- MODULE Session -------------------------------
(***************************************************************************)
(* The way from an agent session to the broker: broker processes that come *)
(* and go, publish a fresh token in runtime.json and own the pipe's name   *)
(* one at a time (bridged/index.mjs, shared/paths.mjs), and the client of  *)
(* one session, which dials when it is asked for something, demands a      *)
(* proof, and never sends a request twice (mcp-server/client.mjs,          *)
(* shared/auth.mjs).                                                       *)
(* An await is a place where other steps come in between; what a settled   *)
(* promise resumes runs before the next event, so it is part of the step   *)
(* that settled it.                                                        *)
(***************************************************************************)
EXTENDS Naturals, FiniteSets

CONSTANTS
    Brokers,       \* broker processes, each started once; each has its own token
    Calls,         \* what the session asks for
    None,          \* no process, no token
    MaxTrouble     \* a bound of the model: how often something goes wrong

ASSUME SessionAssumption ==
    Brokers \cap {None, "stranger", "legacy", "stale"} = {} /\ MaxTrouble \in Nat

VARIABLES
    posix,         \* the pipe is a socket file, which outlives its process
    proc,          \* where each broker process is
    path,          \* who answers at the pipe's name
    runtime,       \* whose token runtime.json holds
    phase,         \* of the client: what became of its #connecting and #socket
    closed,        \* #closed
    cred,          \* the token its HELLO proves and its ack must prove
    peer,          \* whom its socket leads to
    call,          \* each call of the session
    writtenTo,     \* the broker a call was written to
    ran,           \* how often its operation was carried out
    begun,         \* calls made when nothing was wrong any more
    strangers,     \* calls that were written to something that is not the broker
    trouble        \* what may still go wrong

machine == <<posix, proc, path, runtime>>
client == <<phase, closed, cred, peer>>
calls == <<call, writtenTo, ran, begun, strangers>>
sessionVars == <<machine, client, calls, trouble>>

Stranger == "stranger"    \* a process of somebody else at the pipe's name
Legacy == "legacy"        \* a file of a broker from before the proof
Waiting == {c \in Calls : call[c] = "waiting"}
Sent == {c \in Calls : call[c] = "sent"}
Done == {"ok", "refused", "failed", "late"}

Calm == UNCHANGED trouble
Trouble == trouble > 0 /\ trouble' = trouble - 1

SessionInit ==
    /\ posix \in BOOLEAN
    /\ proc = [b \in Brokers |-> "off"]
    /\ path \in {None, Stranger} \cup (IF posix THEN {"stale"} ELSE {})
    /\ runtime \in {None, Legacy, "stale"}
    /\ phase = "none" /\ closed = FALSE /\ cred = None /\ peer = None
    /\ call = [c \in Calls |-> "idle"] /\ writtenTo = [c \in Calls |-> None]
    /\ ran = [c \in Calls |-> 0] /\ begun = {} /\ strangers = {}
    /\ trouble = MaxTrouble

-----------------------------------------------------------------------------
(* The broker processes.                                                   *)

Answering(p) == p = Stranger \/ (p \in Brokers /\ proc[p] \in {"bound", "up"})

(* Mutant: the token is published before the pipe is bound.                *)
StartsPublished(b) ==
    /\ proc[b] = "off" /\ runtime' = b
    /\ proc' = [proc EXCEPT ![b] = IF posix /\ path # None THEN "probing" ELSE "binding"]
    /\ UNCHANGED <<posix, path, client, calls, trouble>>

(* A supervisor or a person starts one. It looks at the socket file first. *)
Starts(b) ==
    /\ proc[b] = "off"
    /\ proc' = [proc EXCEPT ![b] = IF posix /\ path # None THEN "probing" ELSE "binding"]
    /\ UNCHANGED <<posix, path, runtime, client, calls, trouble>>

(* clearStaleSocket: whether anything answers at the file that is there. *)
Probes(b) ==
    /\ proc[b] = "probing"
    /\ proc' = [proc EXCEPT ![b] = IF Answering(path) THEN "binding" ELSE "clearing"]
    /\ UNCHANGED <<posix, path, runtime, client, calls, trouble>>

(* The file is removed and the name bound, or it is taken: exit 0. *)
Binds(b) ==
    /\ proc[b] \in {"binding", "clearing"}
    /\ LET mine == proc[b] = "clearing" \/ path = None IN
       /\ proc' = [proc EXCEPT ![b] = IF mine THEN "bound" ELSE "gone"]
       /\ path' = IF mine THEN b ELSE path
    /\ UNCHANGED <<posix, runtime, client, calls, trouble>>

(* writeRuntime, once the pipe is bound. *)
Publishes(b) ==
    /\ proc[b] = "bound"
    /\ proc' = [proc EXCEPT ![b] = "up"] /\ runtime' = b
    /\ UNCHANGED <<posix, path, client, calls, trouble>>

(* What a broker held in memory goes with it; the client hears it later.    *)
Forgotten(b) == [c \in Calls |-> IF writtenTo[c] = b THEN None ELSE writtenTo[c]]

(* shutdown: the runtime file goes if it is still ours, and every socket. *)
Leaves(b) ==
    /\ proc[b] = "up" /\ Trouble
    /\ proc' = [proc EXCEPT ![b] = "leaving"]
    /\ runtime' = IF runtime = b THEN None ELSE runtime
    /\ writtenTo' = Forgotten(b)
    /\ UNCHANGED <<posix, path, client, call, ran, begun, strangers>>

(* server.close and exit: on POSIX the socket file is unlinked by name. *)
Closes(b) ==
    /\ proc[b] = "leaving"
    /\ proc' = [proc EXCEPT ![b] = "gone"]
    /\ path' = IF posix \/ path = b THEN None ELSE path
    /\ UNCHANGED <<posix, runtime, client, calls, trouble>>

(* Killed: neither file is cleaned up. *)
Dies(b) ==
    /\ proc[b] \in {"bound", "up"} /\ Trouble
    /\ proc' = [proc EXCEPT ![b] = "gone"]
    /\ path' = IF path # b THEN path ELSE IF posix THEN "stale" ELSE None
    /\ writtenTo' = Forgotten(b)
    /\ UNCHANGED <<posix, runtime, client, call, ran, begun, strangers>>

StrangerGoes ==
    /\ path = Stranger /\ path' = None
    /\ UNCHANGED <<posix, proc, runtime, client, calls, trouble>>

-----------------------------------------------------------------------------
(* The client.                                                             *)

(* Mutant: what was in flight is sent again over the next link.            *)
TeardownRetries ==
    /\ phase' = "none" /\ peer' = None
    /\ call' = [c \in Calls |-> CASE call[c] = "waiting" -> "failed"
                                  [] call[c] = "sent"    -> "idle"
                                  [] OTHER               -> call[c]]
    /\ UNCHANGED <<closed, cred>>

FailAll(cs) == [c \in Calls |-> IF c \in cs THEN "failed" ELSE call[c]]

(* #teardown, and the calls that waited for the handshake it failed. *)
Teardown ==
    /\ phase' = "none" /\ peer' = None
    /\ call' = FailAll(Waiting \cup Sent)
    /\ UNCHANGED <<closed, cred>>

(* The request leaves for the peer of the socket, once. *)
Write(cs) ==
    /\ call' = [c \in Calls |-> IF c \in cs THEN "sent" ELSE call[c]]
    /\ writtenTo' = [c \in Calls |-> IF c \in cs /\ peer \in Brokers THEN peer ELSE writtenTo[c]]
    /\ strangers' = strangers \cup (IF peer \in Brokers THEN {} ELSE cs)

(* Nothing is starting, stopping, stale or somebody else's any more. *)
Well ==
    /\ trouble = 0
    /\ \E b \in Brokers :
        /\ proc[b] = "up" /\ path = b /\ runtime = b
        /\ \A o \in Brokers \ {b} : proc[o] \in {"off", "gone"}
        /\ phase = "none" \/ (phase = "dialing" /\ cred = b) \/ (peer = b /\ cred = b)

(* readRuntimeCredentials and helloCredentials: no token, or no scheme.     *)
Usable(token) == token \notin {None, Legacy}

(* Mutant: the token of the first dial is kept.                            *)
CachedCredentials == IF cred # None THEN cred ELSE runtime

(* The runtime file is read at every dial. *)
Credentials == runtime

Make(c) ==
    /\ call[c] = "idle"
    /\ begun' = IF Well THEN begun \cup {c} ELSE begun

(* request, as far as #ready resolves or waits. *)
Request(c) ==
    /\ Make(c)
    /\ \/ /\ closed \/ (phase = "none" /\ ~Usable(Credentials))
          /\ call' = [call EXCEPT ![c] = "failed"]
          /\ UNCHANGED <<client, writtenTo, strangers>>
       \/ /\ ~closed /\ phase = "none" /\ Usable(Credentials)
          /\ call' = [call EXCEPT ![c] = "waiting"]
          /\ phase' = "dialing" /\ cred' = Credentials
          /\ UNCHANGED <<closed, peer, writtenTo, strangers>>
       \/ /\ ~closed /\ phase \in {"dialing", "hello"}
          /\ call' = [call EXCEPT ![c] = "waiting"]
          /\ UNCHANGED <<client, writtenTo, strangers>>
       \/ /\ ~closed /\ phase = "ready"
          /\ Write({c}) /\ UNCHANGED client
    /\ UNCHANGED <<machine, ran, trouble>>

(* The pipe accepts; HELLO goes out with the proof of the token read before. *)
Dials ==
    /\ phase = "dialing" /\ Answering(path)
    /\ phase' = "hello" /\ peer' = path
    /\ UNCHANGED <<machine, closed, cred, calls, trouble>>

(* ENOENT, or no answer in CONNECT_TIMEOUT_MS: #connecting is cleared. *)
DialFails ==
    /\ phase = "dialing"
    /\ IF Answering(path) THEN Trouble ELSE Calm
    /\ phase' = "none" /\ call' = FailAll(Waiting)
    /\ UNCHANGED <<machine, closed, cred, peer, writtenTo, ran, begun, strangers>>

(* authenticateHello, and what the ack then proves to the client. *)
BrokerAccepts == peer \in Brokers /\ proc[peer] = "up" /\ cred = peer
BrokerRefuses == peer \in Brokers /\ proc[peer] = "up" /\ cred # peer

(* ackProvesBroker: only the broker whose token this is can answer so. *)
Proves == BrokerAccepts

Greeted ==
    /\ phase = "hello" /\ Proves
    /\ phase' = "ready" /\ Write(Waiting)
    /\ UNCHANGED <<machine, closed, cred, peer, ran, begun, trouble>>

(* A refusal, an ack without the proof, or another frame ahead of it. *)
Unproven ==
    /\ phase = "hello" /\ (BrokerRefuses \/ peer = Stranger)
    /\ Teardown
    /\ UNCHANGED <<machine, writtenTo, ran, begun, strangers, trouble>>

(* Mutant: the timer forgets the handshake without failing it.             *)
HelloTimeoutForgets ==
    /\ phase = "hello" /\ UNCHANGED sessionVars

HelloTimeout ==
    /\ phase = "hello"
    /\ IF BrokerAccepts THEN Trouble ELSE Calm
    /\ Teardown
    /\ UNCHANGED <<machine, writtenTo, ran, begun, strangers>>

(* A frame that does not decode, an error, the other side closing. *)
ClientSocketCloses ==
    /\ phase \in {"hello", "ready"}
    /\ IF Answering(peer) THEN Trouble ELSE Calm
    /\ Teardown
    /\ UNCHANGED <<machine, writtenTo, ran, begun, strangers>>

(* The session ends. A dial under way is not called off.                    *)
Close ==
    /\ ~closed /\ closed' = TRUE
    /\ IF phase \in {"hello", "ready"}
       THEN /\ phase' = "none" /\ peer' = None
            /\ call' = FailAll(Waiting \cup Sent)
       ELSE UNCHANGED <<phase, peer, call>>
    /\ UNCHANGED <<machine, cred, writtenTo, ran, begun, strangers, trouble>>

(* The broker carries a call out, even one whose client has given up.       *)
Runs(c) ==
    /\ writtenTo[c] \in Brokers /\ proc[writtenTo[c]] = "up" /\ ran[c] < 2
    /\ ran' = [ran EXCEPT ![c] = @ + 1] /\ writtenTo' = [writtenTo EXCEPT ![c] = None]
    /\ UNCHANGED <<machine, client, call, begun, strangers, trouble>>

(* RES: its waiter may be gone. *)
Answered(c) ==
    /\ call[c] = "sent" /\ phase = "ready" /\ ran[c] > 0
    /\ call' = [call EXCEPT ![c] = "ok"]
    /\ UNCHANGED <<machine, client, writtenTo, ran, begun, strangers, trouble>>

(* A typed error: a gate, a dead route, the broker's own timeout. *)
CallRefused(c) ==
    /\ call[c] = "sent" /\ phase = "ready" /\ writtenTo[c] = peer
    /\ call' = [call EXCEPT ![c] = "refused"] /\ writtenTo' = [writtenTo EXCEPT ![c] = None]
    /\ UNCHANGED <<machine, client, ran, begun, strangers, trouble>>

LocalTimeout(c) ==
    /\ call[c] = "sent"
    /\ call' = [call EXCEPT ![c] = "late"]
    /\ UNCHANGED <<machine, client, writtenTo, ran, begun, strangers, trouble>>

-----------------------------------------------------------------------------
SessionNext ==
    \/ \E b \in Brokers :
        Starts(b) \/ Probes(b) \/ Binds(b) \/ Publishes(b)
        \/ Leaves(b) \/ Closes(b) \/ Dies(b)
    \/ StrangerGoes
    \/ \E c \in Calls :
        Request(c) \/ Runs(c) \/ Answered(c) \/ CallRefused(c) \/ LocalTimeout(c)
    \/ Dials \/ DialFails \/ Greeted \/ Unproven \/ HelloTimeout
    \/ ClientSocketCloses \/ Close

SessionSpec == SessionInit /\ [][SessionNext]_sessionVars

(* A dial connects, fails or times out; HELLO and every call have a timer.  *)
SessionFairness ==
    /\ WF_sessionVars(Dials \/ DialFails)
    /\ WF_sessionVars(Greeted \/ Unproven \/ HelloTimeout)
    /\ \A c \in Calls : WF_sessionVars(LocalTimeout(c))

FairSessionSpec == SessionSpec /\ SessionFairness

-----------------------------------------------------------------------------
(* Properties.                                                             *)

(* The ranges of the variables (mcp-server/client.mjs:66-75).              *)
SessionTypeOK ==
    /\ posix \in BOOLEAN
    /\ proc \in [Brokers -> {"off", "probing", "clearing", "binding", "bound", "up", "leaving", "gone"}]
    /\ path \in Brokers \cup {None, Stranger, "stale"}
    /\ runtime \in Brokers \cup {None, Legacy, "stale"}
    /\ phase \in {"none", "dialing", "hello", "ready"} /\ closed \in BOOLEAN
    /\ cred \in Brokers \cup {None, "stale"} /\ peer \in Brokers \cup {None, Stranger}
    /\ call \in [Calls -> {"idle", "waiting", "sent"} \cup Done]
    /\ writtenTo \in [Calls -> Brokers \cup {None}] /\ ran \in [Calls -> 0..2]
    /\ begun \subseteq Calls /\ strangers \subseteq Calls /\ trouble \in 0..MaxTrouble

(* A call reaches a broker at most once, and only a proven one: a link that *)
(* drops fails what was in flight and never replays it, and what reports    *)
(* success was carried out (client.mjs:21-24, 253-260).                     *)
CarriedOutOnce ==
    /\ \A c \in Calls : ran[c] <= 1 /\ (call[c] = "ok" => ran[c] = 1)
    /\ strangers = {}

(* A call made once nothing is wrong any more is not failed by what an      *)
(* earlier one left behind: a rejected dial, a stale token, an old socket   *)
(* (client.mjs:160-167, 194-202).                                           *)
NoLeftovers ==
    \A c \in begun : call[c] = "failed" => closed

(* Where the pipe's name is the system's to give, one broker at a time has  *)
(* it and runtime.json is of no other one: the file goes before the pipe    *)
(* (bridged/index.mjs:2382-2390, 2446-2448).                                *)
TheFileIsTheBrokers ==
    ~posix => \A b \in Brokers :
        /\ proc[b] \in {"bound", "up"} => path = b
        /\ proc[b] = "up" => runtime = b

(* Every call ends, on the client's own timers alone (client.mjs:118-142).  *)
EveryCallEnds ==
    \A c \in Calls : call[c] \in {"waiting", "sent"} ~> call[c] \in Done

(* Two brokers are never up at once (bridged/index.mjs:2421-2423).          *)
OneBroker ==
    Cardinality({b \in Brokers : proc[b] = "up"}) <= 1
=============================================================================
