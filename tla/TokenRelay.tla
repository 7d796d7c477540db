----------------------------- MODULE TokenRelay -----------------------------
(***************************************************************************)
(* The token relay: an app's own page sends its session token with its     *)
(* requests, the extension hands a newer one to the broker                 *)
(* (extension/lib/token-relay.js, consider), and the broker writes it to   *)
(* the one file the operator named (bridged/token-relay.mjs).              *)
(*                                                                         *)
(* A token is the moment it was issued and whose it is; how it looks, the  *)
(* headers, the addresses and the settings file are left out.  One relay,  *)
(* its profile claimed.  The keep-alive tab is in KeepAlive.               *)
(***************************************************************************)
EXTENDS Naturals, Sequences

CONSTANTS
  Requests,      \* the requests of the app's pages that are looked at
  Owners,        \* whose tokens the pages may send
  Owner,         \* the one the operator's claims name
  Life,          \* how long a token lives
  MaxClock,
  Attempts,      \* renames tried while another program has the file open
  MaxFaults      \* deaths of the worker or of the broker, and lost answers

ASSUME RelayAssumption == Owner \in Owners /\ {Life, MaxClock, Attempts, MaxFaults} \subseteq Nat

VARIABLES
  clock,
  look,        \* each request: where it is, its token, the issue time it will keep
  inflight,    \* the issue time being handed over (0: none), in the worker's memory
  bag,         \* what storage keeps: the issue time handed over last, and the pause
  queue,       \* the tokens the broker has to judge, each with its moment of arrival
  work,        \* the one it is writing
  file,        \* the token in the file
  temps,       \* the temporary copies on disk
  busy,        \* whether another program has the file open
  faults

relayVars == <<clock, look, inflight, bag, queue, work, file, temps, busy, faults>>
broker == <<queue, work, file, temps>>
worker == <<look, inflight, bag>>

NoToken == [iat |-> 0, owner |-> Owner]
Tokens == [iat : 1..MaxClock, owner : Owners]
Unseen == [pc |-> "unseen", tok |-> NoToken, found |-> 0]
NoWork == [k |-> 0, tok |-> NoToken, tries |-> 0]

RelayInit ==
  /\ clock = 1
  /\ look = [k \in Requests |-> Unseen]
  /\ inflight = 0
  /\ bag = [iat |-> 0, paused |-> FALSE]
  /\ queue = <<>> /\ work = NoWork
  /\ file \in Tokens \cup {NoToken} /\ file.iat <= clock
  /\ temps = {} /\ busy = FALSE /\ faults = 0

(* tokenVerdict: issued by now, and alive.  The extension is told no       *)
(* claims; only the broker asks whose token it is.                         *)
Alive(tok, now) == tok.iat \in 1..now /\ now < tok.iat + Life
Judged(tok, now) == Alive(tok, now) /\ tok.owner = Owner

-----------------------------------------------------------------------------
(* The extension.  Storage is read and written behind an await.            *)

Sees(k, tok) ==
  /\ look[k].pc = "unseen" /\ Alive(tok, clock)
  /\ look' = [look EXCEPT ![k] = [pc |-> "reading", tok |-> tok, found |-> tok.iat]]
  /\ UNCHANGED <<clock, inflight, bag, broker, busy, faults>>

(* What was handed over, what is being handed over, and the pause.         *)
WorthSending(tok) == bag.iat < tok.iat /\ inflight < tok.iat /\ ~bag.paused

Considers(k) ==
  /\ look[k].pc = "reading"
  /\ IF WorthSending(look[k].tok)
     THEN /\ inflight' = look[k].tok.iat
          /\ look' = [look EXCEPT ![k].pc = "sent"]
          /\ queue' = Append(queue, [k |-> k, tok |-> look[k].tok, now |-> clock])
     ELSE /\ look' = [look EXCEPT ![k].pc = "done"]
          /\ UNCHANGED <<inflight, queue>>
  /\ UNCHANGED <<clock, bag, work, file, temps, busy, faults>>

(* patchState reads the bag and writes it back with its own fields; after  *)
(* a refusal the issue time it writes is the one it read.                  *)
ReadsBag(k) ==
  /\ look[k].pc = "refused"
  /\ look' = [look EXCEPT ![k].pc = "pausing", ![k].found = bag.iat]
  /\ UNCHANGED <<clock, inflight, bag, broker, busy, faults>>

Patches(k) ==
  /\ look[k].pc \in {"answered", "pausing"}
  /\ bag' = [iat |-> look[k].found, paused |-> look[k].pc = "pausing"]
  /\ look' = [look EXCEPT ![k].pc = "done"]
  /\ inflight' = IF inflight = look[k].tok.iat THEN 0 ELSE inflight
  /\ UNCHANGED <<clock, broker, busy, faults>>

PauseEnds ==
  /\ bag.paused
  /\ bag' = [bag EXCEPT !.paused = FALSE]
  /\ UNCHANGED <<clock, look, inflight, broker, busy, faults>>

-----------------------------------------------------------------------------
(* The broker.  One token per file at a time, judged by the clock of its   *)
(* arrival.                                                                *)

(* The extension keeps the later of its own token and the one in the file. *)
Answers(k, pc, iat) ==
  look' = IF look[k].pc = "sent" THEN [look EXCEPT ![k].pc = pc, ![k].found = IF iat > @ THEN iat ELSE @] ELSE look

(* Mutant: the file is left to the extension's own memory.                 *)
LaterWins(job) == FALSE

Keeps(job) == Judged(file, job.now) /\ file.iat >= job.tok.iat

(* A copy is written beside the file and renamed over it at once, unless   *)
(* another program has the file open.  A write may fail for good.          *)
Judges ==
  LET job == Head(queue) IN
  /\ work = NoWork /\ queue # <<>>
  /\ queue' = Tail(queue)
  /\ \/ /\ ~Judged(job.tok, job.now)
        /\ Answers(job.k, "refused", 0) /\ UNCHANGED <<work, file, temps>>
     \/ /\ Judged(job.tok, job.now) /\ Keeps(job)
        /\ Answers(job.k, "answered", file.iat) /\ UNCHANGED <<work, file, temps>>
     \/ /\ Judged(job.tok, job.now) /\ ~Keeps(job)
        /\ \/ /\ busy
              /\ work' = [k |-> job.k, tok |-> job.tok, tries |-> 1]
              /\ temps' = temps \cup {job.tok} /\ UNCHANGED <<look, file>>
           \/ /\ ~busy
              /\ file' = job.tok
              /\ Answers(job.k, "answered", job.tok.iat) /\ UNCHANGED <<work, temps>>
           \/ Answers(job.k, "refused", 0) /\ UNCHANGED <<work, file, temps>>
  /\ UNCHANGED <<clock, inflight, bag, busy, faults>>

(* The copy goes whatever happens.                                         *)
LetGo(tok) == temps \ {tok}

Retries ==
  /\ work # NoWork
  /\ IF ~busy
     THEN /\ file' = work.tok /\ temps' = LetGo(work.tok) /\ work' = NoWork
          /\ Answers(work.k, "answered", work.tok.iat)
     ELSE IF work.tries < Attempts
     THEN work' = [work EXCEPT !.tries = @ + 1] /\ UNCHANGED <<file, temps, look>>
     ELSE /\ temps' = LetGo(work.tok) /\ work' = NoWork
          /\ Answers(work.k, "refused", 0) /\ UNCHANGED file
  /\ UNCHANGED <<clock, inflight, bag, queue, busy, faults>>

-----------------------------------------------------------------------------
(* The clock, the other programs and the faults.                           *)

Ticks ==
  /\ clock < MaxClock
  /\ clock' = clock + 1
  /\ UNCHANGED <<worker, broker, busy, faults>>

OpensOrCloses ==
  /\ busy' = ~busy
  /\ UNCHANGED <<clock, worker, broker, faults>>

Fault == faults < MaxFaults /\ faults' = faults + 1
Waiting == {k \in Requests : look[k].pc = "sent"}
Hears(pc) == [k \in Requests |-> IF k \in Waiting THEN [look[k] EXCEPT !.pc = pc] ELSE look[k]]

WorkerDies ==
  /\ Fault
  /\ look' = [k \in Requests |-> IF look[k].pc = "unseen" THEN look[k] ELSE [look[k] EXCEPT !.pc = "done"]]
  /\ inflight' = 0
  /\ UNCHANGED <<clock, bag, broker, busy>>

LinkDrops ==
  /\ Fault /\ look' = Hears("refused")
  /\ UNCHANGED <<clock, inflight, bag, broker, busy>>

BrokerDies ==
  /\ Fault /\ look' = Hears("refused")
  /\ queue' = <<>> /\ work' = NoWork
  /\ UNCHANGED <<clock, inflight, bag, file, temps, busy>>

RelayNext ==
  \/ \E k \in Requests : (\E tok \in Tokens : Sees(k, tok)) \/ Considers(k) \/ ReadsBag(k) \/ Patches(k)
  \/ PauseEnds \/ Judges \/ Retries \/ Ticks \/ OpensOrCloses \/ WorkerDies \/ LinkDrops \/ BrokerDies

RelaySpec == RelayInit /\ [][RelayNext]_relayVars

-----------------------------------------------------------------------------
(* A token in the file gives way to one issued later, or it was of no more *)
(* use: not the operator's account, or expired.                            *)
MovesForward == file' # file => file'.owner = Owner /\ (file'.iat > file.iat \/ ~Judged(file, clock))

(* A write that ends, ends with no copy of the token beside the file.      *)
CopyIsRemoved == work # NoWork /\ work' = NoWork /\ faults' = faults => work.tok \notin temps'

(* Tokens relayed by several requests, delayed behind a slow write or sent *)
(* again after a lost answer, never undo a newer one (token-relay.mjs,     *)
(* judgeAndWrite and writeReplacing).                                      *)
FileNeverGoesBack == [][MovesForward /\ CopyIsRemoved]_relayVars
=============================================================================
