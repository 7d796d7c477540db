------------------------------- MODULE Gates -------------------------------
(***************************************************************************)
(* What one request passes on its way through the broker                   *)
(* (bridged/index.mjs: handleReq and what it calls): who may ask, panic,   *)
(* the address, the tier, the handles, the rails of an upload, and the     *)
(* audit log.  The broker runs one callback at a time, so a request is one *)
(* step, except an upload: it reads files while other programs write to    *)
(* the folder and fill or free the disk.                                   *)
(*                                                                         *)
(* Routes, connections, timers and heartbeats are in Broker, the reload    *)
(* gate is in Reload, the token relay in TokenRelay.                       *)
(***************************************************************************)
EXTENDS Naturals, Sequences, FiniteSets, SequencesExt

CONSTANTS
  Asks,         \* the requests callers make: role, op, to, tab, tabs, url, ages, word, paths, on
  Names,        \* file names in the upload folder
  LongNames,    \* the names the audit log does not take (UPLOAD_NAME_RE)
  Files,        \* the files of the disk
  Inside,       \* the files that live in the upload folder
  MaxFiles, MaxBytes,   \* UPLOAD_LIMITS
  RotateAt,     \* lines of the log before it is rotated (AUDIT_ROTATE_BYTES)
  MaxCalls,     \* requests in a behaviour
  MaxTrouble    \* steps of the people, the disk and the other programs

ASSUME GatesAssumption ==
  /\ LongNames \subseteq Names /\ Inside \subseteq Files
  /\ \A q \in Asks : q.paths \in Seq(Names)
  /\ {MaxFiles, MaxBytes, RotateAt, MaxCalls, MaxTrouble} \subseteq Nat

VARIABLES
  link,       \* the profile: gone, held (it registered during panic), ready or stale
  claimed, armed,
  panic,
  calls,      \* what became of each request
  up,         \* the upload the broker is preparing
  disk,       \* the upload folder (name -> file), the size of each file, the log's file: fine, full or shut
  journal,    \* the audit log: its lines, the rotated one, the counter, whether it ends in half a line
  left,       \* the uploads that went to the browser
  seen,       \* every <<name, file>> the folder has held
  dropped,    \* the lines a second rotation dropped and those the disk refused
  trouble

gatesVars == <<link, claimed, armed, panic, calls, up, disk, journal, left, seen, dropped, trouble>>
profile == <<link, claimed, armed>>
history == <<left, seen, dropped>>

NoUpload == [pc |-> "none"]
Nowhere == "nowhere"

-----------------------------------------------------------------------------
(* Who may ask what                                                        *)

ReadOps == {"listTabs", "readPage", "screenshot", "scroll", "listGroups"}
WriteOps == {"navigate", "openTab", "openOrFocus", "closeTab", "activateTab", "click", "fill", "pressKeys", "waitFor",
             "reloadExtension", "sortWindow", "groupTabs", "updateGroup", "moveGroup", "ungroupTabs", "gatherGroup"}
ArmedOps == {"evalJs", "uploadFile"}
BrowserOps == ReadOps \cup WriteOps \cup ArmedOps
BrokerOps == {"setLabel", "claimProfile", "getBoard", "arm", "disarm", "panic", "resume", "status", "relayToken"}
HostOnlyOps == {"resume", "relayToken"}
SelfOnlyOps == {"claimProfile", "setLabel", "relayToken"}
NoProfileOps == {"getBoard", "status", "panic", "resume"}
Auditable(op) == op \in BrowserOps \cup {"arm", "disarm", "panic", "resume", "claimProfile", "relayToken"}

CanOriginate(role, op) ==
  IF role = "mcp" THEN op \in (BrowserOps \cup BrokerOps) \ HostOnlyOps ELSE op \in BrokerOps

(* The answer of the first check that fails: the code makes them in order. *)
FirstOf(checks) ==
  LET failed == {i \in DOMAIN checks : checks[i][1]} IN
  IF failed = {} THEN "none" ELSE checks[Min(failed)][2]

Self(q) == q.role = "host" /\ q.op \in SelfOnlyOps
Routed == link \in {"ready", "stale"}

Admission(q) ==
  FirstOf(<<
    <<q.op \notin BrowserOps \cup BrokerOps, "unknown">>,
    <<~CanOriginate(q.role, q.op), "destroyed">>,
    <<panic /\ q.op \notin NoProfileOps, "E_PANIC">>,
    <<q.op = "panic" /\ ~q.on /\ panic, "E_UNSUPPORTED">>,
    <<q.op = "resume" /\ panic /\ link # "held", "E_BAD_REQUEST">>,
    <<q.op \notin NoProfileOps /\ Self(q) /\ ~Routed, "no route">>,
    <<q.op \notin NoProfileOps /\ ~Self(q) /\ q.to = "nobody", "no address">>,
    <<q.op \notin NoProfileOps /\ ~Self(q) /\ q.to = "two", "E_BAD_REQUEST">>,
    <<q.op \notin NoProfileOps /\ ~Self(q) /\ (q.to = "unknown" \/ ~Routed), "E_UNKNOWN_PROFILE">>,
    <<q.op \in ArmedOps /\ ~claimed, "E_PROFILE_UNCLAIMED">>,
    <<q.op \in ArmedOps /\ ~armed, "E_NOT_ARMED">>,
    <<q.op = "arm" /\ ~claimed, "E_PROFILE_UNCLAIMED">> >>)

(* These are answered without a line, whatever the operation.              *)
Unlogged == {"unknown", "destroyed", "no route", "no address"}

(* A handle is this profile's (mine), another's or an older session's      *)
(* (foreign), or none.                                                     *)
Handles(q) ==
  FirstOf(<<
    <<link # "ready", "E_PROFILE_STALE">>,
    <<q.tab = "foreign", "E_BAD_TAB_HANDLE">>,
    <<q.tabs = "foreign", "E_BAD_TAB_HANDLE">>,
    <<q.tabs = "no list", "E_BAD_REQUEST">>,
    <<q.op = "uploadFile" /\ q.tab = "none", "E_BAD_REQUEST">> >>)

UrlAllowed(q) == q.url # "restricted" /\ (q.url = "local page" => q.op = "openOrFocus")

Destination(q) ==
  FirstOf(<<
    <<q.op = "sortWindow" /\ q.ages = "no map", "E_BAD_REQUEST">>,
    <<q.op = "sortWindow" /\ q.ages = "foreign", "E_BAD_TAB_HANDLE">>,
    <<~UrlAllowed(q), "E_RESTRICTED_URL">>,
    <<q.url = "huge", "E_UNSUPPORTED">> >>)

(* An upload's destination is looked at once its files have been read.     *)
Forwarding(q) ==
  IF Handles(q) # "none" THEN Handles(q) ELSE IF q.op = "uploadFile" THEN "none" ELSE Destination(q)

(* The receipt a fill or a key press carried, if the broker accepts it.    *)
ReceiptOf(q) == q.op \in {"fill", "pressKeys"} /\ q.word = "good"

-----------------------------------------------------------------------------
(* The audit log.  A full disk takes half a line or none of it; a log that *)
(* another program holds open is not rotated and its counter starts again. *)

Loggable(files) == SelectSeq(files, LAMBDA f : f.name \notin LongNames)

Line(n, stage, ok, files, receipt) ==
  [n |-> n, stage |-> stage, ok |-> ok, receipt |-> receipt, whole |-> TRUE, files |-> Loggable(files)]

Away(lines) == {[line |-> lines[i], why |-> "rotated"] : i \in DOMAIN lines}

Rotations(j) ==
  IF j.counted + 1 <= RotateAt THEN {j}
  ELSE {[j EXCEPT !.lines = <<>>, !.older = j.lines, !.counted = 0, !.half = FALSE, !.lost = @ \cup Away(j.older)],
        [j EXCEPT !.counted = 0, !.older = <<>>, !.lost = @ \cup Away(j.older)],
        [j EXCEPT !.counted = 0]}

Appends(j, line) ==
  UNION {IF disk.log = "fine"
         THEN {[ok |-> TRUE, j |-> [r EXCEPT !.lines = Append(@, [line EXCEPT !.whole = ~r.half]),
                                             !.counted = @ + 1, !.half = FALSE]]}
         ELSE {[ok |-> FALSE, j |-> [r EXCEPT !.lost = @ \cup {[line |-> line, why |-> "disk"]}, !.half = @ \/ cut]] :
                 cut \in IF disk.log = "full" THEN BOOLEAN ELSE {FALSE}}
         : r \in Rotations(j)}

Journal == [lines |-> journal.lines, older |-> journal.older, counted |-> journal.counted, half |-> journal.half,
            lost |-> dropped]
Keep(j) ==
  /\ journal' = [lines |-> j.lines, older |-> j.older, counted |-> j.counted, half |-> j.half]
  /\ dropped' = j.lost

(* A failed write never fails the operation it describes: what may have    *)
(* become of the log when some lines have been written one after another.  *)
After(before, lines) ==
  LET after[i \in 0..Len(lines)] ==
        IF i = 0 THEN {before} ELSE UNION {{o.j : o \in Appends(j, lines[i])} : j \in after[i - 1]}
  IN  after[Len(lines)]

RecordAll(before, lines) == \E j \in After(before, lines) : Keep(j)
Record(lines) == RecordAll(Journal, lines)

-----------------------------------------------------------------------------
NamesOf(q) == [i \in 1..Len(q.paths) |-> [name |-> q.paths[i], bytes |-> 0]]
UploadAuditOf(q) ==
  IF q.op # "uploadFile" THEN <<>> ELSE SubSeq(NamesOf(q), 1, IF Len(q.paths) > MaxFiles THEN MaxFiles ELSE Len(q.paths))

Call(q, at, files) == [q |-> q, at |-> at, files |-> files]
Next1 == Len(calls) + 1
(* Mutant: an answer after the timeout still finds its request.            *)
AnsweredTwice == {n \in DOMAIN calls : calls[n].at \in {"sent", "done"} /\ calls[n].q.op \in BrowserOps}

InFlight == {n \in DOMAIN calls : calls[n].at = "sent"}

(* reply: an answer the broker decided itself.                             *)
Reply(n, q, ok, files) ==
  IF Auditable(q.op) THEN Record(<<Line(n, "done", ok, files, FALSE)>>) ELSE UNCHANGED <<journal, dropped>>

(* finish: the answer to what a browser was asked.                         *)
Completion(n, ok) == Line(n, "done", ok, calls[n].files, ReceiptOf(calls[n].q))
Finish(ns, ok) ==
  /\ Record(SetToSeq({Completion(n, ok) : n \in ns}))
  /\ calls' = [n \in DOMAIN calls |-> IF n \in ns THEN [calls[n] EXCEPT !.at = "done"] ELSE calls[n]]

Free == up = NoUpload
MayAsk == Free /\ Len(calls) < MaxCalls

GatesInit ==
  /\ link = "ready" /\ claimed \in BOOLEAN /\ armed = FALSE /\ panic = FALSE
  /\ calls = <<>> /\ up = NoUpload
  /\ \E at \in [Names -> Inside] :
       /\ disk = [at |-> at, size |-> [f \in Files |-> 1], log |-> "fine"]
       /\ seen = {<<n, at[n]>> : n \in Names}
  /\ journal = [lines |-> <<>>, older |-> <<>>, counted |-> 0, half |-> FALSE]
  /\ left = {} /\ dropped = {} /\ trouble = 0

Refuse(q) ==
  LET code == IF Admission(q) # "none" THEN Admission(q) ELSE IF q.op \in BrowserOps THEN Forwarding(q) ELSE "none"
  IN  /\ MayAsk /\ code # "none"
      /\ calls' = Append(calls, Call(q, IF code \in Unlogged THEN "turned away" ELSE "done", UploadAuditOf(q)))
      /\ IF code \in Unlogged THEN UNCHANGED <<journal, dropped>> ELSE Reply(Next1, q, FALSE, UploadAuditOf(q))
      /\ UNCHANGED <<profile, panic, up, disk, left, seen, trouble>>

(* The operations the broker answers itself; a rename or a claim may be    *)
(* refused, and a relayed token is answered once its file has been seen to *)
(* (TokenRelay).                                                           *)
AnswerHere(q) ==
  /\ MayAsk /\ Admission(q) = "none" /\ q.op \in BrokerOps \ {"panic", "resume", "relayToken"}
  /\ calls' = Append(calls, Call(q, "done", <<>>))
  /\ armed' = IF q.op = "arm" THEN TRUE ELSE IF q.op = "disarm" THEN FALSE ELSE armed
  /\ \E ok \in IF q.op \in {"claimProfile", "setLabel"} THEN BOOLEAN ELSE {TRUE} :
       /\ claimed' = (claimed \/ (q.op = "claimProfile" /\ ok))
       /\ Reply(Next1, q, ok, <<>>)
  /\ UNCHANGED <<link, panic, up, disk, left, seen, trouble>>

RelayToken(q) ==
  /\ MayAsk /\ Admission(q) = "none" /\ q.op = "relayToken"
  /\ calls' = Append(calls, Call(q, "relaying", <<>>))
  /\ UNCHANGED <<profile, panic, up, disk, journal, history, trouble>>

Relayed(n) ==
  /\ Free /\ calls[n].at = "relaying"
  /\ calls' = [calls EXCEPT ![n].at = "done"]
  /\ \E ok \in BOOLEAN : Reply(n, calls[n].q, ok, <<>>)
  /\ UNCHANGED <<profile, panic, up, disk, left, seen, trouble>>

(* PANIC writes its own line, then ends everything that was in flight.     *)
Panic(q) ==
  /\ MayAsk /\ q.op = "panic" /\ Admission(q) = "none"
  /\ IF q.on
     THEN /\ panic' = TRUE /\ armed' = FALSE
          /\ link' = IF link = "held" THEN "held" ELSE "gone"
          /\ calls' = Append([n \in DOMAIN calls |-> IF n \in InFlight THEN [calls[n] EXCEPT !.at = "done"] ELSE calls[n]],
                             Call(q, "done", <<>>))
          /\ Record(<<Line(Next1, "done", TRUE, <<>>, FALSE)>> \o SetToSeq({Completion(n, FALSE) : n \in InFlight}))
     ELSE /\ calls' = Append(calls, Call(q, "done", <<>>))
          /\ Reply(Next1, q, TRUE, <<>>)
          /\ UNCHANGED <<panic, armed, link>>
  /\ UNCHANGED <<claimed, up, disk, left, seen, trouble>>

(* RESUME lets go of the held connection, so the profile registers afresh. *)
Resume(q) ==
  /\ MayAsk /\ q.op = "resume" /\ Admission(q) = "none"
  /\ panic' = FALSE
  /\ link' = IF panic THEN "gone" ELSE link
  /\ calls' = Append(calls, Call(q, "done", <<>>))
  /\ Record(<<Line(Next1, "done", TRUE, <<>>, FALSE)>>)
  /\ UNCHANGED <<claimed, armed, up, disk, left, seen, trouble>>

Passes(q) == Admission(q) = "none" /\ q.op \in BrowserOps /\ Forwarding(q) = "none"

Forward(q) ==
  /\ MayAsk /\ Passes(q) /\ q.op # "uploadFile"
  /\ calls' = Append(calls, Call(q, "sent", <<>>))
  /\ UNCHANGED <<profile, panic, up, disk, journal, history, trouble>>

(* A late answer finds no pending request and is dropped.                  *)
HandleRes(n) ==
  /\ Free /\ n \in InFlight
  /\ \E ok \in BOOLEAN : Finish({n}, ok)
  /\ UNCHANGED <<profile, panic, up, disk, left, seen, trouble>>

TimesOut(n) ==
  /\ Free /\ n \in InFlight
  /\ Finish({n}, FALSE)
  /\ UNCHANGED <<profile, panic, up, disk, left, seen, trouble>>

-----------------------------------------------------------------------------
(* One upload.  Its files are read one after the other; the log is asked   *)
(* before the first of them and takes the line before the request leaves.  *)

Preparing == up # NoUpload
Quiet == UNCHANGED <<profile, panic, disk, seen, left, trouble>>

UploadStarts(q) ==
  /\ MayAsk /\ Passes(q) /\ q.op = "uploadFile"
  /\ calls' = Append(calls, Call(q, "preparing", UploadAuditOf(q)))
  /\ up' = [pc |-> "probe", todo |-> q.paths, got |-> <<>>, total |-> 0, file |-> Nowhere]
  /\ UNCHANGED <<profile, panic, disk, journal, history, trouble>>

Upcoming == Len(calls)
UploadRefusedAs(before, files) ==
  /\ RecordAll(before, <<Line(Upcoming, "done", FALSE, files, FALSE)>>)
  /\ calls' = [calls EXCEPT ![Upcoming].at = "done"]
  /\ up' = NoUpload /\ Quiet
UploadRefused == UploadRefusedAs(Journal, UploadAuditOf(calls[Upcoming].q))

(* A full disk still opens the log: only a log that is shut fails here.    *)
CanWrite ==
  /\ up.pc = "probe"
  /\ IF disk.log = "shut" \/ up.todo = <<>> \/ Len(up.todo) > MaxFiles
     THEN UploadRefused
     ELSE up' = [up EXCEPT !.pc = "resolve"] /\ Quiet /\ UNCHANGED <<calls, journal, dropped>>

Wanted == disk.at[Head(up.todo)]
NextPc(pc, file) == up' = [up EXCEPT !.pc = pc, !.file = file] /\ Quiet /\ UNCHANGED <<calls, journal, dropped>>

(* The real path has to stay in the folder.                                *)
ResolveFile ==
  /\ up.pc = "resolve" /\ up.todo # <<>>
  /\ IF Wanted \in Inside THEN NextPc("open", Wanted) ELSE UploadRefused

(* A path that was a link leads to the file it named; any other path leads *)
(* to what is there now.                                                   *)
OpenFile ==
  /\ up.pc = "open"
  /\ \E f \in {up.file, Wanted} :
       IF f = Nowhere THEN UploadRefused ELSE NextPc("recheck", f)

(* The file opened must be the file checked.                               *)
RecheckFile ==
  /\ up.pc = "recheck"
  /\ IF Wanted = up.file /\ Wanted \in Inside /\ up.total + disk.size[up.file] <= MaxBytes
     THEN NextPc("read", up.file)
     ELSE UploadRefused

(* readWhole: what the file holds now, if that still fits.                 *)
ReadFile ==
  /\ up.pc = "read"
  /\ LET size == disk.size[up.file] IN
     IF up.total + size > MaxBytes THEN UploadRefused
     ELSE /\ up' = [up EXCEPT !.pc = "resolve", !.todo = Tail(@), !.total = @ + size,
                              !.got = Append(@, [name |-> Head(up.todo), bytes |-> size, file |-> up.file])]
          /\ Quiet /\ UNCHANGED <<calls, journal, dropped>>

AsSent(got) == [i \in DOMAIN got |-> [name |-> got[i].name, bytes |-> got[i].bytes]]

(* Mutant: the line is written on a best effort, as for other requests.    *)
SendAnyway(outcome) == TRUE

(* recordBeforeSend: whether the line is on disk decides whether it goes.  *)
MaySend(outcome) == outcome.ok

SendUpload ==
  /\ up.pc = "resolve" /\ up.todo = <<>>
  /\ LET q == calls[Upcoming].q
         files == AsSent(up.got)
     IN  IF Destination(q) # "none"
         THEN UploadRefusedAs(Journal, IF Destination(q) = "E_UNSUPPORTED" THEN files ELSE <<>>)
         ELSE \E outcome \in Appends(Journal, Line(Upcoming, "send", TRUE, files, FALSE)) :
                IF MaySend(outcome)
                THEN /\ Keep(outcome.j)
                     /\ calls' = [calls EXCEPT ![Upcoming].at = "sent", ![Upcoming].files = files]
                     /\ left' = left \cup {[n |-> Upcoming, files |-> up.got]}
                     /\ up' = NoUpload
                     /\ UNCHANGED <<profile, panic, disk, seen, trouble>>
                ELSE UploadRefusedAs(outcome.j, files)

-----------------------------------------------------------------------------
(* The people, the browser, the disk and the other programs.               *)

Trouble == trouble < MaxTrouble /\ trouble' = trouble + 1

RouteEnds ==
  /\ Trouble /\ Free /\ link # "gone"
  /\ link' = "gone"
  /\ Finish(InFlight, FALSE)
  /\ UNCHANGED <<claimed, armed, panic, up, disk, left, seen>>

Registers ==
  /\ Free /\ link = "gone"
  /\ link' = IF panic THEN "held" ELSE "ready"
  /\ UNCHANGED <<claimed, armed, panic, calls, up, disk, journal, history, trouble>>

GoesStale ==
  /\ Trouble /\ Free /\ link = "ready"
  /\ link' = "stale"
  /\ UNCHANGED <<claimed, armed, panic, calls, up, disk, journal, history>>

Pong ==
  /\ Free /\ link = "stale"
  /\ link' = "ready"
  /\ UNCHANGED <<claimed, armed, panic, calls, up, disk, journal, history, trouble>>

ArmLapses ==
  /\ Trouble /\ armed
  /\ armed' = FALSE
  /\ UNCHANGED <<link, claimed, panic, calls, up, disk, journal, history>>

LogBecomes ==
  /\ Trouble
  /\ \E log \in {"fine", "full", "shut"} \ {disk.log} : disk' = [disk EXCEPT !.log = log]
  /\ UNCHANGED <<profile, panic, calls, up, journal, history>>

(* A name in the folder is deleted, or becomes another file or a link.     *)
Replaced ==
  /\ Trouble
  /\ \E name \in Names, f \in Files \cup {Nowhere} :
       /\ f # disk.at[name]
       /\ disk' = [disk EXCEPT !.at[name] = f]
       /\ seen' = IF f \in Inside THEN seen \cup {<<name, f>>} ELSE seen
  /\ UNCHANGED <<profile, panic, calls, up, journal, left, dropped>>

Grows ==
  /\ Trouble
  /\ \E f \in Files : disk' = [disk EXCEPT !.size[f] = @ + 1]
  /\ UNCHANGED <<profile, panic, calls, up, journal, history>>

(* The broker is killed and starts again: the profile has to come back,    *)
(* nothing is armed, and the log is measured afresh.                       *)
BrokerRestarts ==
  /\ Trouble
  /\ link' = "gone" /\ armed' = FALSE /\ up' = NoUpload
  /\ calls' = [n \in DOMAIN calls |-> IF calls[n].at \in {"sent", "relaying", "preparing"}
                                       THEN [calls[n] EXCEPT !.at = "lost"] ELSE calls[n]]
  /\ Keep([Journal EXCEPT !.counted = Len(Journal.lines)])
  /\ UNCHANGED <<claimed, panic, disk, left, seen>>

GatesNext ==
  \/ \E q \in Asks : Refuse(q) \/ AnswerHere(q) \/ RelayToken(q) \/ Panic(q) \/ Resume(q) \/ Forward(q) \/ UploadStarts(q)
  \/ \E n \in DOMAIN calls : Relayed(n) \/ HandleRes(n) \/ TimesOut(n)
  \/ Preparing /\ (CanWrite \/ ResolveFile \/ OpenFile \/ RecheckFile \/ ReadFile \/ SendUpload)
  \/ RouteEnds \/ Registers \/ GoesStale \/ Pong \/ ArmLapses \/ LogBecomes \/ Replaced \/ Grows \/ BrokerRestarts

GatesSpec == GatesInit /\ [][GatesNext]_gatesVars

-----------------------------------------------------------------------------
Kept == Range(journal.lines) \cup Range(journal.older) \cup {d.line : d \in {x \in dropped : x.why = "rotated"}}
Sent(u) == {l \in Kept : l.n = u.n /\ l.stage = "send"}

(* Every upload that left this machine had its line on disk first, with    *)
(* the size of each file as it was sent, even if the broker died, the disk *)
(* filled up or the log was rotated meanwhile.                             *)
Recorded(u) == \E l \in Sent(u) : l.files = Loggable(AsSent(u.files))

Bytes(files) ==
  LET bytes[i \in 0..Len(files)] == IF i = 0 THEN 0 ELSE bytes[i - 1] + files[i].bytes IN bytes[Len(files)]

(* What left was a file of the folder under its own name, and no more than *)
(* the limit, whatever was swapped or grew while it was being read.        *)
FromTheFolder(u) ==
  /\ \A i \in DOMAIN u.files : <<u.files[i].name, u.files[i].file>> \in seen
  /\ Bytes(u.files) <= MaxBytes

(* The guarded upload's rails (upload-folder.mjs, upload.mjs, audit.mjs).  *)
UploadsKeepTheirRails == \A u \in left : Recorded(u) /\ FromTheFolder(u)

(* Where the answer of a request stands in the log, or was lost from it.   *)
IsAnswer(l, n) == l.n = n /\ l.stage = "done"
Completions(n) ==
  {<<"log", i>> : i \in {k \in DOMAIN journal.lines : IsAnswer(journal.lines[k], n)}}
  \cup {<<"old", i>> : i \in {k \in DOMAIN journal.older : IsAnswer(journal.older[k], n)}}
  \cup {<<"lost", d>> : d \in {x \in dropped : IsAnswer(x.line, n)}}

(* A request that was answered has one line in the log, whether the broker *)
(* refused it, answered it, timed it out, lost its profile or panicked; a  *)
(* receipt is on the line of the request that carried it and no other.     *)
OneLineEach ==
  \A n \in DOMAIN calls :
    /\ Cardinality(Completions(n)) = IF calls[n].at = "done" /\ Auditable(calls[n].q.op) THEN 1 ELSE 0
    /\ \A l \in Kept : l.n = n /\ l.receipt => ReceiptOf(calls[n].q)

(* audit.mjs:135 says of the line an upload waits for that it "says which  *)
(* tab and which files, by bare name and size".                            *)
UploadsAreNamed == \A u \in left : \E l \in Sent(u) : l.whole /\ l.files = AsSent(u.files)
=============================================================================
