---------------------------- MODULE GatesProofs ----------------------------
(***************************************************************************)
(* What holds of the gates, the token relay, the two commands that close   *)
(* tabs and the self-reload, whatever the requests, the files and their    *)
(* limits, the tabs, the versions and the number of faults.                *)
(*                                                                         *)
(* The token relay.  The broker's file never goes back to an older token.  *)
(* The claim is about the clock at the moment of the write, the code's     *)
(* comparison about the clock at the moment of arrival.  What ties the two *)
(* is the order of the queue: a token is judged by a clock no earlier than *)
(* that of the one in the file, so that one found stale stays stale.       *)
(*                                                                         *)
(* The commands.  A tab read-page opened is known to it until it is gone,  *)
(* and close-duplicates ends no tab but a copy: what it found holds until  *)
(* somebody touches a tab.                                                 *)
(*                                                                         *)
(* The reload.  One is on its way only while the worker is behind, and the *)
(* command calls reloaded only a version that ran since it asked.          *)
(*                                                                         *)
(* The gates.  Each request that was answered has one line in the log, or  *)
(* one that the log lost, and an upload that left has its line and came    *)
(* from the folder.  A record is any number of lines, and a rotation or a  *)
(* full disk may come before each of them: what is true of the log after   *)
(* all of them is shown by induction over the lines, and what the files of *)
(* an upload weigh by induction over the files.                            *)
(***************************************************************************)
EXTENDS Gates, TokenRelay, Commands, Reload, FiniteSetTheorems, SequenceTheorems, WellFoundedInduction, TLAPS

-----------------------------------------------------------------------------
(* The token relay.                                                        *)

Marks == Tokens \cup {NoToken}
Jobs == [k : Requests, tok : Marks, now : Nat]
Works == [k : Requests, tok : Marks, tries : Nat \ {0}]
Places == {"unseen", "reading", "sent", "answered", "refused", "pausing", "done"}
Looks == [pc : Places, tok : Marks, found : Nat]

RelayTypeOK ==
  /\ clock \in Nat \ {0}
  /\ look \in [Requests -> Looks]
  /\ inflight \in Nat
  /\ bag \in [iat : Nat, paused : BOOLEAN]
  /\ queue \in Seq(Jobs)
  /\ work \in Works \cup {NoWork}
  /\ file \in Marks
  /\ faults \in Nat

(* Tokens wait in the order they arrived, each newer in clock than the     *)
(* issue of the file's token and of the one being written.                 *)
QueueInOrder ==
  /\ \A i \in 1..Len(queue) :
       queue[i].now <= clock /\ file.iat <= queue[i].now /\ work.tok.iat <= queue[i].now
  /\ \A i, j \in 1..Len(queue) : i < j => queue[i].now <= queue[j].now
  /\ file.iat <= clock /\ work.tok.iat <= clock

(* The token being written is worth more than the file's.                  *)
WorkIsDue ==
  work # NoWork =>
    /\ work.tok.owner = Owner /\ work.tok.iat > 0
    /\ work.tok.iat > file.iat \/ ~Judged(file, clock)

RelayInv == RelayTypeOK /\ QueueInOrder /\ WorkIsDue

LEMMA MarkFields ==
  ASSUME NEW tok \in Marks
  PROVE  tok.iat \in Nat /\ tok.owner \in Owners
BY RelayAssumption DEF Marks, Tokens, NoToken

(* What has expired, or is not the operator's, stays so.                   *)
LEMMA StaleStaysStale ==
  ASSUME NEW tok \in Marks, NEW now \in Nat, NEW later \in Nat,
         tok.iat <= now, now <= later, ~Judged(tok, now)
  PROVE  ~Judged(tok, later)
BY MarkFields, RelayAssumption DEF Judged, Alive

LEMMA RelayInitially == RelayInit => RelayInv
<1> SUFFICES ASSUME RelayInit PROVE RelayInv
  OBVIOUS
<1>1. RelayTypeOK
  <2>1. NoToken \in Marks
    BY DEF Marks
  <2>2. Unseen \in Looks
    BY <2>1 DEF Unseen, Looks, Places
  <2> QED
    BY <2>1, <2>2 DEF RelayInit, RelayTypeOK, Marks
<1>2. QueueInOrder
  BY RelayAssumption DEF RelayInit, QueueInOrder, NoWork, NoToken
<1> QED
  BY <1>1, <1>2 DEF RelayInit, RelayInv, WorkIsDue

LEMMA AnswersTypes ==
  ASSUME look \in [Requests -> Looks], NEW k \in Requests, NEW pc \in Places, NEW iat \in Nat,
         Answers(k, pc, iat)
  PROVE  look' \in [Requests -> Looks]
<1>1. look[k] \in Looks /\ look[k].found \in Nat
  BY DEF Looks
<1>2. [look[k] EXCEPT !.pc = pc, !.found = IF iat > @ THEN iat ELSE @] \in Looks
  BY <1>1 DEF Looks
<1> QED
  BY <1>1, <1>2 DEF Answers

LEMMA RelayTypes ==
  ASSUME RelayTypeOK, [RelayNext]_relayVars
  PROVE  RelayTypeOK'
<1> USE RelayAssumption DEF RelayTypeOK
<1>1. ASSUME NEW k \in Requests, NEW tok \in Tokens, Sees(k, tok) PROVE RelayTypeOK'
  BY <1>1 DEF Sees, Looks, Places, Marks, Tokens, broker
<1>2. ASSUME NEW k \in Requests, Considers(k) PROVE RelayTypeOK'
  <2>1. look[k] \in Looks
    OBVIOUS
  <2>2. look[k].tok \in Marks /\ look[k].tok.iat \in Nat
    BY <2>1, MarkFields DEF Looks
  <2>3. look' \in [Requests -> Looks]
    <3>1. [look[k] EXCEPT !.pc = "sent"] \in Looks /\ [look[k] EXCEPT !.pc = "done"] \in Looks
      BY <2>1 DEF Looks, Places
    <3>2. \/ look' = [look EXCEPT ![k].pc = "sent"]
          \/ look' = [look EXCEPT ![k].pc = "done"]
      BY <1>2 DEF Considers
    <3> QED
      BY <3>1, <3>2
  <2>4. [k |-> k, tok |-> look[k].tok, now |-> clock] \in Jobs
    BY <2>2 DEF Jobs
  <2>5. queue' \in Seq(Jobs)
    <3>1. \/ queue' = queue
          \/ queue' = Append(queue, [k |-> k, tok |-> look[k].tok, now |-> clock])
      BY <1>2 DEF Considers
    <3> QED
      BY <2>4, <3>1
  <2> QED
    BY <1>2, <2>2, <2>3, <2>5 DEF Considers
<1>3. ASSUME NEW k \in Requests, ReadsBag(k) PROVE RelayTypeOK'
  BY <1>3 DEF ReadsBag, Looks, Places, broker
<1>4. ASSUME NEW k \in Requests, Patches(k) PROVE RelayTypeOK'
  BY <1>4 DEF Patches, Looks, Places, broker
<1>5. CASE PauseEnds
  BY <1>5 DEF PauseEnds, broker
<1>6. CASE Judges
  <2> DEFINE job == Head(queue)
  <2>1. job \in Jobs /\ queue' \in Seq(Jobs)
    BY <1>6 DEF Judges
  <2>2. job.k \in Requests /\ job.tok \in Marks /\ job.tok.iat \in Nat /\ file.iat \in Nat
    BY <2>1, MarkFields DEF Jobs
  <2> HIDE DEF job
  <2>3. \A pc \in Places, iat \in Nat : Answers(job.k, pc, iat) => look' \in [Requests -> Looks]
    BY <2>2, AnswersTypes
  <2>4. look' \in [Requests -> Looks]
    BY <1>6, <2>2, <2>3 DEF Judges, job, Places
  <2>5. work' \in Works \cup {NoWork} /\ file' \in Marks
    BY <1>6, <2>2 DEF Judges, Works, job
  <2> QED
    BY <1>6, <2>1, <2>4, <2>5 DEF Judges
<1>7. CASE Retries
  <2>1. work \in Works
    BY <1>7 DEF Retries
  <2>2. work.k \in Requests /\ work.tok \in Marks /\ work.tok.iat \in Nat /\ work.tries \in Nat \ {0}
    BY <2>1, MarkFields DEF Works
  <2>3. \A pc \in Places, iat \in Nat : Answers(work.k, pc, iat) => look' \in [Requests -> Looks]
    BY <2>2, AnswersTypes
  <2>4. look' \in [Requests -> Looks]
    BY <1>7, <2>2, <2>3 DEF Retries, Places
  <2>5. work' \in Works \cup {NoWork} /\ file' \in Marks
    BY <1>7, <2>1, <2>2 DEF Retries, Works
  <2> QED
    BY <1>7, <2>4, <2>5 DEF Retries
<1>8. CASE Ticks \/ OpensOrCloses
  BY <1>8 DEF Ticks, OpensOrCloses, broker, worker
<1>9. CASE WorkerDies
  <2>1. \A k \in Requests : look[k] \in Looks /\ [look[k] EXCEPT !.pc = "done"] \in Looks
    BY DEF Looks, Places
  <2>2. look' \in [Requests -> Looks]
    BY <1>9, <2>1 DEF WorkerDies
  <2> QED
    BY <1>9, <2>2 DEF WorkerDies, Fault, broker
<1>10. CASE LinkDrops \/ BrokerDies
  <2>1. \A k \in Requests : look[k] \in Looks /\ [look[k] EXCEPT !.pc = "refused"] \in Looks
    BY DEF Looks, Places
  <2>2. look' \in [Requests -> Looks]
    BY <1>10, <2>1 DEF LinkDrops, BrokerDies, Hears
  <2>3. queue' \in Seq(Jobs) /\ work' \in Works \cup {NoWork} /\ UNCHANGED <<clock, inflight, bag, file>>
    <3>1. queue' = queue \/ queue' = <<>>
      BY <1>10 DEF LinkDrops, BrokerDies, broker
    <3>2. work' = work \/ work' = NoWork
      BY <1>10 DEF LinkDrops, BrokerDies, broker
    <3>3. UNCHANGED <<clock, inflight, bag, file>>
      BY <1>10 DEF LinkDrops, BrokerDies, broker
    <3>4. queue' \in Seq(Jobs)
      <4>1. queue \in Seq(Jobs) /\ <<>> \in Seq(Jobs)
        OBVIOUS
      <4> QED
        BY <3>1, <4>1
    <3> QED
      BY <3>2, <3>3, <3>4
  <2>4. faults' \in Nat
    BY <1>10 DEF LinkDrops, BrokerDies, Fault
  <2> QED
    BY <2>2, <2>3, <2>4
<1>11. CASE UNCHANGED relayVars
  BY <1>11 DEF relayVars
<1> QED
  BY <1>1, <1>2, <1>3, <1>4, <1>5, <1>6, <1>7, <1>8, <1>9, <1>10, <1>11 DEF RelayNext

(* The first of the queue, judged: what the file then holds, and what is   *)
(* then being written.                                                     *)
LEMMA JudgesKeeps ==
  ASSUME RelayInv, Judges
  PROVE  QueueInOrder' /\ WorkIsDue' /\ MovesForward
<1> DEFINE job == Head(queue)
<1>1. job = queue[1] /\ Len(queue) \in Nat \ {0} /\ queue \in Seq(Jobs)
  BY DEF Judges, RelayInv, RelayTypeOK
<1>a. \A i \in 1..Len(queue) : queue[i] \in Jobs /\ queue[i].now \in Nat
  <2>1. \A i \in 1..Len(queue) : queue[i] \in Jobs
    BY <1>1
  <2> QED
    BY <2>1 DEF Jobs
<1>b. job \in Jobs /\ file \in Marks /\ clock \in Nat
  BY <1>1, <1>a DEF RelayInv, RelayTypeOK
<1>2. /\ job.tok \in Marks /\ job.tok.iat \in Nat /\ job.now \in Nat
      /\ file \in Marks /\ file.iat \in Nat /\ clock \in Nat
  BY <1>b, MarkFields DEF Jobs
<1>3. job.now <= clock /\ file.iat <= job.now
  BY <1>1 DEF RelayInv, QueueInOrder
<1>4. queue' = Tail(queue) /\ clock' = clock /\ work = NoWork
  BY DEF Judges
<1>5. /\ Len(queue') = Len(queue) - 1
      /\ \A i \in 1..Len(queue') : queue'[i] = queue[i + 1] /\ i + 1 \in 1..Len(queue)
  BY <1>1, <1>4
<1>6. \A i \in 1..Len(queue') : job.now <= queue'[i].now /\ queue'[i].now <= clock
  <2>1. /\ \A i \in 1..Len(queue) : queue[i].now <= clock
        /\ \A i, j \in 1..Len(queue) : i < j => queue[i].now <= queue[j].now
    BY DEF RelayInv, QueueInOrder
  <2>2. ASSUME NEW i \in 1..Len(queue') PROVE queue[1].now <= queue[i + 1].now /\ queue[i + 1].now <= clock
    <3>1. i + 1 \in 1..Len(queue) /\ 1 \in 1..Len(queue) /\ 1 < i + 1
      BY <1>1, <1>5
    <3> QED
      BY <2>1, <3>1
  <2> QED
    BY <1>1, <1>5, <2>2
<1>7. \A i, j \in 1..Len(queue') : i < j => queue'[i].now <= queue'[j].now
  BY <1>1, <1>5 DEF RelayInv, QueueInOrder
<1>8. \A i \in 1..Len(queue') : queue'[i].now \in Nat
  BY <1>5, <1>a
<1>9. ~Keeps(job) => job.tok.iat > file.iat \/ ~Judged(file, clock)
  BY <1>2, <1>3, StaleStaysStale DEF Keeps
<1>10. Judged(job.tok, job.now) => job.tok.owner = Owner /\ job.tok.iat \in 1..job.now
  BY DEF Judged, Alive
<1>11. \/ file' = file /\ work' = work
       \/ /\ Judged(job.tok, job.now) /\ ~Keeps(job)
          /\ \/ file' = job.tok /\ work' = work
             \/ file' = file /\ work'.tok = job.tok
  BY DEF Judges
<1> HIDE DEF job
<1>12. CASE file' = file /\ work' = work
  <2>1. QueueInOrder'
    BY <1>2, <1>3, <1>4, <1>6, <1>7, <1>8, <1>12 DEF RelayInv, QueueInOrder, NoWork, NoToken
  <2> QED
    BY <1>4, <1>12, <2>1 DEF WorkIsDue, MovesForward
<1>13. CASE Judged(job.tok, job.now) /\ ~Keeps(job) /\ file' = job.tok /\ work' = work
  <2>1. QueueInOrder'
    BY <1>2, <1>3, <1>4, <1>6, <1>7, <1>8, <1>10, <1>13 DEF QueueInOrder, NoWork, NoToken
  <2> QED
    BY <1>4, <1>9, <1>10, <1>13, <2>1 DEF WorkIsDue, MovesForward
<1>14. CASE Judged(job.tok, job.now) /\ ~Keeps(job) /\ file' = file /\ work'.tok = job.tok
  <2>1. QueueInOrder'
    BY <1>2, <1>3, <1>4, <1>6, <1>7, <1>8, <1>10, <1>14 DEF QueueInOrder
  <2> QED
    BY <1>2, <1>4, <1>9, <1>10, <1>14, <2>1 DEF WorkIsDue, MovesForward
<1> QED
  BY <1>11, <1>12, <1>13, <1>14

(* The write that was due is carried out, or given up.                     *)
LEMMA RetriesKeeps ==
  ASSUME RelayInv, Retries
  PROVE  QueueInOrder' /\ WorkIsDue' /\ MovesForward
<1>1. /\ work \in Works /\ work.tok \in Marks /\ work.tok.iat \in Nat
      /\ work.tok.owner = Owner
      /\ work.tok.iat > file.iat \/ ~Judged(file, clock)
  BY MarkFields DEF Retries, RelayInv, RelayTypeOK, WorkIsDue, Works
<1>2. /\ UNCHANGED <<clock, queue>>
      /\ clock \in Nat /\ file \in Marks /\ file.iat \in Nat
      /\ \A i \in 1..Len(queue) : queue[i] \in Jobs /\ queue[i].now \in Nat
  <2>1. \A i \in 1..Len(queue) : queue[i] \in Jobs
    BY DEF RelayInv, RelayTypeOK
  <2>2. \A i \in 1..Len(queue) : queue[i].now \in Nat
    BY <2>1 DEF Jobs
  <2>3. clock \in Nat /\ file \in Marks /\ file.iat \in Nat
    BY MarkFields DEF RelayInv, RelayTypeOK
  <2> QED
    BY <2>1, <2>2, <2>3 DEF Retries
<1>3. CASE file' = work.tok /\ work' = NoWork
  BY <1>1, <1>2, <1>3 DEF RelayInv, QueueInOrder, WorkIsDue, MovesForward, NoWork, NoToken
<1>4. CASE file' = file /\ work'.tok = work.tok
  BY <1>2, <1>4 DEF RelayInv, QueueInOrder, WorkIsDue, MovesForward, Retries
<1>5. CASE file' = file /\ work' = NoWork
  BY <1>2, <1>5 DEF RelayInv, QueueInOrder, WorkIsDue, MovesForward, NoWork, NoToken
<1> QED
  BY <1>1, <1>3, <1>4, <1>5 DEF Retries, Works

LEMMA ConsidersKeeps ==
  ASSUME RelayInv, NEW k \in Requests, Considers(k)
  PROVE  QueueInOrder' /\ WorkIsDue' /\ MovesForward
<1>1. UNCHANGED <<clock, work, file>>
  BY DEF Considers
<1>2. CASE queue' = queue
  BY <1>1, <1>2 DEF RelayInv, QueueInOrder, WorkIsDue, MovesForward
<1>3. CASE queue' = Append(queue, [k |-> k, tok |-> look[k].tok, now |-> clock])
  <2>1. /\ queue \in Seq(Jobs) /\ clock \in Nat
        /\ Len(queue') = Len(queue) + 1
        /\ queue'[Len(queue) + 1].now = clock
        /\ \A i \in 1..Len(queue) : queue'[i] = queue[i]
    BY <1>3 DEF RelayInv, RelayTypeOK
  <2>2. \A i \in 1..Len(queue') : i \in 1..Len(queue) \/ i = Len(queue) + 1
    BY <2>1
  <2>3. QueueInOrder'
    BY <1>1, <2>1, <2>2 DEF RelayInv, QueueInOrder
  <2> QED
    BY <1>1, <2>3 DEF RelayInv, WorkIsDue, MovesForward
<1> QED
  BY <1>2, <1>3 DEF Considers

LEMMA RelayStep ==
  ASSUME RelayInv, [RelayNext]_relayVars
  PROVE  RelayInv' /\ MovesForward
<1>1. RelayTypeOK'
  BY RelayTypes DEF RelayInv
<1> SUFFICES QueueInOrder' /\ WorkIsDue' /\ MovesForward
  BY <1>1 DEF RelayInv
<1>2. ASSUME UNCHANGED <<clock, queue, work, file>> PROVE QueueInOrder' /\ WorkIsDue' /\ MovesForward
  BY <1>2 DEF RelayInv, QueueInOrder, WorkIsDue, MovesForward
<1>3. CASE \E k \in Requests : (\E tok \in Tokens : Sees(k, tok)) \/ ReadsBag(k) \/ Patches(k)
  BY <1>2, <1>3 DEF Sees, ReadsBag, Patches, broker
<1>4. CASE \E k \in Requests : Considers(k)
  BY <1>4, ConsidersKeeps
<1>5. CASE Judges
  BY <1>5, JudgesKeeps
<1>6. CASE Retries
  BY <1>6, RetriesKeeps
<1>7. CASE Ticks
  <2>1. clock \in Nat /\ clock' = clock + 1 /\ UNCHANGED <<queue, work, file>>
    BY <1>7 DEF Ticks, broker, RelayInv, RelayTypeOK
  <2>2. file \in Marks /\ file.iat \in Nat /\ (work # NoWork => work.tok.iat \in Nat) /\ work.tok.iat \in Nat
    BY MarkFields DEF RelayInv, RelayTypeOK, Works, NoWork, NoToken
  <2>3. \A i \in 1..Len(queue) : queue[i].now \in Nat
    <3>1. \A i \in 1..Len(queue) : queue[i] \in Jobs
      BY DEF RelayInv, RelayTypeOK
    <3> QED
      BY <3>1 DEF Jobs
  <2>4. QueueInOrder'
    BY <2>1, <2>2, <2>3 DEF RelayInv, QueueInOrder
  <2>5. ~Judged(file, clock) => ~Judged(file, clock')
    BY <2>1, <2>2, StaleStaysStale DEF RelayInv, QueueInOrder
  <2> QED
    BY <2>1, <2>4, <2>5 DEF RelayInv, WorkIsDue, MovesForward
<1>8. CASE PauseEnds \/ OpensOrCloses \/ WorkerDies \/ LinkDrops
  BY <1>2, <1>8 DEF PauseEnds, OpensOrCloses, WorkerDies, LinkDrops, broker
<1>9. CASE BrokerDies
  <2>1. UNCHANGED <<clock, file>> /\ queue' = <<>> /\ work' = NoWork /\ clock \in Nat
    BY <1>9 DEF BrokerDies, RelayInv, RelayTypeOK
  <2> QED
    BY <2>1 DEF RelayInv, QueueInOrder, WorkIsDue, MovesForward, NoWork, NoToken
<1>10. CASE UNCHANGED relayVars
  BY <1>2, <1>10 DEF relayVars
<1> QED
  BY <1>1, <1>3, <1>4, <1>5, <1>6, <1>7, <1>8, <1>9, <1>10 DEF RelayNext

(* A write that ends takes its copy with it.                               *)
LEMMA CopyGoes ==
  ASSUME RelayInv, [RelayNext]_relayVars
  PROVE  CopyIsRemoved
<1> SUFFICES ASSUME work # NoWork, work' = NoWork, faults' = faults PROVE work.tok \notin temps'
  BY DEF CopyIsRemoved
<1>1. CASE Retries
  <2>1. work.tries \in Nat
    BY DEF RelayInv, RelayTypeOK, Works
  <2>2. work \in Works
    BY DEF RelayInv, RelayTypeOK
  <2>3. [work EXCEPT !.tries = @ + 1] # NoWork
    BY <2>1, <2>2 DEF Works, NoWork
  <2> QED
    BY <1>1, <2>3 DEF Retries, LetGo
<1>2. CASE BrokerDies
  BY <1>2 DEF BrokerDies, Fault, RelayInv, RelayTypeOK
<1>3. CASE UNCHANGED work
  BY <1>3
<1> QED
  BY <1>1, <1>2, <1>3
     DEF RelayNext, Sees, Considers, ReadsBag, Patches, PauseEnds, Judges, Ticks, OpensOrCloses,
         WorkerDies, LinkDrops, broker, relayVars

(* A token in the broker's file gives way only to one issued later, or     *)
(* because it was of no more use, and no copy of one outlives its write    *)
(* (token-relay.mjs, judgeAndWrite and writeReplacing).                    *)
THEOREM TheFileNeverGoesBack == RelaySpec => FileNeverGoesBack
<1>1. RelayInit => RelayInv
  BY RelayInitially
<1>2. RelayInv /\ [RelayNext]_relayVars => RelayInv'
  BY RelayStep
<1>3. RelayInv /\ [RelayNext]_relayVars => [MovesForward /\ CopyIsRemoved]_relayVars
  BY RelayStep, CopyGoes
<1> QED
  BY <1>1, <1>2, <1>3, PTL DEF RelaySpec, FileNeverGoesBack

-----------------------------------------------------------------------------
(* The commands that close tabs.                                           *)

Tabbed == [is : {"unborn", "open", "closed"}, url : Urls, shown : BOOLEAN, kept : BOOLEAN]

(* What read-page knows of the tab it opened: the browser never opens that *)
(* one again.                                                              *)
Own ==
  /\ reader.pc \in {"start", "opened", "waiting", "reading", "closing", "done"}
  /\ reader.pc = "start" => opened = 0
  /\ reader.pc \in {"opened", "waiting", "reading", "closing"} => reader.handle.tab = opened
  /\ TabsAccountedFor

(* What close-duplicates found holds until somebody touches a tab.         *)
Spare(t) ==
  /\ ~MustStay(tabs[t])
  /\ \E k \in Open \ {t} : tabs[k].url = tabs[t].url

StillSpare == closer.pc = "closing" /\ quiet /\ closer.handle.tab \in Open => Spare(closer.handle.tab)

CloserShape == closer = [pc |-> closer.pc, plan |-> closer.plan, handle |-> closer.handle, closed |-> closer.closed]

TabTypes ==
  /\ tabs \in [Tabs -> Tabbed]
  /\ reader = [pc |-> reader.pc, handle |-> reader.handle, left |-> reader.left]
  /\ CloserShape

CommandsInv == TabTypes /\ Own /\ StillSpare

LEMMA RemovesIs ==
  ASSUME TabTypes, NEW t \in Tabs, Removes(t)
  PROVE  /\ tabs' \in [Tabs -> Tabbed]
         /\ tabs'[t].is = "closed"
         /\ \A x \in Tabs : x # t => tabs'[x].is = tabs[x].is /\ tabs'[x].url = tabs[x].url
<1> DEFINE gone == [tabs EXCEPT ![t].is = "closed", ![t].shown = FALSE]
<1>1. gone \in [Tabs -> Tabbed] /\ gone[t].is = "closed" /\ \A x \in Tabs : x # t => gone[x] = tabs[x]
  BY DEF TabTypes, Tabbed
<1>2. tabs' = gone \/ \E o \in Open \ {t} : tabs' = [gone EXCEPT ![o].shown = TRUE]
  BY DEF Removes
<1> HIDE DEF gone
<1>3. ASSUME NEW o \in Tabs \ {t}, tabs' = [gone EXCEPT ![o].shown = TRUE]
      PROVE  /\ tabs' \in [Tabs -> Tabbed] /\ tabs'[t].is = "closed"
             /\ \A x \in Tabs : x # t => tabs'[x].is = gone[x].is /\ tabs'[x].url = gone[x].url
  BY <1>1, <1>3 DEF Tabbed
<1> QED
  BY <1>1, <1>2, <1>3 DEF Open

LEMMA CommandsInitially == CommandsInit => CommandsInv
<1> SUFFICES ASSUME CommandsInit PROVE CommandsInv
  OBVIOUS
<1>1. tabs \in [Tabs -> Tabbed]
  BY DEF CommandsInit, Tabbed
<1>2. Own /\ StillSpare
  BY CommandsAssumption DEF CommandsInit, Own, StillSpare, TabsAccountedFor, NoHandle, Open
<1>3. TabTypes
  BY <1>1 DEF CommandsInit, TabTypes, CloserShape, NoHandle
<1> QED
  BY <1>2, <1>3 DEF CommandsInv

(* Nothing of a tab changes but by an action that says so.                 *)
LEMMA ReaderStep ==
  ASSUME CommandsInv,
         \/ OpenRefused \/ OpenFails \/ TabOpens \/ OpenAnswered \/ WaitForLoad \/ Reads \/ CloseOwnTab
  PROVE  CommandsInv'
<1> USE DEF CommandsInv
<1>1. CASE OpenRefused \/ OpenFails \/ OpenAnswered \/ WaitForLoad \/ Reads
  <2>1. UNCHANGED <<tabs, gen, closer, quiet, opened, acts>>
    BY <1>1 DEF OpenRefused, OpenFails, OpenAnswered, WaitForLoad, Reads, ReaderOnly
  <2>2. \/ reader' = [reader EXCEPT !.pc = "done", !.left = TRUE]
        \/ reader.pc = "start" /\ reader' = [reader EXCEPT !.pc = "done", !.left = FALSE]
        \/ /\ reader.pc \in {"opened", "waiting", "reading"}
           /\ \E pc \in {"waiting", "reading", "closing"} : reader' = [reader EXCEPT !.pc = pc]
        \/ reader.pc = "waiting" /\ ~Listed /\ reader' = [reader EXCEPT !.pc = "done", !.left = Reminted]
    BY <1>1 DEF OpenRefused, OpenFails, OpenAnswered, WaitForLoad, Reads, Ends, To
  <2>3. Open' = Open /\ StillSpare'
    BY <2>1 DEF Open, StillSpare, Spare, MustStay
  <2>4. Reminted \in BOOLEAN /\ (~Listed => (Reminted <=> reader.handle.tab \in Open))
    BY DEF Reminted, Listing
  <2>5. 0 \notin Open
    BY CommandsAssumption DEF Open
  <2>6. TabTypes'
    <3>1. reader' = [pc |-> reader'.pc, handle |-> reader'.handle, left |-> reader'.left]
      BY <2>2 DEF TabTypes
    <3> QED
      BY <2>1, <3>1 DEF TabTypes, CloserShape
  <2>7. Own'
    BY <2>1, <2>2, <2>3, <2>4, <2>5 DEF Own, TabsAccountedFor, TabTypes
  <2> QED
    BY <2>3, <2>6, <2>7
<1>2. CASE TabOpens
  <2>1. PICK t \in Tabs :
          /\ tabs' = [tabs EXCEPT ![t] = [is |-> "open", url |-> ReadUrl, shown |-> FALSE, kept |-> FALSE]]
          /\ opened' = t /\ reader' = [reader EXCEPT !.pc = "opened", !.handle = Handle(t)]
    BY <1>2 DEF TabOpens
  <2>2. quiet' = FALSE /\ UNCHANGED closer
    BY <1>2 DEF TabOpens
  <2>3. tabs' \in [Tabs -> Tabbed] /\ t \in Nat
    BY <2>1, CommandsAssumption DEF TabTypes, Tabbed
  <2>4. TabTypes'
    BY <1>2, <2>1, <2>3 DEF TabTypes, CloserShape, Handle, TabOpens
  <2>5. Own' /\ StillSpare'
    BY <2>1, <2>2 DEF Own, StillSpare, TabsAccountedFor, Handle, TabTypes
  <2> QED
    BY <2>4, <2>5
<1>3. CASE CloseOwnTab
  <2>0. reader.pc = "closing" /\ UNCHANGED <<gen, closer, opened, acts>>
    BY <1>3 DEF CloseOwnTab
  <2>1. CASE reader.handle.gen = gen /\ reader.handle.tab \in Open
    <3>1. Removes(reader.handle.tab) /\ quiet' = FALSE
      BY <1>3, <2>1 DEF CloseOwnTab
    <3>2. \E some \in BOOLEAN : reader' = [reader EXCEPT !.pc = "done", !.left = some]
      BY <1>3, <2>1 DEF CloseOwnTab, Ends
    <3>3. tabs' \in [Tabs -> Tabbed] /\ tabs'[opened].is = "closed"
      BY <2>0, <2>1, <3>1, RemovesIs DEF Own, Open
    <3>4. TabTypes' /\ reader'.pc = "done"
      BY <2>0, <3>2, <3>3 DEF TabTypes, CloserShape
    <3>5. Own' /\ StillSpare'
      BY <2>0, <3>1, <3>3, <3>4 DEF Own, TabsAccountedFor, StillSpare, Open
    <3> QED
      BY <3>4, <3>5
  <2>2. CASE ~(reader.handle.gen = gen /\ reader.handle.tab \in Open)
    <3>1. reader' = [reader EXCEPT !.pc = "done", !.left = TRUE] /\ UNCHANGED <<tabs, quiet>>
      BY <1>3, <2>2 DEF CloseOwnTab, Ends
    <3>2. StillSpare' /\ TabTypes'
      BY <2>0, <3>1 DEF StillSpare, Spare, MustStay, Open, TabTypes, CloserShape
    <3>3. Own'
      BY <2>0, <3>1 DEF Own, TabsAccountedFor, TabTypes
    <3> QED
      BY <3>2, <3>3
  <2> QED
    BY <2>1, <2>2
<1> QED
  BY <1>1, <1>2, <1>3

(* A fresh listing finds what CheckClose asks for.                         *)
LEMMA CheckedIsSpare ==
  ASSUME NEW entry, NEW closed, CheckClose(entry, Listing, closed), entry.close.tab \in Open
  PROVE  Spare(entry.close.tab)
<1>1. DOMAIN Listing = Open
      /\ \A t \in Open : /\ Listing[t].handle = Handle(t) /\ Listing[t].url = tabs[t].url
                        /\ Listing[t].shown = tabs[t].shown /\ Listing[t].kept = tabs[t].kept
  BY DEF Listing
<1>2. PICK t \in RowOf(Listing, entry.close) : Listing[t].url = entry.url /\ ~MustStay(Listing[t])
  BY DEF CheckClose
<1>3. PICK k \in RowOf(Listing, entry.keep) : Listing[k].url = entry.url
  BY DEF CheckClose
<1>4. t \in Open /\ k \in Open /\ entry.close = Handle(t) /\ entry.keep = Handle(k)
  BY <1>1, <1>2, <1>3 DEF RowOf
<1>5. entry.close.tab = t /\ k # t
  BY <1>4 DEF Handle, CheckClose
<1> QED
  BY <1>1, <1>2, <1>3, <1>4, <1>5 DEF Spare, MustStay

LEMMA CloserStep ==
  ASSUME CommandsInv, PlanDuplicates \/ FreshListing \/ CloseCopy
  PROVE  CommandsInv'
<1> USE DEF CommandsInv
<1>1. CASE PlanDuplicates
  <2>1. UNCHANGED <<tabs, gen, reader, opened>> /\ closer'.pc # "closing" /\ CloserShape'
    <3>1. \E plan : closer' = [closer EXCEPT !.pc = "check", !.plan = plan]
      BY <1>1 DEF PlanDuplicates
    <3> QED
      BY <1>1, <3>1 DEF PlanDuplicates, CloserOnly, TabTypes, CloserShape
  <2> QED
    BY <2>1 DEF TabTypes, Own, TabsAccountedFor, StillSpare, Open
<1>2. CASE FreshListing
  <2> DEFINE entry == Head(closer.plan)
  <2>1. UNCHANGED <<tabs, gen, reader, opened>> /\ closer.pc = "check"
    BY <1>2 DEF FreshListing, CloserOnly
  <2>2. closer'.pc = "closing" => closer'.handle = entry.close /\ CheckClose(entry, Listing, closer.closed)
    BY <1>2 DEF FreshListing, TabTypes, CloserShape
  <2>s. CloserShape'
    BY <1>2 DEF FreshListing, TabTypes, CloserShape
  <2>3. Open' = Open /\ \A t : Spare(t)' <=> Spare(t)
    BY <2>1 DEF Open, Spare, MustStay
  <2> HIDE DEF entry
  <2>4. StillSpare'
    BY <2>2, <2>3, CheckedIsSpare DEF StillSpare
  <2> QED
    BY <2>s, <2>1, <2>3, <2>4 DEF TabTypes, Own, TabsAccountedFor
<1>3. CASE CloseCopy
  <2>1. UNCHANGED <<gen, reader, opened>> /\ closer'.pc # "closing" /\ CloserShape'
    BY <1>3 DEF CloseCopy, TabTypes, CloserShape
  <2>2. tabs' \in [Tabs -> Tabbed] /\ Open' \subseteq Open
    <3>1. CASE closer.handle.gen = gen /\ closer.handle.tab \in Open
      <4>1. closer.handle.tab \in Tabs /\ Removes(closer.handle.tab)
        BY <1>3, <3>1 DEF CloseCopy, Open
      <4> QED
        BY <4>1, RemovesIs DEF Open
    <3>2. CASE ~(closer.handle.gen = gen /\ closer.handle.tab \in Open)
      <4>1. tabs' = tabs
        BY <1>3, <3>2 DEF CloseCopy
      <4> QED
        BY <4>1 DEF Open, TabTypes
    <3> QED
      BY <3>1, <3>2
  <2> QED
    BY <2>1, <2>2 DEF TabTypes, Own, TabsAccountedFor, StillSpare
<1> QED
  BY <1>1, <1>2, <1>3

LEMMA OthersStep ==
  ASSUME CommandsInv, PersonCloses \/ Navigates \/ Shows \/ PinsOrPlays \/ Reconnects \/ UNCHANGED commandsVars
  PROVE  CommandsInv'
<1> USE DEF CommandsInv
<1>1. CASE PersonCloses
  <2>1. PICK t \in Open : Removes(t)
    BY <1>1 DEF PersonCloses
  <2>2. tabs' \in [Tabs -> Tabbed] /\ Open' \subseteq Open
    BY <2>1, RemovesIs DEF Open
  <2> QED
    BY <1>1, <2>2 DEF PersonCloses, World, Acts, TabTypes, CloserShape, Own, TabsAccountedFor, StillSpare
<1>2. CASE Navigates \/ Shows \/ PinsOrPlays
  <2>1. tabs' \in [Tabs -> Tabbed] /\ \A t \in Tabs : tabs'[t].is = tabs[t].is
    <3>0. tabs \in [Tabs -> Tabbed]
      BY DEF TabTypes
    <3>1. CASE Navigates
      BY <3>0, <3>1 DEF Navigates, Open, Tabbed
    <3>2. CASE Shows
      <4>1. PICK t \in Open : tabs' = [x \in Tabs |-> [tabs[x] EXCEPT !.shown = x = t]]
        BY <3>2 DEF Shows
      <4>2. \A x \in Tabs : [tabs[x] EXCEPT !.shown = x = t] \in Tabbed /\ [tabs[x] EXCEPT !.shown = x = t].is = tabs[x].is
        BY <3>0 DEF Tabbed
      <4> QED
        BY <4>1, <4>2
    <3>3. CASE PinsOrPlays
      BY <3>0, <3>3 DEF PinsOrPlays, Open, Tabbed
    <3> QED
      BY <1>2, <3>1, <3>2, <3>3
  <2>2. quiet' = FALSE /\ World
    BY <1>2 DEF Navigates, Shows, PinsOrPlays, Acts
  <2> QED
    BY <2>1, <2>2 DEF World, TabTypes, CloserShape, Own, TabsAccountedFor, StillSpare, Open
<1>3. CASE Reconnects \/ UNCHANGED commandsVars
  <2>1. UNCHANGED <<tabs, reader, closer, quiet, opened>>
    BY <1>3 DEF Reconnects, commandsVars
  <2> QED
    BY <2>1 DEF TabTypes, CloserShape, Own, TabsAccountedFor, StillSpare, Spare, MustStay, Open
<1> QED
  BY <1>1, <1>2, <1>3

LEMMA CommandsStep == CommandsInv /\ [CommandsNext]_commandsVars => CommandsInv'
BY ReaderStep, CloserStep, OthersStep DEF CommandsNext

(* The closing of a copy takes that copy and no other tab.                 *)
LEMMA CopiesOnly ==
  ASSUME CommandsInv, [CommandsNext]_commandsVars, closer.pc = "closing", closer'.pc = "check", quiet,
         NEW t \in Open, tabs'[t].is # "open"
  PROVE  CarefulClose(t)
<1> USE DEF CommandsInv
<1>1. CloseCopy
  <2>1. closer' # closer
    OBVIOUS
  <2> QED
    BY <2>1 DEF CommandsNext, commandsVars, OpenRefused, OpenFails, TabOpens, OpenAnswered, WaitForLoad, Reads,
                CloseOwnTab, ReaderOnly, PlanDuplicates, FreshListing, PersonCloses, Navigates, Shows, PinsOrPlays,
                Reconnects, World
<1> DEFINE gone == closer.handle.tab
<1>2. gone \in Open /\ Removes(gone)
  BY <1>1 DEF CloseCopy, Open
<1>3. gone \in Tabs /\ t \in Tabs
  BY <1>2 DEF Open
<1> HIDE DEF gone
<1>4. t = gone
  BY <1>2, <1>3, RemovesIs DEF Open
<1>5. Spare(t)
  BY <1>2, <1>4 DEF StillSpare, gone
<1>6. PICK k \in Open \ {t} : tabs[k].url = tabs[t].url
  BY <1>5 DEF Spare
<1>7. k \in Tabs /\ tabs'[k].is = "open" /\ tabs'[k].url = tabs[t].url
  BY <1>2, <1>3, <1>4, <1>6, RemovesIs DEF Open
<1> QED
  BY <1>5, <1>7 DEF CarefulClose, Spare

(* When read-page ends, the tab it opened is closed or its report says one *)
(* may be left (read-page.mjs).                                            *)
THEOREM NoTabIsForgotten == CommandsSpec => []TabsAccountedFor
<1>1. CommandsInv => TabsAccountedFor
  BY DEF CommandsInv, Own
<1> QED
  BY <1>1, CommandsInitially, CommandsStep, PTL DEF CommandsSpec

(* Unless somebody touched a tab since its listing, close-duplicates takes *)
(* no tab that is shown, pinned or playing, and never the last copy of a   *)
(* page (close-duplicates.mjs, checkClose).                                *)
THEOREM OnlyCopiesGo == CommandsSpec => CarefulCloses
<1>1. CommandsInv /\ [CommandsNext]_commandsVars =>
        [closer.pc = "closing" /\ closer'.pc = "check" /\ quiet =>
           \A t \in Open : tabs'[t].is = "open" \/ CarefulClose(t)]_commandsVars
  BY CopiesOnly
<1> QED
  BY <1>1, CommandsInitially, CommandsStep, PTL DEF CommandsSpec, CarefulCloses

-----------------------------------------------------------------------------
(* The self-reload.                                                        *)

Versions == installed \in Nat /\ running \in Nat /\ running # 0 /\ running <= installed
RouteTypes == route.on \in BOOLEAN /\ route.ver \in Nat /\ wired \in BOOLEAN
CommandTypes ==
  /\ command = [pc |-> command.pc, want |-> command.want, says |-> command.says]
  /\ command.want \in Nat /\ (command.pc # "start" => command.want # 0)

(* What the broker takes the profile to run it runs or ran, and still runs *)
(* as long as the connection stands; a reload is on its way only to a      *)
(* worker that is behind.                                                  *)
Known ==
  /\ route.on => route.ver <= running
  /\ route.on /\ wired /\ route.ver # 0 => route.ver = running

Due ==
  /\ coming # {} => wired
  /\ coming # {} \/ timers => running < installed

(* What the command may yet call reloaded.                                 *)
SeenSince ==
  command.pc # "start" =>
    /\ running \in was
    /\ route.on /\ route.ver = command.want => command.want \in was

ReloadInv == Versions /\ RouteTypes /\ CommandTypes /\ Known /\ Due /\ SeenSince

LEMMA ReloadInitially == ReloadInit => ReloadInv
<1> SUFFICES ASSUME ReloadInit PROVE ReloadInv
  OBVIOUS
<1>1. MaxVersion \in Nat
  BY ReloadAssumption
<1>2. Versions
  BY <1>1 DEF ReloadInit, Versions
<1>3. RouteTypes
  <2>1. route.ver = 0 \/ route.ver = running
    BY DEF ReloadInit
  <2>2. route.ver \in Nat
    BY <1>2, <2>1 DEF Versions
  <2>3. route.on \in BOOLEAN /\ wired \in BOOLEAN
    <3>1. PICK v \in {0, running} : route = [on |-> TRUE, ver |-> v]
      BY DEF ReloadInit
    <3>2. wired \in BOOLEAN
      BY DEF ReloadInit
    <3> QED
      BY <3>1, <3>2
  <2> QED
    BY <2>2, <2>3 DEF RouteTypes
<1>5. CommandTypes
  BY DEF ReloadInit, CommandTypes
<1>4. Known /\ Due /\ SeenSince
  BY <1>2 DEF ReloadInit, Known, Due, SeenSince, Versions
<1> QED
  BY <1>2, <1>3, <1>4, <1>5 DEF ReloadInv

LEMMA ReloadStep == ReloadInv /\ [ReloadNext]_reloadVars => ReloadInv'
<1> SUFFICES ASSUME ReloadInv, [ReloadNext]_reloadVars PROVE ReloadInv'
  OBVIOUS
<1>0. Versions /\ RouteTypes /\ CommandTypes /\ Known /\ Due /\ SeenSince
  BY DEF ReloadInv
<1> SUFFICES Versions' /\ RouteTypes' /\ CommandTypes' /\ Known' /\ Due' /\ SeenSince'
  BY DEF ReloadInv
<1>1. CASE AllowReload
  <2>1. /\ running' = running /\ timers' = timers /\ wired' = wired
        /\ installed' = installed
        /\ route' = route
        /\ command' = command
        /\ was' = was
        /\ route.on /\ route.ver # 0 /\ route.ver # installed
        /\ IF wired THEN coming' = coming \cup {"another"} ELSE coming' = coming
    BY <1>0, <1>1 DEF AllowReload, Allows, Behind, PassesOn, extension
  <2>2. Versions'
    BY <1>0, <2>1 DEF Versions
  <2>3. RouteTypes' /\ CommandTypes'
    <3>1. RouteTypes'
      BY <1>0, <2>1 DEF RouteTypes, Versions
    <3>2. CommandTypes'
      BY <1>0, <2>1 DEF CommandTypes, Versions
    <3> QED
      BY <3>1, <3>2
  <2>4. Known'
    BY <1>0, <2>1 DEF Versions, RouteTypes, Known
  <2>5. Due'
    BY <1>0, <2>1 DEF Versions, RouteTypes, Known, Due
  <2>6. SeenSince'
    BY <1>0, <2>1 DEF Versions, RouteTypes, CommandTypes, Known, SeenSince
  <2> QED
    BY <2>2, <2>3, <2>4, <2>5, <2>6
<1>2. CASE FlagExpires \/ UNCHANGED reloadVars
  <2>1. /\ running' = running /\ timers' = timers /\ wired' = wired
        /\ installed' = installed
        /\ route' = route
        /\ command' = command
        /\ was' = was
        /\ coming' = coming
    BY <1>0, <1>2 DEF FlagExpires, extension, reloadVars
  <2>2. Versions'
    BY <1>0, <2>1 DEF Versions
  <2>3. RouteTypes' /\ CommandTypes'
    <3>1. RouteTypes'
      BY <1>0, <2>1 DEF RouteTypes, Versions
    <3>2. CommandTypes'
      BY <1>0, <2>1 DEF CommandTypes, Versions
    <3> QED
      BY <3>1, <3>2
  <2>4. Known'
    BY <1>0, <2>1 DEF Versions, RouteTypes, Known
  <2>5. Due'
    BY <1>0, <2>1 DEF Versions, RouteTypes, Known, Due
  <2>6. SeenSince'
    BY <1>0, <2>1 DEF Versions, RouteTypes, CommandTypes, Known, SeenSince
  <2> QED
    BY <2>2, <2>3, <2>4, <2>5, <2>6
<1>3. CASE SocketClosed
  <2>1. /\ running' = running /\ timers' = timers /\ wired' = wired
        /\ installed' = installed
        /\ command' = command
        /\ was' = was
        /\ coming' = coming
        /\ route' = [on |-> FALSE, ver |-> 0]
    BY <1>0, <1>3 DEF SocketClosed, extension, NoRoute
  <2>2. Versions'
    BY <1>0, <2>1 DEF Versions
  <2>3. RouteTypes' /\ CommandTypes'
    <3>1. RouteTypes'
      BY <1>0, <2>1 DEF RouteTypes, Versions
    <3>2. CommandTypes'
      BY <1>0, <2>1 DEF CommandTypes, Versions
    <3> QED
      BY <3>1, <3>2
  <2>4. Known'
    BY <1>0, <2>1 DEF Versions, RouteTypes, Known
  <2>5. Due'
    BY <1>0, <2>1 DEF Versions, RouteTypes, Known, Due
  <2>6. SeenSince'
    BY <1>0, <2>1 DEF Versions, RouteTypes, CommandTypes, Known, SeenSince
  <2> QED
    BY <2>2, <2>3, <2>4, <2>5, <2>6
<1>4. CASE ComesBack
  <2>1. /\ installed' = installed
        /\ command' = command
        /\ was' = was
        /\ running' = running /\ timers' = timers /\ wired' = TRUE /\ coming' = {}
        /\ route'.on = TRUE /\ (route'.ver = running \/ route'.ver = 0)
    BY <1>0, <1>4 DEF ComesBack
  <2>2. Versions'
    BY <1>0, <2>1 DEF Versions
  <2>3. RouteTypes' /\ CommandTypes'
    <3>1. RouteTypes'
      <4>1. route'.on \in BOOLEAN /\ wired' \in BOOLEAN
        BY <1>4 DEF ComesBack
      <4>2. route'.ver \in Nat
        BY <1>0, <2>1 DEF Versions
      <4> QED
        BY <4>1, <4>2 DEF RouteTypes
    <3>2. CommandTypes'
      BY <1>0, <2>1 DEF CommandTypes, Versions
    <3> QED
      BY <3>1, <3>2
  <2>4. Known'
    BY <1>0, <2>1 DEF Versions, RouteTypes, Known
  <2>5. Due'
    BY <1>0, <2>1 DEF Versions, RouteTypes, Known, Due
  <2>6. SeenSince'
    BY <1>0, <2>1 DEF Versions, RouteTypes, CommandTypes, Known, SeenSince
  <2> QED
    BY <2>2, <2>3, <2>4, <2>5, <2>6
<1>5. CASE Evicted
  <2>1. /\ installed' = installed
        /\ command' = command
        /\ was' = was
        /\ running' = running /\ timers' = timers /\ wired' = FALSE /\ coming' = {}
        /\ route' = [on |-> FALSE, ver |-> 0]
    BY <1>0, <1>5 DEF Evicted, NoRoute
  <2>2. Versions'
    BY <1>0, <2>1 DEF Versions
  <2>3. RouteTypes' /\ CommandTypes'
    <3>1. RouteTypes'
      BY <1>0, <2>1 DEF RouteTypes, Versions
    <3>2. CommandTypes'
      BY <1>0, <2>1 DEF CommandTypes, Versions
    <3> QED
      BY <3>1, <3>2
  <2>4. Known'
    BY <1>0, <2>1 DEF Versions, RouteTypes, Known
  <2>5. Due'
    BY <1>0, <2>1 DEF Versions, RouteTypes, Known, Due
  <2>6. SeenSince'
    BY <1>0, <2>1 DEF Versions, RouteTypes, CommandTypes, Known, SeenSince
  <2> QED
    BY <2>2, <2>3, <2>4, <2>5, <2>6
<1>6. CASE \E who \in {"command", "another"} : Reloading(who)
  <2>1. /\ installed' = installed
        /\ route' = route
        /\ was' = was
        /\ running' = running /\ timers' = TRUE /\ wired' = wired
        /\ wired /\ coming # {} /\ coming' \subseteq coming
        /\ command' = command \/ (command.pc = "asked" /\ command' = [command EXCEPT !.pc = "waiting"])
    <3>1. PICK who \in {"command", "another"} : Reloading(who)
      BY <1>6
    <3>2. wired /\ coming # {} /\ coming' \subseteq coming /\ timers' = TRUE
      BY <3>1 DEF Reloading
    <3>3. command' = command \/ (command.pc = "asked" /\ command' = [command EXCEPT !.pc = "waiting"])
      BY <3>1 DEF Reloading
    <3>4. UNCHANGED <<installed, running, wired, route, was>>
      BY <3>1 DEF Reloading
    <3> QED
      BY <3>2, <3>3, <3>4
  <2>2. Versions'
    BY <1>0, <2>1 DEF Versions
  <2>3. RouteTypes' /\ CommandTypes'
    <3>1. RouteTypes'
      BY <1>0, <2>1 DEF RouteTypes, Versions
    <3>2. CommandTypes'
      BY <1>0, <2>1 DEF CommandTypes, Versions
    <3> QED
      BY <3>1, <3>2
  <2>4. Known'
    BY <1>0, <2>1 DEF Versions, RouteTypes, Known
  <2>5. Due'
    BY <1>0, <2>1 DEF Versions, RouteTypes, Known, Due
  <2>6. SeenSince'
    BY <1>0, <2>1 DEF Versions, RouteTypes, CommandTypes, Known, SeenSince
  <2> QED
    BY <2>2, <2>3, <2>4, <2>5, <2>6
<1>7. CASE Fires \/ BrowserRestarts
  <2>1. /\ installed' = installed
        /\ route' = route
        /\ command' = command
        /\ running' = installed /\ timers' = FALSE /\ wired' = FALSE /\ coming' = {} /\ was' = was \cup {installed}
    BY <1>0, <1>7 DEF Fires, BrowserRestarts, LoadsTheFolder
  <2>2. Versions'
    BY <1>0, <2>1 DEF Versions
  <2>3. RouteTypes' /\ CommandTypes'
    <3>1. RouteTypes'
      BY <1>0, <2>1 DEF RouteTypes, Versions
    <3>2. CommandTypes'
      BY <1>0, <2>1 DEF CommandTypes, Versions
    <3> QED
      BY <3>1, <3>2
  <2>4. Known'
    BY <1>0, <2>1 DEF Versions, RouteTypes, Known
  <2>5. Due'
    BY <1>0, <2>1 DEF Versions, RouteTypes, Known, Due
  <2>6. SeenSince'
    BY <1>0, <2>1 DEF Versions, RouteTypes, CommandTypes, Known, SeenSince
  <2> QED
    BY <2>2, <2>3, <2>4, <2>5, <2>6
<1>8. CASE WorkerRestarts
  <2>1. /\ installed' = installed
        /\ route' = route
        /\ command' = command
        /\ was' = was
        /\ running' = running /\ timers' = FALSE /\ wired' = FALSE /\ coming' = {}
    BY <1>0, <1>8 DEF WorkerRestarts
  <2>2. Versions'
    BY <1>0, <2>1 DEF Versions
  <2>3. RouteTypes' /\ CommandTypes'
    <3>1. RouteTypes'
      BY <1>0, <2>1 DEF RouteTypes, Versions
    <3>2. CommandTypes'
      BY <1>0, <2>1 DEF CommandTypes, Versions
    <3> QED
      BY <3>1, <3>2
  <2>4. Known'
    BY <1>0, <2>1 DEF Versions, RouteTypes, Known
  <2>5. Due'
    BY <1>0, <2>1 DEF Versions, RouteTypes, Known, Due
  <2>6. SeenSince'
    BY <1>0, <2>1 DEF Versions, RouteTypes, CommandTypes, Known, SeenSince
  <2> QED
    BY <2>2, <2>3, <2>4, <2>5, <2>6
<1>9. CASE WireDrops
  <2>1. /\ installed' = installed
        /\ route' = route
        /\ command' = command
        /\ was' = was
        /\ running' = running /\ timers' = timers /\ wired' = FALSE /\ coming' = {}
    BY <1>0, <1>9 DEF WireDrops
  <2>2. Versions'
    BY <1>0, <2>1 DEF Versions
  <2>3. RouteTypes' /\ CommandTypes'
    <3>1. RouteTypes'
      BY <1>0, <2>1 DEF RouteTypes, Versions
    <3>2. CommandTypes'
      BY <1>0, <2>1 DEF CommandTypes, Versions
    <3> QED
      BY <3>1, <3>2
  <2>4. Known'
    BY <1>0, <2>1 DEF Versions, RouteTypes, Known
  <2>5. Due'
    BY <1>0, <2>1 DEF Versions, RouteTypes, Known, Due
  <2>6. SeenSince'
    BY <1>0, <2>1 DEF Versions, RouteTypes, CommandTypes, Known, SeenSince
  <2> QED
    BY <2>2, <2>3, <2>4, <2>5, <2>6
<1>10. CASE Upgrade
  <2>1. /\ running' = running /\ timers' = timers /\ wired' = wired
        /\ route' = route
        /\ command' = command
        /\ was' = was
        /\ coming' = coming
        /\ installed' = installed + 1
    BY <1>0, <1>10 DEF Upgrade, extension
  <2>2. Versions'
    BY <1>0, <2>1 DEF Versions
  <2>3. RouteTypes' /\ CommandTypes'
    <3>1. RouteTypes'
      BY <1>0, <2>1 DEF RouteTypes, Versions
    <3>2. CommandTypes'
      BY <1>0, <2>1 DEF CommandTypes, Versions
    <3> QED
      BY <3>1, <3>2
  <2>4. Known'
    BY <1>0, <2>1 DEF Versions, RouteTypes, Known
  <2>5. Due'
    BY <1>0, <2>1 DEF Versions, RouteTypes, Known, Due
  <2>6. SeenSince'
    BY <1>0, <2>1 DEF Versions, RouteTypes, CommandTypes, Known, SeenSince
  <2> QED
    BY <2>2, <2>3, <2>4, <2>5, <2>6
<1>11. CASE ReadsFolder
  <2>1. /\ running' = running /\ timers' = timers /\ wired' = wired
        /\ installed' = installed
        /\ route' = route
        /\ coming' = coming
        /\ command.pc = "start" /\ was' = {running}
        /\ command' = [pc |-> "chosen", want |-> installed, says |-> command.says]
        /\ command'.want = installed
    BY <1>0, <1>11 DEF ReadsFolder, extension, CommandTypes
  <2>2. Versions'
    BY <1>0, <2>1 DEF Versions
  <2>3. RouteTypes' /\ CommandTypes'
    <3>1. RouteTypes'
      BY <1>0, <2>1 DEF RouteTypes, Versions
    <3>2. CommandTypes'
      BY <1>0, <2>1 DEF CommandTypes, Versions
    <3> QED
      BY <3>1, <3>2
  <2>4. Known'
    BY <1>0, <2>1 DEF Versions, RouteTypes, Known
  <2>5. Due'
    BY <1>0, <2>1 DEF Versions, RouteTypes, Known, Due
  <2>6. SeenSince'
    BY <1>0, <2>1 DEF Versions, RouteTypes, CommandTypes, Known, SeenSince
  <2> QED
    BY <2>2, <2>3, <2>4, <2>5, <2>6
<1>12. CASE Skips \/ NoAnswer \/ Verified \/ TimesUp
  <2>1. /\ running' = running /\ timers' = timers /\ wired' = wired
        /\ installed' = installed
        /\ route' = route
        /\ was' = was
        /\ coming' = coming
        /\ command.pc # "start" /\ \E word \in {"skipped", "refused", "reloaded", "not back"} : command' = [command EXCEPT !.pc = "done", !.says = word]
    BY <1>0, <1>12 DEF Skips, NoAnswer, Verified, TimesUp, Says, Only, extension
  <2>2. Versions'
    BY <1>0, <2>1 DEF Versions
  <2>3. RouteTypes' /\ CommandTypes'
    <3>1. RouteTypes'
      BY <1>0, <2>1 DEF RouteTypes, Versions
    <3>2. CommandTypes'
      BY <1>0, <2>1 DEF CommandTypes, Versions
    <3> QED
      BY <3>1, <3>2
  <2>4. Known'
    BY <1>0, <2>1 DEF Versions, RouteTypes, Known
  <2>5. Due'
    BY <1>0, <2>1 DEF Versions, RouteTypes, Known, Due
  <2>6. SeenSince'
    BY <1>0, <2>1 DEF Versions, RouteTypes, CommandTypes, Known, SeenSince
  <2> QED
    BY <2>2, <2>3, <2>4, <2>5, <2>6
<1>13. CASE ReloadOne /\ ~Allows
  <2>1. /\ running' = running /\ timers' = timers /\ wired' = wired
        /\ installed' = installed
        /\ route' = route
        /\ was' = was
        /\ coming' = coming
        /\ command.pc # "start" /\ command' = [command EXCEPT !.pc = "done", !.says = "refused"]
    BY <1>0, <1>13 DEF ReloadOne, Says, Only, extension
  <2>2. Versions'
    BY <1>0, <2>1 DEF Versions
  <2>3. RouteTypes' /\ CommandTypes'
    <3>1. RouteTypes'
      BY <1>0, <2>1 DEF RouteTypes, Versions
    <3>2. CommandTypes'
      BY <1>0, <2>1 DEF CommandTypes, Versions
    <3> QED
      BY <3>1, <3>2
  <2>4. Known'
    BY <1>0, <2>1 DEF Versions, RouteTypes, Known
  <2>5. Due'
    BY <1>0, <2>1 DEF Versions, RouteTypes, Known, Due
  <2>6. SeenSince'
    BY <1>0, <2>1 DEF Versions, RouteTypes, CommandTypes, Known, SeenSince
  <2> QED
    BY <2>2, <2>3, <2>4, <2>5, <2>6
<1>14. CASE ReloadOne /\ Allows
  <2>1. /\ running' = running /\ timers' = timers /\ wired' = wired
        /\ installed' = installed
        /\ route' = route
        /\ was' = was
        /\ route.on /\ route.ver # 0 /\ route.ver # installed
        /\ command.pc # "start" /\ command' = [command EXCEPT !.pc = "asked"]
        /\ IF wired THEN coming' = coming \cup {"command"} ELSE coming' = coming
    BY <1>0, <1>14 DEF ReloadOne, Allows, Behind, PassesOn, Only, extension
  <2>2. Versions'
    BY <1>0, <2>1 DEF Versions
  <2>3. RouteTypes' /\ CommandTypes'
    <3>1. RouteTypes'
      BY <1>0, <2>1 DEF RouteTypes, Versions
    <3>2. CommandTypes'
      BY <1>0, <2>1 DEF CommandTypes, Versions
    <3> QED
      BY <3>1, <3>2
  <2>4. Known'
    BY <1>0, <2>1 DEF Versions, RouteTypes, Known
  <2>5. Due'
    BY <1>0, <2>1 DEF Versions, RouteTypes, Known, Due
  <2>6. SeenSince'
    BY <1>0, <2>1 DEF Versions, RouteTypes, CommandTypes, Known, SeenSince
  <2> QED
    BY <2>2, <2>3, <2>4, <2>5, <2>6
<1> QED
  BY <1>1, <1>2, <1>3, <1>4, <1>5, <1>6, <1>7, <1>8, <1>9, <1>10, <1>11, <1>12, <1>13, <1>14 DEF ReloadNext

LEMMA SaysWhatItSaw ==
  ASSUME ReloadInv, ReloadNext PROVE SaidTruly
<1> SUFFICES ASSUME command'.says = "reloaded", command.says = "nothing" PROVE command.want \in was
  BY DEF SaidTruly
<1>1. Verified
  BY DEF ReloadInv, CommandTypes, ReloadNext, AllowReload, FlagExpires, ComesBack, Evicted, SocketClosed, Reloading, Fires,
         BrowserRestarts, WorkerRestarts, WireDrops, Upgrade, ReadsFolder, Skips, ReloadOne, NoAnswer, TimesUp, Says
<1> QED
  BY <1>1 DEF Verified, Back, ReloadInv, SeenSince

(* The bridge never reloads an extension that runs the installed version,  *)
(* however many ask and however late, and reload-extension says a profile  *)
(* was reloaded only if it came back on the version it asked for           *)
(* (bridged/index.mjs allowReload, reload-extension.mjs reloadOne).        *)
THEOREM NoReloadIsWasted == ReloadSpec => ReloadsAreNeeded
<1>1. ReloadInv /\ [ReloadNext]_reloadVars => [NeverForNothing /\ SaidTruly]_reloadVars
  BY SaysWhatItSaw DEF ReloadInv, Due, NeverForNothing
<1> QED
  BY <1>1, ReloadInitially, ReloadStep, PTL DEF ReloadSpec, ReloadsAreNeeded

-----------------------------------------------------------------------------
(* The gates.                                                              *)

(* What the inductions below rest on.                                      *)
LEMMA LeastElement ==
    ASSUME NEW T \in SUBSET Nat, T # {}
    PROVE  \E n \in T : \A m \in T : n <= m
<1> DEFINE R == OpToRel(<, Nat)
<1>1. R = {ss \in Nat \X Nat : ss[1] < ss[2]}
  BY DEF OpToRel
<1>2. IsWellFoundedOn(R, Nat)
  BY NatLessThanWellFounded
<1> HIDE DEF R
<1>3. PICK n \in T : \A m \in T : <<m, n>> \notin R
  BY <1>2, WFMin
<1>4. ASSUME NEW m \in T PROVE n <= m
  <2>1. ~(m < n)
    BY <1>1, <1>3
  <2> QED
    BY <2>1
<1> QED
  BY <1>3, <1>4

(* Induction, of sets.                                                     *)
LEMMA UpTo ==
    ASSUME NEW n \in Nat, NEW T, 0 \in T, \A k \in 1..n : k - 1 \in T => k \in T
    PROVE  \A k \in 0..n : k \in T
<1> DEFINE bad == {k \in 0..n : k \notin T}
<1>1. SUFFICES ASSUME bad # {} PROVE FALSE
  OBVIOUS
<1>2. bad \in SUBSET Nat
  OBVIOUS
<1>3. PICK k \in bad : \A m \in bad : k <= m
  BY <1>1, <1>2, LeastElement
<1>4. k \in 1..n /\ k - 1 \in 0..n /\ ~(k <= k - 1)
  BY <1>3
<1>5. k - 1 \notin bad
  BY <1>3, <1>4
<1> QED
  BY <1>3, <1>4, <1>5

(* A log with these lines, whatever they are.                              *)
IsSeq(s) == s \in Seq(Range(s))
Shaped(j) ==
  /\ j = [lines |-> j.lines, older |-> j.older, counted |-> j.counted, half |-> j.half, lost |-> j.lost]
  /\ IsSeq(j.lines) /\ IsSeq(j.older)
IsLine(l) ==
  l = [n |-> l.n, stage |-> l.stage, ok |-> l.ok, receipt |-> l.receipt, whole |-> l.whole, files |-> l.files]

(* As Kept and Completions, of any log.                                    *)
KeptOf(j) == Range(j.lines) \cup Range(j.older) \cup {d.line : d \in {x \in j.lost : x.why = "rotated"}}
Spots(j, n) ==
  {<<"log", i>> : i \in {k \in DOMAIN j.lines : IsAnswer(j.lines[k], n)}}
  \cup {<<"old", i>> : i \in {k \in DOMAIN j.older : IsAnswer(j.older[k], n)}}
  \cup {<<"lost", d>> : d \in {x \in j.lost : IsAnswer(x.line, n)}}
Single(S) == \A x, y \in S : x = y

(* A line is on the log as it was given, but for its wholeness.            *)
Same(l, line) == l.n = line.n /\ l.stage = line.stage /\ l.receipt = line.receipt /\ l.files = line.files

(* Sequences of whatever.                                                  *)
LEMMA SeqIs ==
  ASSUME NEW s, IsSeq(s) PROVE Len(s) \in Nat /\ DOMAIN s = 1..Len(s) /\ s = [i \in 1..Len(s) |-> s[i]]
<1>1. Len(s) \in Nat /\ DOMAIN s = 1..Len(s) /\ s \in [1..Len(s) -> Range(s)]
  BY LenProperties DEF IsSeq
<1> QED
  BY <1>1

LEMMA MakesSeq ==
  ASSUME NEW n \in Nat, NEW s, s = [i \in 1..n |-> s[i]] PROVE IsSeq(s) /\ Len(s) = n
<1>1. DOMAIN s = 1..n
  OBVIOUS
<1>2. \A i \in 1..n : s[i] \in Range(s)
  BY <1>1 DEF Range
<1>3. s \in [1..n -> Range(s)]
  BY <1>2
<1> HIDE DEF Range
<1>4. s \in Seq(Range(s))
  BY <1>3, SeqDef
<1>5. Len(s) \in Nat /\ DOMAIN s = 1..Len(s)
  BY <1>4, LenProperties
<1>6. 1..Len(s) = 1..n
  BY <1>1, <1>5
<1>7. Len(s) = n
  BY <1>5, <1>6
<1> QED
  BY <1>4, <1>7 DEF IsSeq

LEMMA AppendIs ==
  ASSUME NEW s, IsSeq(s), NEW e
  PROVE  /\ IsSeq(Append(s, e)) /\ Len(Append(s, e)) = Len(s) + 1
         /\ \A i \in 1..Len(s) : Append(s, e)[i] = s[i]
         /\ Append(s, e)[Len(s) + 1] = e
         /\ Range(Append(s, e)) = Range(s) \cup {e}
<1> DEFINE T == Range(s) \cup {e}
<1>1. Len(s) \in Nat /\ DOMAIN s = 1..Len(s)
  BY SeqIs
<1>2. s \in Seq(T)
  BY SeqMonotonic DEF IsSeq
<1> HIDE DEF T
<1>3. /\ Len(Append(s, e)) = Len(s) + 1 /\ DOMAIN Append(s, e) = 1..(Len(s) + 1)
      /\ \A i \in 1..Len(s) : Append(s, e)[i] = s[i]
      /\ Append(s, e)[Len(s) + 1] = e
  BY <1>1, <1>2 DEF T
<1>4. Range(Append(s, e)) = Range(s) \cup {e}
  <2>1. 1..(Len(s) + 1) = 1..Len(s) \cup {Len(s) + 1}
    BY <1>1
  <2> QED
    BY <1>1, <1>3, <2>1 DEF Range
<1>5. Append(s, e) \in Seq(T)
  BY <1>2 DEF T
<1>6. IsSeq(Append(s, e))
  BY <1>4, <1>5 DEF IsSeq, T
<1> QED
  BY <1>3, <1>4, <1>6

(* The same in the three parts of a log.                                   *)
On(s, n) == \E i \in DOMAIN s : IsAnswer(s[i], n)
Once(s, n) == \A i, k \in DOMAIN s : IsAnswer(s[i], n) /\ IsAnswer(s[k], n) => i = k
Off(ds, n) == \E d \in ds : IsAnswer(d.line, n)
OffOnce(ds, n) == \A d, e \in ds : IsAnswer(d.line, n) /\ IsAnswer(e.line, n) => d = e

(* The spots of an answer, part by part.                                   *)
LEMMA SpotsAre ==
  ASSUME NEW j, NEW n
  PROVE  /\ Spots(j, n) = {} <=> ~On(j.lines, n) /\ ~On(j.older, n) /\ ~Off(j.lost, n)
         /\ Single(Spots(j, n)) <=>
              /\ Once(j.lines, n) /\ Once(j.older, n) /\ OffOnce(j.lost, n)
              /\ ~(On(j.lines, n) /\ On(j.older, n))
              /\ ~(On(j.lines, n) /\ Off(j.lost, n)) /\ ~(On(j.older, n) /\ Off(j.lost, n))
<1> DEFINE A == {k \in DOMAIN j.lines : IsAnswer(j.lines[k], n)}
           B == {k \in DOMAIN j.older : IsAnswer(j.older[k], n)}
           C == {x \in j.lost : IsAnswer(x.line, n)}
           S == {<<"log", i>> : i \in A} \cup {<<"old", i>> : i \in B} \cup {<<"lost", d>> : d \in C}
<1>1. Spots(j, n) = S
  BY DEF Spots
<1>2. /\ On(j.lines, n) <=> A # {}
      /\ On(j.older, n) <=> B # {}
      /\ Off(j.lost, n) <=> C # {}
      /\ Once(j.lines, n) <=> Single(A)
      /\ Once(j.older, n) <=> Single(B)
      /\ OffOnce(j.lost, n) <=> Single(C)
  BY DEF On, Off, Once, OffOnce, Single
<1> HIDE DEF A, B, C
<1>3. S = {} <=> A = {} /\ B = {} /\ C = {}
  OBVIOUS
<1>4. ASSUME Single(S) PROVE Single(A) /\ Single(B) /\ Single(C) /\ (A = {} \/ B = {}) /\ (A = {} \/ C = {}) /\ (B = {} \/ C = {})
  <2>1. /\ \A i \in A : <<"log", i>> \in S
        /\ \A i \in B : <<"old", i>> \in S
        /\ \A i \in C : <<"lost", i>> \in S
    OBVIOUS
  <2> HIDE DEF S
  <2>2. Single(A) /\ Single(B) /\ Single(C)
    BY <1>4, <2>1 DEF Single
  <2>3. (A = {} \/ B = {}) /\ (A = {} \/ C = {}) /\ (B = {} \/ C = {})
    BY <1>4, <2>1 DEF Single
  <2> QED
    BY <2>2, <2>3
<1>5. ASSUME Single(A), Single(B), Single(C), A = {} \/ B = {}, A = {} \/ C = {}, B = {} \/ C = {} PROVE Single(S)
  <2>1. \A x \in S : (\E i \in A : x = <<"log", i>>) \/ (\E i \in B : x = <<"old", i>>) \/ (\E i \in C : x = <<"lost", i>>)
    <3> TAKE x \in S
    <3>1. CASE x \in {<<"log", i>> : i \in A}
      BY <3>1
    <3>2. CASE x \in {<<"old", i>> : i \in B}
      BY <3>2
    <3>3. CASE x \in {<<"lost", d>> : d \in C}
      BY <3>3
    <3> QED
      BY <3>1, <3>2, <3>3
  <2> HIDE DEF S
  <2> QED
    BY <1>5, <2>1 DEF Single
<1> QED
  BY <1>1, <1>2, <1>3, <1>4, <1>5

(* Rotation loses nothing, and makes no answer stand twice.                *)
LEMMA RotationsKeep ==
  ASSUME NEW j, Shaped(j), NEW r \in Rotations(j)
  PROVE  /\ Shaped(r) /\ KeptOf(r) = KeptOf(j)
         /\ \A n : (Spots(r, n) = {} <=> Spots(j, n) = {}) /\ (Single(Spots(j, n)) => Single(Spots(r, n)))
<1>1. IsSeq(<<>>) /\ Range(<<>>) = {} /\ DOMAIN <<>> = {}
  <2>1. Range(<<>>) = {} /\ DOMAIN <<>> = {}
    BY DEF Range
  <2> QED
    BY <2>1, EmptySeq DEF IsSeq
<1>2. CASE r = j \/ r = [j EXCEPT !.counted = 0]
  BY <1>2 DEF Shaped, KeptOf, Spots
<1> DEFINE lost == j.lost \cup Away(j.older)
<1>3. {d.line : d \in {x \in lost : x.why = "rotated"}} =
        {d.line : d \in {x \in j.lost : x.why = "rotated"}} \cup Range(j.older)
  <2>1. \A d \in Away(j.older) : d.why = "rotated" /\ d.line \in Range(j.older)
    BY DEF Away, Range
  <2>2. \A l \in Range(j.older) : [line |-> l, why |-> "rotated"] \in Away(j.older)
    BY DEF Away, Range
  <2>3. \A l \in Range(j.older) : [line |-> l, why |-> "rotated"].line = l /\ [line |-> l, why |-> "rotated"].why = "rotated"
    OBVIOUS
  <2>4. ASSUME NEW l \in Range(j.older) PROVE l \in {d.line : d \in {x \in lost : x.why = "rotated"}}
    BY <2>2, <2>3, <2>4
  <2> QED
    BY <2>1, <2>4
<1>4. /\ \A i \in DOMAIN j.older : [line |-> j.older[i], why |-> "rotated"] \in Away(j.older)
      /\ \A x \in Away(j.older) : \E i \in DOMAIN j.older : x = [line |-> j.older[i], why |-> "rotated"]
  BY DEF Away
<1>5. ASSUME NEW n
      PROVE  /\ Off(lost, n) <=> Off(j.lost, n) \/ On(j.older, n)
             /\ Once(j.older, n) /\ OffOnce(j.lost, n) /\ ~(On(j.older, n) /\ Off(j.lost, n)) => OffOnce(lost, n)
  <2> DEFINE Put(i) == [line |-> j.older[i], why |-> "rotated"]
  <2>1. \A i \in DOMAIN j.older : Put(i) \in lost /\ Put(i).line = j.older[i]
    BY <1>4
  <2>2. \A x \in lost : x \in j.lost \/ \E i \in DOMAIN j.older : x = Put(i)
    BY <1>4
  <2>3. \A x \in j.lost : x \in lost
    OBVIOUS
  <2> HIDE DEF lost, Put
  <2>4. Off(lost, n) <=> Off(j.lost, n) \/ On(j.older, n)
    BY <2>1, <2>2, <2>3 DEF Off, On
  <2>5. ASSUME Once(j.older, n), OffOnce(j.lost, n), ~(On(j.older, n) /\ Off(j.lost, n)) PROVE OffOnce(lost, n)
    <3> SUFFICES ASSUME NEW d \in lost, NEW e \in lost, IsAnswer(d.line, n), IsAnswer(e.line, n) PROVE d = e
      BY DEF OffOnce
    <3>1. CASE d \in j.lost /\ e \in j.lost
      BY <2>5, <3>1 DEF OffOnce
    <3>2. ASSUME NEW x \in lost, x \notin j.lost, IsAnswer(x.line, n) PROVE \E i \in DOMAIN j.older : x = Put(i) /\ IsAnswer(j.older[i], n)
      BY <2>1, <2>2, <3>2
    <3>3. CASE d \notin j.lost /\ e \notin j.lost
      BY <2>5, <3>2, <3>3 DEF Once
    <3>4. CASE ~(d \in j.lost <=> e \in j.lost)
      BY <2>5, <3>2, <3>4 DEF On, Off
    <3> QED
      BY <3>1, <3>3, <3>4
  <2> QED
    BY <2>4, <2>5
<1>6. CASE \/ r = [j EXCEPT !.lines = <<>>, !.older = j.lines, !.counted = 0, !.half = FALSE, !.lost = lost]
           \/ r = [j EXCEPT !.counted = 0, !.older = <<>>, !.lost = lost]
  <2> HIDE DEF lost
  <2>1. /\ r.lost = lost
        /\ \/ r.lines = <<>> /\ r.older = j.lines
           \/ r.lines = j.lines /\ r.older = <<>>
    BY <1>6 DEF Shaped
  <2>2. Shaped(r)
    BY <1>1, <1>6 DEF Shaped
  <2>3. KeptOf(r) = KeptOf(j)
    BY <1>1, <1>3, <2>1 DEF KeptOf
  <2>a. \A n : ~On(<<>>, n) /\ Once(<<>>, n)
    BY <1>1 DEF On, Once
  <2>4. ASSUME NEW n PROVE Spots(r, n) = {} <=> Spots(j, n) = {}
    BY <1>5, <2>1, <2>a, SpotsAre
  <2>5. ASSUME NEW n, Single(Spots(j, n)) PROVE Single(Spots(r, n))
    BY <1>5, <2>1, <2>5, <2>a, SpotsAre
  <2> QED
    BY <2>2, <2>3, <2>4, <2>5
<1> QED
  BY <1>2, <1>6 DEF Rotations

(* One more line, on the log or lost: it is added to, and nothing goes.    *)
LEMMA AppendsKeep ==
  ASSUME NEW j, Shaped(j), NEW line, IsLine(line), NEW o \in Appends(j, line)
  PROVE  /\ Shaped(o.j) /\ KeptOf(j) \subseteq KeptOf(o.j)
         /\ \A l \in KeptOf(o.j) : l \in KeptOf(j) \/ Same(l, line)
         /\ o.ok => \E l \in KeptOf(o.j) : Same(l, line)
         /\ \A n : Spots(o.j, n) = {} <=> Spots(j, n) = {} /\ ~IsAnswer(line, n)
         /\ \A n : Single(Spots(j, n)) /\ (IsAnswer(line, n) => Spots(j, n) = {}) => Single(Spots(o.j, n))
<1>1. PICK r \in Rotations(j) :
        \/ o = [ok |-> TRUE, j |-> [r EXCEPT !.lines = Append(@, [line EXCEPT !.whole = ~r.half]), !.counted = @ + 1,
                                            !.half = FALSE]]
        \/ \E cut \in BOOLEAN :
             o = [ok |-> FALSE, j |-> [r EXCEPT !.lost = @ \cup {[line |-> line, why |-> "disk"]}, !.half = @ \/ cut]]
  BY DEF Appends
<1>2. /\ Shaped(r) /\ KeptOf(r) = KeptOf(j)
      /\ \A n : (Spots(r, n) = {} <=> Spots(j, n) = {}) /\ (Single(Spots(j, n)) => Single(Spots(r, n)))
  BY RotationsKeep
<1> SUFFICES /\ Shaped(o.j) /\ KeptOf(r) \subseteq KeptOf(o.j)
             /\ \A l \in KeptOf(o.j) : l \in KeptOf(r) \/ Same(l, line)
             /\ o.ok => \E l \in KeptOf(o.j) : Same(l, line)
             /\ \A n : Spots(o.j, n) = {} <=> Spots(r, n) = {} /\ ~IsAnswer(line, n)
             /\ \A n : Single(Spots(r, n)) /\ (IsAnswer(line, n) => Spots(r, n) = {}) => Single(Spots(o.j, n))
  BY <1>2
<1>3. CASE o = [ok |-> TRUE, j |-> [r EXCEPT !.lines = Append(@, [line EXCEPT !.whole = ~r.half]), !.counted = @ + 1,
                                            !.half = FALSE]]
  <2> DEFINE w == [line EXCEPT !.whole = ~r.half]
             s == Append(r.lines, w)
  <2>1. Same(w, line) /\ \A n : IsAnswer(w, n) <=> IsAnswer(line, n)
    BY DEF IsLine, Same, IsAnswer
  <2>2. o.j = [r EXCEPT !.lines = s, !.counted = r.counted + 1, !.half = FALSE]
    BY <1>3
  <2>3. /\ IsSeq(s) /\ Len(s) = Len(r.lines) + 1 /\ Range(s) = Range(r.lines) \cup {w}
        /\ \A i \in 1..Len(r.lines) : s[i] = r.lines[i]
        /\ s[Len(r.lines) + 1] = w
    BY <1>2, AppendIs DEF Shaped
  <2> HIDE DEF w, s
  <2>4. Shaped(o.j) /\ o.j.lines = s /\ o.j.older = r.older /\ o.j.lost = r.lost
    BY <1>2, <2>2, <2>3 DEF Shaped
  <2>5. KeptOf(o.j) = KeptOf(r) \cup {w}
    BY <2>3, <2>4 DEF KeptOf
  <2>6. /\ Len(r.lines) \in Nat /\ DOMAIN r.lines = 1..Len(r.lines) /\ DOMAIN s = 1..(Len(r.lines) + 1)
    BY <1>2, <2>3, SeqIs DEF Shaped
  <2>7. 1..(Len(r.lines) + 1) = 1..Len(r.lines) \cup {Len(r.lines) + 1} /\ Len(r.lines) + 1 \notin 1..Len(r.lines)
    BY <2>6
  <2>8. ASSUME NEW n
        PROVE  /\ On(s, n) <=> On(r.lines, n) \/ IsAnswer(line, n)
               /\ Once(r.lines, n) /\ (IsAnswer(line, n) => ~On(r.lines, n)) => Once(s, n)
    <3>1. On(s, n) <=> On(r.lines, n) \/ IsAnswer(line, n)
      BY <2>1, <2>3, <2>6, <2>7 DEF On
    <3>2. ASSUME Once(r.lines, n), IsAnswer(line, n) => ~On(r.lines, n) PROVE Once(s, n)
      BY <2>1, <2>3, <2>6, <2>7, <3>2 DEF On, Once
    <3> QED
      BY <3>1, <3>2
  <2>9. ASSUME NEW n
        PROVE  /\ Spots(o.j, n) = {} <=> Spots(r, n) = {} /\ ~IsAnswer(line, n)
               /\ Single(Spots(r, n)) /\ (IsAnswer(line, n) => Spots(r, n) = {}) => Single(Spots(o.j, n))
    BY <2>4, <2>8, SpotsAre
  <2> QED
    BY <2>1, <2>4, <2>5, <2>9
<1>4. ASSUME NEW cut \in BOOLEAN,
             o = [ok |-> FALSE, j |-> [r EXCEPT !.lost = @ \cup {[line |-> line, why |-> "disk"]}, !.half = @ \/ cut]]
      PROVE  /\ Shaped(o.j) /\ KeptOf(r) \subseteq KeptOf(o.j)
             /\ \A l \in KeptOf(o.j) : l \in KeptOf(r) \/ Same(l, line)
             /\ ~o.ok
             /\ \A n : Spots(o.j, n) = {} <=> Spots(r, n) = {} /\ ~IsAnswer(line, n)
             /\ \A n : Single(Spots(r, n)) /\ (IsAnswer(line, n) => Spots(r, n) = {}) => Single(Spots(o.j, n))
  <2> DEFINE d == [line |-> line, why |-> "disk"]
             lost == r.lost \cup {d}
  <2>1. d.line = line /\ d.why # "rotated"
    OBVIOUS
  <2> HIDE DEF d
  <2>2. o.j = [r EXCEPT !.lost = lost, !.half = r.half \/ cut] /\ ~o.ok
    BY <1>4 DEF d
  <2>3. Shaped(o.j) /\ o.j.lines = r.lines /\ o.j.older = r.older /\ o.j.lost = lost
    BY <1>2, <2>2 DEF Shaped
  <2>4. KeptOf(o.j) = KeptOf(r)
    BY <2>1, <2>3 DEF KeptOf
  <2>5. ASSUME NEW n
        PROVE  /\ Off(lost, n) <=> Off(r.lost, n) \/ IsAnswer(line, n)
               /\ OffOnce(r.lost, n) /\ (IsAnswer(line, n) => ~Off(r.lost, n)) => OffOnce(lost, n)
    BY <2>1 DEF Off, OffOnce
  <2> HIDE DEF lost
  <2>6. ASSUME NEW n
        PROVE  /\ Spots(o.j, n) = {} <=> Spots(r, n) = {} /\ ~IsAnswer(line, n)
               /\ Single(Spots(r, n)) /\ (IsAnswer(line, n) => Spots(r, n) = {}) => Single(Spots(o.j, n))
    BY <2>3, <2>5, SpotsAre
  <2> QED
    BY <2>2, <2>3, <2>4, <2>6
<1> QED
  BY <1>1, <1>3, <1>4

(* What some lines make of a log, of the first i of them.                  *)
Upto(before, lines, i, j) ==
  /\ Shaped(j) /\ KeptOf(before) \subseteq KeptOf(j)
  /\ \A l \in KeptOf(j) : l \in KeptOf(before) \/ \E k \in 1..i : Same(l, lines[k])
  /\ \A n : Spots(j, n) = {} <=> Spots(before, n) = {} /\ \A k \in 1..i : ~IsAnswer(lines[k], n)
  /\ \A n : /\ Single(Spots(before, n))
            /\ \A h, k \in 1..i : IsAnswer(lines[h], n) /\ IsAnswer(lines[k], n) => h = k
            /\ \A k \in 1..i : IsAnswer(lines[k], n) => Spots(before, n) = {}
            => Single(Spots(j, n))

(* Line after line.                                                        *)
LEMMA AfterKeeps ==
  ASSUME NEW before, Shaped(before), NEW lines, IsSeq(lines), \A i \in 1..Len(lines) : IsLine(lines[i]),
         NEW j \in After(before, lines)
  PROVE  Upto(before, lines, Len(lines), j)
<1> DEFINE n == Len(lines)
           More(S, i) == UNION {{o.j : o \in Appends(x, lines[i])} : x \in S}
           At(f, i) == IF i = 0 THEN {before} ELSE More(f[i - 1], i)
           Follows(f, m) == f = [i \in 0..m |-> At(f, i)]
<1>1. n \in Nat
  BY SeqIs
<1> HIDE DEF More
<1>2. \E f : Follows(f, n)
  <2> DEFINE good == {k \in 0..n : \E f : Follows(f, k)}
  <2>1. 0 \in good
    <3> DEFINE g == [i \in 0..0 |-> {before}]
    <3>1. Follows(g, 0)
      OBVIOUS
    <3> HIDE DEF g
    <3>2. \E f : Follows(f, 0)
      BY <3>1
    <3> QED
      BY <1>1, <3>2
  <2>2. ASSUME NEW k \in 1..n, k - 1 \in good PROVE k \in good
    <3>1. PICK f : Follows(f, k - 1)
      BY <2>2
    <3> DEFINE g == [i \in 0..k |-> IF i = k THEN At(f, k) ELSE f[i]]
    <3>a. \A i \in 0..(k - 1) : f[i] = At(f, i)
      BY <3>1
    <3>2. \A i \in 0..(k - 1) : g[i] = f[i]
      BY <1>1
    <3>3. \A i \in 0..k : g[i] = At(g, i)
      <4>1. g[k] = At(f, k)
        BY <1>1
      <4>2. \A i \in 1..k : g[i - 1] = f[i - 1]
        BY <1>1, <3>2
      <4>3. At(g, k) = At(f, k)
        BY <1>1, <4>2
      <4>4. \A i \in 0..(k - 1) : At(g, i) = At(f, i)
        BY <1>1, <4>2
      <4>5. 0..k = 0..(k - 1) \cup {k}
        BY <1>1
      <4> HIDE DEF g, At
      <4> QED
        BY <3>2, <3>a, <4>1, <4>3, <4>4, <4>5
    <3>4. g = [i \in 0..k |-> g[i]]
      OBVIOUS
    <3> HIDE DEF g
    <3>5. Follows(g, k)
      BY <3>3, <3>4
    <3> HIDE DEF At
    <3>6. k \in 0..n /\ \E h : Follows(h, k)
      BY <1>1, <3>5
    <3> QED
      BY <3>6
  <2> HIDE DEF good
  <2>3. \A k \in 1..n : k - 1 \in good => k \in good
    BY <2>2
  <2>4. n \in Nat /\ n \in 0..n
    BY <1>1
  <2> HIDE DEF n
  <2>5. n \in good
    BY <2>1, <2>3, <2>4, UpTo
  <2> QED
    BY <2>5 DEF good
<1> DEFINE f == CHOOSE f : Follows(f, n)
<1>3. Follows(f, n) /\ After(before, lines) = f[n]
  <2>1. Follows(f, n)
    BY <1>2
  <2>2. After(before, lines) = f[n]
    BY DEF After, More
  <2> QED
    BY <2>1, <2>2
<1> HIDE DEF f
<1>4. \A i \in 0..n : f[i] = At(f, i)
  BY <1>3
<1> DEFINE good == {i \in 0..n : \A x \in f[i] : Upto(before, lines, i, x)}
<1>5. 0 \in good
  <2>1. f[0] = {before}
    BY <1>1, <1>4
  <2>2. Upto(before, lines, 0, before)
    BY DEF Upto
  <2> QED
    BY <1>1, <2>1, <2>2
<1>6. ASSUME NEW i \in 1..n, i - 1 \in good PROVE i \in good
  <2>1. f[i] = UNION {{o.j : o \in Appends(x, lines[i])} : x \in f[i - 1]}
    <3>1. f[i] = More(f[i - 1], i)
      BY <1>1, <1>4
    <3> QED
      BY <3>1 DEF More
  <2>2. ASSUME NEW y \in f[i] PROVE Upto(before, lines, i, y)
    <3>1. PICK x \in f[i - 1] : y \in {o.j : o \in Appends(x, lines[i])}
      BY <2>1
    <3>2. PICK o \in Appends(x, lines[i]) : y = o.j
      BY <3>1
    <3>3. Upto(before, lines, i - 1, x)
      BY <1>6
    <3>4. IsLine(lines[i])
      OBVIOUS
    <3> DEFINE line == lines[i]
    <3>5. /\ Shaped(y) /\ KeptOf(x) \subseteq KeptOf(y)
          /\ \A l \in KeptOf(y) : l \in KeptOf(x) \/ Same(l, line)
          /\ \A m : Spots(y, m) = {} <=> Spots(x, m) = {} /\ ~IsAnswer(line, m)
          /\ \A m : Single(Spots(x, m)) /\ (IsAnswer(line, m) => Spots(x, m) = {}) => Single(Spots(y, m))
      BY <3>2, <3>3, <3>4, AppendsKeep DEF Upto
    <3>6. 1..i = 1..(i - 1) \cup {i} /\ i \notin 1..(i - 1)
      BY <1>1
    <3> HIDE DEF line, n
    <3>7. Shaped(y) /\ KeptOf(before) \subseteq KeptOf(y)
      BY <3>3, <3>5 DEF Upto
    <3>8. \A l \in KeptOf(y) : l \in KeptOf(before) \/ \E k \in 1..i : Same(l, lines[k])
      BY <3>3, <3>5, <3>6 DEF Upto, line
    <3>9. \A m : Spots(y, m) = {} <=> Spots(before, m) = {} /\ \A k \in 1..i : ~IsAnswer(lines[k], m)
      BY <3>3, <3>5, <3>6 DEF Upto, line
    <3>10. ASSUME NEW m, Single(Spots(before, m)),
                  \A h, k \in 1..i : IsAnswer(lines[h], m) /\ IsAnswer(lines[k], m) => h = k,
                  \A k \in 1..i : IsAnswer(lines[k], m) => Spots(before, m) = {}
           PROVE  Single(Spots(y, m))
      <4>1. Single(Spots(x, m))
        BY <3>3, <3>6, <3>10 DEF Upto
      <4>2. ASSUME IsAnswer(line, m) PROVE Spots(x, m) = {}
        <5>1. \A k \in 1..(i - 1) : ~IsAnswer(lines[k], m)
          BY <3>6, <3>10, <4>2 DEF line
        <5>2. Spots(before, m) = {}
          BY <3>6, <3>10, <4>2 DEF line
        <5> QED
          BY <3>3, <5>1, <5>2 DEF Upto
      <4> QED
        BY <3>5, <4>1, <4>2
    <3> QED
      BY <3>7, <3>8, <3>9, <3>10 DEF Upto
  <2> QED
    BY <1>1, <2>2
<1>7. n \in 0..n
  BY <1>1
<1> HIDE DEF good, n, At
<1>8. \A i \in 0..n : i \in good
  BY <1>1, <1>5, <1>6, UpTo
<1> QED
  BY <1>3, <1>7, <1>8 DEF good, n

(* The sum of the files' sizes, one file at a time: the recursive function  *)
(* exists, and so the CHOOSE behind its definition finds it.               *)
LEMMA BytesIs ==
  ASSUME NEW s, IsSeq(s)
  PROVE  \E f : /\ f = [i \in 0..Len(s) |-> IF i = 0 THEN 0 ELSE f[i - 1] + s[i].bytes]
                /\ Bytes(s) = f[Len(s)]
<1> DEFINE n == Len(s)
           More(b, i) == b + s[i].bytes
           At(f, i) == IF i = 0 THEN 0 ELSE More(f[i - 1], i)
           Sums(f, m) == f = [i \in 0..m |-> At(f, i)]
<1> HIDE DEF More
<1>1. n \in Nat
  BY SeqIs
<1>2. \E f : Sums(f, n)
  <2> DEFINE good == {k \in 0..n : \E f : Sums(f, k)}
  <2>1. 0 \in good
    <3> DEFINE g == [i \in 0..0 |-> 0]
    <3>1. Sums(g, 0)
      OBVIOUS
    <3> HIDE DEF g
    <3>2. \E f : Sums(f, 0)
      BY <3>1
    <3> QED
      BY <1>1, <3>2
  <2>2. ASSUME NEW k \in 1..n, k - 1 \in good PROVE k \in good
    <3>1. PICK f : Sums(f, k - 1)
      BY <2>2
    <3> DEFINE g == [i \in 0..k |-> IF i = k THEN At(f, k) ELSE f[i]]
    <3>a. \A i \in 0..(k - 1) : f[i] = At(f, i)
      BY <3>1
    <3>2. \A i \in 0..(k - 1) : g[i] = f[i]
      BY <1>1
    <3>3. \A i \in 0..k : g[i] = At(g, i)
      <4>1. g[k] = At(f, k)
        BY <1>1
      <4>2. \A i \in 1..k : g[i - 1] = f[i - 1]
        BY <1>1, <3>2
      <4>3. At(g, k) = At(f, k)
        BY <1>1, <4>2
      <4>4. \A i \in 0..(k - 1) : At(g, i) = At(f, i)
        BY <1>1, <4>2
      <4>5. 0..k = 0..(k - 1) \cup {k}
        BY <1>1
      <4> HIDE DEF g, At
      <4> QED
        BY <3>2, <3>a, <4>1, <4>3, <4>4, <4>5
    <3>4. g = [i \in 0..k |-> g[i]]
      OBVIOUS
    <3> HIDE DEF g
    <3>5. Sums(g, k)
      BY <3>3, <3>4
    <3> HIDE DEF At
    <3>6. k \in 0..n /\ \E h : Sums(h, k)
      BY <1>1, <3>5
    <3> QED
      BY <3>6
  <2> HIDE DEF good
  <2>3. \A k \in 1..n : k - 1 \in good => k \in good
    BY <2>2
  <2>4. n \in Nat /\ n \in 0..n
    BY <1>1
  <2> HIDE DEF n
  <2>5. n \in good
    BY <2>1, <2>3, <2>4, UpTo
  <2> QED
    BY <2>5 DEF good
<1> DEFINE f == CHOOSE f : Sums(f, n)
<1>3. Sums(f, n)
  BY <1>2
<1>4. Bytes(s) = f[n]
  BY DEF Bytes, More
<1> QED
  BY <1>3, <1>4 DEF More

LEMMA BytesOfNone == Bytes(<<>>) = 0
<1>1. IsSeq(<<>>) /\ Len(<<>>) = 0
  BY EmptySeq DEF IsSeq
<1>2. PICK f : /\ f = [i \in 0..0 |-> IF i = 0 THEN 0 ELSE f[i - 1] + <<>>[i].bytes]
               /\ Bytes(<<>>) = f[0]
  BY <1>1, BytesIs
<1>3. 0 \in 0..0
  OBVIOUS
<1> QED
  BY <1>2, <1>3

LEMMA BytesOfMore ==
  ASSUME NEW s, IsSeq(s), NEW e
  PROVE  Bytes(Append(s, e)) = Bytes(s) + e.bytes
<1> DEFINE n == Len(s)
           a == Append(s, e)
<1>1. n \in Nat /\ IsSeq(a) /\ Len(a) = n + 1 /\ a[n + 1] = e /\ \A i \in 1..n : a[i] = s[i]
  BY AppendIs, SeqIs
<1> HIDE DEF a
<1>2. PICK f : f = [i \in 0..n |-> IF i = 0 THEN 0 ELSE f[i - 1] + s[i].bytes] /\ Bytes(s) = f[n]
  BY BytesIs
<1> HIDE DEF n
<1>3. PICK g : g = [i \in 0..(n + 1) |-> IF i = 0 THEN 0 ELSE g[i - 1] + a[i].bytes] /\ Bytes(a) = g[n + 1]
  BY <1>1, BytesIs
<1>4. /\ f[0] = 0 /\ g[0] = 0
      /\ \A i \in 1..n : f[i] = f[i - 1] + s[i].bytes /\ g[i] = g[i - 1] + a[i].bytes
      /\ g[n + 1] = g[n] + a[n + 1].bytes
  BY <1>1, <1>2, <1>3
<1> DEFINE good == {i \in 0..n : g[i] = f[i]}
<1>5. 0 \in good /\ \A i \in 1..n : i - 1 \in good => i \in good
  BY <1>1, <1>4
<1> HIDE DEF good
<1>6. n \in good
  BY <1>1, <1>5, UpTo
<1> QED
  BY <1>1, <1>2, <1>3, <1>4, <1>6 DEF good, a

(* The lines of some requests, one after another.                          *)
LEMMA SetToSeqIs ==
  ASSUME NEW S, IsFiniteSet(S)
  PROVE  /\ IsSeq(SetToSeq(S)) /\ Range(SetToSeq(S)) = S
         /\ \A i, k \in 1..Len(SetToSeq(S)) : SetToSeq(S)[i] = SetToSeq(S)[k] => i = k
<1> DEFINE n == Cardinality(S)
           s == SetToSeq(S)
<1>1. n \in Nat /\ \E f : ExistsBijection(1..n, S)
  BY FS_CardinalityType
<1>2. PICK f : f \in Bijection(1..n, S)
  BY <1>1 DEF ExistsBijection
<1>3. f \in [1..n -> S] /\ IsInjective(f)
  BY <1>2 DEF Bijection, Injection, IsInjective
<1>4. s \in [1..n -> S] /\ IsInjective(s)
  BY <1>3 DEF SetToSeq
<1>5. s \in Injection(1..n, S)
  BY <1>4 DEF Injection, IsInjective
<1> HIDE DEF s
<1>6. IsSeq(s) /\ Len(s) = n
  BY <1>1, <1>4, MakesSeq
<1>7. IsFiniteSet(1..n) /\ Cardinality(1..n) = n
  BY <1>1, FS_Interval
<1>8. s \in Surjection(1..n, S)
  BY <1>1, <1>5, <1>7, FS_Injection
<1> HIDE DEF n
<1>9. Range(s) = S
  <2>1. \A t \in S : \E i \in 1..n : s[i] = t
    BY <1>8 DEF Surjection
  <2> QED
    BY <1>4, <2>1 DEF Range, n
<1>10. \A i, k \in 1..n : s[i] = s[k] => i = k
  BY <1>4 DEF IsInjective, n
<1> QED
  BY <1>6, <1>9, <1>10 DEF s

LEMMA FiniteImage ==
  ASSUME NEW S, IsFiniteSet(S), NEW ok PROVE IsFiniteSet({Completion(n, ok) : n \in S})
<1> DEFINE T == {Completion(n, ok) : n \in S}
           f == [n \in S |-> Completion(n, ok)]
<1>1. f \in Surjection(S, T)
  <2>1. f \in [S -> T] /\ \A t \in T : \E n \in S : f[n] = t
    OBVIOUS
  <2> HIDE DEF f, T
  <2> QED
    BY <2>1 DEF Surjection
<1> HIDE DEF f
<1>2. IsFiniteSet(T)
  BY <1>1, FS_Surjection
<1> QED
  BY <1>2

(* Of a log j and the calls cs: who was answered, and whom a receipt came  *)
(* with, and that the log says so, once.                                   *)
Done(cs, n) == n \in DOMAIN cs /\ cs[n].at = "done" /\ Auditable(cs[n].q.op)
Receipted(cs, n) == n \in DOMAIN cs /\ ReceiptOf(cs[n].q)
ToldOf(j, cs) ==
  /\ Shaped(j)
  /\ \A n : Single(Spots(j, n)) /\ (Spots(j, n) # {} <=> Done(cs, n))
  /\ \A l \in KeptOf(j) : l.receipt => Receipted(cs, l.n)

LEMMA KeepIs ==
  ASSUME NEW j, Shaped(j), Keep(j) PROVE Journal' = j
<1>1. /\ journal' = [lines |-> j.lines, older |-> j.older, counted |-> j.counted, half |-> j.half]
      /\ dropped' = j.lost
  BY DEF Keep
<1>2. Journal' = [lines |-> j.lines, older |-> j.older, counted |-> j.counted, half |-> j.half, lost |-> j.lost]
  BY <1>1 DEF Journal
<1> QED
  BY <1>2 DEF Shaped

LEMMA RecordsTell ==
  ASSUME NEW before, NEW cs, NEW ds, ToldOf(before, cs),
         NEW lines, IsSeq(lines),
         \A k \in 1..Len(lines) : /\ IsLine(lines[k]) /\ lines[k].stage = "done" /\ ~Done(cs, lines[k].n)
                                  /\ lines[k].receipt => Receipted(ds, lines[k].n),
         \A h, k \in 1..Len(lines) : lines[h].n = lines[k].n => h = k,
         \A n : Done(ds, n) <=> Done(cs, n) \/ \E k \in 1..Len(lines) : lines[k].n = n,
         \A n : Receipted(cs, n) => Receipted(ds, n),
         RecordAll(before, lines)
  PROVE  ToldOf(Journal', ds) /\ KeptOf(before) \subseteq KeptOf(Journal')
<1>1. PICK j \in After(before, lines) : Keep(j)
  BY DEF RecordAll
<1>2. Upto(before, lines, Len(lines), j)
  BY AfterKeeps DEF ToldOf
<1>3. Journal' = j /\ Shaped(j) /\ KeptOf(before) \subseteq KeptOf(j)
  BY <1>1, <1>2, KeepIs DEF Upto
<1>4. \A n : \A k \in 1..Len(lines) : IsAnswer(lines[k], n) <=> lines[k].n = n
  BY DEF IsAnswer
<1>5. ASSUME NEW n PROVE Single(Spots(j, n)) /\ (Spots(j, n) # {} <=> Done(ds, n))
  <2>1. Spots(j, n) = {} <=> Spots(before, n) = {} /\ \A k \in 1..Len(lines) : ~IsAnswer(lines[k], n)
    BY <1>2 DEF Upto
  <2>2. Spots(before, n) # {} <=> Done(cs, n)
    BY DEF ToldOf
  <2>3. Single(Spots(before, n))
    BY DEF ToldOf
  <2>a. \A k \in 1..Len(lines) : IsAnswer(lines[k], n) <=> lines[k].n = n
    BY <1>4
  <2>4. \A h, k \in 1..Len(lines) : IsAnswer(lines[h], n) /\ IsAnswer(lines[k], n) => h = k
    <3> SUFFICES ASSUME NEW h \in 1..Len(lines), NEW k \in 1..Len(lines), IsAnswer(lines[h], n), IsAnswer(lines[k], n) PROVE h = k
      OBVIOUS
    <3>1. lines[h].n = lines[k].n
      BY <2>a
    <3> QED
      BY <3>1
  <2>5. \A k \in 1..Len(lines) : IsAnswer(lines[k], n) => Spots(before, n) = {}
    BY <2>a, <2>2
  <2>6. Single(Spots(j, n))
    BY <1>2, <2>3, <2>4, <2>5 DEF Upto
  <2> QED
    BY <1>4, <2>1, <2>2, <2>6
<1>6. ASSUME NEW l \in KeptOf(j), l.receipt PROVE Receipted(ds, l.n)
  <2>1. l \in KeptOf(before) \/ \E k \in 1..Len(lines) : Same(l, lines[k])
    BY <1>2 DEF Upto
  <2> QED
    BY <1>6, <2>1 DEF ToldOf, Same
<1> QED
  BY <1>3, <1>5, <1>6 DEF ToldOf

(* Of one line, and of none.                                               *)
LEMMA OneTells ==
  ASSUME NEW before, NEW cs, NEW ds, ToldOf(before, cs), NEW m, NEW ok, NEW files, ~Done(cs, m),
         \A n : Done(ds, n) <=> Done(cs, n) \/ n = m,
         \A n : Receipted(cs, n) => Receipted(ds, n),
         RecordAll(before, <<Line(m, "done", ok, files, FALSE)>>)
  PROVE  ToldOf(Journal', ds) /\ KeptOf(before) \subseteq KeptOf(Journal')
<1> DEFINE lines == <<Line(m, "done", ok, files, FALSE)>>
<1>1. IsSeq(lines) /\ Len(lines) = 1 /\ lines[1] = Line(m, "done", ok, files, FALSE)
  <2>1. lines = [i \in 1..1 |-> lines[i]] /\ lines[1] = Line(m, "done", ok, files, FALSE)
    OBVIOUS
  <2> HIDE DEF lines
  <2> QED
    BY <2>1, MakesSeq
<1>2. /\ IsLine(lines[1]) /\ lines[1].stage = "done" /\ lines[1].n = m /\ ~lines[1].receipt
  BY <1>1 DEF Line, IsLine
<1>3. RecordAll(before, lines)
  OBVIOUS
<1> HIDE DEF lines
<1>4. \A k : k \in 1..Len(lines) <=> k = 1
  BY <1>1
<1>5. \A k \in 1..Len(lines) : /\ IsLine(lines[k]) /\ lines[k].stage = "done" /\ ~Done(cs, lines[k].n)
                               /\ lines[k].receipt => Receipted(ds, lines[k].n)
  BY <1>2, <1>4
<1>6. \A h, k \in 1..Len(lines) : lines[h].n = lines[k].n => h = k
  BY <1>4
<1>7. \A n : Done(ds, n) <=> Done(cs, n) \/ \E k \in 1..Len(lines) : lines[k].n = n
  BY <1>2, <1>4
<1> QED
  BY <1>1, <1>3, <1>5, <1>6, <1>7, RecordsTell

LEMMA SilenceTells ==
  ASSUME NEW before, NEW cs, NEW ds, ToldOf(before, cs),
         \A n : Done(ds, n) <=> Done(cs, n), \A n : Receipted(cs, n) => Receipted(ds, n)
  PROVE  ToldOf(before, ds)
BY DEF ToldOf

LEMMA ReplyTells ==
  ASSUME NEW ds, ToldOf(Journal, calls), NEW m, NEW q, NEW ok, NEW files, ~Done(calls, m),
         \A n : Done(ds, n) <=> Done(calls, n) \/ (n = m /\ Auditable(q.op)),
         \A n : Receipted(calls, n) => Receipted(ds, n),
         Reply(m, q, ok, files)
  PROVE  ToldOf(Journal', ds) /\ KeptOf(Journal) \subseteq KeptOf(Journal')
<1>1. CASE Auditable(q.op)
  BY <1>1, OneTells DEF Reply, Record
<1>2. CASE ~Auditable(q.op)
  <2>1. Journal' = Journal
    BY <1>2 DEF Reply, Journal
  <2> QED
    BY <1>2, <2>1, SilenceTells
<1> QED
  BY <1>1, <1>2

(* What a line on its way to be sent adds is no answer.                    *)
SaysSent(j, m, files) == \E l \in KeptOf(j) : l.n = m /\ l.stage = "send" /\ l.files = Loggable(files)
Outcomes(m, files) == Appends(Journal, Line(m, "send", TRUE, files, FALSE))

LEMMA SendTells ==
  ASSUME NEW cs, ToldOf(Journal, cs), NEW m, NEW files, NEW o \in Outcomes(m, files)
  PROVE  /\ ToldOf(o.j, cs) /\ KeptOf(Journal) \subseteq KeptOf(o.j)
         /\ o.ok => SaysSent(o.j, m, files)
<1> DEFINE line == Line(m, "send", TRUE, files, FALSE)
<1>1. /\ IsLine(line) /\ line.stage = "send" /\ line.n = m /\ ~line.receipt /\ line.files = Loggable(files)
      /\ \A n : ~IsAnswer(line, n)
  BY DEF Line, IsLine, IsAnswer
<1> HIDE DEF line
<1>a. o \in Appends(Journal, line) /\ Shaped(Journal)
  BY DEF ToldOf, line, Outcomes
<1>2. /\ Shaped(o.j) /\ KeptOf(Journal) \subseteq KeptOf(o.j)
      /\ \A l \in KeptOf(o.j) : l \in KeptOf(Journal) \/ Same(l, line)
      /\ o.ok => \E l \in KeptOf(o.j) : Same(l, line)
      /\ \A n : Spots(o.j, n) = {} <=> Spots(Journal, n) = {}
      /\ \A n : Single(Spots(Journal, n)) => Single(Spots(o.j, n))
  BY <1>1, <1>a, AppendsKeep
<1>3. ToldOf(o.j, cs)
  BY <1>1, <1>2 DEF ToldOf, Same
<1>4. o.ok => SaysSent(o.j, m, files)
  BY <1>1, <1>2 DEF Same, SaysSent
<1> QED
  BY <1>2, <1>3, <1>4

(* What became of each request, and what it may be of the next.            *)
IsCall(c) ==
  /\ c = [q |-> c.q, at |-> c.at, files |-> c.files]
  /\ c.q \in Asks /\ (c.at = "sent" => c.q.op \in BrowserOps)
CallsOK(cs) == IsSeq(cs) /\ \A n \in DOMAIN cs : IsCall(cs[n])

LEMMA CallsAre ==
  ASSUME CallsOK(calls)
  PROVE  /\ Len(calls) \in Nat /\ DOMAIN calls = 1..Len(calls) /\ Next1 = Len(calls) + 1 /\ Next1 \notin DOMAIN calls
         /\ calls = [n \in 1..Len(calls) |-> calls[n]]
BY SeqIs DEF CallsOK, Next1

LEMMA BrowserIsAudited == \A op \in BrowserOps : Auditable(op)
BY DEF Auditable

(* One more call.                                                          *)
Added(ds, cs, q, at, files) ==
  ds = Append(cs, Call(q, at, files)) /\ q \in Asks /\ (at = "sent" => q.op \in BrowserOps)

LEMMA CallAdded ==
  ASSUME NEW cs, CallsOK(cs), NEW ds, NEW q, NEW at, NEW files, Added(ds, cs, q, at, files)
  PROVE  /\ CallsOK(ds) /\ Len(ds) = Len(cs) + 1 /\ ds[Len(cs) + 1] = Call(q, at, files)
         /\ DOMAIN ds = 1..(Len(cs) + 1)
         /\ \A n \in DOMAIN cs : ds[n] = cs[n]
         /\ \A n : Done(ds, n) <=> Done(cs, n) \/ (n = Len(cs) + 1 /\ at = "done" /\ Auditable(q.op))
         /\ \A n : Receipted(cs, n) => Receipted(ds, n)
         /\ ~Done(cs, Len(cs) + 1)
<1> DEFINE m == Len(cs) + 1
           c == Call(q, at, files)
<1>1. Len(cs) \in Nat /\ DOMAIN cs = 1..Len(cs) /\ m = Len(cs) + 1 /\ m \notin DOMAIN cs
  BY SeqIs DEF CallsOK
<1>2. /\ IsSeq(ds) /\ Len(ds) = m /\ ds[m] = c
      /\ \A i \in 1..Len(cs) : ds[i] = cs[i]
  BY <1>1, AppendIs DEF CallsOK, Added
<1>3. DOMAIN ds = 1..m
  BY <1>2, SeqIs
<1>4. c.q = q /\ c.at = at /\ c = [q |-> c.q, at |-> c.at, files |-> c.files]
  BY DEF Call
<1>5. IsCall(c)
  BY <1>4 DEF IsCall, Added
<1> HIDE DEF m, c
<1>6. \A n : n \in 1..m <=> n \in 1..Len(cs) \/ n = m
  BY <1>1
<1>7. CallsOK(ds)
  <2>1. \A n \in DOMAIN ds : IsCall(ds[n])
    BY <1>1, <1>2, <1>3, <1>5, <1>6 DEF CallsOK
  <2> QED
    BY <1>2, <2>1 DEF CallsOK
<1>8. ASSUME NEW n PROVE Done(ds, n) <=> Done(cs, n) \/ (n = m /\ at = "done" /\ Auditable(q.op))
  BY <1>1, <1>2, <1>3, <1>4, <1>6 DEF Done
<1>9. ASSUME NEW n PROVE Receipted(cs, n) => Receipted(ds, n)
  BY <1>1, <1>2, <1>3, <1>6 DEF Receipted
<1>10. ~Done(cs, m)
  BY <1>1 DEF Done
<1> QED
  BY <1>1, <1>2, <1>3, <1>7, <1>8, <1>9, <1>10 DEF m, c

(* Some calls change what became of them, and maybe their files.           *)
Changed(ds, ns, at) ==
  /\ ns \subseteq DOMAIN calls /\ ds = [n \in DOMAIN calls |-> ds[n]]
  /\ \A n \in DOMAIN calls : n \notin ns => ds[n] = calls[n]
  /\ \A n \in ns : /\ ds[n] = [q |-> ds[n].q, at |-> ds[n].at, files |-> ds[n].files]
                   /\ ds[n].q = calls[n].q /\ ds[n].at = at
                   /\ calls[n].at # "done" /\ (at = "sent" => calls[n].q.op \in BrowserOps)

LEMMA CallsChanged ==
  ASSUME CallsOK(calls), NEW ds, NEW ns, NEW at, Changed(ds, ns, at)
  PROVE  /\ CallsOK(ds) /\ Len(ds) = Len(calls) /\ DOMAIN ds = DOMAIN calls
         /\ \A n : Done(ds, n) <=> Done(calls, n) \/ (n \in ns /\ at = "done" /\ Auditable(calls[n].q.op))
         /\ \A n : Receipted(calls, n) => Receipted(ds, n)
         /\ \A n : n \in ns => ~Done(calls, n)
<1>1. Len(calls) \in Nat /\ DOMAIN calls = 1..Len(calls)
  BY CallsAre
<1>2. IsSeq(ds) /\ Len(ds) = Len(calls)
  <2>1. ds = [i \in 1..Len(calls) |-> ds[i]]
    BY <1>1 DEF Changed
  <2> QED
    BY <1>1, <2>1, MakesSeq
<1>3. DOMAIN ds = DOMAIN calls
  BY DEF Changed
<1>4. /\ ns \subseteq DOMAIN calls
      /\ \A n \in DOMAIN calls : n \notin ns => ds[n] = calls[n]
      /\ \A n \in ns : /\ ds[n].q = calls[n].q /\ ds[n].at = at
                       /\ calls[n].at # "done" /\ (at = "sent" => calls[n].q.op \in BrowserOps)
  BY DEF Changed
<1>5. \A n \in DOMAIN calls : IsCall(calls[n])
  BY DEF CallsOK
<1>6. ASSUME NEW n \in DOMAIN calls PROVE IsCall(ds[n])
  <2>1. CASE n \in ns
    <3>1. ds[n] = [q |-> ds[n].q, at |-> ds[n].at, files |-> ds[n].files]
      BY <2>1 DEF Changed
    <3>2. ds[n].q \in Asks
      BY <1>4, <1>5, <2>1 DEF IsCall
    <3>3. ds[n].at = "sent" => ds[n].q.op \in BrowserOps
      BY <1>4, <2>1
    <3> QED
      BY <3>1, <3>2, <3>3 DEF IsCall
  <2>2. CASE n \notin ns
    BY <1>4, <1>5, <2>2
  <2> QED
    BY <2>1, <2>2
<1>7. CallsOK(ds)
  BY <1>2, <1>3, <1>6 DEF CallsOK
<1>8. ASSUME NEW n
      PROVE  Done(ds, n) <=> Done(calls, n) \/ (n \in ns /\ at = "done" /\ Auditable(calls[n].q.op))
  <2>1. CASE n \in ns
    BY <1>3, <1>4, <2>1 DEF Done
  <2>2. CASE n \notin ns
    BY <1>3, <1>4, <2>2 DEF Done
  <2> QED
    BY <2>1, <2>2
<1>9. ASSUME NEW n PROVE Receipted(calls, n) => Receipted(ds, n)
  <2>1. CASE n \in ns
    BY <1>3, <1>4, <2>1 DEF Receipted
  <2>2. CASE n \notin ns
    BY <1>3, <1>4, <2>2 DEF Receipted
  <2> QED
    BY <2>1, <2>2
<1>10. ASSUME NEW n, n \in ns PROVE ~Done(calls, n)
  BY <1>4, <1>10 DEF Done
<1> QED
  BY <1>2, <1>3, <1>7, <1>8, <1>9, <1>10

LEMMA CallsEnd ==
  ASSUME CallsOK(calls), NEW ns, ns \subseteq InFlight,
         NEW ds, ds = [n \in DOMAIN calls |-> IF n \in ns THEN [calls[n] EXCEPT !.at = "done"] ELSE calls[n]]
  PROVE  /\ CallsOK(ds) /\ Len(ds) = Len(calls) /\ DOMAIN ds = DOMAIN calls
         /\ \A n : Done(ds, n) <=> Done(calls, n) \/ n \in ns
         /\ \A n : Receipted(calls, n) => Receipted(ds, n)
         /\ \A n : n \in ns => ~Done(calls, n)
<1>1. /\ ns \subseteq DOMAIN calls
      /\ \A n \in ns : calls[n].at = "sent" /\ IsCall(calls[n])
  BY DEF InFlight, CallsOK
<1>2. \A n \in ns : calls[n].at # "done" /\ Auditable(calls[n].q.op)
  BY <1>1, BrowserIsAudited DEF IsCall
<1>3. /\ ds = [n \in DOMAIN calls |-> ds[n]]
      /\ \A n \in DOMAIN calls : n \notin ns => ds[n] = calls[n]
      /\ \A n \in ns : ds[n] = [calls[n] EXCEPT !.at = "done"]
  BY <1>1
<1>4. ASSUME NEW n \in ns
      PROVE  /\ ds[n] = [q |-> ds[n].q, at |-> ds[n].at, files |-> ds[n].files]
             /\ ds[n].q = calls[n].q /\ ds[n].at = "done"
  <2>1. calls[n] = [q |-> calls[n].q, at |-> calls[n].at, files |-> calls[n].files]
    BY <1>1 DEF IsCall
  <2>2. [calls[n] EXCEPT !.at = "done"] = [q |-> calls[n].q, at |-> "done", files |-> calls[n].files]
    BY <2>1
  <2>3. ds[n] = [q |-> calls[n].q, at |-> "done", files |-> calls[n].files]
    BY <1>3, <2>2
  <2> QED
    BY <2>3
<1>5. Changed(ds, ns, "done")
  BY <1>1, <1>2, <1>3, <1>4 DEF Changed
<1>6. /\ CallsOK(ds) /\ Len(ds) = Len(calls) /\ DOMAIN ds = DOMAIN calls
      /\ \A n : Done(ds, n) <=> Done(calls, n) \/ (n \in ns /\ "done" = "done" /\ Auditable(calls[n].q.op))
      /\ \A n : Receipted(calls, n) => Receipted(ds, n)
      /\ \A n : n \in ns => ~Done(calls, n)
  BY <1>5, CallsChanged
<1> QED
  BY <1>2, <1>6

(* The answers to what was in flight.                                      *)
LinesOf(ns, ok) == SetToSeq({Completion(n, ok) : n \in ns})

LEMMA CompletionsAre ==
  ASSUME CallsOK(calls), NEW ns, ns \subseteq InFlight, NEW ok, NEW lines, lines = LinesOf(ns, ok)
  PROVE  /\ IsSeq(lines)
         /\ \A k \in 1..Len(lines) : /\ IsLine(lines[k]) /\ lines[k].stage = "done" /\ lines[k].n \in ns
                                     /\ lines[k].receipt => Receipted(calls, lines[k].n)
         /\ \A h, k \in 1..Len(lines) : lines[h].n = lines[k].n => h = k
         /\ \A n \in ns : \E k \in 1..Len(lines) : lines[k].n = n
<1> DEFINE S == {Completion(n, ok) : n \in ns}
<1>1. Len(calls) \in Nat /\ DOMAIN calls = 1..Len(calls) /\ ns \subseteq DOMAIN calls
  BY CallsAre DEF InFlight
<1>2. IsFiniteSet(ns)
  <2>1. IsFiniteSet(1..Len(calls))
    BY <1>1, FS_Interval
  <2>2. ns \subseteq 1..Len(calls)
    BY <1>1
  <2> QED
    BY <2>1, <2>2, FS_Subset
<1>3. IsFiniteSet(S)
  BY <1>2, FiniteImage
<1>4. /\ IsSeq(lines) /\ Range(lines) = S
      /\ \A i, k \in 1..Len(lines) : lines[i] = lines[k] => i = k
  <2> HIDE DEF S
  <2> QED
    BY <1>3, SetToSeqIs DEF S, LinesOf
<1>5. DOMAIN lines = 1..Len(lines)
  BY <1>4, SeqIs
<1>6. \A n \in ns : /\ IsLine(Completion(n, ok)) /\ Completion(n, ok).stage = "done" /\ Completion(n, ok).n = n
                    /\ Completion(n, ok).receipt => Receipted(calls, n)
  BY <1>1 DEF Completion, Line, IsLine, Receipted
<1>a. Range(lines) = {lines[k] : k \in 1..Len(lines)}
  BY <1>5 DEF Range
<1>7. \A k \in 1..Len(lines) : \E n \in ns : lines[k] = Completion(n, ok)
  <2>1. \A k \in 1..Len(lines) : lines[k] \in S
    BY <1>4, <1>a
  <2> QED
    BY <2>1
<1>8. \A n \in ns : \E k \in 1..Len(lines) : lines[k] = Completion(n, ok)
  <2>1. \A n \in ns : Completion(n, ok) \in Range(lines)
    BY <1>4
  <2> QED
    BY <2>1, <1>a
<1> HIDE DEF S
<1>9. \A k \in 1..Len(lines) : /\ IsLine(lines[k]) /\ lines[k].stage = "done" /\ lines[k].n \in ns
                               /\ lines[k].receipt => Receipted(calls, lines[k].n)
  BY <1>6, <1>7
<1>10. ASSUME NEW h \in 1..Len(lines), NEW k \in 1..Len(lines), lines[h].n = lines[k].n PROVE h = k
  <2>1. PICK a \in ns : lines[h] = Completion(a, ok)
    BY <1>7
  <2>2. PICK b \in ns : lines[k] = Completion(b, ok)
    BY <1>7
  <2>3. a = b
    BY <1>6, <1>10, <2>1, <2>2
  <2> QED
    BY <1>4, <2>1, <2>2, <2>3
<1>11. \A n \in ns : \E k \in 1..Len(lines) : lines[k].n = n
  BY <1>6, <1>8
<1> QED
  BY <1>4, <1>9, <1>10, <1>11

LEMMA FinishTells ==
  ASSUME ToldOf(Journal, calls), CallsOK(calls), NEW ns, ns \subseteq InFlight, NEW ok, Finish(ns, ok)
  PROVE  /\ ToldOf(Journal', calls') /\ KeptOf(Journal) \subseteq KeptOf(Journal')
         /\ CallsOK(calls')
<1> DEFINE lines == LinesOf(ns, ok)
           ds == [n \in DOMAIN calls |-> IF n \in ns THEN [calls[n] EXCEPT !.at = "done"] ELSE calls[n]]
<1>1. RecordAll(Journal, lines) /\ calls' = ds
  BY DEF Finish, Record, LinesOf
<1> HIDE DEF ds, lines
<1>2. /\ CallsOK(ds)
      /\ \A n : Done(ds, n) <=> Done(calls, n) \/ n \in ns
      /\ \A n : Receipted(calls, n) => Receipted(ds, n)
      /\ \A n : n \in ns => ~Done(calls, n)
  BY CallsEnd DEF ds
<1>3. /\ IsSeq(lines)
      /\ \A k \in 1..Len(lines) : /\ IsLine(lines[k]) /\ lines[k].stage = "done" /\ lines[k].n \in ns
                                  /\ lines[k].receipt => Receipted(calls, lines[k].n)
      /\ \A h, k \in 1..Len(lines) : lines[h].n = lines[k].n => h = k
      /\ \A n \in ns : \E k \in 1..Len(lines) : lines[k].n = n
  <2>1. lines = LinesOf(ns, ok)
    BY DEF lines
  <2> QED
    BY <2>1, CompletionsAre
<1>4. \A k \in 1..Len(lines) : /\ IsLine(lines[k]) /\ lines[k].stage = "done" /\ ~Done(calls, lines[k].n)
                               /\ lines[k].receipt => Receipted(ds, lines[k].n)
  BY <1>2, <1>3
<1>5. \A n : Done(ds, n) <=> Done(calls, n) \/ \E k \in 1..Len(lines) : lines[k].n = n
  BY <1>2, <1>3
<1>6. ToldOf(Journal', ds) /\ KeptOf(Journal) \subseteq KeptOf(Journal')
  BY <1>1, <1>2, <1>3, <1>4, <1>5, RecordsTell
<1> QED
  BY <1>1, <1>2, <1>6

(* What a step does to the calls and to the log.                           *)
LogStep ==
  /\ ToldOf(Journal', calls') /\ CallsOK(calls')
  /\ KeptOf(Journal) \subseteq KeptOf(Journal')


(* A call is added, and answered at once or not.                           *)
LEMMA NewCallTells ==
  ASSUME ToldOf(Journal, calls), CallsOK(calls), NEW q \in Asks, NEW at, NEW files, at # "sent" \/ q.op \in BrowserOps,
         calls' = Append(calls, Call(q, at, files)),
         \/ at = "done" /\ \E ok, fs : Reply(Next1, q, ok, fs)
         \/ at # "done" /\ UNCHANGED <<journal, dropped>>
  PROVE  LogStep
<1>1. /\ CallsOK(calls')
      /\ \A n : Done(calls', n) <=> Done(calls, n) \/ (n = Next1 /\ at = "done" /\ Auditable(q.op))
      /\ \A n : Receipted(calls, n) => Receipted(calls', n)
      /\ ~Done(calls, Next1)
  <2>1. Added(calls', calls, q, at, files)
    BY DEF Added
  <2> QED
    BY <2>1, CallAdded DEF Next1
<1>2. CASE at = "done" /\ \E ok, fs : Reply(Next1, q, ok, fs)
  <2>1. PICK ok, fs : Reply(Next1, q, ok, fs)
    BY <1>2
  <2>2. \A n : Done(calls', n) <=> Done(calls, n) \/ (n = Next1 /\ Auditable(q.op))
    BY <1>1, <1>2
  <2>3. ToldOf(Journal', calls') /\ KeptOf(Journal) \subseteq KeptOf(Journal')
    BY <1>1, <2>1, <2>2, ReplyTells
  <2> QED
    BY <1>1, <2>3 DEF LogStep
<1>3. CASE at # "done" /\ UNCHANGED <<journal, dropped>>
  <2>1. Journal' = Journal
    BY <1>3 DEF Journal
  <2>2. \A n : Done(calls', n) <=> Done(calls, n)
    BY <1>1, <1>3
  <2>3. ToldOf(Journal, calls')
    BY <1>1, <2>2, SilenceTells
  <2> QED
    BY <1>1, <2>1, <2>3 DEF LogStep
<1> QED
  BY <1>2, <1>3

LEMMA RefuseTells ==
  ASSUME ToldOf(Journal, calls), CallsOK(calls), NEW q \in Asks, Refuse(q) PROVE LogStep
<1> DEFINE code == IF Admission(q) # "none" THEN Admission(q) ELSE IF q.op \in BrowserOps THEN Forwarding(q) ELSE "none"
           at == IF code \in Unlogged THEN "turned away" ELSE "done"
           files == UploadAuditOf(q)
<1>1. /\ calls' = Append(calls, Call(q, at, files))
      /\ IF code \in Unlogged THEN UNCHANGED <<journal, dropped>> ELSE Reply(Next1, q, FALSE, files)
  BY DEF Refuse
<1> HIDE DEF code, files
<1>2. /\ at # "sent"
      /\ \/ at = "done" /\ \E ok, fs : Reply(Next1, q, ok, fs)
         \/ at # "done" /\ UNCHANGED <<journal, dropped>>
  BY <1>1
<1> HIDE DEF at
<1> QED
  BY <1>1, <1>2, NewCallTells

LEMMA AnswerHereTells ==
  ASSUME ToldOf(Journal, calls), CallsOK(calls), NEW q \in Asks, AnswerHere(q) PROVE LogStep
<1> DEFINE at == "done"
           files == <<>>
<1>1. /\ calls' = Append(calls, Call(q, at, files))
      /\ \E ok, fs : Reply(Next1, q, ok, fs)
  BY DEF AnswerHere
<1>2. at # "sent" /\ at = "done"
  OBVIOUS
<1> HIDE DEF at, files
<1> QED
  BY <1>1, <1>2, NewCallTells

LEMMA ResumeTells ==
  ASSUME ToldOf(Journal, calls), CallsOK(calls), NEW q \in Asks, Resume(q) PROVE LogStep
<1> DEFINE at == "done"
           files == <<>>
<1>1. q.op = "resume" /\ calls' = Append(calls, Call(q, at, files)) /\ Record(<<Line(Next1, "done", TRUE, <<>>, FALSE)>>)
  BY DEF Resume
<1>2. Reply(Next1, q, TRUE, <<>>)
  <2>1. Auditable(q.op)
    BY <1>1 DEF Auditable
  <2> QED
    BY <1>1, <2>1 DEF Reply
<1>3. \E ok, fs : Reply(Next1, q, ok, fs)
  BY <1>2
<1>4. at # "sent" /\ at = "done"
  OBVIOUS
<1> HIDE DEF at, files
<1> QED
  BY <1>1, <1>3, <1>4, NewCallTells

(* Of the steps that ask for something and write no line.                  *)
LEMMA QuietCallTells ==
  ASSUME ToldOf(Journal, calls), CallsOK(calls), NEW q \in Asks, RelayToken(q) \/ Forward(q) \/ UploadStarts(q)
  PROVE  LogStep
<1>1. CASE RelayToken(q)
  <2> DEFINE at == "relaying"
             files == <<>>
  <2>1. calls' = Append(calls, Call(q, at, files)) /\ at # "sent" /\ at # "done" /\ UNCHANGED <<journal, dropped>>
    BY <1>1 DEF RelayToken, history
  <2> HIDE DEF at, files
  <2> QED
    BY <2>1, NewCallTells
<1>2. CASE Forward(q)
  <2> DEFINE at == "sent"
             files == <<>>
  <2>1. calls' = Append(calls, Call(q, at, files)) /\ q.op \in BrowserOps /\ at # "done" /\ UNCHANGED <<journal, dropped>>
    BY <1>2 DEF Forward, Passes, history
  <2> HIDE DEF at, files
  <2> QED
    BY <2>1, NewCallTells
<1>3. CASE UploadStarts(q)
  <2> DEFINE at == "preparing"
             files == UploadAuditOf(q)
  <2>1. calls' = Append(calls, Call(q, at, files)) /\ at # "sent" /\ at # "done" /\ UNCHANGED <<journal, dropped>>
    BY <1>3 DEF UploadStarts, history
  <2> HIDE DEF at, files
  <2> QED
    BY <2>1, NewCallTells
<1> QED
  BY <1>1, <1>2, <1>3

(* One call that is open ends.                                             *)
LEMMA OneEnds ==
  ASSUME CallsOK(calls), NEW n \in DOMAIN calls, calls[n].at # "done", calls' = [calls EXCEPT ![n].at = "done"]
  PROVE  Changed(calls', {n}, "done")
<1>1. calls[n] = [q |-> calls[n].q, at |-> calls[n].at, files |-> calls[n].files]
  BY DEF CallsOK, IsCall
<1>2. [calls[n] EXCEPT !.at = "done"] = [q |-> calls[n].q, at |-> "done", files |-> calls[n].files]
  BY <1>1
<1>3. calls' = [calls EXCEPT ![n] = [q |-> calls[n].q, at |-> "done", files |-> calls[n].files]]
  BY <1>2
<1>4. calls'[n] = [q |-> calls[n].q, at |-> "done", files |-> calls[n].files]
  BY <1>3
<1>5. /\ \A k \in DOMAIN calls : k # n => calls'[k] = calls[k]
      /\ calls' = [k \in DOMAIN calls |-> calls'[k]]
  BY <1>3
<1>6. /\ calls'[n] = [q |-> calls'[n].q, at |-> calls'[n].at, files |-> calls'[n].files]
      /\ calls'[n].q = calls[n].q /\ calls'[n].at = "done"
  BY <1>4
<1> QED
  BY <1>5, <1>6 DEF Changed

LEMMA RelayedTells ==
  ASSUME ToldOf(Journal, calls), CallsOK(calls), NEW n \in DOMAIN calls, Relayed(n) PROVE LogStep
<1>1. /\ calls[n].at = "relaying" /\ calls' = [calls EXCEPT ![n].at = "done"]
      /\ \E ok : Reply(n, calls[n].q, ok, <<>>)
  BY DEF Relayed
<1>3. Changed(calls', {n}, "done")
  BY <1>1, OneEnds
<1>4. /\ CallsOK(calls')
      /\ \A k : Done(calls', k) <=> Done(calls, k) \/ (k \in {n} /\ "done" = "done" /\ Auditable(calls[k].q.op))
      /\ \A k : Receipted(calls, k) => Receipted(calls', k)
      /\ \A k : k \in {n} => ~Done(calls, k)
  BY <1>3, CallsChanged
<1> DEFINE q == calls[n].q
<1>5. /\ \A k : Done(calls', k) <=> Done(calls, k) \/ (k = n /\ Auditable(q.op))
      /\ ~Done(calls, n)
  BY <1>4
<1>6. PICK ok : Reply(n, q, ok, <<>>)
  BY <1>1
<1> HIDE DEF q
<1>7. ToldOf(Journal', calls') /\ KeptOf(Journal) \subseteq KeptOf(Journal')
  BY <1>4, <1>5, <1>6, ReplyTells
<1> QED
  BY <1>4, <1>7 DEF LogStep

(* The answers, the timeouts and the end of a route.                       *)
LEMMA FinishedTells ==
  ASSUME ToldOf(Journal, calls), CallsOK(calls), (\E n \in DOMAIN calls : HandleRes(n) \/ TimesOut(n)) \/ RouteEnds
  PROVE  LogStep
<1>1. PICK ns, ok : ns \subseteq InFlight /\ Finish(ns, ok)
  <2>1. ASSUME NEW n \in DOMAIN calls, HandleRes(n) PROVE \E ns, ok : ns \subseteq InFlight /\ Finish(ns, ok)
    <3>1. PICK ok : Finish({n}, ok)
      BY <2>1 DEF HandleRes
    <3>2. {n} \subseteq InFlight
      BY <2>1 DEF HandleRes
    <3> QED
      BY <3>1, <3>2
  <2>2. ASSUME NEW n \in DOMAIN calls, TimesOut(n) PROVE \E ns, ok : ns \subseteq InFlight /\ Finish(ns, ok)
    <3>1. {n} \subseteq InFlight /\ Finish({n}, FALSE)
      BY <2>2 DEF TimesOut
    <3> QED
      BY <3>1
  <2>3. ASSUME RouteEnds PROVE \E ns, ok : ns \subseteq InFlight /\ Finish(ns, ok)
    <3>1. Finish(InFlight, FALSE)
      BY <2>3 DEF RouteEnds
    <3> QED
      BY <3>1
  <2> QED
    BY <2>1, <2>2, <2>3
<1> QED
  BY <1>1, FinishTells DEF LogStep

(* A line before others.                                                   *)
LEMMA PrependIs ==
  ASSUME NEW s, IsSeq(s), NEW e
  PROVE  /\ IsSeq(<<e>> \o s) /\ Len(<<e>> \o s) = Len(s) + 1
         /\ (<<e>> \o s)[1] = e
         /\ \A i \in 1..Len(s) : (<<e>> \o s)[i + 1] = s[i]
<1> DEFINE T == Range(s) \cup {e}
           one == <<e>>
           all == one \o s
<1>1. Len(s) \in Nat
  BY SeqIs
<1>2. s \in Seq(T)
  BY SeqMonotonic DEF IsSeq
<1>3. one \in Seq(T) /\ Len(one) = 1 /\ one[1] = e
  OBVIOUS
<1> HIDE DEF T, one
<1>4. /\ all \in Seq(T) /\ Len(all) = 1 + Len(s)
      /\ \A i \in 1..(1 + Len(s)) : all[i] = IF i <= 1 THEN one[i] ELSE s[i - 1]
  <2>1. /\ all \in Seq(T) /\ Len(all) = Len(one) + Len(s)
        /\ \A i \in 1..(Len(one) + Len(s)) : all[i] = IF i <= Len(one) THEN one[i] ELSE s[i - Len(one)]
    BY <1>2, <1>3, ConcatProperties
  <2> QED
    BY <1>3, <2>1
<1> HIDE DEF all
<1>5. all[1] = e /\ \A i \in 1..Len(s) : all[i + 1] = s[i]
  BY <1>1, <1>3, <1>4
<1>6. all = [i \in 1..(1 + Len(s)) |-> all[i]]
  <2>1. DOMAIN all = 1..Len(all) /\ all \in [1..Len(all) -> T]
    BY <1>4, LenProperties
  <2> QED
    BY <1>4, <2>1
<1>7. IsSeq(all)
  BY <1>1, <1>6, MakesSeq
<1>8. IsSeq(all) /\ Len(all) = Len(s) + 1 /\ all[1] = e /\ \A i \in 1..Len(s) : all[i + 1] = s[i]
  BY <1>1, <1>4, <1>5, <1>7
<1> QED
  BY <1>8 DEF all, one

LEMMA PanicTells ==
  ASSUME ToldOf(Journal, calls), CallsOK(calls), NEW q \in Asks, Panic(q) PROVE LogStep
<1> DEFINE done == "done"
           empty == <<>>
           mid == [n \in DOMAIN calls |-> IF n \in InFlight THEN [calls[n] EXCEPT !.at = "done"] ELSE calls[n]]
           own == Line(Next1, "done", TRUE, <<>>, FALSE)
           rest == LinesOf(InFlight, FALSE)
           lines == <<own>> \o rest
<1>1. q.op = "panic" /\ Auditable("panic")
  BY DEF Panic, Auditable
<1>2. CASE ~q.on
  <2>1. calls' = Append(calls, Call(q, done, empty)) /\ \E ok, fs : Reply(Next1, q, ok, fs)
    BY <1>2 DEF Panic
  <2>2. done = "done" /\ done # "sent"
    OBVIOUS
  <2> HIDE DEF done, empty
  <2> QED
    BY <2>1, <2>2, NewCallTells
<1>3. CASE q.on
  <2>1. calls' = Append(mid, Call(q, "done", <<>>)) /\ RecordAll(Journal, lines)
    BY <1>3 DEF Panic, Record, LinesOf
  <2>2. IsLine(own) /\ own.n = Next1 /\ own.stage = "done" /\ ~own.receipt
    BY DEF Line, IsLine
  <2> HIDE DEF mid, own, lines, rest
  <2>3. /\ CallsOK(mid) /\ Len(mid) = Len(calls)
        /\ \A n : Done(mid, n) <=> Done(calls, n) \/ n \in InFlight
        /\ \A n : Receipted(calls, n) => Receipted(mid, n)
        /\ \A n : n \in InFlight => ~Done(calls, n)
    BY CallsEnd DEF mid
  <2>4. Added(calls', mid, q, "done", <<>>)
    BY <2>1 DEF Added
  <2>5. /\ CallsOK(calls')
        /\ \A n : Done(calls', n) <=> Done(mid, n) \/ (n = Len(mid) + 1 /\ "done" = "done" /\ Auditable(q.op))
        /\ \A n : Receipted(mid, n) => Receipted(calls', n)
    BY <2>3, <2>4, CallAdded
  <2>6. /\ \A n : Done(calls', n) <=> Done(calls, n) \/ n \in InFlight \/ n = Next1
        /\ \A n : Receipted(calls, n) => Receipted(calls', n)
    BY <1>1, <2>3, <2>5 DEF Next1
  <2>7. /\ IsSeq(rest)
        /\ \A k \in 1..Len(rest) : /\ IsLine(rest[k]) /\ rest[k].stage = "done" /\ rest[k].n \in InFlight
                                   /\ rest[k].receipt => Receipted(calls, rest[k].n)
        /\ \A h, k \in 1..Len(rest) : rest[h].n = rest[k].n => h = k
        /\ \A n \in InFlight : \E k \in 1..Len(rest) : rest[k].n = n
    BY CompletionsAre DEF rest
  <2>8. /\ IsSeq(lines) /\ Len(lines) = Len(rest) + 1 /\ lines[1] = own
        /\ \A i \in 1..Len(rest) : lines[i + 1] = rest[i]
    BY <2>7, PrependIs DEF lines
  <2>9. Len(rest) \in Nat /\ Next1 \notin InFlight /\ Next1 \notin DOMAIN calls
    BY <2>7, SeqIs, CallsAre DEF InFlight
  <2>10. \A k \in 1..Len(lines) : k = 1 \/ (k # 1 /\ k - 1 \in 1..Len(rest) /\ lines[k] = rest[k - 1])
    <3>1. ASSUME NEW k \in 1..Len(lines), k # 1 PROVE k - 1 \in 1..Len(rest) /\ lines[k] = rest[k - 1]
      <4>1. k - 1 \in 1..Len(rest) /\ (k - 1) + 1 = k
        BY <2>8, <2>9, <3>1
      <4> QED
        BY <2>8, <4>1
    <3> QED
      BY <3>1
  <2>11. ~Done(calls, Next1)
    BY <2>9 DEF Done
  <2>12. ASSUME NEW k \in 1..Len(lines)
         PROVE  /\ IsLine(lines[k]) /\ lines[k].stage = "done" /\ ~Done(calls, lines[k].n)
                /\ lines[k].receipt => Receipted(calls', lines[k].n)
    <3>1. CASE k = 1
      BY <2>2, <2>8, <2>11, <3>1
    <3>2. CASE k # 1
      BY <2>3, <2>6, <2>7, <2>10, <3>2
    <3> QED
      BY <3>1, <3>2
  <2>13. ASSUME NEW h \in 1..Len(lines), NEW k \in 1..Len(lines), lines[h].n = lines[k].n PROVE h = k
    <3>1. CASE h = 1 /\ k = 1
      BY <3>1
    <3>2. CASE h = 1 /\ k # 1
      <4>1. lines[h].n = Next1 /\ lines[k].n \in InFlight
        BY <2>2, <2>7, <2>8, <2>10, <3>2
      <4> QED
        BY <2>9, <2>13, <4>1
    <3>3. CASE h # 1 /\ k = 1
      <4>1. lines[k].n = Next1 /\ lines[h].n \in InFlight
        BY <2>2, <2>7, <2>8, <2>10, <3>3
      <4> QED
        BY <2>9, <2>13, <4>1
    <3>4. CASE h # 1 /\ k # 1
      <4>1. h - 1 \in 1..Len(rest) /\ k - 1 \in 1..Len(rest) /\ rest[h - 1].n = rest[k - 1].n
        BY <2>10, <2>13, <3>4
      <4>2. h - 1 = k - 1
        BY <2>7, <4>1
      <4> QED
        BY <4>2
    <3> QED
      BY <3>1, <3>2, <3>3, <3>4
  <2>14. ASSUME NEW n PROVE (\E k \in 1..Len(lines) : lines[k].n = n) <=> n \in InFlight \/ n = Next1
    <3>1. ASSUME NEW k \in 1..Len(lines) PROVE lines[k].n \in InFlight \/ lines[k].n = Next1
      BY <2>2, <2>7, <2>8, <2>10
    <3>2. ASSUME n \in InFlight PROVE \E k \in 1..Len(lines) : lines[k].n = n
      <4>1. PICK k \in 1..Len(rest) : rest[k].n = n
        BY <2>7, <3>2
      <4>2. k + 1 \in 1..Len(lines) /\ lines[k + 1].n = n
        BY <2>8, <2>9, <4>1
      <4> QED
        BY <4>2
    <3>3. 1 \in 1..Len(lines) /\ lines[1].n = Next1
      BY <2>2, <2>8, <2>9
    <3> QED
      BY <3>1, <3>2, <3>3
  <2>15. \A n : Done(calls', n) <=> Done(calls, n) \/ \E k \in 1..Len(lines) : lines[k].n = n
    BY <2>6, <2>14
  <2>16. ToldOf(Journal', calls') /\ KeptOf(Journal) \subseteq KeptOf(Journal')
    BY <2>1, <2>6, <2>8, <2>12, <2>13, <2>15, RecordsTell
  <2> QED
    BY <2>5, <2>16 DEF LogStep
<1> QED
  BY <1>2, <1>3

(* The disk, and what the folder has held.                                 *)
DiskOK ==
  /\ disk = [at |-> disk.at, size |-> disk.size, log |-> disk.log]
  /\ disk.at \in [Names -> Files \cup {Nowhere}] /\ disk.size \in [Files -> Nat]
  /\ \A name \in Names : disk.at[name] \in Inside => <<name, disk.at[name]>> \in seen

(* The upload the broker is preparing: its request is the last one, what   *)
(* has been read was in the folder and fits, and what is read next was in  *)
(* the folder when it was checked.                                         *)
UpIs ==
  /\ up = [pc |-> up.pc, todo |-> up.todo, got |-> up.got, total |-> up.total, file |-> up.file]
  /\ up.pc \in {"probe", "resolve", "open", "recheck", "read"}
  /\ up.todo \in Seq(Names) /\ (up.pc \in {"open", "recheck", "read"} => up.todo # <<>>)
AsksIt == Len(calls) > 0 /\ calls[Len(calls)].at = "preparing" /\ calls[Len(calls)].q.op = "uploadFile"
GotFits == IsSeq(up.got) /\ up.total \in Nat /\ up.total <= MaxBytes /\ Bytes(up.got) = up.total
GotFromFolder ==
  /\ \A i \in DOMAIN up.got : <<up.got[i].name, up.got[i].file>> \in seen
  /\ up.pc = "read" => up.file \in Files /\ <<Head(up.todo), up.file>> \in seen
UpOK == UpIs /\ AsksIt /\ GotFits /\ GotFromFolder

GatesInv ==
  /\ ToldOf(Journal, calls) /\ CallsOK(calls)
  /\ DiskOK /\ (Preparing => UpOK)
  /\ UploadsKeepTheirRails

LEMMA KeptIs == Kept = KeptOf(Journal)
BY DEF Kept, KeptOf, Journal

(* What was recorded stays recorded.                                       *)
LEMMA RailsStay ==
  ASSUME UploadsKeepTheirRails, KeptOf(Journal) \subseteq KeptOf(Journal'), seen \subseteq seen',
         NEW u \in left
  PROVE  (Recorded(u) /\ FromTheFolder(u))'
<1>1. Kept = KeptOf(Journal) /\ Kept' = KeptOf(Journal')
  BY KeptIs DEF Kept, KeptOf, Journal
<1>2. Recorded(u) /\ FromTheFolder(u)
  BY DEF UploadsKeepTheirRails
<1>3. Recorded(u)'
  BY <1>1, <1>2 DEF Recorded, Sent
<1>4. FromTheFolder(u)'
  BY <1>2 DEF FromTheFolder
<1> QED
  BY <1>3, <1>4

LEMMA KeepsRails ==
  ASSUME UploadsKeepTheirRails, KeptOf(Journal) \subseteq KeptOf(Journal'), seen \subseteq seen', left' = left
  PROVE  UploadsKeepTheirRails'
<1>1. \A u \in left : (Recorded(u) /\ FromTheFolder(u))'
  BY RailsStay
<1> QED
  BY <1>1 DEF UploadsKeepTheirRails

(* A step that leaves the disk and the uploads that left alone.            *)
LEMMA GateKeeps ==
  ASSUME GatesInv, LogStep, UNCHANGED <<disk, seen, left>>, (Preparing => UpOK)' PROVE GatesInv'
<1>1. DiskOK'
  BY DEF GatesInv, DiskOK
<1>2. UploadsKeepTheirRails'
  BY KeepsRails DEF GatesInv, LogStep
<1> QED
  BY <1>1, <1>2 DEF GatesInv, LogStep

LEMMA KeepsFree ==
  ASSUME GatesInv, LogStep, UNCHANGED <<disk, seen, left>>, up' = NoUpload PROVE GatesInv'
<1>1. (Preparing => UpOK)'
  BY DEF Preparing, NoUpload
<1> QED
  BY <1>1, GateKeeps

LEMMA LogUntouched ==
  ASSUME GatesInv, UNCHANGED <<calls, journal, dropped>> PROVE LogStep
<1>1. Journal' = Journal
  BY DEF Journal
<1> QED
  BY <1>1 DEF GatesInv, LogStep

-----------------------------------------------------------------------------
(* The steps of the requests.                                              *)

LEMMA RequestStep ==
  ASSUME GatesInv, NEW q \in Asks,
         Refuse(q) \/ AnswerHere(q) \/ RelayToken(q) \/ Panic(q) \/ Resume(q) \/ Forward(q)
  PROVE  GatesInv'
<1>1. ToldOf(Journal, calls) /\ CallsOK(calls)
  BY DEF GatesInv
<1>2. LogStep
  BY <1>1, RefuseTells, AnswerHereTells, QuietCallTells, PanicTells, ResumeTells
<1>3. UNCHANGED <<disk, seen, left>> /\ up' = NoUpload
  BY DEF Refuse, AnswerHere, RelayToken, Panic, Resume, Forward, MayAsk, Free, history
<1> QED
  BY <1>2, <1>3, KeepsFree

LEMMA AnswerStep ==
  ASSUME GatesInv, (\E n \in DOMAIN calls : Relayed(n) \/ HandleRes(n) \/ TimesOut(n)) \/ RouteEnds
  PROVE  GatesInv'
<1>1. ToldOf(Journal, calls) /\ CallsOK(calls)
  BY DEF GatesInv
<1>2. LogStep
  BY <1>1, RelayedTells, FinishedTells
<1>3. UNCHANGED <<disk, seen, left>> /\ up' = NoUpload
  BY DEF Relayed, HandleRes, TimesOut, RouteEnds, Free
<1> QED
  BY <1>2, <1>3, KeepsFree

(* The broker starts again: what was open is lost, the log stays as it is. *)
LEMMA RestartStep ==
  ASSUME GatesInv, BrokerRestarts PROVE GatesInv'
<1> DEFINE ns == {n \in DOMAIN calls : calls[n].at \in {"sent", "relaying", "preparing"}}
           j == [Journal EXCEPT !.counted = Len(Journal.lines)]
<1>1. /\ calls' = [n \in DOMAIN calls |-> IF n \in ns THEN [calls[n] EXCEPT !.at = "lost"] ELSE calls[n]]
      /\ Keep(j) /\ UNCHANGED <<disk, seen, left>> /\ up' = NoUpload
  BY DEF BrokerRestarts
<1>2. ToldOf(Journal, calls) /\ CallsOK(calls)
  BY DEF GatesInv
<1>3. /\ j = [lines |-> Journal.lines, older |-> Journal.older, counted |-> Len(Journal.lines), half |-> Journal.half,
              lost |-> Journal.lost]
  BY DEF Journal
<1>4. /\ j.lines = Journal.lines /\ j.older = Journal.older /\ j.lost = Journal.lost
      /\ j = [lines |-> j.lines, older |-> j.older, counted |-> j.counted, half |-> j.half, lost |-> j.lost]
  BY <1>3
<1>5. \A n \in ns : /\ n \in DOMAIN calls /\ calls[n].at # "done"
                    /\ calls[n] = [q |-> calls[n].q, at |-> calls[n].at, files |-> calls[n].files]
  BY <1>2 DEF CallsOK, IsCall
<1>6. Changed(calls', ns, "lost")
  <2>1. \A n \in ns : calls'[n] = [q |-> calls[n].q, at |-> "lost", files |-> calls[n].files]
    <3>1. ASSUME NEW n \in ns PROVE calls'[n] = [q |-> calls[n].q, at |-> "lost", files |-> calls[n].files]
      <4>1. calls'[n] = [calls[n] EXCEPT !.at = "lost"]
        BY <1>1
      <4> QED
        BY <1>5, <4>1
    <3> QED
      BY <3>1
  <2>2. \A n \in ns : /\ calls'[n] = [q |-> calls'[n].q, at |-> calls'[n].at, files |-> calls'[n].files]
                      /\ calls'[n].q = calls[n].q /\ calls'[n].at = "lost"
    <3>1. ASSUME NEW n \in ns
          PROVE  /\ calls'[n] = [q |-> calls'[n].q, at |-> calls'[n].at, files |-> calls'[n].files]
                 /\ calls'[n].q = calls[n].q /\ calls'[n].at = "lost"
      <4>1. calls'[n] = [q |-> calls[n].q, at |-> "lost", files |-> calls[n].files]
        BY <2>1
      <4> QED
        BY <4>1
    <3> QED
      BY <3>1
  <2>3. /\ calls' = [n \in DOMAIN calls |-> calls'[n]]
        /\ \A n \in DOMAIN calls : n \notin ns => calls'[n] = calls[n]
    BY <1>1
  <2> QED
    BY <1>5, <2>2, <2>3 DEF Changed
<1> HIDE DEF ns, j
<1>7. /\ CallsOK(calls')
      /\ \A n : Done(calls', n) <=> Done(calls, n) \/ (n \in ns /\ "lost" = "done" /\ Auditable(calls[n].q.op))
      /\ \A n : Receipted(calls, n) => Receipted(calls', n)
  BY <1>2, <1>6, CallsChanged
<1>8. Shaped(j) /\ KeptOf(j) = KeptOf(Journal) /\ \A n : Spots(j, n) = Spots(Journal, n)
  BY <1>2, <1>4 DEF Shaped, KeptOf, Spots, ToldOf
<1>9. Journal' = j
  BY <1>1, <1>8, KeepIs
<1>10. ToldOf(j, calls)
  BY <1>2, <1>8 DEF ToldOf
<1>11. ToldOf(j, calls')
  BY <1>7, <1>10, SilenceTells
<1>12. LogStep
  BY <1>7, <1>8, <1>9, <1>11 DEF LogStep
<1> QED
  BY <1>1, <1>12, KeepsFree

-----------------------------------------------------------------------------
(* The steps of the people, the disk and the other programs.               *)

LEMMA WorldStep ==
  ASSUME GatesInv, Registers \/ GoesStale \/ Pong \/ ArmLapses \/ LogBecomes \/ Replaced \/ Grows PROVE GatesInv'
<1>1. UNCHANGED <<calls, up, journal, dropped, left>>
  BY DEF Registers, GoesStale, Pong, ArmLapses, LogBecomes, Replaced, Grows, history
<1>2. seen \subseteq seen'
  BY DEF Registers, GoesStale, Pong, ArmLapses, LogBecomes, Replaced, Grows, history
<1>3. LogStep
  BY <1>1, LogUntouched
<1>4. DiskOK'
  <2>1. DiskOK
    BY DEF GatesInv
  <2>2. CASE Registers \/ GoesStale \/ Pong \/ ArmLapses
    <3>1. UNCHANGED <<disk, seen>>
      BY <2>2 DEF Registers, GoesStale, Pong, ArmLapses, history
    <3> QED
      BY <2>1, <3>1 DEF DiskOK
  <2>3. CASE LogBecomes
    <3>1. PICK log : disk' = [disk EXCEPT !.log = log]
      BY <2>3 DEF LogBecomes
    <3>2. disk' = [at |-> disk.at, size |-> disk.size, log |-> log] /\ seen' = seen
      BY <2>1, <2>3, <3>1 DEF DiskOK, LogBecomes, history
    <3>3. disk'.at = disk.at /\ disk'.size = disk.size
          /\ disk' = [at |-> disk'.at, size |-> disk'.size, log |-> disk'.log]
      BY <3>2
    <3> QED
      BY <2>1, <3>2, <3>3 DEF DiskOK
  <2>4. CASE Replaced
    <3>1. PICK name \in Names, f \in Files \cup {Nowhere} :
            /\ disk' = [disk EXCEPT !.at[name] = f]
            /\ seen' = IF f \in Inside THEN seen \cup {<<name, f>>} ELSE seen
      BY <2>4 DEF Replaced
    <3> DEFINE at == [disk.at EXCEPT ![name] = f]
    <3>2. disk' = [at |-> at, size |-> disk.size, log |-> disk.log]
      BY <2>1, <3>1 DEF DiskOK
    <3>3. /\ at \in [Names -> Files \cup {Nowhere}] /\ at[name] = f
          /\ \A other \in Names : other # name => at[other] = disk.at[other]
      BY <2>1 DEF DiskOK
    <3> HIDE DEF at
    <3>4. disk'.at = at /\ disk'.size = disk.size
          /\ disk' = [at |-> disk'.at, size |-> disk'.size, log |-> disk'.log]
      BY <3>2
    <3>5. \A other \in Names : at[other] \in Inside => <<other, at[other]>> \in seen'
      BY <2>1, <3>1, <3>3 DEF DiskOK
    <3> QED
      BY <2>1, <3>3, <3>4, <3>5 DEF DiskOK
  <2>5. CASE Grows
    <3>1. PICK f \in Files : disk' = [disk EXCEPT !.size[f] = @ + 1]
      BY <2>5 DEF Grows
    <3> DEFINE size == [disk.size EXCEPT ![f] = @ + 1]
    <3>2. disk' = [at |-> disk.at, size |-> size, log |-> disk.log] /\ seen' = seen
      BY <2>1, <2>5, <3>1 DEF DiskOK, Grows, history
    <3>3. size \in [Files -> Nat]
      BY <2>1 DEF DiskOK
    <3> HIDE DEF size
    <3>4. disk'.at = disk.at /\ disk'.size = size
          /\ disk' = [at |-> disk'.at, size |-> disk'.size, log |-> disk'.log]
      BY <3>2
    <3> QED
      BY <2>1, <3>2, <3>3, <3>4 DEF DiskOK
  <2> QED
    BY <2>2, <2>3, <2>4, <2>5
<1>5. (Preparing => UpOK)'
  <2>1. CASE Preparing
    <3>1. UpOK
      BY <2>1 DEF GatesInv
    <3>2. (UpIs /\ AsksIt /\ GotFits)'
      BY <1>1, <3>1 DEF UpOK, UpIs, AsksIt, GotFits
    <3>3. GotFromFolder'
      BY <1>1, <1>2, <3>1 DEF UpOK, GotFromFolder
    <3> QED
      BY <3>2, <3>3 DEF UpOK
  <2>2. CASE ~Preparing
    BY <1>1, <2>2 DEF Preparing
  <2> QED
    BY <2>1, <2>2
<1>6. UploadsKeepTheirRails'
  BY <1>1, <1>2, <1>3, KeepsRails DEF GatesInv, LogStep
<1> QED
  BY <1>3, <1>4, <1>5, <1>6 DEF GatesInv, LogStep

(* The upload's own steps.                                                 *)

LEMMA StartStep ==
  ASSUME GatesInv, NEW q \in Asks, UploadStarts(q) PROVE GatesInv'
<1>1. ToldOf(Journal, calls) /\ CallsOK(calls)
  BY DEF GatesInv
<1>2. LogStep
  BY <1>1, QuietCallTells
<1>3. /\ q.op = "uploadFile" /\ UNCHANGED <<disk, seen, left>>
      /\ calls' = Append(calls, Call(q, "preparing", UploadAuditOf(q)))
      /\ up' = [pc |-> "probe", todo |-> q.paths, got |-> <<>>, total |-> 0, file |-> Nowhere]
  BY DEF UploadStarts, history
<1>4. UpIs'
  BY <1>3, GatesAssumption DEF UpIs
<1>5. AsksIt'
  <2>1. Added(calls', calls, q, "preparing", UploadAuditOf(q))
    BY <1>3 DEF Added
  <2>2. Len(calls') = Len(calls) + 1 /\ calls'[Len(calls) + 1] = Call(q, "preparing", UploadAuditOf(q))
    BY <1>1, <2>1, CallAdded
  <2>3. Len(calls) \in Nat
    BY <1>1, CallsAre
  <2> QED
    BY <1>3, <2>2, <2>3 DEF AsksIt, Call
<1>6. GotFits'
  <2>1. up'.got = <<>> /\ up'.total = 0
    BY <1>3
  <2>2. IsSeq(<<>>)
    BY EmptySeq DEF IsSeq
  <2> QED
    BY <2>1, <2>2, BytesOfNone, GatesAssumption DEF GotFits
<1>7. GotFromFolder'
  <2>1. up'.got = <<>> /\ up'.pc = "probe"
    BY <1>3
  <2> QED
    BY <2>1 DEF GotFromFolder
<1> QED
  BY <1>2, <1>3, <1>4, <1>5, <1>6, <1>7, GateKeeps DEF UpOK

LEMMA TheUploads ==
  ASSUME GatesInv, Preparing
  PROVE  /\ Upcoming \in DOMAIN calls /\ calls[Upcoming].at = "preparing" /\ calls[Upcoming].q.op = "uploadFile"
         /\ ~Done(calls, Upcoming) /\ Auditable(calls[Upcoming].q.op) /\ UpOK
<1>1. UpOK /\ CallsOK(calls)
  BY DEF GatesInv
<1>2. Len(calls) \in Nat /\ DOMAIN calls = 1..Len(calls)
  BY <1>1, CallsAre
<1>3. Upcoming \in DOMAIN calls /\ calls[Upcoming].at = "preparing" /\ calls[Upcoming].q.op = "uploadFile"
  BY <1>1, <1>2 DEF UpOK, AsksIt, Upcoming
<1> QED
  BY <1>1, <1>3 DEF Done, Auditable, BrowserOps, ArmedOps

(* A refusal adds the line that answers the upload.                        *)
LEMMA RefusedStep ==
  ASSUME GatesInv, Preparing, NEW before, ToldOf(before, calls), KeptOf(Journal) \subseteq KeptOf(before),
         NEW files, UploadRefusedAs(before, files)
  PROVE  GatesInv'
<1> DEFINE m == Upcoming
<1>1. /\ m \in DOMAIN calls /\ calls[m].at = "preparing" /\ ~Done(calls, m) /\ Auditable(calls[m].q.op)
  BY TheUploads
<1>2. /\ RecordAll(before, <<Line(m, "done", FALSE, files, FALSE)>>)
      /\ calls' = [calls EXCEPT ![m].at = "done"]
      /\ up' = NoUpload /\ UNCHANGED <<disk, seen, left>>
  BY DEF UploadRefusedAs, Quiet
<1> HIDE DEF m
<1>3. CallsOK(calls)
  BY DEF GatesInv
<1>4. Changed(calls', {m}, "done")
  BY <1>1, <1>2, <1>3, OneEnds
<1>5. /\ CallsOK(calls')
      /\ \A n : Done(calls', n) <=> Done(calls, n) \/ (n \in {m} /\ "done" = "done" /\ Auditable(calls[n].q.op))
      /\ \A n : Receipted(calls, n) => Receipted(calls', n)
  BY <1>3, <1>4, CallsChanged
<1>6. \A n : Done(calls', n) <=> Done(calls, n) \/ n = m
  BY <1>1, <1>5
<1>7. ToldOf(Journal', calls') /\ KeptOf(before) \subseteq KeptOf(Journal')
  BY <1>1, <1>2, <1>5, <1>6, OneTells
<1>8. LogStep
  BY <1>5, <1>7 DEF LogStep
<1> QED
  BY <1>2, <1>8, KeepsFree

LEMMA RefusedHere ==
  ASSUME GatesInv, Preparing, UploadRefused PROVE GatesInv'
<1>1. ToldOf(Journal, calls)
  BY DEF GatesInv
<1> QED
  BY <1>1, RefusedStep DEF UploadRefused

(* A step of an upload that goes on.                                       *)
LEMMA GoesOn ==
  ASSUME GatesInv, Preparing, Quiet, UNCHANGED <<calls, journal, dropped>>, (UpIs /\ GotFits /\ GotFromFolder)'
  PROVE  GatesInv'
<1>1. AsksIt /\ LogStep
  BY LogUntouched DEF GatesInv, UpOK
<1>2. AsksIt' /\ UNCHANGED <<disk, seen, left>>
  BY <1>1 DEF AsksIt, Quiet
<1> QED
  BY <1>1, <1>2, GateKeeps DEF UpOK

(* The upload moves on with the same file names still to do.               *)
LEMMA MovesOn ==
  ASSUME GatesInv, Preparing, Quiet, UNCHANGED <<calls, journal, dropped>>, NEW pc, NEW f,
         up' = [up EXCEPT !.pc = pc, !.file = f],
         pc \in {"resolve", "open", "recheck", "read"},
         pc # "resolve" => up.todo # <<>>,
         pc = "read" => f \in Files /\ <<Head(up.todo), f>> \in seen
  PROVE  GatesInv'
<1>1. UpOK
  BY DEF GatesInv
<1>2. up' = [pc |-> pc, todo |-> up.todo, got |-> up.got, total |-> up.total, file |-> f]
  BY <1>1 DEF UpOK, UpIs
<1>3. up'.pc = pc /\ up'.todo = up.todo /\ up'.got = up.got /\ up'.total = up.total /\ up'.file = f
  BY <1>2
<1>4. UpIs'
  <2>1. up' = [pc |-> up'.pc, todo |-> up'.todo, got |-> up'.got, total |-> up'.total, file |-> up'.file]
    BY <1>2
  <2> QED
    BY <1>1, <1>3, <2>1 DEF UpOK, UpIs
<1>5. GotFits'
  BY <1>1, <1>3 DEF UpOK, GotFits
<1>6. GotFromFolder'
  <2>1. seen' = seen
    BY DEF Quiet
  <2> QED
    BY <1>1, <1>3, <2>1 DEF UpOK, GotFromFolder
<1> QED
  BY <1>4, <1>5, <1>6, GoesOn

LEMMA CheckStep ==
  ASSUME GatesInv, Preparing, CanWrite \/ ResolveFile \/ OpenFile \/ RecheckFile PROVE GatesInv'
<1>1. UpOK /\ DiskOK
  BY DEF GatesInv
<1>2. CASE CanWrite
  <2>1. CASE UploadRefused
    BY <2>1, RefusedHere
  <2>2. CASE up' = [up EXCEPT !.pc = "resolve"] /\ Quiet /\ UNCHANGED <<calls, journal, dropped>>
    <3>1. up' = [up EXCEPT !.pc = "resolve", !.file = up.file]
      BY <1>1, <2>2 DEF UpOK, UpIs
    <3> QED
      BY <2>2, <3>1, MovesOn
  <2> QED
    BY <1>2, <2>1, <2>2 DEF CanWrite
<1>3. CASE ResolveFile
  <2>1. CASE UploadRefused
    BY <2>1, RefusedHere
  <2>2. CASE NextPc("open", Wanted)
    <3>1. up.todo # <<>>
      BY <1>3 DEF ResolveFile
    <3> QED
      BY <2>2, <3>1, MovesOn DEF NextPc
  <2> QED
    BY <1>3, <2>1, <2>2 DEF ResolveFile
<1>4. CASE OpenFile
  <2>1. CASE UploadRefused
    BY <2>1, RefusedHere
  <2>2. ASSUME NEW f, NextPc("recheck", f) PROVE GatesInv'
    <3>1. up.todo # <<>>
      BY <1>1, <1>4 DEF OpenFile, UpOK, UpIs
    <3> QED
      BY <2>2, <3>1, MovesOn DEF NextPc
  <2> QED
    BY <1>4, <2>1, <2>2 DEF OpenFile
<1>5. CASE RecheckFile
  <2>1. CASE UploadRefused
    BY <2>1, RefusedHere
  <2>2. CASE Wanted = up.file /\ Wanted \in Inside /\ NextPc("read", up.file)
    <3>1. up.todo # <<>> /\ up.todo \in Seq(Names)
      BY <1>1, <1>5 DEF RecheckFile, UpOK, UpIs
    <3>2. Head(up.todo) \in Names
      BY <3>1
    <3>3. up.file \in Files /\ <<Head(up.todo), up.file>> \in seen
      BY <1>1, <2>2, <3>2, GatesAssumption DEF DiskOK, Wanted
    <3> QED
      BY <2>2, <3>1, <3>3, MovesOn DEF NextPc
  <2> QED
    BY <1>5, <2>1, <2>2 DEF RecheckFile
<1> QED
  BY <1>2, <1>3, <1>4, <1>5

LEMMA ReadStep ==
  ASSUME GatesInv, Preparing, ReadFile PROVE GatesInv'
<1> DEFINE size == disk.size[up.file]
           e == [name |-> Head(up.todo), bytes |-> size, file |-> up.file]
<1>1. UpOK /\ DiskOK
  BY DEF GatesInv
<1>2. CASE UploadRefused
  BY <1>2, RefusedHere
<1>3. CASE ~(up.total + size > MaxBytes) /\ ~UploadRefused
  <2>1. /\ up.pc = "read" /\ Quiet /\ UNCHANGED <<calls, journal, dropped>>
        /\ up' = [up EXCEPT !.pc = "resolve", !.todo = Tail(@), !.total = @ + size, !.got = Append(@, e)]
    BY <1>3 DEF ReadFile
  <2>2. /\ up.todo \in Seq(Names) /\ up.todo # <<>> /\ up.file \in Files /\ <<Head(up.todo), up.file>> \in seen
        /\ IsSeq(up.got) /\ up.total \in Nat /\ Bytes(up.got) = up.total
        /\ \A i \in DOMAIN up.got : <<up.got[i].name, up.got[i].file>> \in seen
    BY <1>1, <2>1 DEF UpOK, UpIs, GotFits, GotFromFolder
  <2>3. size \in Nat /\ Tail(up.todo) \in Seq(Names)
    BY <1>1, <2>2 DEF DiskOK
  <2>4. e.bytes = size /\ <<e.name, e.file>> \in seen
    BY <2>2
  <2>a. MaxBytes \in Nat
    BY GatesAssumption
  <2>5. up.total + size \in Nat /\ up.total + size <= MaxBytes
    BY <1>3, <2>2, <2>3, <2>a
  <2> HIDE DEF e, size
  <2>6. up' = [pc |-> "resolve", todo |-> Tail(up.todo), got |-> Append(up.got, e), total |-> up.total + size, file |-> up.file]
    BY <1>1, <2>1 DEF UpOK, UpIs
  <2>7. /\ up'.pc = "resolve" /\ up'.todo = Tail(up.todo) /\ up'.got = Append(up.got, e)
        /\ up'.total = up.total + size
        /\ up' = [pc |-> up'.pc, todo |-> up'.todo, got |-> up'.got, total |-> up'.total, file |-> up'.file]
    BY <2>6
  <2>8. UpIs'
    BY <2>3, <2>7 DEF UpIs
  <2>9. Bytes(Append(up.got, e)) = up.total + size
    BY <2>2, <2>4, BytesOfMore
  <2>10. /\ IsSeq(Append(up.got, e)) /\ Len(Append(up.got, e)) = Len(up.got) + 1
         /\ \A i \in 1..Len(up.got) : Append(up.got, e)[i] = up.got[i]
         /\ Append(up.got, e)[Len(up.got) + 1] = e
    BY <2>2, AppendIs
  <2>11. GotFits'
    BY <2>5, <2>7, <2>9, <2>10 DEF GotFits
  <2>12. GotFromFolder'
    <3>1. Len(up.got) \in Nat /\ DOMAIN up.got = 1..Len(up.got)
      BY <2>2, SeqIs
    <3>2. DOMAIN Append(up.got, e) = 1..(Len(up.got) + 1)
      BY <2>10, SeqIs
    <3>3. ASSUME NEW i \in DOMAIN Append(up.got, e)
          PROVE  <<Append(up.got, e)[i].name, Append(up.got, e)[i].file>> \in seen
      <4>1. CASE i = Len(up.got) + 1
        BY <2>4, <2>10, <4>1
      <4>2. CASE i # Len(up.got) + 1
        <5>1. i \in 1..Len(up.got)
          BY <3>1, <3>2, <4>2
        <5> QED
          BY <2>2, <2>10, <3>1, <5>1
      <4> QED
        BY <4>1, <4>2
    <3>4. seen' = seen
      BY <2>1 DEF Quiet
    <3> QED
      BY <2>7, <3>3, <3>4 DEF GotFromFolder
  <2> QED
    BY <2>1, <2>8, <2>11, <2>12, GoesOn
<1> QED
  BY <1>2, <1>3 DEF ReadFile

(* What leaves has its line, and what it carries was in the folder.        *)
LEMMA SendStep ==
  ASSUME GatesInv, Preparing, SendUpload PROVE GatesInv'
<1> DEFINE m == Upcoming
           q == calls[Upcoming].q
           files == AsSent(up.got)
<1>1. /\ m \in DOMAIN calls /\ calls[m].at = "preparing" /\ q.op = "uploadFile" /\ UpOK
      /\ ToldOf(Journal, calls) /\ CallsOK(calls)
  BY TheUploads DEF GatesInv
<1>2. CASE Destination(q) # "none"
  <2>1. PICK fs : UploadRefusedAs(Journal, fs)
    BY <1>2 DEF SendUpload
  <2> QED
    BY <1>1, <2>1, RefusedStep
<1>3. CASE Destination(q) = "none"
  <2>1. PICK o \in Appends(Journal, Line(m, "send", TRUE, files, FALSE)) :
          \/ /\ o.ok /\ Keep(o.j)
             /\ calls' = [calls EXCEPT ![m].at = "sent", ![m].files = files]
             /\ left' = left \cup {[n |-> m, files |-> up.got]}
             /\ up' = NoUpload /\ UNCHANGED <<disk, seen>>
          \/ UploadRefusedAs(o.j, files)
    BY <1>3 DEF SendUpload, MaySend
  <2> HIDE DEF files
  <2>2. /\ ToldOf(o.j, calls) /\ KeptOf(Journal) \subseteq KeptOf(o.j)
        /\ o.ok => SaysSent(o.j, m, files)
    <3>1. o \in Outcomes(m, files) /\ ToldOf(Journal, calls)
      BY <1>1, <2>1 DEF Outcomes
    <3> HIDE DEF m, q
    <3> QED
      BY <3>1, SendTells
  <2>3. CASE UploadRefusedAs(o.j, files)
    BY <2>2, <2>3, RefusedStep
  <2>4. CASE /\ o.ok /\ Keep(o.j)
             /\ calls' = [calls EXCEPT ![m].at = "sent", ![m].files = files]
             /\ left' = left \cup {[n |-> m, files |-> up.got]}
             /\ up' = NoUpload /\ UNCHANGED <<disk, seen>>
    <3>1. Journal' = o.j
      BY <2>2, <2>4, KeepIs DEF ToldOf
    <3>2. \E a, f : calls[m] = [q |-> q, at |-> a, files |-> f]
      BY <1>1 DEF CallsOK, IsCall
    <3>3. [calls[m] EXCEPT !.at = "sent", !.files = files] = [q |-> q, at |-> "sent", files |-> files]
      <4>1. PICK a, f : calls[m] = [q |-> q, at |-> a, files |-> f]
        BY <3>2
      <4> DEFINE c == calls[m]
      <4>2. c = [q |-> q, at |-> a, files |-> f]
        BY <4>1
      <4> HIDE DEF q, c
      <4> DEFINE d == [c EXCEPT !.at = "sent"]
      <4>3. d = [q |-> q, at |-> "sent", files |-> f]
        BY <4>2
      <4> HIDE DEF d
      <4>4. [d EXCEPT !.files = files] = [q |-> q, at |-> "sent", files |-> files]
        BY <4>3
      <4> QED
        BY <4>4 DEF c, d
    <3>4. calls' = [calls EXCEPT ![m] = [q |-> q, at |-> "sent", files |-> files]]
      BY <1>1, <2>4, <3>3
    <3>5. calls'[m] = [q |-> calls[m].q, at |-> "sent", files |-> files]
      BY <1>1, <3>4
    <3>6. /\ \A k \in DOMAIN calls : k # m => calls'[k] = calls[k]
          /\ calls' = [k \in DOMAIN calls |-> calls'[k]]
      BY <3>4
    <3>7. /\ calls'[m] = [q |-> calls'[m].q, at |-> calls'[m].at, files |-> calls'[m].files]
          /\ calls'[m].q = calls[m].q /\ calls'[m].at = "sent"
      BY <3>5
    <3>8. calls[m].at # "done" /\ calls[m].q.op \in BrowserOps
      BY <1>1 DEF BrowserOps, ArmedOps
    <3>9. Changed(calls', {m}, "sent")
      BY <1>1, <3>6, <3>7, <3>8 DEF Changed
    <3>10. /\ CallsOK(calls')
           /\ \A n : Done(calls', n) <=> Done(calls, n) \/ (n \in {m} /\ "sent" = "done" /\ Auditable(calls[n].q.op))
           /\ \A n : Receipted(calls, n) => Receipted(calls', n)
      BY <1>1, <3>9, CallsChanged
    <3>11. \A n : Done(calls', n) <=> Done(calls, n)
      BY <3>10
    <3>12. ToldOf(o.j, calls')
      BY <2>2, <3>10, <3>11, SilenceTells
    <3>13. LogStep
      BY <2>2, <3>1, <3>10, <3>12 DEF LogStep
    <3>a. PICK new : new = [n |-> m, files |-> up.got]
      OBVIOUS
    <3>14. new.n = m /\ new.files = up.got /\ left' = left \cup {new}
      BY <2>4, <3>a
    <3>15. Recorded(new)'
      <4>1. Kept' = KeptOf(Journal')
        BY DEF Kept, KeptOf, Journal
      <4>2. PICK l \in KeptOf(o.j) : l.n = m /\ l.stage = "send" /\ l.files = Loggable(files)
        BY <2>2, <2>4 DEF SaysSent
      <4>3. l \in Sent(new)'
        BY <3>1, <3>14, <4>1, <4>2 DEF Sent
      <4>4. l.files = Loggable(AsSent(new.files))
        BY <3>14, <4>2 DEF files
      <4> QED
        BY <4>3, <4>4 DEF Recorded
    <3>16. FromTheFolder(new)'
      BY <1>1, <2>4, <3>14 DEF UpOK, GotFits, GotFromFolder, FromTheFolder
    <3>17. \A u \in left : (Recorded(u) /\ FromTheFolder(u))'
      BY <2>4, <3>13, RailsStay DEF GatesInv, LogStep
    <3>18. UploadsKeepTheirRails'
      BY <3>14, <3>15, <3>16, <3>17 DEF UploadsKeepTheirRails
    <3>19. DiskOK'
      BY <2>4 DEF GatesInv, DiskOK
    <3>20. (Preparing => UpOK)'
      BY <2>4 DEF Preparing, NoUpload
    <3> QED
      BY <3>13, <3>18, <3>19, <3>20 DEF GatesInv, LogStep
  <2> QED
    BY <2>1, <2>3, <2>4
<1> QED
  BY <1>2, <1>3

-----------------------------------------------------------------------------
LEMMA GatesInitially == GatesInit => GatesInv
<1> SUFFICES ASSUME GatesInit PROVE GatesInv
  OBVIOUS
<1>1. calls = <<>> /\ up = NoUpload /\ left = {} /\ dropped = {}
      /\ journal = [lines |-> <<>>, older |-> <<>>, counted |-> 0, half |-> FALSE]
  BY DEF GatesInit
<1>2. IsSeq(<<>>) /\ DOMAIN <<>> = {} /\ Range(<<>>) = {}
  <2>1. DOMAIN <<>> = {}
    OBVIOUS
  <2> QED
    BY <2>1, EmptySeq DEF IsSeq, Range
<1>3. Journal = [lines |-> <<>>, older |-> <<>>, counted |-> 0, half |-> FALSE, lost |-> {}]
  BY <1>1 DEF Journal
<1>4. Shaped(Journal)
  BY <1>2, <1>3 DEF Shaped
<1>5. KeptOf(Journal) = {} /\ \A n : Spots(Journal, n) = {}
  BY <1>2, <1>3 DEF KeptOf, Spots
<1>6. ToldOf(Journal, calls) /\ CallsOK(calls)
  BY <1>1, <1>2, <1>4, <1>5 DEF ToldOf, CallsOK, Done, Single
<1>7. DiskOK
  <2>1. PICK at \in [Names -> Inside] :
          disk = [at |-> at, size |-> [f \in Files |-> 1], log |-> "fine"] /\ seen = {<<n, at[n]>> : n \in Names}
    BY DEF GatesInit
  <2>2. disk.at = at /\ disk.size = [f \in Files |-> 1]
        /\ disk = [at |-> disk.at, size |-> disk.size, log |-> disk.log]
    BY <2>1
  <2>3. disk.at \in [Names -> Files \cup {Nowhere}] /\ disk.size \in [Files -> Nat]
    BY <2>2, GatesAssumption
  <2> QED
    BY <2>1, <2>2, <2>3 DEF DiskOK
<1> QED
  BY <1>1, <1>6, <1>7 DEF GatesInv, Preparing, UploadsKeepTheirRails

LEMMA GatesStep == GatesInv /\ [GatesNext]_gatesVars => GatesInv'
<1> SUFFICES ASSUME GatesInv, [GatesNext]_gatesVars PROVE GatesInv'
  OBVIOUS
<1>1. ASSUME NEW q \in Asks, Refuse(q) \/ AnswerHere(q) \/ RelayToken(q) \/ Panic(q) \/ Resume(q) \/ Forward(q)
      PROVE  GatesInv'
  BY <1>1, RequestStep
<1>2. ASSUME NEW q \in Asks, UploadStarts(q) PROVE GatesInv'
  BY <1>2, StartStep
<1>3. CASE (\E n \in DOMAIN calls : Relayed(n) \/ HandleRes(n) \/ TimesOut(n)) \/ RouteEnds
  BY <1>3, AnswerStep
<1>4. CASE Preparing /\ (CanWrite \/ ResolveFile \/ OpenFile \/ RecheckFile \/ ReadFile \/ SendUpload)
  BY <1>4, CheckStep, ReadStep, SendStep
<1>5. CASE Registers \/ GoesStale \/ Pong \/ ArmLapses \/ LogBecomes \/ Replaced \/ Grows
  BY <1>5, WorldStep
<1>6. CASE BrokerRestarts
  BY <1>6, RestartStep
<1>7. CASE UNCHANGED gatesVars
  <2>1. UNCHANGED <<calls, up, journal, dropped, left, seen, disk>>
    BY <1>7 DEF gatesVars
  <2>2. LogStep
    BY <2>1, LogUntouched
  <2>3. (Preparing => UpOK)'
    BY <2>1 DEF GatesInv, Preparing, UpOK, UpIs, AsksIt, GotFits, GotFromFolder
  <2> QED
    BY <2>1, <2>2, <2>3, GateKeeps
<1> QED
  BY <1>1, <1>2, <1>3, <1>4, <1>5, <1>6, <1>7 DEF GatesNext

LEMMA OneLine ==
  ASSUME GatesInv PROVE OneLineEach
<1> SUFFICES ASSUME NEW n \in DOMAIN calls
             PROVE  /\ Cardinality(Completions(n)) = IF calls[n].at = "done" /\ Auditable(calls[n].q.op) THEN 1 ELSE 0
                    /\ \A l \in Kept : l.n = n /\ l.receipt => ReceiptOf(calls[n].q)
  BY DEF OneLineEach
<1>1. Completions(n) = Spots(Journal, n)
  BY DEF Completions, Spots, Journal
<1>2. Single(Completions(n)) /\ (Completions(n) # {} <=> calls[n].at = "done" /\ Auditable(calls[n].q.op))
  BY <1>1 DEF GatesInv, ToldOf, Done
<1> DEFINE answered == calls[n].at = "done" /\ Auditable(calls[n].q.op)
<1> HIDE DEF answered
<1>a. Single(Completions(n)) /\ (Completions(n) # {} <=> answered)
  BY <1>2 DEF answered
<1>3. ASSUME Completions(n) = {} PROVE Cardinality(Completions(n)) = IF answered THEN 1 ELSE 0
  BY <1>a, <1>3, FS_EmptySet
<1>4. ASSUME Completions(n) # {} PROVE Cardinality(Completions(n)) = IF answered THEN 1 ELSE 0
  <2>1. PICK x : x \in Completions(n)
    BY <1>4
  <2>2. Completions(n) = {x}
    BY <1>2, <2>1 DEF Single
  <2>3. Cardinality(Completions(n)) = 1
    BY <2>2, FS_Singleton
  <2> QED
    BY <1>a, <1>4, <2>3
<1>5. \A l \in Kept : l.n = n /\ l.receipt => ReceiptOf(calls[n].q)
  BY KeptIs DEF GatesInv, ToldOf, Receipted
<1>6. Cardinality(Completions(n)) = IF answered THEN 1 ELSE 0
  BY <1>3, <1>4
<1> QED
  BY <1>5, <1>6 DEF answered

(* A request that was answered has one line in the audit log, or is one of *)
(* those the disk or a second rotation took from it: never two, whether it *)
(* was refused, answered, timed out, cut off or ended by panic; a receipt  *)
(* is on the line of the request that carried it (bridged/index.mjs        *)
(* `reply`, `finish`, audit.mjs).                                          *)
THEOREM EveryRequestHasItsLine == GatesSpec => []OneLineEach
<1>1. GatesInit => GatesInv
  BY GatesInitially
<1>2. GatesInv /\ [GatesNext]_gatesVars => GatesInv'
  BY GatesStep
<1>3. GatesInv => OneLineEach
  BY OneLine
<1> QED
  BY <1>1, <1>2, <1>3, PTL DEF GatesSpec

(* What was uploaded had its line first, was a file of the folder under    *)
(* the name it is sent by when it was checked, and is within the limit,    *)
(* whatever other programs do to the folder, the disk and the log          *)
(* (upload.mjs, upload-folder.mjs, audit.mjs `recordBeforeSend`).          *)
THEOREM UploadsStayOnTheirRails == GatesSpec => []UploadsKeepTheirRails
<1>1. GatesInit => GatesInv
  BY GatesInitially
<1>2. GatesInv /\ [GatesNext]_gatesVars => GatesInv'
  BY GatesStep
<1>3. GatesInv => UploadsKeepTheirRails
  BY DEF GatesInv
<1> QED
  BY <1>1, <1>2, <1>3, PTL DEF GatesSpec
=============================================================================
