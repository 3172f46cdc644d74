----------------------------- MODULE HostProofs -----------------------------
(***************************************************************************)
(* Proofs about what a host keeps on its disk over failures and stops: the *)
(* ledger of a Worker Node (WorkerNode), and the data directory with its   *)
(* migration, recovery, backup and restore (StateTransfer, Doctor).  The   *)
(* two share no state and no lemma.                                        *)
(*                                                                         *)
(* For every set of requests, bodies and connections: wherever the node    *)
(* stops, one task at most is created for a request, the ledger claims no  *)
(* success that is none, and a confirmed cancellation is of a task that is *)
(* over.                                                                   *)
(*                                                                         *)
(* For every set of agents: no step of a migration doubles a computer, no  *)
(* command deletes what a stop has left behind or the directory that it    *)
(* replaces, and a bundle is of one moment.  The last is not inductive: it *)
(* needs what a backup under way has found of each file (Moment).          *)
(***************************************************************************)
EXTENDS WorkerNode, Doctor, TLAPS

-----------------------------------------------------------------------------
(* The inductive invariant of the node *)

Entry == [status : Ended \cup {"none", "accepted", "running"},
          body : Bodies \cup {None}, task : Nat]
Entries == [Requests -> Entry]
Snapshot == [by : Calls \cup Requests, entries : Entries]
CallRecord ==
    [pc : {"idle", "put", "created", "update", "failing", "follow", "answered",
           "cancel", "swapped", "cancelled"},
     req : Requests \cup {None}, task : Nat, answer : Answers]
LoopRecord == [pc : {"none", "loop", "run", "ended"}, task : Nat,
               seen : {"none"} \cup Live \cup Ended]
TaskRow == [req : Requests, status : Live \cup Ended]

\* The ledger, its file and the snapshots between them, the handlers, the loops and
\* the task store have their types.
NodeTypeOK ==
    /\ ledger \in Entries /\ file \in Entries /\ writes \in Seq(Snapshot)
    /\ call \in [Calls -> CallRecord] /\ loop \in [Requests -> LoopRecord]
    /\ task \in Seq(TaskRow)
    /\ busy \in Int

\* An entry once made is in every later snapshot and in the ledger: what the file
\* has, the snapshots have, and what one snapshot has, the later ones have.
InOrder ==
    \A q \in Requests :
        /\ file[q] # NoRecord =>
            ledger[q] # NoRecord /\ \A i \in DOMAIN writes : writes[i].entries[q] # NoRecord
        /\ \A i \in DOMAIN writes : writes[i].entries[q] # NoRecord =>
            /\ ledger[q] # NoRecord
            /\ \A j \in DOMAIN writes : i <= j => writes[j].entries[q] # NoRecord

\* A task has its request in the file; a handler about to create one has none yet,
\* and its entry is in the file or in a snapshot it waits for.
Prepared(c) ==
    call[c].pc = "put" =>
        /\ \A t \in DOMAIN task : task[t].req # call[c].req
        /\ \/ file[call[c].req] # NoRecord
           \/ \E i \in DOMAIN writes :
                writes[i].by = c /\ writes[i].entries[call[c].req] # NoRecord

Recorded == \A t \in DOMAIN task : file[task[t].req] # NoRecord

WrittenFirst == Recorded /\ \A c \in Calls : Prepared(c)

\* The lock of a request has one holder.
OneHandler ==
    \A c, d \in Calls :
        call[c].pc \in DispatchPc /\ call[d].pc \in DispatchPc /\ call[c].req = call[d].req
            => c = d

\* Entries name tasks that exist, and call none completed that is not, on their way
\* to the file as in memory.
Sound(entries) ==
    \A q \in Requests :
        /\ entries[q].task \in DOMAIN task \cup {0}
        /\ entries[q].status = "completed" =>
            entries[q].task # 0 /\ task[entries[q].task].status = "completed"

AllSound ==
    Sound(ledger) /\ Sound(file) /\ \A i \in DOMAIN writes : Sound(writes[i].entries)

\* A loop belongs to a request that is bound to a task, and for which no handler
\* holds the lock; what it has seen completed is completed.
Bound(q) ==
    loop[q].pc # "none" =>
        /\ ledger[q].task \in DOMAIN task
        /\ ~Locked(q)
        /\ loop[q].pc = "run" => loop[q].task \in DOMAIN task
        /\ loop[q].pc = "ended" =>
            /\ loop[q].seen # "none"
            /\ loop[q].seen = "completed" => task[ledger[q].task].status = "completed"

LoopsBound == \A q \in Requests : Bound(q)

\* What a handler holds at each of its steps.
Held(c) ==
    /\ call[c].pc \notin {"idle", "answered"} => call[c].req \in Requests
    /\ call[c].pc \in {"created", "update", "cancel", "swapped", "cancelled"} =>
        call[c].task \in DOMAIN task
    /\ call[c].pc = "update" => ledger[call[c].req].task = call[c].task
    /\ call[c].pc \in {"swapped", "cancelled"} => task[call[c].task].status \in Ended
    /\ call[c].pc = "answered" /\ call[c].answer = "confirmed" =>
        call[c].task \in DOMAIN task /\ task[call[c].task].status \in Ended

CallsBound == \A c \in Calls : Held(c)

NodeInv == NodeTypeOK /\ InOrder /\ WrittenFirst /\ OneHandler /\ AllSound /\ LoopsBound
           /\ CallsBound /\ OneTaskPerRequest

-----------------------------------------------------------------------------
(* Lemmas about the sequences and the write queue *)

LEMMA TailFacts ==
  ASSUME NEW S, NEW s \in Seq(S), s # <<>>
  PROVE  /\ Tail(s) \in Seq(S)
         /\ Head(s) = s[1] /\ 1 \in DOMAIN s /\ s[1] \in S
         /\ \A i \in DOMAIN Tail(s) :
                i \in Nat /\ i + 1 \in DOMAIN s /\ Tail(s)[i] = s[i + 1]
         /\ \A i \in DOMAIN s :
                i \in Nat /\ (i # 1 => i - 1 \in DOMAIN Tail(s) /\ Tail(s)[i - 1] = s[i])
  <1>1. Len(s) \in Nat \ {0} /\ Tail(s) \in Seq(S) /\ Len(Tail(s)) = Len(s) - 1
    OBVIOUS
  <1>2. DOMAIN s = 1..Len(s) /\ DOMAIN Tail(s) = 1..(Len(s) - 1)
    BY <1>1
  <1>3. \A i \in 1..(Len(s) - 1) : Tail(s)[i] = s[i + 1]
    BY <1>1
  <1>4. Head(s) = s[1] /\ s[1] \in S
    OBVIOUS
  <1>5. ASSUME NEW i \in DOMAIN s, i # 1
        PROVE  i - 1 \in DOMAIN Tail(s) /\ Tail(s)[i - 1] = s[i]
    <2>1. i - 1 \in 1..(Len(s) - 1) /\ (i - 1) + 1 = i
      BY <1>1, <1>2, <1>5
    <2>2. QED
      BY <1>2, <1>3, <2>1
  <1>6. QED
    BY <1>1, <1>2, <1>3, <1>4, <1>5

LEMMA AppendFacts ==
  ASSUME NEW S, NEW s \in Seq(S), NEW x \in S
  PROVE  /\ Append(s, x) \in Seq(S) /\ Len(Append(s, x)) = Len(s) + 1
         /\ Len(s) + 1 \in DOMAIN Append(s, x) /\ Append(s, x)[Len(s) + 1] = x
         /\ \A i \in DOMAIN s :
                i \in Nat /\ i <= Len(s) /\ i \in DOMAIN Append(s, x) /\ Append(s, x)[i] = s[i]
         /\ \A i \in DOMAIN Append(s, x) : i = Len(s) + 1 \/ i \in DOMAIN s
  OBVIOUS

\* What a mutation of the Map leaves: one new entry, and one more snapshot.
LEMMA PutFacts ==
  ASSUME NodeTypeOK, NEW q \in Requests, NEW r \in Entry, NEW h \in Calls \cup Requests,
         Put(q, r, h)
  PROVE  /\ ledger' \in Entries /\ ledger'[q] = r
         /\ \A p \in Requests : p # q => ledger'[p] = ledger[p]
         /\ writes' \in Seq(Snapshot)
         /\ Len(writes) + 1 \in DOMAIN writes'
         /\ writes'[Len(writes) + 1] = [by |-> h, entries |-> ledger']
         /\ \A i \in DOMAIN writes :
                i \in Nat /\ i <= Len(writes) /\ i \in DOMAIN writes' /\ writes'[i] = writes[i]
         /\ \A i \in DOMAIN writes' : i = Len(writes) + 1 \/ i \in DOMAIN writes
  <1>1. /\ ledger' \in Entries /\ ledger'[q] = r
        /\ \A p \in Requests : p # q => ledger'[p] = ledger[p]
    BY DEF Put, NodeTypeOK, Entries
  <1>2. [by |-> h, entries |-> ledger'] \in Snapshot
    BY <1>1 DEF Snapshot
  <1>3. writes' = Append(writes, [by |-> h, entries |-> ledger']) /\ writes \in Seq(Snapshot)
    BY DEF Put, NodeTypeOK
  <1>4. QED
    BY <1>1, <1>2, <1>3, AppendFacts

LEMMA SnapshotType ==
  ASSUME NodeTypeOK, NEW i \in DOMAIN writes
  PROVE  writes[i].entries \in Entries /\ writes[i].by \in Calls \cup Requests /\ i \in Nat
  <1>1. writes[i] \in Snapshot /\ i \in Nat
    BY DEF NodeTypeOK
  <1>2. QED
    BY <1>1 DEF Snapshot

LEMMA EntryType ==
  ASSUME NEW entries \in Entries, NEW q \in Requests
  PROVE  entries[q] \in Entry /\ entries[q].task \in Nat
  BY DEF Entries, Entry

LEMMA TaskType ==
  ASSUME NodeTypeOK, NEW t \in DOMAIN task
  PROVE  task[t] \in TaskRow /\ task[t].req \in Requests /\ task[t].status \in Live \cup Ended
         /\ t \in Nat /\ t # 0
  <1>1. task[t] \in TaskRow /\ t \in Nat \ {0}
    BY DEF NodeTypeOK
  <1>2. QED
    BY <1>1 DEF TaskRow

\* Changing the status of a task keeps the store a store.
LEMMA StatusFacts ==
  ASSUME NodeTypeOK, NEW t \in DOMAIN task, NEW s \in Live \cup Ended,
         task' = [task EXCEPT ![t].status = s]
  PROVE  /\ task' \in Seq(TaskRow) /\ Len(task') = Len(task) /\ DOMAIN task' = DOMAIN task
         /\ \A u \in DOMAIN task : task'[u].req = task[u].req /\ (u # t => task'[u] = task[u])
         /\ task'[t].status = s
  <1>1. [task[t] EXCEPT !.status = s] \in TaskRow
    BY TaskType DEF TaskRow
  <1>2. task' = [task EXCEPT ![t] = [task[t] EXCEPT !.status = s]] /\ task \in Seq(TaskRow)
    BY DEF NodeTypeOK
  <1>3. task' \in Seq(TaskRow) /\ Len(task') = Len(task) /\ DOMAIN task' = DOMAIN task
    BY <1>1, <1>2
  <1>4. \A u \in DOMAIN task : u # t => task'[u] = task[u]
    BY <1>2
  <1>5. task'[t] = [task[t] EXCEPT !.status = s]
    BY <1>2
  <1>6. task'[t].req = task[t].req /\ task'[t].status = s
    BY <1>5, TaskType DEF TaskRow
  <1>7. QED
    BY <1>3, <1>4, <1>6

-----------------------------------------------------------------------------
(* Type correctness *)

LEMMA InitType == NodeInit => NodeTypeOK
  <1> SUFFICES ASSUME NodeInit PROVE NodeTypeOK
    OBVIOUS
  <1>1. NoRecord \in Entry /\ NoCall \in CallRecord /\ NoLoop \in LoopRecord
    BY DEF NoRecord, Entry, NoCall, CallRecord, NoLoop, LoopRecord, Answers
  <1>2. writes \in Seq(Snapshot) /\ task \in Seq(TaskRow)
    BY DEF NodeInit
  <1>3. QED
    BY <1>1, <1>2 DEF NodeInit, NodeTypeOK, Entries

LEMMA ReportedType ==
  ASSUME NodeTypeOK, AllSound, NEW q \in Requests
  PROVE  Reported(q) \in {"none", "queued", "running", "accepted", "completed", "failed",
                          "cancelled"}
  <1>1. ledger[q] \in Entry
    BY EntryType DEF NodeTypeOK
  <1>2. ledger[q].status \in Ended \cup {"none", "accepted", "running"}
    BY <1>1 DEF Entry
  <1>3. CASE ledger[q].task = 0
    BY <1>2, <1>3 DEF Reported, Ended
  <1>4. CASE ledger[q].task # 0
    <2>1. ledger[q].task \in DOMAIN task
      BY <1>4 DEF AllSound, Sound, NodeTypeOK
    <2>2. QED
      BY <1>2, <2>1, TaskType DEF Reported, Ended, Live
  <1>5. QED
    BY <1>3, <1>4

LEMMA AnswerType ==
  ASSUME NEW t \in Nat, NEW a \in Answers
  PROVE  Answer(t, a) \in CallRecord
  BY DEF Answer, NoCall, CallRecord, Answers

LEMMA AnsweredType ==
  ASSUME NodeTypeOK, NEW c \in Calls, NEW t \in Nat, NEW a \in Answers, Answered(c, t, a)
  PROVE  call' \in [Calls -> CallRecord]
  BY AnswerType DEF Answered, NodeTypeOK

LEMMA CallFacts ==
  ASSUME NodeTypeOK, NEW c \in Calls, NEW r \in CallRecord, call' = [call EXCEPT ![c] = r]
  PROVE  /\ call' \in [Calls -> CallRecord] /\ call'[c] = r
         /\ \A d \in Calls : d # c => call'[d] = call[d]
  BY DEF NodeTypeOK

\* The steps of a handler, as what they make of its record.
LEMMA HandlerStep ==
  ASSUME NodeTypeOK, NEW c \in Calls,
         NEW label \in {"created", "update", "failing", "swapped", "cancelled"},
         call' = [call EXCEPT ![c].pc = label]
  PROVE  /\ call' \in [Calls -> CallRecord] /\ call'[c].pc = label
         /\ call'[c].req = call[c].req /\ call'[c].task = call[c].task
         /\ \A d \in Calls : d # c => call'[d] = call[d]
  <1> DEFINE r == [call[c] EXCEPT !.pc = label]
  <1>1. call[c] \in CallRecord
    BY DEF NodeTypeOK
  <1>2. r \in CallRecord /\ r.pc = label /\ r.req = call[c].req /\ r.task = call[c].task
    BY <1>1 DEF CallRecord
  <1>3. call' = [call EXCEPT ![c] = r]
    OBVIOUS
  <1> HIDE DEF r
  <1>4. QED
    BY <1>2, <1>3, CallFacts

LEMMA CreatedStep ==
  ASSUME NodeTypeOK, NEW c \in Calls, NEW t \in Nat,
         call' = [call EXCEPT ![c].pc = "created", ![c].task = t]
  PROVE  /\ call' \in [Calls -> CallRecord] /\ call'[c].pc = "created"
         /\ call'[c].req = call[c].req /\ call'[c].task = t
         /\ \A d \in Calls : d # c => call'[d] = call[d]
  <1> DEFINE r == [call[c] EXCEPT !.pc = "created", !.task = t]
  <1>1. call[c] \in CallRecord
    BY DEF NodeTypeOK
  <1>2. r \in CallRecord /\ r.pc = "created" /\ r.req = call[c].req /\ r.task = t
    BY <1>1 DEF CallRecord
  <1>3. call' = [call EXCEPT ![c] = r]
    BY DEF NodeTypeOK
  <1> HIDE DEF r
  <1>4. QED
    BY <1>2, <1>3, CallFacts

\* A handler that begins, for request q.
LEMMA NewCallType ==
  ASSUME NEW q \in Requests, NEW label \in {"put", "follow"}
  PROVE  LET new == [NoCall EXCEPT !.pc = "put", !.req = q]
             r == [new EXCEPT !.pc = label]
         IN  /\ new \in CallRecord /\ new.pc = "put" /\ new.req = q
             /\ r \in CallRecord /\ r.pc = label /\ r.req = q
  BY DEF NoCall, CallRecord, Answers

\* The entries a handler or a loop writes keep the body.
LEMMA NewEntryType ==
  ASSUME NEW e \in Entry, NEW s \in Ended \cup {"accepted", "running"}, NEW t \in Nat
  PROVE  LET r == [e EXCEPT !.status = s]
             u == [e EXCEPT !.task = t, !.status = s]
         IN  /\ r \in Entry /\ r.status = s /\ r.task = e.task /\ r # NoRecord
             /\ u \in Entry /\ u.status = s /\ u.task = t /\ u # NoRecord
  BY DEF Entry, NoRecord, Ended

-----------------------------------------------------------------------------
(* What each part of the invariant is kept by *)

\* The task store only grows, and a task that has ended stays as it ended.
Advances ==
    /\ DOMAIN task \subseteq DOMAIN task'
    /\ \A t \in DOMAIN task :
        /\ task'[t].req = task[t].req
        /\ task[t].status \in Ended => task'[t].status = task[t].status

\* No handler takes a lock in this step.
TakesNoLock ==
    \A c \in Calls : call'[c].pc \in DispatchPc =>
        call[c].pc \in DispatchPc /\ call'[c].req = call[c].req

LEMMA LocksKept ==
  ASSUME OneHandler, TakesNoLock
  PROVE  OneHandler' /\ \A q \in Requests : Locked(q)' => Locked(q)
  BY DEF OneHandler, TakesNoLock, Locked

LEMMA PreparedKept ==
  ASSUME NEW c \in Calls, Prepared(c), call'[c] = call[c], task' = task, file' = file,
         \A i \in DOMAIN writes : i \in DOMAIN writes' /\ writes'[i] = writes[i]
  PROVE  Prepared(c)'
  BY DEF Prepared

LEMMA BoundKept ==
  ASSUME NodeInv, Advances, NEW q \in Requests, Bound(q), loop'[q] = loop[q],
         ledger'[q].task = ledger[q].task, Locked(q)' => Locked(q)
  PROVE  Bound(q)'
  BY DEF Bound, Advances, Ended

LEMMA HeldKept ==
  ASSUME NodeInv, Advances, NEW c \in Calls, Held(c), call'[c] = call[c],
         call[c].pc = "update" => ledger'[call[c].req].task = ledger[call[c].req].task
  PROVE  Held(c)'
  BY DEF Held, Advances, Ended

LEMMA AllSoundKept ==
  ASSUME AllSound, Advances, ledger' = ledger, file' = file, writes' = writes
  PROVE  AllSound'
  <1>1. ASSUME NEW entries, Sound(entries)
        PROVE  Sound(entries)'
    BY <1>1 DEF Sound, Advances, Ended
  <1>2. Sound(ledger)' /\ Sound(file)'
    BY <1>1 DEF AllSound, Sound
  <1>3. ASSUME NEW i \in DOMAIN writes
        PROVE  Sound(writes[i].entries)'
    BY <1>1, <1>3 DEF AllSound, Sound
  <1>4. QED
    BY <1>2, <1>3 DEF AllSound, Sound

LEMMA OneTaskKept ==
  ASSUME OneTaskPerRequest, DOMAIN task' = DOMAIN task, Advances
  PROVE  OneTaskPerRequest'
  BY DEF OneTaskPerRequest, Advances

LEMMA RecordedKept ==
  ASSUME Recorded, DOMAIN task' = DOMAIN task, Advances, file' = file
  PROVE  Recorded'
  BY DEF Recorded, Advances

\* A mutation of the Map keeps the order of the snapshots and what they say.
LEMMA PutKeeps ==
  ASSUME NodeInv, NEW q \in Requests, NEW r \in Entry, NEW h \in Calls \cup Requests,
         Put(q, r, h), r # NoRecord, file' = file, task' = task,
         r.task \in DOMAIN task \cup {0},
         r.status = "completed" => r.task # 0 /\ task[r.task].status = "completed"
  PROVE  /\ InOrder' /\ AllSound' /\ Recorded' /\ OneTaskPerRequest'
         /\ \A c \in Calls : call'[c] = call[c] => Prepared(c)'
         /\ Advances
  <1> DEFINE n == Len(writes) + 1
  <1>1. /\ ledger' \in Entries /\ ledger'[q] = r
        /\ \A p \in Requests : p # q => ledger'[p] = ledger[p]
        /\ n \in DOMAIN writes' /\ writes'[n].entries = ledger'
        /\ \A i \in DOMAIN writes :
                i \in Nat /\ i < n /\ i \in DOMAIN writes' /\ writes'[i] = writes[i]
        /\ \A i \in DOMAIN writes' : i = n \/ i \in DOMAIN writes
    <2>1. Len(writes) \in Nat
      BY DEF NodeInv, NodeTypeOK
    <2>2. NodeTypeOK
      BY DEF NodeInv
    <2>3. /\ ledger' \in Entries /\ ledger'[q] = r
          /\ \A p \in Requests : p # q => ledger'[p] = ledger[p]
          /\ n \in DOMAIN writes' /\ writes'[n] = [by |-> h, entries |-> ledger']
          /\ \A i \in DOMAIN writes' : i = n \/ i \in DOMAIN writes
      BY <2>2, PutFacts
    <2>4. \A i \in DOMAIN writes :
              i \in Nat /\ i <= Len(writes) /\ i \in DOMAIN writes' /\ writes'[i] = writes[i]
      BY <2>2, PutFacts
    <2>5. \A i \in DOMAIN writes : i < n
      BY <2>1, <2>4
    <2>6. QED
      BY <2>3, <2>4, <2>5
  <1> HIDE DEF n
  <1>2. \A p \in Requests : ledger[p] # NoRecord => ledger'[p] # NoRecord
    BY <1>1
  <1>3. InOrder'
    <2> SUFFICES ASSUME NEW p \in Requests
                 PROVE  /\ file[p] # NoRecord =>
                            /\ ledger'[p] # NoRecord
                            /\ \A i \in DOMAIN writes' : writes'[i].entries[p] # NoRecord
                        /\ \A i \in DOMAIN writes' : writes'[i].entries[p] # NoRecord =>
                            /\ ledger'[p] # NoRecord
                            /\ \A j \in DOMAIN writes' : i <= j => writes'[j].entries[p] # NoRecord
      BY DEF InOrder
    <2>1. file[p] # NoRecord =>
            /\ ledger'[p] # NoRecord
            /\ \A i \in DOMAIN writes' : writes'[i].entries[p] # NoRecord
      BY <1>1, <1>2 DEF NodeInv, InOrder
    <2>2. ASSUME NEW i \in DOMAIN writes', writes'[i].entries[p] # NoRecord
          PROVE  ledger'[p] # NoRecord
      BY <1>1, <1>2, <2>2 DEF NodeInv, InOrder
    <2>3. ASSUME NEW i \in DOMAIN writes', writes'[i].entries[p] # NoRecord,
                 NEW j \in DOMAIN writes', i <= j
          PROVE  writes'[j].entries[p] # NoRecord
      <3>1. CASE j = n
        BY <1>1, <2>2, <2>3, <3>1
      <3>2. CASE j \in DOMAIN writes /\ i \in DOMAIN writes
        BY <1>1, <2>3, <3>2 DEF NodeInv, InOrder
      <3>3. CASE j \in DOMAIN writes /\ i = n
        <4>1. j < n /\ n <= j /\ j \in Nat /\ n \in Nat
          <5>1. n \in Nat
            BY DEF n, NodeInv, NodeTypeOK
          <5>2. QED
            BY <1>1, <2>3, <3>3, <5>1
        <4>2. QED
          BY <4>1
      <3>4. QED
        BY <1>1, <3>1, <3>2, <3>3
    <2>4. QED
      BY <2>1, <2>2, <2>3
  <1>4. AllSound'
    <2>1. Sound(file)' /\ Sound(ledger)'
      BY <1>1 DEF NodeInv, AllSound, Sound
    <2>2. ASSUME NEW i \in DOMAIN writes'
          PROVE  Sound(writes[i].entries)'
      <3>1. CASE i = n
        BY <1>1, <2>1, <3>1 DEF Sound
      <3>2. CASE i \in DOMAIN writes
        BY <1>1, <3>2 DEF NodeInv, AllSound, Sound
      <3>3. QED
        BY <1>1, <3>1, <3>2
    <2>3. QED
      BY <2>1, <2>2 DEF AllSound
  <1>5. Recorded' /\ OneTaskPerRequest' /\ Advances
    BY DEF NodeInv, WrittenFirst, Recorded, OneTaskPerRequest, Advances
  <1>6. ASSUME NEW c \in Calls, call'[c] = call[c]
        PROVE  Prepared(c)'
    BY <1>1, <1>6, PreparedKept DEF NodeInv, WrittenFirst
  <1>7. QED
    BY <1>3, <1>4, <1>5, <1>6

\* A step that leaves the store of tasks alone, or only lets it advance.
LEMMA SameTask == ASSUME task' = task PROVE Advances
  BY DEF Advances

-----------------------------------------------------------------------------
(* The invariant: one lemma per action *)

LEMMA InitInv == NodeInit => NodeInv
  <1> SUFFICES ASSUME NodeInit PROVE NodeInv
    OBVIOUS
  <1>1. NodeTypeOK
    BY InitType
  <1>2. InOrder /\ WrittenFirst /\ OneHandler /\ OneTaskPerRequest
    BY DEF NodeInit, InOrder, WrittenFirst, Recorded, Prepared, OneHandler, OneTaskPerRequest,
       NoCall, DispatchPc
  <1>3. AllSound /\ LoopsBound /\ CallsBound
    BY DEF NodeInit, AllSound, Sound, LoopsBound, Bound, CallsBound, Held, NoRecord, NoCall,
       NoLoop
  <1>4. QED
    BY <1>1, <1>2, <1>3 DEF NodeInv

\* The oldest snapshot becomes the file.
LEMMA WrittenInv == ASSUME NodeInv, Written PROVE NodeInv'
  <1> USE DEF NodeInv
  <1>1. /\ writes # <<>> /\ file' = writes[1].entries /\ writes' = Tail(writes)
        /\ 1 \in DOMAIN writes /\ writes' \in Seq(Snapshot)
        /\ UNCHANGED <<ledger, call, loop, task, busy>>
    BY TailFacts DEF Written, NodeTypeOK
  <1>2. /\ \A i \in DOMAIN writes' :
                i \in Nat /\ i + 1 \in DOMAIN writes /\ writes'[i] = writes[i + 1]
        /\ \A i \in DOMAIN writes :
                i \in Nat /\ (i # 1 => i - 1 \in DOMAIN writes' /\ writes'[i - 1] = writes[i])
    BY <1>1, TailFacts DEF NodeTypeOK
  <1>3. NodeTypeOK'
    <2>1. file' \in Entries
      BY <1>1, SnapshotType
    <2>2. QED
      BY <1>1, <2>1 DEF NodeTypeOK
  <1>4. \A q \in Requests : file[q] # NoRecord => file'[q] # NoRecord
    BY <1>1 DEF InOrder
  <1>5. InOrder'
    <2>1. ASSUME NEW q \in Requests, file'[q] # NoRecord, NEW i \in DOMAIN writes'
          PROVE  writes'[i].entries[q] # NoRecord
      <3>1. i + 1 \in DOMAIN writes /\ writes'[i] = writes[i + 1] /\ 1 <= i + 1
        BY <1>2
      <3>2. QED
        BY <1>1, <2>1, <3>1 DEF InOrder
    <2>2. ASSUME NEW q \in Requests, file'[q] # NoRecord PROVE ledger'[q] # NoRecord
      BY <1>1, <2>2 DEF InOrder
    <2>3. ASSUME NEW q \in Requests, NEW i \in DOMAIN writes', writes'[i].entries[q] # NoRecord
          PROVE  /\ ledger'[q] # NoRecord
                 /\ \A j \in DOMAIN writes' : i <= j => writes'[j].entries[q] # NoRecord
      <3>1. i + 1 \in DOMAIN writes /\ writes'[i] = writes[i + 1] /\ i \in Nat
        BY <1>2
      <3>2. ASSUME NEW j \in DOMAIN writes', i <= j
            PROVE  writes'[j].entries[q] # NoRecord
        <4>1. j + 1 \in DOMAIN writes /\ writes'[j] = writes[j + 1] /\ i + 1 <= j + 1
          BY <1>2, <3>1, <3>2
        <4>2. QED
          BY <2>3, <3>1, <4>1 DEF InOrder
      <3>3. QED
        BY <1>1, <2>3, <3>1, <3>2 DEF InOrder
    <2>4. QED
      BY <2>1, <2>2, <2>3 DEF InOrder
  <1>6. WrittenFirst'
    <2>1. Recorded'
      BY <1>1, <1>4, TaskType DEF WrittenFirst, Recorded
    <2>2. ASSUME NEW c \in Calls, call[c].pc = "put"
          PROVE  \/ file'[call[c].req] # NoRecord
                 \/ \E i \in DOMAIN writes' :
                        writes'[i].by = c /\ writes'[i].entries[call[c].req] # NoRecord
      <3>1. call[c].req \in Requests
        BY <2>2 DEF CallsBound, Held
      <3>2. CASE file[call[c].req] # NoRecord
        BY <1>4, <3>1, <3>2
      <3>3. ASSUME NEW i \in DOMAIN writes, writes[i].by = c,
                   writes[i].entries[call[c].req] # NoRecord
            PROVE  \/ file'[call[c].req] # NoRecord
                   \/ \E j \in DOMAIN writes' :
                        writes'[j].by = c /\ writes'[j].entries[call[c].req] # NoRecord
        <4>1. CASE i = 1
          BY <1>1, <3>3, <4>1
        <4>2. CASE i # 1
          <5>1. i - 1 \in DOMAIN writes' /\ writes'[i - 1] = writes[i]
            BY <1>2, <4>2
          <5>2. QED
            BY <3>3, <5>1
        <4>3. QED
          BY <4>1, <4>2
      <3>4. QED
        BY <2>2, <3>2, <3>3 DEF WrittenFirst, Prepared
    <2>3. QED
      BY <1>1, <2>1, <2>2 DEF WrittenFirst, Prepared
  <1>7. AllSound'
    <2>1. Sound(ledger)' /\ Sound(file)'
      BY <1>1 DEF AllSound, Sound
    <2>2. ASSUME NEW i \in DOMAIN writes'
          PROVE  Sound(writes[i].entries)'
      BY <1>1, <1>2, <2>2 DEF AllSound, Sound
    <2>3. QED
      BY <2>1, <2>2 DEF AllSound
  <1>8. OneHandler' /\ LoopsBound' /\ CallsBound' /\ OneTaskPerRequest'
    BY <1>1 DEF OneHandler, LoopsBound, Bound, Locked, CallsBound, Held, OneTaskPerRequest
  <1>9. QED
    BY <1>3, <1>5, <1>6, <1>7, <1>8

\* The task is created with its request recorded in the file, and by the only
\* handler that holds the lock of the request.
LEMMA CreateInv == ASSUME NodeInv, NEW c \in Calls, Create(c) PROVE NodeInv'
  <1> USE DEF NodeInv
  <1> DEFINE q == call[c].req
             n == Len(task) + 1
             new == [req |-> q, status |-> "queued"]
  <1>1. /\ call[c].pc = "put" /\ ~Awaits(c) /\ task' = Append(task, new)
        /\ call' = [call EXCEPT ![c].pc = "created", ![c].task = n]
        /\ UNCHANGED <<ledger, file, writes, loop, busy>>
    BY DEF Create
  <1>2. q \in Requests
    BY <1>1 DEF CallsBound, Held
  <1>3. new \in TaskRow /\ n \in Nat /\ task \in Seq(TaskRow)
    BY <1>2 DEF TaskRow, Live, NodeTypeOK
  <1> HIDE DEF new
  <1>4. /\ task' \in Seq(TaskRow)
        /\ n \in DOMAIN task' /\ task'[n] = new
        /\ \A t \in DOMAIN task : t \in DOMAIN task' /\ task'[t] = task[t]
        /\ \A t \in DOMAIN task' : t = n \/ t \in DOMAIN task
    BY <1>1, <1>3, AppendFacts
  <1>5. /\ call' \in [Calls -> CallRecord] /\ call'[c].pc = "created"
        /\ call'[c].req = q /\ call'[c].task = n
        /\ \A d \in Calls : d # c => call'[d] = call[d]
    BY <1>1, <1>3, CreatedStep
  <1> HIDE DEF n
  <1>6. new.req = q
    BY DEF new
  <1>7. NodeTypeOK'
    BY <1>1, <1>4, <1>5 DEF NodeTypeOK
  <1>8. Advances
    BY <1>4 DEF Advances
  <1>9. TakesNoLock
    BY <1>1, <1>5 DEF TakesNoLock, DispatchPc
  <1>10. InOrder' /\ AllSound' /\ OneHandler' /\ LoopsBound'
    <2>1. InOrder'
      BY <1>1 DEF InOrder
    <2>2. LoopsBound'
      BY <1>1, <1>8, <1>9, LocksKept, BoundKept DEF LoopsBound
    <2>3. QED
      BY <1>1, <1>8, <1>9, <2>1, <2>2, AllSoundKept, LocksKept
  <1>11. /\ file[q] # NoRecord
         /\ \A t \in DOMAIN task : task[t].req # q
    BY <1>1 DEF WrittenFirst, Prepared, Awaits
  <1>12. WrittenFirst'
    <2>1. Recorded'
      BY <1>1, <1>4, <1>6, <1>11 DEF WrittenFirst, Recorded
    <2>2. ASSUME NEW d \in Calls PROVE Prepared(d)'
      <3>1. CASE d = c
        BY <1>5, <3>1 DEF Prepared
      <3>2. CASE d # c /\ call[d].pc = "put"
        <4>1. call[d].req # q
          BY <1>1, <3>2 DEF OneHandler, DispatchPc
        <4>2. \A t \in DOMAIN task' : task'[t].req # call[d].req
          BY <1>4, <1>6, <3>2, <4>1 DEF WrittenFirst, Prepared
        <4>3. QED
          BY <1>1, <1>5, <3>2, <4>2 DEF WrittenFirst, Prepared
      <3>3. CASE d # c /\ call[d].pc # "put"
        BY <1>5, <3>3 DEF Prepared
      <3>4. QED
        BY <3>1, <3>2, <3>3
    <2>3. QED
      BY <2>1, <2>2 DEF WrittenFirst
  <1>13. CallsBound'
    <2>1. ASSUME NEW d \in Calls PROVE Held(d)'
      <3>1. CASE d = c
        BY <1>2, <1>4, <1>5, <3>1 DEF Held
      <3>2. CASE d # c
        BY <1>1, <1>5, <1>8, <3>2, HeldKept DEF CallsBound
      <3>3. QED
        BY <3>1, <3>2
    <2>2. QED
      BY <2>1 DEF CallsBound
  <1>14. OneTaskPerRequest'
    BY <1>4, <1>6, <1>11 DEF OneTaskPerRequest
  <1>15. QED
    BY <1>7, <1>10, <1>12, <1>13, <1>14

\* A handler or a loop that writes the entry of a request whose lock it holds, or
\* keeps the task of the entry.
LEMMA CallPutInv ==
  ASSUME NodeInv, NEW c \in Calls, NEW q \in Requests, NEW r \in Entry, Put(q, r, c),
         r # NoRecord, r.task \in DOMAIN task \cup {0},
         r.status = "completed" => r.task # 0 /\ task[r.task].status = "completed",
         r.task = ledger[q].task \/ loop[q].pc = "none",
         \A d \in Calls : d # c /\ call[d].pc = "update" /\ call[d].req = q =>
            r.task = ledger[q].task,
         UNCHANGED <<file, loop, task, busy>>,
         call' \in [Calls -> CallRecord], \A d \in Calls : d # c => call'[d] = call[d],
         TakesNoLock, call'[c].pc # "put", Held(c)'
  PROVE  NodeInv'
  <1>1. /\ InOrder' /\ AllSound' /\ Recorded' /\ OneTaskPerRequest' /\ Advances
        /\ \A d \in Calls : call'[d] = call[d] => Prepared(d)'
    BY PutKeeps
  <1>2. /\ ledger' \in Entries /\ ledger'[q] = r /\ writes' \in Seq(Snapshot)
        /\ \A p \in Requests : p # q => ledger'[p] = ledger[p]
    BY PutFacts DEF NodeInv
  <1>3. NodeTypeOK'
    BY <1>2 DEF NodeInv, NodeTypeOK
  <1>4. WrittenFirst'
    <2>1. Prepared(c)'
      BY DEF Prepared
    <2>2. QED
      BY <1>1, <2>1 DEF WrittenFirst
  <1>5. OneHandler' /\ \A p \in Requests : Locked(p)' => Locked(p)
    BY LocksKept DEF NodeInv
  <1>6. LoopsBound'
    <2>1. ASSUME NEW p \in Requests PROVE Bound(p)'
      <3>1. CASE loop[p].pc = "none"
        BY <3>1 DEF Bound
      <3>2. CASE loop[p].pc # "none"
        <4>1. ledger'[p].task = ledger[p].task
          BY <1>2, <3>2
        <4>2. QED
          BY <1>1, <1>5, <4>1, BoundKept DEF NodeInv, LoopsBound
      <3>3. QED
        BY <3>1, <3>2
    <2>2. QED
      BY <2>1 DEF LoopsBound
  <1>7. CallsBound'
    <2>1. ASSUME NEW d \in Calls, d # c PROVE Held(d)'
      <3>1. call[d].pc = "update" => ledger'[call[d].req].task = ledger[call[d].req].task
        <4> SUFFICES ASSUME call[d].pc = "update"
                     PROVE  ledger'[call[d].req].task = ledger[call[d].req].task
          OBVIOUS
        <4>1. call[d].req \in Requests
          BY DEF NodeInv, CallsBound, Held
        <4>2. QED
          BY <1>2, <2>1, <4>1
      <3>2. QED
        BY <1>1, <2>1, <3>1, HeldKept DEF NodeInv, CallsBound
    <2>2. QED
      BY <2>1 DEF CallsBound
  <1>8. QED
    BY <1>1, <1>3, <1>4, <1>5, <1>6, <1>7 DEF NodeInv

\* The entry of a handler's or loop's request, with another status.
LEMMA Restated ==
  ASSUME NodeInv, NEW q \in Requests, NEW s \in Ended \cup {"accepted", "running"}
  PROVE  LET r == [ledger[q] EXCEPT !.status = s]
         IN  /\ r \in Entry /\ r.status = s /\ r.task = ledger[q].task /\ r # NoRecord
             /\ r.task \in DOMAIN task \cup {0}
  <1>1. ledger[q] \in Entry
    BY EntryType DEF NodeInv, NodeTypeOK
  <1>2. ledger[q].task \in DOMAIN task \cup {0}
    BY DEF NodeInv, AllSound, Sound
  <1>3. QED
    BY <1>1, <1>2, NewEntryType, ZenonT(40)

LEMMA BindInv == ASSUME NodeInv, NEW c \in Calls, Bind(c) PROVE NodeInv'
  <1> DEFINE q == call[c].req
             r == [ledger[q] EXCEPT !.task = call[c].task, !.status = "accepted"]
  <1>1. /\ call[c].pc = "created" /\ Put(q, r, c)
        /\ call' = [call EXCEPT ![c].pc = "update"]
        /\ UNCHANGED <<file, loop, task, busy>>
    BY DEF Bind
  <1>2. q \in Requests /\ call[c].task \in DOMAIN task /\ call[c].task \in Nat
    BY <1>1 DEF NodeInv, CallsBound, Held, NodeTypeOK
  <1>3. r \in Entry /\ r.status = "accepted" /\ r.task = call[c].task /\ r # NoRecord
    <2>1. ledger[q] \in Entry
      BY <1>2, EntryType DEF NodeInv, NodeTypeOK
    <2>2. QED
      BY <1>2, <2>1 DEF Entry, NoRecord
  <1> HIDE DEF r
  <1>4. /\ call' \in [Calls -> CallRecord] /\ call'[c].pc = "update"
        /\ call'[c].req = q /\ call'[c].task = call[c].task
        /\ \A d \in Calls : d # c => call'[d] = call[d]
    BY <1>1, HandlerStep DEF NodeInv
  <1>5. TakesNoLock
    BY <1>1, <1>4 DEF TakesNoLock, DispatchPc
  <1>6. loop[q].pc = "none"
    BY <1>1, <1>2 DEF NodeInv, LoopsBound, Bound, Locked, DispatchPc
  <1>7. \A d \in Calls : ~(d # c /\ call[d].pc = "update" /\ call[d].req = q)
    BY <1>1 DEF NodeInv, OneHandler, DispatchPc
  <1>8. Held(c)'
    <2>1. ledger'[q] = r
      BY <1>1, <1>2, <1>3, PutFacts DEF NodeInv
    <2>2. QED
      BY <1>1, <1>2, <1>3, <1>4, <2>1 DEF Held
  <1>9. QED
    BY <1>1, <1>2, <1>3, <1>4, <1>5, <1>6, <1>7, <1>8, CallPutInv

LEMMA CreateFailsInv == ASSUME NodeInv, NEW c \in Calls, CreateFails(c) PROVE NodeInv'
  <1> DEFINE q == call[c].req
             r == [ledger[q] EXCEPT !.status = "failed"]
  <1>1. /\ call[c].pc \in {"created", "put"} /\ Put(q, r, c)
        /\ call' = [call EXCEPT ![c].pc = "failing"]
        /\ UNCHANGED <<file, loop, task, busy>>
    BY DEF CreateFails
  <1>2. q \in Requests
    BY <1>1 DEF NodeInv, CallsBound, Held
  <1>3. /\ r \in Entry /\ r.status = "failed" /\ r.task = ledger[q].task /\ r # NoRecord
        /\ r.task \in DOMAIN task \cup {0}
    BY <1>2, Restated DEF Ended
  <1> HIDE DEF r
  <1>4. /\ call' \in [Calls -> CallRecord] /\ call'[c].pc = "failing" /\ call'[c].req = q
        /\ \A d \in Calls : d # c => call'[d] = call[d]
    BY <1>1, HandlerStep DEF NodeInv
  <1>5. TakesNoLock
    BY <1>1, <1>4 DEF TakesNoLock, DispatchPc
  <1>6. Held(c)'
    BY <1>2, <1>4 DEF Held
  <1>7. QED
    BY <1>1, <1>2, <1>3, <1>4, <1>5, <1>6, CallPutInv

LEMMA CancelRecordInv == ASSUME NodeInv, NEW c \in Calls, CancelRecord(c) PROVE NodeInv'
  <1> DEFINE q == call[c].req
             r == [ledger[q] EXCEPT !.status = "cancelled"]
  <1>1. /\ call[c].pc = "swapped" /\ Put(q, r, c)
        /\ call' = [call EXCEPT ![c].pc = "cancelled"]
        /\ UNCHANGED <<file, loop, task, busy>>
    BY DEF CancelRecord
  <1>2. q \in Requests /\ call[c].task \in DOMAIN task /\ task[call[c].task].status \in Ended
    BY <1>1 DEF NodeInv, CallsBound, Held
  <1>3. /\ r \in Entry /\ r.status = "cancelled" /\ r.task = ledger[q].task /\ r # NoRecord
        /\ r.task \in DOMAIN task \cup {0}
    BY <1>2, Restated DEF Ended
  <1> HIDE DEF r
  <1>4. /\ call' \in [Calls -> CallRecord] /\ call'[c].pc = "cancelled" /\ call'[c].req = q
        /\ call'[c].task = call[c].task
        /\ \A d \in Calls : d # c => call'[d] = call[d]
    BY <1>1, HandlerStep DEF NodeInv
  <1>5. TakesNoLock
    BY <1>1, <1>4 DEF TakesNoLock, DispatchPc
  <1>6. Held(c)'
    BY <1>1, <1>2, <1>4 DEF Held
  <1>7. QED
    BY <1>1, <1>2, <1>3, <1>4, <1>5, <1>6, CallPutInv

\* A step of the handlers only: what it must leave of the locks and of what the
\* handlers hold.
LEMMA CallOnlyInv ==
  ASSUME NodeInv, UNCHANGED <<ledger, file, writes, task, busy>>,
         call' \in [Calls -> CallRecord], TakesNoLock,
         \A d \in Calls : call'[d] = call[d] \/ (call'[d].pc # "put" /\ Held(d)'),
         loop' \in [Requests -> LoopRecord],
         \A q \in Requests : loop'[q] = loop[q] \/ Bound(q)'
  PROVE  NodeInv'
  <1>1. NodeTypeOK' /\ InOrder' /\ AllSound' /\ OneTaskPerRequest' /\ Advances
    BY AllSoundKept, SameTask DEF NodeInv, NodeTypeOK, InOrder, OneTaskPerRequest
  <1>2. OneHandler' /\ \A q \in Requests : Locked(q)' => Locked(q)
    BY LocksKept DEF NodeInv
  <1>3. WrittenFirst'
    BY PreparedKept DEF NodeInv, WrittenFirst, Recorded, Prepared
  <1>4. CallsBound'
    BY <1>1, HeldKept DEF NodeInv, CallsBound
  <1>5. LoopsBound'
    BY <1>1, <1>2, BoundKept DEF NodeInv, LoopsBound
  <1>6. QED
    BY <1>1, <1>2, <1>3, <1>4, <1>5 DEF NodeInv

LEMMA AnswerFacts ==
  ASSUME NEW t \in Nat, NEW a \in Answers
  PROVE  /\ Answer(t, a) \in CallRecord /\ Answer(t, a).pc = "answered"
         /\ Answer(t, a).task = t /\ Answer(t, a).answer = a
  BY DEF Answer, NoCall, CallRecord, Answers

\* Those that share the lock are all answered.
LEMMA AnsweredStep ==
  ASSUME NodeInv, NEW c \in Calls, NEW t \in Nat, NEW a \in Answers, a # "confirmed",
         Answered(c, t, a)
  PROVE  /\ call' \in [Calls -> CallRecord] /\ TakesNoLock
         /\ \A d \in Calls : call'[d] = call[d] \/ (call'[d].pc # "put" /\ Held(d)')
         /\ call'[c].pc = "answered"
  <1>1. call' \in [Calls -> CallRecord]
    BY AnsweredType DEF NodeInv
  <1>2. \A d \in Calls : call'[d] = IF d \in Sharing(c) THEN Answer(t, a) ELSE call[d]
    BY DEF Answered
  <1>3. c \in Sharing(c)
    BY DEF Sharing
  <1>4. ASSUME NEW d \in Calls
        PROVE  call'[d] = call[d] \/ (call'[d].pc = "answered" /\ call'[d].answer = a)
    BY <1>2, AnswerFacts
  <1>5. TakesNoLock
    BY <1>4 DEF TakesNoLock, DispatchPc
  <1>6. \A d \in Calls : call'[d] = call[d] \/ (call'[d].pc # "put" /\ Held(d)')
    BY <1>4 DEF Held
  <1>7. call'[c].pc = "answered"
    BY <1>2, <1>3, AnswerFacts
  <1>8. QED
    BY <1>1, <1>5, <1>6, <1>7

LEMMA AcceptInv == ASSUME NodeInv, NEW c \in Calls, Accept(c) PROVE NodeInv'
  <1>0. PICK q \in Requests : q = call[c].req
    BY DEF Accept, NodeInv, CallsBound, Held
  <1>1. /\ call[c].pc = "update" /\ Answered(c, call[c].task, "accepted")
        /\ loop' = [loop EXCEPT ![q].pc = "loop"]
        /\ UNCHANGED <<ledger, file, writes, task, busy>>
    BY <1>0 DEF Accept
  <1>2. q \in Requests /\ call[c].task \in DOMAIN task /\ call[c].task \in Nat
        /\ ledger[q].task = call[c].task
    BY <1>0, <1>1 DEF NodeInv, CallsBound, Held, NodeTypeOK
  <1>3. /\ call' \in [Calls -> CallRecord] /\ TakesNoLock
        /\ \A d \in Calls : call'[d] = call[d] \/ (call'[d].pc # "put" /\ Held(d)')
        /\ call'[c].pc = "answered"
    BY <1>1, <1>2, AnsweredStep DEF Answers
  <1>4. /\ loop' \in [Requests -> LoopRecord] /\ loop'[q].pc = "loop"
        /\ \A p \in Requests : p # q => loop'[p] = loop[p]
    BY <1>1, <1>2 DEF NodeInv, NodeTypeOK, LoopRecord
  <1>5. Bound(q)'
    <2>1. ~Locked(q)'
      <3> SUFFICES ASSUME NEW d \in Calls, call'[d].req = q, call'[d].pc \in DispatchPc
                   PROVE  FALSE
        BY DEF Locked
      <3>1. call[d].pc \in DispatchPc /\ call[d].req = q
        BY <1>3 DEF TakesNoLock
      <3>2. d = c
        BY <1>0, <1>1, <3>1 DEF NodeInv, OneHandler, DispatchPc
      <3>3. QED
        BY <1>3, <3>2 DEF DispatchPc
    <2>2. QED
      BY <1>1, <1>2, <1>4, <2>1 DEF Bound
  <1>6. QED
    BY <1>1, <1>3, <1>4, <1>5, CallOnlyInv

LEMMA RefuseInv == ASSUME NodeInv, NEW c \in Calls, Refuse(c) PROVE NodeInv'
  <1>1. /\ Answered(c, 0, "unavailable")
        /\ UNCHANGED <<ledger, file, writes, loop, task, busy>>
    BY DEF Refuse
  <1>2. /\ call' \in [Calls -> CallRecord] /\ TakesNoLock
        /\ \A d \in Calls : call'[d] = call[d] \/ (call'[d].pc # "put" /\ Held(d)')
    BY <1>1, AnsweredStep DEF Answers
  <1>3. loop' \in [Requests -> LoopRecord]
    BY <1>1 DEF NodeInv, NodeTypeOK
  <1>4. QED
    BY <1>1, <1>2, <1>3, CallOnlyInv

\* A handler that leaves for a record that holds no lock.
LEMMA OneCallInv ==
  ASSUME NodeInv, NEW c \in Calls, NEW r \in CallRecord, call' = [call EXCEPT ![c] = r],
         r.pc \notin DispatchPc, Held(c)', UNCHANGED <<ledger, file, writes, loop, task, busy>>
  PROVE  NodeInv'
  <1>1. /\ call' \in [Calls -> CallRecord] /\ call'[c] = r
        /\ \A d \in Calls : d # c => call'[d] = call[d]
    BY CallFacts DEF NodeInv
  <1>2. TakesNoLock
    BY <1>1 DEF TakesNoLock
  <1>3. \A d \in Calls : call'[d] = call[d] \/ (call'[d].pc # "put" /\ Held(d)')
    BY <1>1 DEF DispatchPc
  <1>4. loop' \in [Requests -> LoopRecord]
    BY DEF NodeInv, NodeTypeOK
  <1>5. QED
    BY <1>1, <1>2, <1>3, <1>4, CallOnlyInv

LEMMA HangUpInv ==
  ASSUME NodeInv, NEW c \in Calls, HangUp(c), UNCHANGED <<ledger, file, writes, loop, task, busy>>
  PROVE  NodeInv'
  <1>1. call' = [call EXCEPT ![c] = NoCall] /\ NoCall \in CallRecord /\ NoCall.pc = "idle"
    BY DEF HangUp, NoCall, CallRecord, Answers
  <1>2. call'[c] = NoCall
    BY <1>1, CallFacts DEF NodeInv
  <1>3. Held(c)' /\ NoCall.pc \notin DispatchPc
    BY <1>1, <1>2 DEF Held, DispatchPc
  <1>4. QED
    BY <1>1, <1>3, OneCallInv

LEMMA CancelDoneInv == ASSUME NodeInv, NEW c \in Calls, CancelDone(c) PROVE NodeInv'
  <1> DEFINE r == Answer(call[c].task, "confirmed")
  <1>1. /\ call[c].pc = "cancelled" /\ call' = [call EXCEPT ![c] = r]
        /\ UNCHANGED <<ledger, file, writes, loop, task, busy>>
    BY DEF CancelDone
  <1>2. /\ call[c].task \in DOMAIN task /\ call[c].task \in Nat
        /\ task[call[c].task].status \in Ended
    BY <1>1 DEF NodeInv, CallsBound, Held, NodeTypeOK
  <1>3. /\ r \in CallRecord /\ r.pc = "answered" /\ r.task = call[c].task
        /\ r.answer = "confirmed"
    BY <1>2, AnswerFacts DEF Answers
  <1> HIDE DEF r
  <1>4. call'[c] = r
    BY <1>1, <1>3, CallFacts DEF NodeInv
  <1>5. Held(c)' /\ r.pc \notin DispatchPc
    BY <1>1, <1>2, <1>3, <1>4 DEF Held, DispatchPc
  <1>6. QED
    BY <1>1, <1>3, <1>5, OneCallInv

\* A step of the tasks, the handlers and the loops, under the same ledger.
LEMMA TaskStepInv ==
  ASSUME NodeInv, UNCHANGED <<ledger, file, writes>>, busy' \in Int,
         task' \in Seq(TaskRow), DOMAIN task' = DOMAIN task, Advances,
         call' \in [Calls -> CallRecord], TakesNoLock,
         \A d \in Calls : call'[d] = call[d] \/ (call'[d].pc # "put" /\ Held(d)'),
         loop' \in [Requests -> LoopRecord],
         \A q \in Requests : loop'[q] = loop[q] \/ Bound(q)'
  PROVE  NodeInv'
  <1>1. NodeTypeOK' /\ InOrder' /\ AllSound' /\ OneTaskPerRequest' /\ Recorded'
    BY AllSoundKept, OneTaskKept, RecordedKept DEF NodeInv, NodeTypeOK, InOrder, WrittenFirst
  <1>2. OneHandler' /\ \A q \in Requests : Locked(q)' => Locked(q)
    BY LocksKept DEF NodeInv
  <1>3. WrittenFirst'
    <2>1. ASSUME NEW d \in Calls PROVE Prepared(d)'
      <3>1. CASE call'[d].pc # "put"
        BY <3>1 DEF Prepared
      <3>2. CASE call'[d] = call[d]
        BY <3>2 DEF Prepared, NodeInv, WrittenFirst, Advances
      <3>3. QED
        BY <3>1, <3>2
    <2>2. QED
      BY <1>1, <2>1 DEF WrittenFirst
  <1>4. CallsBound'
    BY HeldKept DEF NodeInv, CallsBound
  <1>5. LoopsBound'
    BY <1>2, BoundKept DEF NodeInv, LoopsBound
  <1>6. QED
    BY <1>1, <1>2, <1>3, <1>4, <1>5 DEF NodeInv

LEMMA CancelTaskInv == ASSUME NodeInv, NEW c \in Calls, CancelTask(c) PROVE NodeInv'
  <1> PICK t : t = call[c].task
    OBVIOUS
  <1> DEFINE s == IF task[t].status \in Live THEN "cancelled" ELSE task[t].status
  <1>1. /\ call[c].pc = "cancel" /\ call' = [call EXCEPT ![c].pc = "swapped"]
        /\ task' = [task EXCEPT ![t].status = s]
        /\ UNCHANGED <<ledger, file, writes, loop, busy>>
    BY DEF CancelTask
  <1>2. call[c].req \in Requests /\ t \in DOMAIN task
    BY <1>1 DEF NodeInv, CallsBound, Held
  <1>3. s \in Ended /\ s \in Live \cup Ended
    BY <1>2, TaskType DEF NodeInv, Live, Ended
  <1>4. task[t].status \in Ended => s = task[t].status
    BY DEF Live, Ended
  <1> HIDE DEF s
  <1>5. /\ task' \in Seq(TaskRow) /\ DOMAIN task' = DOMAIN task
        /\ \A u \in DOMAIN task : task'[u].req = task[u].req /\ (u # t => task'[u] = task[u])
        /\ task'[t].status = s
    <2>1. NodeTypeOK /\ task' = [task EXCEPT ![t].status = s]
      BY <1>1 DEF NodeInv
    <2>2. QED
      BY <1>2, <1>3, <2>1, StatusFacts, ZenonT(40)
  <1>6. Advances
    BY <1>4, <1>5 DEF Advances
  <1>7. /\ call' \in [Calls -> CallRecord] /\ call'[c].pc = "swapped"
        /\ call'[c].req = call[c].req /\ call'[c].task = t
        /\ \A d \in Calls : d # c => call'[d] = call[d]
    BY <1>1, HandlerStep DEF NodeInv
  <1>8. TakesNoLock
    BY <1>7 DEF TakesNoLock, DispatchPc
  <1>9. Held(c)'
    BY <1>2, <1>3, <1>5, <1>7 DEF Held
  <1>10. busy' \in Int /\ loop' \in [Requests -> LoopRecord]
    BY <1>1 DEF NodeInv, NodeTypeOK
  <1>11. QED
    BY <1>1, <1>5, <1>6, <1>7, <1>8, <1>9, <1>10, TaskStepInv

\* Steps of the loops leave the handlers alone.
LEMMA LoopOnlyInv ==
  ASSUME NodeInv, UNCHANGED <<ledger, file, writes, call>>, busy' \in Int,
         task' \in Seq(TaskRow), DOMAIN task' = DOMAIN task, Advances,
         loop' \in [Requests -> LoopRecord],
         \A q \in Requests : loop'[q] = loop[q] \/ Bound(q)'
  PROVE  NodeInv'
  <1>1. TakesNoLock
    BY DEF TakesNoLock
  <1>2. call' \in [Calls -> CallRecord]
    BY DEF NodeInv, NodeTypeOK
  <1>3. QED
    BY <1>1, <1>2, TaskStepInv

LEMMA LoopTakesInv == ASSUME NodeInv, NEW q \in Requests, LoopTakes(q) PROVE NodeInv'
  <1>1. PICK t \in DOMAIN task :
            /\ task[t].status = "queued"
            /\ task' = [task EXCEPT ![t].status = "running"]
            /\ loop' = [loop EXCEPT ![q].pc = "run", ![q].task = t]
    BY DEF LoopTakes
  <1>2. loop[q].pc = "loop" /\ busy' = busy + 1 /\ UNCHANGED <<ledger, file, writes, call>>
    BY DEF LoopTakes
  <1>3. /\ task' \in Seq(TaskRow) /\ DOMAIN task' = DOMAIN task
        /\ \A u \in DOMAIN task : task'[u].req = task[u].req /\ (u # t => task'[u] = task[u])
    BY <1>1, StatusFacts DEF NodeInv, Live
  <1>4. Advances
    BY <1>1, <1>3 DEF Advances, Ended
  <1>5. t \in Nat
    BY TaskType DEF NodeInv
  <1>6. /\ loop' \in [Requests -> LoopRecord] /\ loop'[q].pc = "run" /\ loop'[q].task = t
        /\ \A p \in Requests : p # q => loop'[p] = loop[p]
    BY <1>1, <1>5 DEF NodeInv, NodeTypeOK, LoopRecord
  <1>7. Bound(q)'
    BY <1>2, <1>3, <1>6 DEF NodeInv, LoopsBound, Bound, Locked
  <1>8. busy' \in Int
    BY <1>2 DEF NodeInv, NodeTypeOK
  <1>9. QED
    BY <1>2, <1>3, <1>4, <1>6, <1>7, <1>8, LoopOnlyInv

LEMMA LoopEndsTaskInv == ASSUME NodeInv, NEW q \in Requests, LoopEndsTask(q) PROVE NodeInv'
  <1> PICK t : t = loop[q].task
    OBVIOUS
  <1>1. PICK outcome \in {"completed", "failed"} :
            task' = [task EXCEPT ![t].status = IF @ = "running" THEN outcome ELSE @]
    BY DEF LoopEndsTask
  <1>2. /\ loop[q].pc = "run" /\ busy' = busy - 1 /\ UNCHANGED <<ledger, file, writes, call>>
        /\ loop' = [loop EXCEPT ![q].pc = "loop", ![q].task = 0]
    BY DEF LoopEndsTask
  <1> DEFINE s == IF task[t].status = "running" THEN outcome ELSE task[t].status
  <1>3. t \in DOMAIN task
    BY <1>2 DEF NodeInv, LoopsBound, Bound
  <1>4. s \in Live \cup Ended /\ (task[t].status \in Ended => s = task[t].status)
    BY <1>3, TaskType DEF NodeInv, Live, Ended
  <1>5. task' = [task EXCEPT ![t].status = s]
    BY <1>1
  <1> HIDE DEF s
  <1>6. /\ task' \in Seq(TaskRow) /\ DOMAIN task' = DOMAIN task
        /\ \A u \in DOMAIN task : task'[u].req = task[u].req /\ (u # t => task'[u] = task[u])
        /\ task'[t].status = s
    BY <1>3, <1>4, <1>5, StatusFacts DEF NodeInv
  <1>7. Advances
    BY <1>4, <1>6 DEF Advances
  <1>8. /\ loop' \in [Requests -> LoopRecord] /\ loop'[q].pc = "loop"
        /\ \A p \in Requests : p # q => loop'[p] = loop[p]
    BY <1>2 DEF NodeInv, NodeTypeOK, LoopRecord
  <1>9. Bound(q)'
    BY <1>2, <1>6, <1>8 DEF NodeInv, LoopsBound, Bound, Locked
  <1>10. busy' \in Int
    BY <1>2 DEF NodeInv, NodeTypeOK
  <1>11. QED
    BY <1>2, <1>6, <1>7, <1>8, <1>9, <1>10, LoopOnlyInv

LEMMA LoopIdleInv == ASSUME NodeInv, NEW q \in Requests, LoopIdle(q) PROVE NodeInv'
  <1> PICK s : s = task[ledger[q].task].status
    OBVIOUS
  <1>1. /\ loop[q].pc = "loop" /\ UNCHANGED <<ledger, file, writes, call, task, busy>>
        /\ loop' = [loop EXCEPT ![q].pc = "ended", ![q].seen = s]
    BY DEF LoopIdle
  <1>2. ledger[q].task \in DOMAIN task
    BY <1>1 DEF NodeInv, LoopsBound, Bound
  <1>3. s \in Live \cup Ended /\ s # "none"
    BY <1>2, TaskType DEF NodeInv, Live, Ended
  <1>4. /\ loop' \in [Requests -> LoopRecord] /\ loop'[q].pc = "ended" /\ loop'[q].seen = s
        /\ \A p \in Requests : p # q => loop'[p] = loop[p]
    BY <1>1, <1>3 DEF NodeInv, NodeTypeOK, LoopRecord
  <1>5. Bound(q)'
    BY <1>1, <1>2, <1>3, <1>4 DEF NodeInv, LoopsBound, Bound, Locked
  <1>6. busy' \in Int /\ task' \in Seq(TaskRow) /\ DOMAIN task' = DOMAIN task /\ Advances
    BY <1>1, SameTask DEF NodeInv, NodeTypeOK
  <1>7. QED
    BY <1>1, <1>4, <1>5, <1>6, LoopOnlyInv

\* The loop of request q writes the status s of its entry and is over.
LEMMA LoopPutInv ==
  ASSUME NodeInv, NEW q \in Requests, loop[q].pc # "none",
         NEW s \in Ended \cup {"accepted", "running"},
         s = "completed" => task[ledger[q].task].status = "completed",
         Put(q, [ledger[q] EXCEPT !.status = s], q), loop' = [loop EXCEPT ![q] = NoLoop],
         UNCHANGED <<file, call, task, busy>>
  PROVE  NodeInv'
  <1> DEFINE r == [ledger[q] EXCEPT !.status = s]
  <1>1. /\ r \in Entry /\ r.status = s /\ r.task = ledger[q].task /\ r # NoRecord
        /\ r.task \in DOMAIN task
    <2>1. ledger[q].task \in DOMAIN task
      BY DEF NodeInv, LoopsBound, Bound
    <2>2. ledger[q] \in Entry
      BY EntryType DEF NodeInv, NodeTypeOK
    <2>3. QED
      BY <2>1, <2>2 DEF Entry, NoRecord, Ended
  <1>2. Put(q, r, q)
    OBVIOUS
  <1>3. r.task # 0
    BY <1>1, TaskType DEF NodeInv
  <1> HIDE DEF r
  <1>4. /\ InOrder' /\ AllSound' /\ Recorded' /\ OneTaskPerRequest' /\ Advances
        /\ \A d \in Calls : call'[d] = call[d] => Prepared(d)'
    BY <1>1, <1>2, <1>3, PutKeeps
  <1>5. /\ ledger' \in Entries /\ ledger'[q] = r /\ writes' \in Seq(Snapshot)
        /\ \A p \in Requests : p # q => ledger'[p] = ledger[p]
    BY <1>1, <1>2, PutFacts DEF NodeInv
  <1>6. \A p \in Requests : ledger'[p].task = ledger[p].task
    BY <1>1, <1>5
  <1>7. /\ loop' \in [Requests -> LoopRecord] /\ loop'[q].pc = "none"
        /\ \A p \in Requests : p # q => loop'[p] = loop[p]
    BY DEF NodeInv, NodeTypeOK, NoLoop, LoopRecord
  <1>8. NodeTypeOK'
    BY <1>5, <1>7 DEF NodeInv, NodeTypeOK
  <1>9. OneHandler' /\ \A p \in Requests : Locked(p)' => Locked(p)
    BY DEF NodeInv, OneHandler, Locked
  <1>10. LoopsBound'
    <2>1. ASSUME NEW p \in Requests PROVE Bound(p)'
      <3>1. CASE p = q
        BY <1>7, <3>1 DEF Bound
      <3>2. CASE p # q
        BY <1>4, <1>6, <1>7, <1>9, <3>2, BoundKept DEF NodeInv, LoopsBound
      <3>3. QED
        BY <3>1, <3>2
    <2>2. QED
      BY <2>1 DEF LoopsBound
  <1>11. CallsBound'
    <2>1. ASSUME NEW d \in Calls PROVE Held(d)'
      <3>1. call[d].pc = "update" => call[d].req \in Requests
        BY DEF NodeInv, CallsBound, Held
      <3>2. QED
        BY <1>4, <1>6, <3>1, HeldKept DEF NodeInv, CallsBound
    <2>2. QED
      BY <2>1 DEF CallsBound
  <1>12. QED
    BY <1>4, <1>8, <1>9, <1>10, <1>11 DEF NodeInv, WrittenFirst

LEMMA LoopRecordsInv == ASSUME NodeInv, NEW q \in Requests, LoopRecords(q) PROVE NodeInv'
  <1> DEFINE s == IF loop[q].seen = "queued" THEN "failed" ELSE loop[q].seen
  <1>1. /\ loop[q].pc = "ended" /\ Put(q, [ledger[q] EXCEPT !.status = s], q)
        /\ loop' = [loop EXCEPT ![q] = NoLoop] /\ UNCHANGED <<file, call, task, busy>>
    BY DEF LoopRecords
  <1>2. loop[q].seen \in Live \cup Ended
    BY <1>1 DEF NodeInv, NodeTypeOK, LoopRecord, LoopsBound, Bound
  <1>3. /\ s \in Ended \cup {"accepted", "running"}
        /\ s = "completed" => task[ledger[q].task].status = "completed"
    BY <1>1, <1>2 DEF Live, Ended, NodeInv, LoopsBound, Bound
  <1> HIDE DEF s
  <1>4. QED
    BY <1>1, <1>3, LoopPutInv

LEMMA LoopFailsInv == ASSUME NodeInv, NEW q \in Requests, LoopFails(q) PROVE NodeInv'
  <1>1. /\ loop[q].pc # "none" /\ Put(q, [ledger[q] EXCEPT !.status = "failed"], q)
        /\ loop' = [loop EXCEPT ![q] = NoLoop] /\ UNCHANGED <<file, call, task, busy>>
    BY DEF LoopFails
  <1>2. "failed" \in Ended \cup {"accepted", "running"} /\ "failed" # "completed"
    BY DEF Ended
  <1>3. QED
    BY <1>1, <1>2, LoopPutInv

LEMMA CancelCallInv ==
  ASSUME NodeInv, NEW c \in Calls, NEW t \in DOMAIN task, CancelCall(c, t)
  PROVE  NodeInv'
  <1>1. UNCHANGED <<ledger, file, writes, loop, task, busy>>
    BY DEF CancelCall
  <1>2. t \in Nat /\ t # 0
    BY TaskType DEF NodeInv
  <1>3. CASE Owners(t) = {}
    <2> DEFINE r == Answer(t, "unknown")
    <2>1. call' = [call EXCEPT ![c] = r]
      BY <1>3 DEF CancelCall
    <2>2. r \in CallRecord /\ r.pc = "answered" /\ r.answer = "unknown"
      BY <1>2, AnswerFacts DEF Answers
    <2> HIDE DEF r
    <2>3. call'[c] = r
      BY <2>1, <2>2, CallFacts DEF NodeInv
    <2>4. Held(c)' /\ r.pc \notin DispatchPc
      BY <2>2, <2>3 DEF Held, DispatchPc
    <2>5. QED
      BY <1>1, <2>1, <2>2, <2>4, OneCallInv
  <1>4. CASE Owners(t) # {}
    <2> PICK q : q = CHOOSE p \in Owners(t) : TRUE
      OBVIOUS
    <2>1. q \in Requests /\ ledger[q].task = t
      BY <1>4 DEF Owners
    <2>2. CASE Reported(q) \in Ended
      <3> DEFINE a == IF Reported(q) = "cancelled" THEN "confirmed" ELSE Reported(q)
                 r == Answer(t, a)
      <3>1. call' = [call EXCEPT ![c] = r]
        BY <1>4, <2>2 DEF CancelCall
      <3>2. a \in Answers
        BY <2>2 DEF Ended, Answers
      <3>3. a = "confirmed" => task[t].status \in Ended
        BY <1>2, <2>1, <2>2 DEF Reported, Ended
      <3> HIDE DEF a
      <3>4. r \in CallRecord /\ r.pc = "answered" /\ r.answer = a /\ r.task = t
        BY <1>2, <3>2, AnswerFacts
      <3> HIDE DEF r
      <3>5. call'[c] = r
        BY <3>1, <3>4, CallFacts DEF NodeInv
      <3>6. Held(c)' /\ r.pc \notin DispatchPc
        BY <1>1, <3>3, <3>4, <3>5 DEF Held, DispatchPc
      <3>7. QED
        BY <1>1, <3>1, <3>4, <3>6, OneCallInv
    <2>3. CASE Reported(q) \notin Ended
      <3> DEFINE r == [NoCall EXCEPT !.pc = "cancel", !.req = q, !.task = t]
      <3>1. call' = [call EXCEPT ![c] = r]
        BY <1>4, <2>3 DEF CancelCall
      <3>2. r \in CallRecord /\ r.pc = "cancel" /\ r.req = q /\ r.task = t
        BY <1>2, <2>1 DEF NoCall, CallRecord, Answers
      <3> HIDE DEF r
      <3>3. call'[c] = r
        BY <3>1, <3>2, CallFacts DEF NodeInv
      <3>4. Held(c)' /\ r.pc \notin DispatchPc
        BY <1>1, <2>1, <3>2, <3>3 DEF Held, DispatchPc
      <3>5. QED
        BY <1>1, <3>1, <3>2, <3>4, OneCallInv
    <2>4. QED
      BY <2>2, <2>3
  <1>5. QED
    BY <1>3, <1>4

\* A new request: nobody holds its lock, no loop runs for it and no task was created.
LEMMA NewRequest ==
  ASSUME NodeInv, NEW q \in Requests, ledger[q] = NoRecord
  PROVE  loop[q].pc = "none" /\ \A t \in DOMAIN task : task[t].req # q
  <1>1. loop[q].pc = "none"
    <2>1. ledger[q].task = 0
      BY DEF NoRecord
    <2>2. 0 \notin DOMAIN task
      BY TaskType DEF NodeInv
    <2>3. QED
      BY <2>1, <2>2 DEF NodeInv, LoopsBound, Bound
  <1>2. \A t \in DOMAIN task : task[t].req # q
    BY DEF NodeInv, InOrder, WrittenFirst, Recorded
  <1>3. QED
    BY <1>1, <1>2

LEMMA DispatchInv ==
  ASSUME NodeInv, NEW c \in Calls, NEW q \in Requests, NEW b \in Bodies, Dispatch(c, q, b)
  PROVE  NodeInv'
  <1> DEFINE new == [NoCall EXCEPT !.pc = "put", !.req = q]
             follow == [new EXCEPT !.pc = "follow"]
             r == [status |-> "accepted", body |-> b, task |-> 0]
  <1>1. call[c].pc = "idle" /\ UNCHANGED <<file, loop, task, busy>>
    BY DEF Dispatch
  <1>2. /\ new \in CallRecord /\ new.pc = "put" /\ new.req = q
        /\ follow \in CallRecord /\ follow.pc = "follow" /\ follow.req = q
    BY DEF NoCall, CallRecord, Answers
  <1>3. r \in Entry /\ r # NoRecord /\ r.task = 0 /\ r.status = "accepted"
    BY DEF Entry, NoRecord
  <1>4. \/ Locked(q) /\ call' = [call EXCEPT ![c] = follow] /\ UNCHANGED <<ledger, writes>>
        \/ /\ call' = [call EXCEPT ![c] = IF ledger[q].body = b
                                          THEN Answer(ledger[q].task, Reported(q))
                                          ELSE Answer(0, "conflict")]
           /\ UNCHANGED <<ledger, writes>>
        \/ /\ ~Locked(q) /\ ledger[q] = NoRecord /\ call' = [call EXCEPT ![c] = new]
           /\ Put(q, r, c)
    BY DEF Dispatch
  <1> HIDE DEF new, follow, r
  <1>5. CASE call' = [call EXCEPT ![c] = follow] /\ UNCHANGED <<ledger, writes>>
    <2>1. call'[c] = follow
      BY <1>2, <1>5, CallFacts DEF NodeInv
    <2>2. Held(c)' /\ follow.pc \notin DispatchPc
      BY <1>2, <2>1 DEF Held, DispatchPc
    <2>3. QED
      BY <1>1, <1>2, <1>5, <2>2, OneCallInv
  <1>6. ASSUME NEW t \in Nat, NEW a \in Answers, a # "confirmed",
               call' = [call EXCEPT ![c] = Answer(t, a)], UNCHANGED <<ledger, writes>>
        PROVE  NodeInv'
    <2>1. Answer(t, a) \in CallRecord /\ Answer(t, a).pc = "answered" /\ Answer(t, a).answer = a
      BY <1>6, AnswerFacts
    <2>2. call'[c] = Answer(t, a)
      BY <1>6, <2>1, CallFacts DEF NodeInv
    <2>3. Held(c)' /\ Answer(t, a).pc \notin DispatchPc
      BY <1>6, <2>1, <2>2 DEF Held, DispatchPc
    <2>4. QED
      BY <1>1, <1>6, <2>1, <2>3, OneCallInv
  <1>7. CASE /\ call' = [call EXCEPT ![c] = IF ledger[q].body = b
                                            THEN Answer(ledger[q].task, Reported(q))
                                            ELSE Answer(0, "conflict")]
             /\ UNCHANGED <<ledger, writes>>
    <2>1. ledger[q].task \in Nat
      BY EntryType DEF NodeInv, NodeTypeOK
    <2>2. Reported(q) \in Answers /\ Reported(q) # "confirmed"
      BY ReportedType DEF NodeInv, Answers
    <2>3. "conflict" \in Answers /\ 0 \in Nat
      BY DEF Answers
    <2>4. CASE ledger[q].body = b
      BY <1>6, <1>7, <2>1, <2>2, <2>4
    <2>5. CASE ledger[q].body # b
      BY <1>6, <1>7, <2>3, <2>5
    <2>6. QED
      BY <2>4, <2>5
  <1>8. CASE /\ ~Locked(q) /\ ledger[q] = NoRecord /\ call' = [call EXCEPT ![c] = new]
             /\ Put(q, r, c)
    <2>1. /\ InOrder' /\ AllSound' /\ Recorded' /\ OneTaskPerRequest' /\ Advances
          /\ \A d \in Calls : call'[d] = call[d] => Prepared(d)'
      BY <1>1, <1>3, <1>8, PutKeeps
    <2>2. /\ ledger' \in Entries /\ ledger'[q] = r /\ writes' \in Seq(Snapshot)
          /\ \A p \in Requests : p # q => ledger'[p] = ledger[p]
          /\ Len(writes) + 1 \in DOMAIN writes'
          /\ writes'[Len(writes) + 1] = [by |-> c, entries |-> ledger']
      BY <1>3, <1>8, PutFacts DEF NodeInv
    <2>3. call' \in [Calls -> CallRecord] /\ call'[c] = new
          /\ \A d \in Calls : d # c => call'[d] = call[d]
      BY <1>2, <1>8, CallFacts DEF NodeInv
    <2>4. NodeTypeOK'
      BY <1>1, <2>2, <2>3 DEF NodeInv, NodeTypeOK
    <2>5. Prepared(c)'
      <3>1. \A t \in DOMAIN task' : task'[t].req # q
        BY <1>1, <1>8, NewRequest
      <3>2. \E i \in DOMAIN writes' : writes'[i].by = c /\ writes'[i].entries[q] # NoRecord
        BY <1>3, <2>2
      <3>3. QED
        BY <1>2, <2>3, <3>1, <3>2 DEF Prepared
    <2>6. WrittenFirst'
      BY <2>1, <2>3, <2>5 DEF WrittenFirst
    <2>7. OneHandler'
      BY <1>2, <1>8, <2>3 DEF NodeInv, OneHandler, Locked
    <2>8. LoopsBound'
      <3>1. ASSUME NEW p \in Requests PROVE Bound(p)'
        <4>1. CASE p = q
          BY <1>1, <1>8, <4>1, NewRequest DEF Bound
        <4>2. CASE p # q
          <5>1. Locked(p)' => Locked(p)
            BY <1>2, <2>3, <4>2 DEF Locked
          <5>2. QED
            BY <1>1, <2>1, <2>2, <4>2, <5>1, BoundKept DEF NodeInv, LoopsBound
        <4>3. QED
          BY <4>1, <4>2
      <3>2. QED
        BY <3>1 DEF LoopsBound
    <2>9. CallsBound'
      <3>1. ASSUME NEW d \in Calls PROVE Held(d)'
        <4>1. CASE d = c
          BY <1>2, <2>3, <4>1 DEF Held
        <4>2. CASE d # c
          <5>1. call[d].pc = "update" => call[d].req \in Requests /\ call[d].req # q
            BY <1>8 DEF NodeInv, CallsBound, Held, Locked, DispatchPc
          <5>2. QED
            BY <2>1, <2>2, <2>3, <4>2, <5>1, HeldKept DEF NodeInv, CallsBound
        <4>3. QED
          BY <4>1, <4>2
      <3>2. QED
        BY <3>1 DEF CallsBound
    <2>10. QED
      BY <2>1, <2>4, <2>6, <2>7, <2>8, <2>9 DEF NodeInv
  <1>9. QED
    BY <1>4, <1>5, <1>7, <1>8

\* What survives a restart is the file, with the active entries marked failed.
LEMMA RestartInv == ASSUME NodeInv, Restart PROVE NodeInv'
  <1>1. /\ ledger' = Interrupted(file) /\ file' = ledger' /\ writes' = <<>>
        /\ call' = [c \in Calls |-> NoCall] /\ loop' = [q \in Requests |-> NoLoop]
        /\ busy' = 0 /\ task' = task
    BY DEF Restart
  <1>2. ASSUME NEW q \in Requests
        PROVE  /\ ledger'[q] \in Entry /\ ledger'[q].task = file[q].task
               /\ ledger'[q].status = "completed" => file[q].status = "completed"
               /\ file[q] # NoRecord => ledger'[q] # NoRecord
    <2>1. file[q] \in Entry
      BY EntryType DEF NodeInv, NodeTypeOK
    <2>2. ledger'[q] = IF file[q].status \in {"accepted", "running"}
                       THEN [file[q] EXCEPT !.status = "failed"] ELSE file[q]
      BY <1>1 DEF Interrupted
    <2>3. CASE file[q].status \in {"accepted", "running"}
      BY <2>1, <2>2, <2>3 DEF Entry, NoRecord, Ended
    <2>4. CASE file[q].status \notin {"accepted", "running"}
      BY <2>1, <2>2, <2>4
    <2>5. QED
      BY <2>3, <2>4
  <1>3. ledger' \in Entries
    <2>1. ledger' = [q \in Requests |-> ledger'[q]]
      BY <1>1 DEF Interrupted
    <2>2. QED
      BY <1>2, <2>1 DEF Entries
  <1>4. writes' \in Seq(Snapshot) /\ DOMAIN writes' = {}
    BY <1>1
  <1>5. /\ \A c \in Calls : call'[c] = NoCall /\ call'[c].pc = "idle"
        /\ \A q \in Requests : loop'[q] = NoLoop /\ loop'[q].pc = "none"
        /\ NoCall \in CallRecord /\ NoLoop \in LoopRecord
    BY <1>1 DEF NoCall, NoLoop, CallRecord, LoopRecord, Answers
  <1>6. NodeTypeOK'
    BY <1>1, <1>3, <1>4, <1>5 DEF NodeInv, NodeTypeOK
  <1>7. InOrder'
    BY <1>1, <1>4 DEF InOrder
  <1>8. WrittenFirst'
    <2>1. Recorded'
      BY <1>1, <1>2, TaskType DEF NodeInv, WrittenFirst, Recorded
    <2>2. QED
      BY <1>5, <2>1 DEF WrittenFirst, Prepared
  <1>9. OneHandler' /\ LoopsBound' /\ CallsBound' /\ OneTaskPerRequest'
    BY <1>1, <1>5 DEF NodeInv, OneHandler, DispatchPc, LoopsBound, Bound, CallsBound, Held,
       OneTaskPerRequest
  <1>10. AllSound'
    <2>1. Sound(ledger)'
      BY <1>1, <1>2 DEF NodeInv, AllSound, Sound
    <2>2. QED
      BY <1>1, <1>4, <2>1 DEF AllSound, Sound
  <1>11. QED
    BY <1>6, <1>7, <1>8, <1>9, <1>10 DEF NodeInv

LEMMA NextInv == NodeInv /\ [NodeNext]_<<node, faults>> => NodeInv'
  <1> SUFFICES ASSUME NodeInv, [NodeNext]_<<node, faults>> PROVE NodeInv'
    OBVIOUS
  <1>1. CASE NodeStep
    BY <1>1, WrittenInv, CreateInv, BindInv, AcceptInv, RefuseInv, CancelTaskInv,
       CancelRecordInv, CancelDoneInv, LoopTakesInv, LoopEndsTaskInv, LoopIdleInv,
       LoopRecordsInv DEF NodeStep
  <1>2. CASE NodeFaults
    BY <1>2, CreateFailsInv, LoopFailsInv, RestartInv DEF NodeFaults
  <1>3. CASE Clients
    BY <1>3, DispatchInv, CancelCallInv, HangUpInv DEF Clients
  <1>4. CASE UNCHANGED <<node, faults>>
    BY <1>4 DEF node, NodeInv, NodeTypeOK, InOrder, WrittenFirst, Recorded, Prepared,
       OneHandler, AllSound, Sound, LoopsBound, Bound, Locked, CallsBound, Held,
       OneTaskPerRequest
  <1>5. QED
    BY <1>1, <1>2, <1>3, <1>4 DEF NodeNext

LEMMA Invariance == NodeSpec => []NodeInv
  BY InitInv, NextInv, PTL DEF NodeSpec

-----------------------------------------------------------------------------
(* The theorems *)

\* Every variable has its type (worker-node-server.js, WorkerNodeDispatchStore).
THEOREM TypeCorrect == NodeSpec => []NodeTypeOK
  <1>1. NodeInv => NodeTypeOK
    BY DEF NodeInv
  <1>2. QED
    BY <1>1, Invariance, PTL

\* However often a request is dispatched, and wherever the node stops between the
\* ledger and the task store, one task at most is created for it
\* (WorkerNodeServer.dispatch).
THEOREM OneTaskPerRequestTheorem == NodeSpec => []OneTaskPerRequest
  <1>1. NodeInv => OneTaskPerRequest
    BY DEF NodeInv
  <1>2. QED
    BY <1>1, Invariance, PTL

\* The ledger says completed only of a task that is (execute, update).
THEOREM LedgerTruthfulTheorem == NodeSpec => []LedgerTruthful
  <1>1. NodeInv => LedgerTruthful
    BY DEF NodeInv, AllSound, Sound, LedgerTruthful
  <1>2. QED
    BY <1>1, Invariance, PTL

\* A confirmed cancellation is one of a task that has ended (cancel).
THEOREM ConfirmedIsOverTheorem == NodeSpec => []ConfirmedIsOver
  <1>1. NodeInv => ConfirmedIsOver
    BY DEF NodeInv, CallsBound, Held, ConfirmedIsOver
  <1>2. QED
    BY <1>1, Invariance, PTL

\* Whichever of a loop, a cancellation and a restart comes last, a task that has
\* ended stays as it ended, and no task is lost (Orchestrator.runOne and cancel, as the
\* node calls them).
THEOREM TasksOnlyAdvance == NodeSpec => [][Advances]_<<node, faults>>
  <1>1. NodeInv /\ [NodeNext]_<<node, faults>> => Advances
    <2> SUFFICES ASSUME NodeInv, [NodeNext]_<<node, faults>> PROVE Advances
      OBVIOUS
    <2>1. CASE task' = task
      BY <2>1, SameTask
    <2>2. ASSUME NEW c \in Calls, Create(c) PROVE Advances
      <3> DEFINE new == [req |-> call[c].req, status |-> "queued"]
      <3>1. call[c].req \in Requests /\ task' = Append(task, new)
        BY <2>2 DEF Create, NodeInv, CallsBound, Held
      <3>2. new \in TaskRow /\ task \in Seq(TaskRow)
        BY <3>1 DEF TaskRow, Live, NodeInv, NodeTypeOK
      <3> HIDE DEF new
      <3>3. \A t \in DOMAIN task : t \in DOMAIN task' /\ task'[t] = task[t]
        BY <3>1, <3>2, AppendFacts
      <3>4. QED
        BY <3>3 DEF Advances
    <2>3. ASSUME NEW t \in DOMAIN task, NEW s \in Live \cup Ended,
                 task[t].status \in Ended => s = task[t].status,
                 task' = [task EXCEPT ![t].status = s]
          PROVE  Advances
      BY <2>3, StatusFacts DEF NodeInv, Advances
    <2>4. ASSUME NEW c \in Calls, CancelTask(c) PROVE Advances
      <3> DEFINE t == call[c].task
                 s == IF task[t].status \in Live THEN "cancelled" ELSE task[t].status
      <3>1. t \in DOMAIN task /\ task' = [task EXCEPT ![t].status = s]
        BY <2>4 DEF CancelTask, NodeInv, CallsBound, Held
      <3>2. s \in Live \cup Ended /\ (task[t].status \in Ended => s = task[t].status)
        BY <3>1, TaskType DEF NodeInv, Live, Ended
      <3>3. QED
        BY <2>3, <3>1, <3>2
    <2>5. ASSUME NEW q \in Requests, LoopTakes(q) PROVE Advances
      <3>1. PICK t \in DOMAIN task :
                task[t].status = "queued" /\ task' = [task EXCEPT ![t].status = "running"]
        BY <2>5 DEF LoopTakes
      <3>2. QED
        BY <2>3, <3>1 DEF Live, Ended
    <2>6. ASSUME NEW q \in Requests, LoopEndsTask(q) PROVE Advances
      <3> DEFINE t == loop[q].task
      <3>1. PICK outcome \in {"completed", "failed"} :
                task' = [task EXCEPT ![t].status = IF @ = "running" THEN outcome ELSE @]
        BY <2>6 DEF LoopEndsTask
      <3> DEFINE s == IF task[t].status = "running" THEN outcome ELSE task[t].status
      <3>2. t \in DOMAIN task
        BY <2>6 DEF LoopEndsTask, NodeInv, LoopsBound, Bound
      <3>3. s \in Live \cup Ended /\ (task[t].status \in Ended => s = task[t].status)
        BY <3>2, TaskType DEF NodeInv, Live, Ended
      <3>4. QED
        BY <2>3, <3>1, <3>2, <3>3
    <2>7. CASE UNCHANGED <<node, faults>>
      BY <2>7, SameTask DEF node
    <2>8. QED
      BY <2>1, <2>2, <2>4, <2>5, <2>6, <2>7
         DEF NodeNext, NodeStep, NodeFaults, Clients, Written, Bind, Accept, Refuse,
             CancelRecord, CancelDone, LoopIdle, LoopRecords, CreateFails, LoopFails, Restart,
             Dispatch, CancelCall, HangUp
  <1>2. QED
    BY <1>1, Invariance, PTL DEF NodeSpec

-----------------------------------------------------------------------------
(* The inductive invariant of the data directory's life *)

Leftover == [kind : Kind, stop : Nat]
Versions == [Files -> Nat]
DirectoryRecord ==
    [exists : BOOLEAN, reg : Registry, active : BOOLEAN, txn : BOOLEAN, torn : BOOLEAN,
     scratch : SUBSET Leftover, data : Versions]
MigrationPc ==
    {"idle", "inspect", "marker", "stage", "restage", "move", "unmark", "undo", "cleanup",
     "done", "failed"}
MigrationRecord == [pc : MigrationPc, new : BOOLEAN, moved : SUBSET Agents]
RecoveryRecord ==
    [pc : {"idle", "move", "publish", "rollback"}, left : SUBSET Leftover,
     moved : SUBSET Leftover, kept : SUBSET Leftover]
BackupRecord ==
    [pc : {"idle", "list", "copy", "compare", "relist"}, todo : SUBSET Files,
     names : SUBSET Files, again : SUBSET Files, copy : Versions, active : BOOLEAN,
     torn : BOOLEAN]
BundleRecord == [files : Versions, active : BOOLEAN, torn : BOOLEAN, made : BOOLEAN]
\* The steps of a restore once the directory it found is set aside, or there was none.
Replacing == {"install", "validate", "discard", "clear", "back", "again", "last"}
RestoreRecord ==
    [pc : {"idle", "copy", "aside"} \cup Replacing, had : BOOLEAN, prior : DirectoryRecord]

\* The files of the data directory and the locals of the commands have their types.
LivesTypeOK ==
    /\ reg \in Registry /\ mig \in MigrationRecord /\ failures \in Nat
    /\ exists \in BOOLEAN /\ active \in BOOLEAN /\ txn \in BOOLEAN /\ torn \in BOOLEAN
    /\ scratch \in SUBSET Leftover /\ proc \in {"down", "migrating", "ensuring", "up"}
    /\ rec \in RecoveryRecord /\ staged \in SUBSET Leftover
    /\ quarantine \in SUBSET Leftover /\ evidence \in SUBSET Leftover

TransferTypeOK ==
    /\ data \in Versions /\ versions \in Nat /\ backup \in BackupRecord
    /\ bundle \in BundleRecord /\ restore \in RestoreRecord
    /\ siblings \in SUBSET DirectoryRecord /\ seen \in SUBSET Versions

LifeTypeOK == LivesTypeOK /\ TransferTypeOK

\* The commands that change the directory exclude one another: recovery and restore
\* run with the runtime down, and a restore with no backup beside it.
OneCommand ==
    /\ proc # "down" => rec.pc = "idle" /\ restore = NoRestore
    /\ restore.pc # "idle" => rec.pc = "idle" /\ backup.pc = "idle"
    /\ proc # "migrating" => mig = NoMigration
    /\ proc # "down" \/ rec.pc # "idle" => exists

\* No computer has two directories, in the data directory and in the one that a restore
\* may move back; a migration that is through has left one directory per computer.
OneProfile ==
    /\ \A a \in Agents : reg.dirs[a] # "both" /\ restore.prior.reg.dirs[a] # "both"
    /\ mig.pc = "unmark" => Committed(reg) /\ Legacy(reg) = {}
    /\ mig.pc = "done" =>
        Legacy(reg) = {} /\ reg.marker = "none" /\ (Committed(reg) \/ reg.state = "missing")
    /\ proc \in {"ensuring", "up"} => Committed(reg) /\ Legacy(reg) = {} /\ reg.marker = "none"

\* What a runtime finds when it starts is clean: its leftovers are its own, and older
\* than any later runtime's.
OwnScratch ==
    /\ ~exists \/ proc \in {"migrating", "ensuring"} \/ restore.pc \in Replacing => scratch = {}
    /\ proc = "up" => \A s \in scratch : s.stop = failures
    /\ \A s \in evidence : s.stop < failures

\* The directory that a restore found is here until it is set aside, and set aside
\* until it is moved back or discarded.
PriorKept ==
    /\ restore.had = restore.prior.exists
    /\ restore.pc \in {"copy", "aside"} => restore.prior = Here
    /\ restore.pc \in {"aside", "discard", "back", "again", "last"} => restore.had
    /\ restore.pc \in Replacing /\ restore.had => restore.prior \in siblings
    /\ RestoreKeepsState

\* A version number is used once, and a file that is present stays so while a backup runs.
VersionsGrow ==
    /\ data \in seen
    /\ \A f \in Files : /\ data[f] <= versions /\ bundle.files[f] <= versions
                        /\ restore.prior.data[f] <= versions

\* What the core files were when the last of them had been copied: later checks can
\* only confirm that a copy is of that moment.
Moment(snap) ==
    \A f \in Files :
        /\ backup.copy[f] <= snap[f] /\ snap[f] <= data[f]
        /\ f \notin backup.names => backup.copy[f] = 0
        /\ f \in backup.names /\ (backup.pc = "compare" => f \notin backup.todo) =>
            snap[f] = backup.copy[f]
        /\ backup.pc = "relist" /\ f \notin backup.todo /\ f \notin backup.again => snap[f] = 0

CopyIsOfOneMoment ==
    /\ backup.pc = "list" => backup.copy = Absent
    /\ backup.pc = "copy" => backup.todo \subseteq backup.names /\ \A f \in Files :
        /\ backup.copy[f] <= data[f]
        /\ f \notin backup.names \/ f \in backup.todo => backup.copy[f] = 0
    /\ backup.pc \in {"compare", "relist"} => \E snap \in seen : Moment(snap)

LifeInv ==
    /\ LifeTypeOK /\ OneCommand /\ OneProfile /\ OwnScratch /\ EvidenceKept /\ PriorKept
    /\ VersionsGrow /\ CopyIsOfOneMoment /\ BackupConsistent

-----------------------------------------------------------------------------
(* The migration *)

\* Where inspection finds nothing to do, no marker is left and every directory has its place.
LEMMA InspectClean ==
  ASSUME NEW r \in Registry, Inspect(r) \in {"none", "current"}
  PROVE  r.marker = "none" /\ Legacy(r) = {} /\ (Committed(r) \/ r.state = "missing")
  BY DEF Inspect, Registry, FileStatus

LEMMA LegacyOf ==
  ASSUME NEW r, NEW s, s.dirs = r.dirs
  PROVE  Legacy(s) = Legacy(r)
  BY DEF Legacy

LEMMA FileChange ==
  ASSUME NEW r \in Registry, NEW x \in FileStatus, NEW d \in StateDoc, NEW s,
         s \in {[r EXCEPT !.marker = x], [r EXCEPT !.stage = x],
                [r EXCEPT !.marker = x, !.source = d], [r EXCEPT !.stage = x, !.marker = x]}
  PROVE  s \in Registry /\ s.dirs = r.dirs /\ s.state = r.state
  BY DEF Registry

LEMMA MarkerChange ==
  ASSUME NEW r \in Registry, NEW x \in FileStatus, NEW s, s = [r EXCEPT !.marker = x]
  PROVE  s \in Registry /\ s.dirs = r.dirs /\ s.state = r.state /\ s.marker = x
  BY DEF Registry

LEMMA DirectoryChange ==
  ASSUME NEW r \in Registry, NEW a \in Agents, NEW p \in Place, NEW s, s = [r EXCEPT !.dirs[a] = p]
  PROVE  /\ s \in Registry /\ s.state = r.state /\ s.marker = r.marker
         /\ s.dirs[a] = p /\ \A b \in Agents \ {a} : s.dirs[b] = r.dirs[b]
  BY DEF Registry

LEMMA MigrationGoes ==
  ASSUME LivesTypeOK, NEW pc \in MigrationPc, Goto(pc)
  PROVE  mig' \in MigrationRecord /\ mig'.pc = pc
  BY DEF LivesTypeOK, MigrationRecord, Goto

\* What a step of the migration leaves behind.
MigrationGood ==
    /\ reg' \in Registry /\ mig' \in MigrationRecord /\ failures' \in Nat /\ failures <= failures'
    /\ \A a \in Agents : reg'.dirs[a] # "both"
    /\ mig'.pc = "unmark" => Committed(reg') /\ Legacy(reg') = {}
    /\ mig'.pc = "done" =>
        /\ Legacy(reg') = {} /\ reg'.marker = "none"
        /\ Committed(reg') \/ reg'.state = "missing"

LEMMA MigrationStepGood ==
  ASSUME LivesTypeOK, OneProfile, MigrationStep
  PROVE  MigrationGood
  <1> USE DEF MigrationPc, FileStatus, StateDoc
  <1>0. /\ reg \in Registry /\ mig \in MigrationRecord /\ failures \in Nat
        /\ \A a \in Agents : reg.dirs[a] # "both"
    BY DEF LivesTypeOK, OneProfile
  <1>1. CASE Begin
    <2>1. reg' = reg /\ failures' = failures
      BY <1>1 DEF Begin
    <2>2. mig' \in MigrationRecord /\ mig'.pc \in {"failed", "done", "restage", "marker"}
      BY <1>0, <1>1 DEF Begin, MigrationRecord
    <2>3. mig'.pc = "done" => Inspect(reg) \in {"none", "current"}
      BY <1>0, <1>1 DEF Begin, MigrationRecord
    <2>4. QED
      BY <1>0, <2>1, <2>2, <2>3, InspectClean DEF MigrationGood
  <1>2. CASE WriteMarker
    <2>1. reg.state \in StateDoc
      BY <1>0 DEF Registry
    <2>2. reg' \in Registry /\ reg'.dirs = reg.dirs
      BY <1>0, <1>2, <2>1, FileChange DEF WriteMarker
    <2>3. mig' \in MigrationRecord /\ mig'.pc = "stage"
      BY <1>2, MigrationGoes DEF WriteMarker
    <2>4. QED
      BY <1>0, <1>2, <2>2, <2>3 DEF MigrationGood, WriteMarker
  <1>3. CASE WriteStage
    <2>1. reg' \in Registry /\ reg'.dirs = reg.dirs
      BY <1>0, <1>3, FileChange DEF WriteStage
    <2>2. mig' \in MigrationRecord /\ mig'.pc = "move"
      BY <1>3, MigrationGoes DEF WriteStage
    <2>3. QED
      BY <1>0, <1>3, <2>1, <2>2 DEF MigrationGood, WriteStage
  <1>4. CASE Restage
    <2>1. reg' \in Registry /\ reg'.dirs = reg.dirs
      BY <1>0, <1>4, FileChange DEF Restage
    <2>2. mig' \in MigrationRecord /\ mig'.pc = "move"
      BY <1>4, MigrationGoes DEF Restage
    <2>3. QED
      BY <1>0, <1>4, <2>1, <2>2 DEF MigrationGood, Restage
  <1>5. CASE MoveDirectory
    <2>1. PICK a \in Legacy(reg) : /\ reg' = [reg EXCEPT !.dirs[a] = "current"]
                                   /\ mig' = [mig EXCEPT !.moved = @ \cup {a}]
      BY <1>5 DEF MoveDirectory
    <2>2. a \in Agents
      BY DEF Legacy
    <2>3. reg' \in Registry /\ \A b \in Agents : reg'.dirs[b] # "both"
      <3>1. /\ reg' \in Registry /\ reg'.dirs[a] = "current"
            /\ \A b \in Agents \ {a} : reg'.dirs[b] = reg.dirs[b]
        BY <1>0, <2>1, <2>2, DirectoryChange DEF Place
      <3>2. QED
        BY <1>0, <3>1
    <2>4. mig' \in MigrationRecord /\ mig'.pc = "move"
      BY <1>0, <1>5, <2>1, <2>2 DEF MigrationRecord, MoveDirectory
    <2>5. QED
      BY <1>0, <1>5, <2>3, <2>4 DEF MigrationGood, MoveDirectory
  <1>6. CASE CommitState
    <2>1. PICK d \in StateDoc : reg' = [reg EXCEPT !.state = d, !.stage = "none"] /\ d \in {"v2", "empty"}
      BY <1>0, <1>6 DEF CommitState, Committed, Target, Registry
    <2>2. reg' \in Registry /\ reg'.dirs = reg.dirs /\ Committed(reg')
      <3>1. reg' \in Registry /\ reg'.dirs = reg.dirs /\ reg'.state = d
        BY <1>0, <2>1 DEF Registry
      <3>2. QED
        BY <2>1, <3>1 DEF Committed
    <2>3. mig' \in MigrationRecord /\ mig'.pc = "unmark"
      BY <1>6, MigrationGoes DEF CommitState
    <2>4. Legacy(reg') = {}
      BY <1>6, <2>2, LegacyOf DEF CommitState
    <2>5. QED
      BY <1>0, <1>6, <2>2, <2>3, <2>4 DEF MigrationGood, CommitState
  <1>7. CASE RemoveMarker
    <2>1. Committed(reg) /\ Legacy(reg) = {}
      BY <1>7 DEF RemoveMarker, OneProfile
    <2>2. reg' \in Registry /\ reg'.dirs = reg.dirs /\ reg'.state = reg.state /\ reg'.marker = "none"
      BY <1>0, <1>7, MarkerChange DEF RemoveMarker
    <2>3. mig' \in MigrationRecord /\ mig'.pc = "done"
      BY <1>7, MigrationGoes DEF RemoveMarker
    <2>4. Committed(reg') /\ Legacy(reg') = {}
      BY <2>1, <2>2, LegacyOf DEF Committed
    <2>5. QED
      BY <1>0, <1>7, <2>2, <2>3, <2>4 DEF MigrationGood, RemoveMarker
  <1>8. CASE UndoMove
    <2>1. PICK a \in mig.moved : /\ reg' = [reg EXCEPT !.dirs[a] = "legacy"]
                                 /\ mig' = [mig EXCEPT !.moved = @ \ {a}]
      BY <1>8 DEF UndoMove
    <2>2. a \in Agents
      BY <1>0 DEF MigrationRecord
    <2>3. reg' \in Registry /\ \A b \in Agents : reg'.dirs[b] # "both"
      <3>1. /\ reg' \in Registry /\ reg'.dirs[a] = "legacy"
            /\ \A b \in Agents \ {a} : reg'.dirs[b] = reg.dirs[b]
        BY <1>0, <2>1, <2>2, DirectoryChange DEF Place
      <3>2. QED
        BY <1>0, <3>1
    <2>4. mig' \in MigrationRecord /\ mig'.pc = "undo"
      BY <1>0, <1>8, <2>1 DEF MigrationRecord, UndoMove
    <2>5. QED
      BY <1>0, <1>8, <2>3, <2>4 DEF MigrationGood, UndoMove
  <1>9. CASE UndoFiles
    <2>1. reg' \in Registry /\ reg'.dirs = reg.dirs
      BY <1>0, <1>9, FileChange DEF UndoFiles
    <2>2. mig' \in MigrationRecord /\ mig'.pc = "cleanup"
      BY <1>9, MigrationGoes DEF UndoFiles
    <2>3. QED
      BY <1>0, <1>9, <2>1, <2>2 DEF MigrationGood, UndoFiles
  <1>10. CASE CleanUp
    <2>1. reg' \in Registry /\ reg'.dirs = reg.dirs
      BY <1>0, <1>10, FileChange DEF CleanUp
    <2>2. mig' \in MigrationRecord /\ mig'.pc = "failed"
      BY <1>10, MigrationGoes DEF CleanUp
    <2>3. QED
      BY <1>0, <1>10, <2>1, <2>2 DEF MigrationGood, CleanUp
  <1>11. QED
    BY <1>1, <1>2, <1>3, <1>4, <1>5, <1>6, <1>7, <1>8, <1>9, <1>10 DEF MigrationStep

LEMMA MigrationFaultGood ==
  ASSUME LivesTypeOK, OneProfile, MigrationFault
  PROVE  MigrationGood
  <1> USE DEF MigrationPc, FileStatus, StateDoc
  <1>0. /\ reg \in Registry /\ mig \in MigrationRecord /\ failures \in Nat
        /\ \A a \in Agents : reg.dirs[a] # "both"
    BY DEF LivesTypeOK, OneProfile
  <1>1. failures' \in Nat /\ failures <= failures'
    BY <1>0 DEF MigrationFault, WriteFails, StepFails, UndoFails, Failure
  <1>2. CASE WriteFails
    <2>1. PICK left \in FileStatus :
              reg' \in {[reg EXCEPT !.marker = left], [reg EXCEPT !.stage = left]}
      BY <1>2 DEF WriteFails
    <2>2. reg' \in Registry /\ reg'.dirs = reg.dirs
      BY <1>0, <2>1 DEF Registry
    <2>3. mig' \in MigrationRecord /\ mig'.pc \in {"failed", "cleanup"}
      BY <1>2, MigrationGoes DEF WriteFails
    <2>4. QED
      BY <1>0, <1>1, <2>2, <2>3 DEF MigrationGood
  <1>3. CASE StepFails
    <2>1. mig' \in MigrationRecord /\ mig'.pc \in {"failed", "undo"}
      BY <1>3, MigrationGoes DEF StepFails, OnFailure
    <2>2. QED
      BY <1>0, <1>1, <1>3, <2>1 DEF MigrationGood, StepFails
  <1>4. CASE UndoFails
    <2>1. PICK kept \in SUBSET mig.moved :
              reg' = [reg EXCEPT !.dirs =
                  [a \in Agents |-> IF a \in mig.moved \ kept THEN "legacy" ELSE @[a]]]
      BY <1>4 DEF UndoFails
    <2>2. reg' \in Registry /\ \A a \in Agents : reg'.dirs[a] # "both"
      BY <1>0, <2>1 DEF Registry, Place
    <2>3. mig' \in MigrationRecord /\ mig'.pc = "cleanup"
      BY <1>4, MigrationGoes DEF UndoFails
    <2>4. QED
      BY <1>0, <1>1, <2>2, <2>3 DEF MigrationGood
  <1>5. QED
    BY <1>2, <1>3, <1>4 DEF MigrationFault

-----------------------------------------------------------------------------
(* The runtime *)

LEMMA NoRegistryType ==
  /\ NoRegistry \in Registry /\ \A a \in Agents : NoRegistry.dirs[a] = "none"
  /\ Absent \in Versions /\ \A f \in Files : Absent[f] = 0
  BY DEF NoRegistry, Registry, StateDoc, FileStatus, Place, Absent, Versions

LEMMA NoDirectoryType ==
  /\ NoDirectory \in DirectoryRecord
  /\ NoDirectory.reg = NoRegistry /\ NoDirectory.data = Absent /\ NoDirectory.scratch = {}
  /\ NoDirectory.exists = FALSE
  BY NoRegistryType DEF NoDirectory, Directory, DirectoryRecord

LEMMA NoRestoreType ==
  /\ NoRestore \in RestoreRecord /\ NoRestore.pc = "idle" /\ NoRestore.had = FALSE
  /\ NoRestore.prior = NoDirectory
  BY NoDirectoryType DEF NoRestore, RestoreRecord

LEMMA NoMigrationType ==
  NoMigration \in MigrationRecord /\ NoMigration.pc = "idle"
  BY DEF NoMigration, MigrationRecord, MigrationPc

LEMMA NoRecoveryType ==
  NoRecovery \in RecoveryRecord /\ NoRecovery.pc = "idle"
  BY DEF NoRecovery, RecoveryRecord

\* Where no restore is under way, what the commands owe one another is said of the rest.
LEMMA WithoutRestore ==
  ASSUME restore' = NoRestore,
         proc' # "down" => rec'.pc = "idle",
         proc' # "migrating" => mig' = NoMigration,
         proc' # "down" \/ rec'.pc # "idle" => exists',
         \A a \in Agents : reg'.dirs[a] # "both",
         mig'.pc = "unmark" => Committed(reg') /\ Legacy(reg') = {},
         mig'.pc = "done" => Legacy(reg') = {} /\ reg'.marker = "none"
                                /\ (Committed(reg') \/ reg'.state = "missing"),
         proc' \in {"ensuring", "up"} =>
             Committed(reg') /\ Legacy(reg') = {} /\ reg'.marker = "none",
         ~exists' \/ proc' \in {"migrating", "ensuring"} => scratch' = {},
         proc' = "up" => \A s \in scratch' : s.stop = failures',
         \A s \in evidence' : s.stop < failures'
  PROVE  OneCommand' /\ OneProfile' /\ OwnScratch' /\ PriorKept'
  <1>1. OneCommand'
    BY NoRestoreType DEF OneCommand
  <1>2. OneProfile'
    <2>1. restore'.prior.reg = NoRegistry
      BY NoRestoreType, NoDirectoryType
    <2>2. \A a \in Agents : restore'.prior.reg.dirs[a] # "both"
      BY <2>1, NoRegistryType
    <2>3. QED
      BY <2>2 DEF OneProfile
  <1>3. OwnScratch'
    BY NoRestoreType DEF OwnScratch, Replacing
  <1>4. PriorKept'
    BY NoRestoreType, NoDirectoryType DEF PriorKept, Replacing, RestoreKeepsState
  <1>5. QED
    BY <1>1, <1>2, <1>3, <1>4

\* A runtime that starts finds no leftovers, in the directory or where it makes one.
LEMMA StartGood ==
  ASSUME LivesTypeOK, OneCommand, OneProfile, OwnScratch, EvidenceKept,
         Start, restore' = NoRestore, siblings' = siblings
  PROVE  LivesTypeOK' /\ OneCommand' /\ OneProfile' /\ OwnScratch' /\ PriorKept' /\ EvidenceKept'
  <1>1. /\ mig' \in MigrationRecord /\ mig'.pc = "inspect"
    BY DEF Start, NoMigration, MigrationRecord, MigrationPc
  <1>2. LivesTypeOK'
    BY <1>1 DEF LivesTypeOK, Start
  <1>3. scratch' = {}
    BY DEF Start, Preflight, NothingIsLeft, OwnScratch
  <1>4. EvidenceKept'
    BY DEF EvidenceKept, Start
  <1>5. QED
    BY <1>1, <1>2, <1>3, <1>4, WithoutRestore DEF Start, OneProfile, OwnScratch

LEMMA MigrateGood ==
  ASSUME LivesTypeOK, OneCommand, OneProfile, OwnScratch, EvidenceKept,
         Migrate, restore' = NoRestore, siblings' = siblings
  PROVE  LivesTypeOK' /\ OneCommand' /\ OneProfile' /\ OwnScratch' /\ PriorKept' /\ EvidenceKept'
  <1>1. MigrationGood
    BY MigrationStepGood, MigrationFaultGood DEF Migrate
  <1>2. LivesTypeOK'
    BY <1>1 DEF LivesTypeOK, Migrate, startVars, MigrationGood
  <1>3. EvidenceKept'
    BY DEF EvidenceKept, Migrate, startVars
  <1>4. \A s \in evidence' : s.stop < failures'
    BY <1>1 DEF Migrate, startVars, OwnScratch, MigrationGood, LivesTypeOK, Leftover
  <1>5. QED
    BY <1>1, <1>2, <1>3, <1>4, WithoutRestore
    DEF Migrate, startVars, OneCommand, OneProfile, OwnScratch, MigrationGood

LEMMA MigratedGood ==
  ASSUME LivesTypeOK, OneCommand, OneProfile, OwnScratch, EvidenceKept,
         Migrated, restore' = NoRestore, siblings' = siblings
  PROVE  LivesTypeOK' /\ OneCommand' /\ OneProfile' /\ OwnScratch' /\ PriorKept' /\ EvidenceKept'
  <1>1. reg' \in Registry /\ reg'.dirs = reg.dirs /\ reg'.marker = reg.marker
    BY DEF Migrated, LivesTypeOK, Registry, StateDoc
  <1>2. mig' = NoMigration /\ mig' \in MigrationRecord /\ mig'.pc = "idle"
    BY NoMigrationType DEF Migrated
  <1>3. LivesTypeOK'
    BY <1>1, <1>2 DEF LivesTypeOK, Migrated
  <1>4. EvidenceKept'
    BY DEF EvidenceKept, Migrated
  <1>5. proc' \in {"ensuring", "up"} =>
            Committed(reg') /\ Legacy(reg') = {} /\ reg'.marker = "none"
    <2>1. SUFFICES ASSUME proc' \in {"ensuring", "up"}
                   PROVE  Committed(reg') /\ Legacy(reg') = {} /\ reg'.marker = "none"
      OBVIOUS
    <2>2. mig.pc = "done" /\ reg' = IF reg.state = "missing" THEN [reg EXCEPT !.state = "empty"] ELSE reg
      BY <2>1 DEF Migrated
    <2>3. Committed(reg')
      BY <2>2 DEF OneProfile, Committed, LivesTypeOK, Registry
    <2>4. QED
      BY <1>1, <2>2, <2>3, LegacyOf DEF OneProfile
  <1>6. QED
    BY <1>1, <1>2, <1>3, <1>4, <1>5, WithoutRestore
    DEF Migrated, OneCommand, OneProfile, OwnScratch

LEMMA EnsureGood ==
  ASSUME LivesTypeOK, OneCommand, OneProfile, OwnScratch, EvidenceKept,
         Ensure, restore' = NoRestore, siblings' = siblings
  PROVE  LivesTypeOK' /\ OneCommand' /\ OneProfile' /\ OwnScratch' /\ PriorKept' /\ EvidenceKept'
  <1>1. Legacy(reg) = {} /\ Committed(reg) /\ reg.marker = "none"
    BY DEF Ensure, OneProfile
  <1>2. PICK a \in Agents : reg.dirs[a] = "none" /\ reg' = [reg EXCEPT !.dirs[a] = "current"]
    <2>1. PICK a \in Missing : reg' = [reg EXCEPT !.dirs[a] = IF @ = "none" THEN "current" ELSE "both"]
      BY DEF Ensure
    <2>2. a \in Agents /\ reg.dirs[a] = "none"
      BY <1>1 DEF Missing, Legacy
    <2>3. QED
      BY <2>1, <2>2
  <1>3. /\ reg' \in Registry /\ reg'.state = reg.state /\ reg'.marker = reg.marker
        /\ reg'.dirs[a] = "current" /\ \A b \in Agents \ {a} : reg'.dirs[b] = reg.dirs[b]
    BY <1>2, DirectoryChange DEF LivesTypeOK, Place
  <1>4. /\ Legacy(reg') = {} /\ Committed(reg') /\ \A b \in Agents : reg'.dirs[b] # "both"
    BY <1>1, <1>3 DEF Legacy, Committed, OneProfile
  <1>5. LivesTypeOK'
    BY <1>3 DEF LivesTypeOK, Ensure, startVars
  <1>6. EvidenceKept'
    BY DEF EvidenceKept, Ensure, startVars
  <1>7. mig = NoMigration /\ mig.pc = "idle"
    BY NoMigrationType DEF OneCommand, Ensure
  <1>8. QED
    BY <1>1, <1>3, <1>4, <1>5, <1>6, <1>7, WithoutRestore
    DEF Ensure, startVars, OneCommand, OneProfile, OwnScratch

LEMMA ReadyGood ==
  ASSUME LivesTypeOK, OneCommand, OneProfile, OwnScratch, EvidenceKept,
         Ready, restore' = NoRestore, siblings' = siblings
  PROVE  LivesTypeOK' /\ OneCommand' /\ OneProfile' /\ OwnScratch' /\ PriorKept' /\ EvidenceKept'
  <1>1. LivesTypeOK'
    BY DEF LivesTypeOK, Ready
  <1>2. EvidenceKept'
    BY DEF EvidenceKept, Ready
  <1>3. QED
    BY <1>1, <1>2, WithoutRestore DEF Ready, OneCommand, OneProfile, OwnScratch

\* What the running runtime leaves and removes is its own, so it is not what an earlier one left.
LEMMA RunningGood ==
  ASSUME LivesTypeOK, OneCommand, OneProfile, OwnScratch, EvidenceKept,
         Running, active' \in BOOLEAN, scratch' \in SUBSET Leftover,
         \A s \in scratch' : s.stop = failures,
         restore' = NoRestore, siblings' = siblings
  PROVE  LivesTypeOK' /\ OneCommand' /\ OneProfile' /\ OwnScratch' /\ PriorKept' /\ EvidenceKept'
  <1>1. LivesTypeOK'
    BY DEF LivesTypeOK, Running
  <1>2. \A s \in evidence : s \notin scratch
    BY DEF OwnScratch, Running, LivesTypeOK, Leftover
  <1>3. EvidenceKept'
    BY <1>2 DEF EvidenceKept, Running
  <1>4. QED
    BY <1>1, <1>3, WithoutRestore DEF Running, OneCommand, OneProfile, OwnScratch

LEMMA WritesAndBridges ==
  ASSUME LivesTypeOK, OwnScratch, WriteBegins \/ WriteEnds \/ BridgeOpens \/ BridgeCloses
  PROVE  /\ Running /\ active' \in BOOLEAN /\ scratch' \in SUBSET Leftover
         /\ \A s \in scratch' : s.stop = failures
  <1>0. /\ active \in BOOLEAN /\ scratch \in SUBSET Leftover
        /\ Running => \A s \in scratch : s.stop = failures
        /\ \A k \in Kind : [kind |-> k, stop |-> failures] \in Leftover
    BY DEF LivesTypeOK, OwnScratch, Running, Leftover
  <1>1. CASE WriteBegins
    <2>1. PICK k \in Kind : scratch' = scratch \cup {[kind |-> k, stop |-> failures]}
      BY <1>1 DEF WriteBegins, Kind
    <2>2. QED
      BY <1>0, <1>1, <2>1 DEF WriteBegins
  <1>2. CASE WriteEnds
    BY <1>0, <1>2 DEF WriteEnds
  <1>3. CASE BridgeOpens
    BY <1>0, <1>3 DEF BridgeOpens, Kind
  <1>4. CASE BridgeCloses
    BY <1>0, <1>4 DEF BridgeCloses
  <1>5. QED
    BY <1>1, <1>2, <1>3, <1>4

LEMMA CloseGood ==
  ASSUME LivesTypeOK, OneCommand, OneProfile, OwnScratch, EvidenceKept,
         Close, restore' = NoRestore, siblings' = siblings
  PROVE  LivesTypeOK' /\ OneCommand' /\ OneProfile' /\ OwnScratch' /\ PriorKept' /\ EvidenceKept'
  <1>1. LivesTypeOK'
    BY DEF LivesTypeOK, Close
  <1>2. \A s \in evidence : s \notin scratch
    BY DEF OwnScratch, Close, LivesTypeOK, Leftover
  <1>3. EvidenceKept'
    BY <1>2 DEF EvidenceKept, Close
  <1>4. QED
    BY <1>1, <1>3, WithoutRestore DEF Close, OneCommand, OneProfile, OwnScratch

LEMMA CrashGood ==
  ASSUME LivesTypeOK, OneCommand, OneProfile, OwnScratch, EvidenceKept,
         Crash, restore' = NoRestore, siblings' = siblings
  PROVE  LivesTypeOK' /\ OneCommand' /\ OneProfile' /\ OwnScratch' /\ PriorKept' /\ EvidenceKept'
  <1>1. Torn \in Registry /\ Torn.dirs = reg.dirs
    BY DEF Torn, LivesTypeOK, Registry, FileStatus
  <1>2. reg' \in Registry /\ \A a \in Agents : reg'.dirs[a] # "both"
    BY <1>1 DEF Crash, LivesTypeOK, OneProfile
  <1>3. mig' = NoMigration /\ mig' \in MigrationRecord /\ mig'.pc = "idle"
    BY NoMigrationType DEF Crash
  <1>4. failures' \in Nat /\ failures' = failures + 1
    BY DEF Crash, Failure, LivesTypeOK
  <1>5. LivesTypeOK'
    BY <1>2, <1>3, <1>4 DEF LivesTypeOK, Crash
  <1>6. EvidenceKept'
    BY DEF EvidenceKept, Crash
  <1>7. \A s \in evidence' : s.stop < failures'
    <2>1. \A s \in scratch : s.stop = failures
      BY DEF OwnScratch, Crash, LivesTypeOK
    <2>2. QED
      BY <1>4, <2>1 DEF Crash, OwnScratch, LivesTypeOK, Leftover
  <1>8. QED
    BY <1>2, <1>3, <1>5, <1>6, <1>7, WithoutRestore DEF Crash, OneCommand, OwnScratch

LEMMA RuntimeGood ==
  ASSUME LivesTypeOK, OneCommand, OneProfile, OwnScratch, EvidenceKept,
         RuntimeNext, restore' = NoRestore, siblings' = siblings
  PROVE  LivesTypeOK' /\ OneCommand' /\ OneProfile' /\ OwnScratch' /\ PriorKept' /\ EvidenceKept'
  BY StartGood, MigrateGood, MigratedGood, EnsureGood, ReadyGood, WritesAndBridges, RunningGood,
     CloseGood, CrashGood DEF RuntimeNext

\* The core files under a backup: they only gain versions.
LEMMA WrittenGood ==
  ASSUME TransferTypeOK, VersionsGrow, CopyIsOfOneMoment, BackupConsistent, restore' = NoRestore,
         \/ \E f \in Files : Rewritten(f)
         \/ UNCHANGED <<data, versions, backup, bundle, siblings, seen>>
  PROVE  /\ TransferTypeOK' /\ VersionsGrow' /\ CopyIsOfOneMoment' /\ BackupConsistent'
         /\ siblings' = siblings
  <1>0. /\ UNCHANGED <<backup, bundle, siblings>>
        /\ versions' \in Nat /\ versions <= versions' /\ data' \in Versions /\ seen \subseteq seen'
        /\ data' \in seen' /\ seen' \in SUBSET Versions
        /\ \A f \in Files : data[f] <= data'[f] /\ data'[f] <= versions'
    <2>1. CASE UNCHANGED <<data, versions, backup, bundle, siblings, seen>>
      BY <2>1 DEF TransferTypeOK, VersionsGrow, Versions
    <2>2. ASSUME NEW f \in Files, Rewritten(f)
          PROVE  <1>0!:
      <3>1. /\ versions' = versions + 1 /\ data' = [data EXCEPT ![f] = versions + 1]
            /\ seen' = seen \cup {data'} /\ UNCHANGED <<backup, bundle, siblings>>
        BY <2>2 DEF Rewritten
      <3>2. /\ versions \in Nat /\ seen \in SUBSET Versions
            /\ data \in [Files -> Nat] /\ \A g \in Files : data[g] <= versions
        BY DEF TransferTypeOK, VersionsGrow, Versions
      <3>3. data' \in [Files -> Nat]
        BY <3>1, <3>2
      <3>4. \A g \in Files : data[g] <= data'[g] /\ data'[g] <= versions'
        BY <3>1, <3>2
      <3>5. QED
        BY <3>1, <3>2, <3>3, <3>4 DEF Versions
    <2>3. QED
      BY <2>1, <2>2
  <1>1. restore' \in RestoreRecord /\ \A f \in Files : restore'.prior.data[f] = 0
    BY NoRestoreType, NoDirectoryType, NoRegistryType
  <1>2. TransferTypeOK'
    BY <1>0, <1>1 DEF TransferTypeOK
  <1>3. VersionsGrow'
    BY <1>0, <1>1 DEF VersionsGrow, TransferTypeOK, BundleRecord, Versions
  <1>4. CopyIsOfOneMoment'
    <2>1. ASSUME NEW snap \in seen, Moment(snap)
          PROVE  Moment(snap)'
      BY <1>0, <2>1 DEF Moment, TransferTypeOK, BackupRecord, Versions
    <2>2. ASSUME backup.pc = "copy", NEW f \in Files
          PROVE  backup.copy[f] <= data'[f]
      BY <1>0, <2>2 DEF CopyIsOfOneMoment, TransferTypeOK, BackupRecord, Versions
    <2>3. QED
      BY <1>0, <2>1, <2>2 DEF CopyIsOfOneMoment
  <1>5. BackupConsistent'
    BY <1>0 DEF BackupConsistent
  <1>6. QED
    BY <1>0, <1>2, <1>3, <1>4, <1>5

LEMMA LivesGood ==
  ASSUME LifeInv, Lives
  PROVE  LifeInv'
  <1>1. /\ restore' = NoRestore /\ RuntimeNext
        /\ \/ \E f \in Files : Rewritten(f)
           \/ UNCHANGED <<data, versions, backup, bundle, siblings, seen>>
    BY DEF Lives, Files
  <1>2. /\ TransferTypeOK' /\ VersionsGrow' /\ CopyIsOfOneMoment' /\ BackupConsistent'
        /\ siblings' = siblings
    BY <1>1, WrittenGood DEF LifeInv, LifeTypeOK
  <1>3. LivesTypeOK' /\ OneCommand' /\ OneProfile' /\ OwnScratch' /\ PriorKept' /\ EvidenceKept'
    BY <1>1, <1>2, RuntimeGood DEF LifeInv, LifeTypeOK
  <1>4. QED
    BY <1>2, <1>3 DEF LifeInv, LifeTypeOK

LEMMA AppendRowGood ==
  ASSUME LifeInv, AppendRow
  PROVE  LifeInv'
  <1>1. /\ Running /\ UNCHANGED <<active, scratch>> /\ restore' = NoRestore
        /\ \E f \in Files : Rewritten(f)
    BY DEF AppendRow, Running, LifeInv, OneCommand, Files
  <1>2. /\ TransferTypeOK' /\ VersionsGrow' /\ CopyIsOfOneMoment' /\ BackupConsistent'
        /\ siblings' = siblings
    BY <1>1, WrittenGood DEF LifeInv, LifeTypeOK
  <1>3. /\ active' \in BOOLEAN /\ scratch' \in SUBSET Leftover
        /\ \A s \in scratch' : s.stop = failures
    BY <1>1 DEF LifeInv, LifeTypeOK, LivesTypeOK, OwnScratch, Running
  <1>4. LivesTypeOK' /\ OneCommand' /\ OneProfile' /\ OwnScratch' /\ PriorKept' /\ EvidenceKept'
    BY <1>1, <1>2, <1>3, RunningGood DEF LifeInv, LifeTypeOK
  <1>5. QED
    BY <1>2, <1>4 DEF LifeInv, LifeTypeOK

-----------------------------------------------------------------------------
(* recover --apply *)

\* A file that recovery moves is at every step in one of the places where it is looked for.
LEMMA RecoverMoves ==
  ASSUME LivesTypeOK, OneCommand, RecoverNext
  PROVE  /\ rec' \in RecoveryRecord /\ failures' \in Nat /\ failures <= failures'
         /\ scratch' \in SUBSET Leftover /\ staged' \in SUBSET Leftover /\ quarantine' \in SUBSET Leftover
         /\ scratch \cup staged \cup quarantine \subseteq scratch' \cup staged' \cup quarantine'
         /\ UNCHANGED <<reg, mig, exists, active, txn, torn, proc, evidence>>
         /\ proc = "down" /\ exists
  <1>0. /\ rec \in RecoveryRecord /\ failures \in Nat /\ scratch \in SUBSET Leftover
        /\ staged \in SUBSET Leftover /\ quarantine \in SUBSET Leftover
        /\ rec.pc # "idle" => proc = "down" /\ exists
    BY DEF LivesTypeOK, OneCommand
  <1>1. CASE RecoverBegins
    <2>1. rec' \in RecoveryRecord
      BY <1>0, <1>1 DEF RecoverBegins, NoRecovery, RecoveryRecord, OfKind
    <2>2. QED
      BY <1>0, <1>1, <2>1 DEF RecoverBegins
  <1>2. CASE MoveOut
    <2>1. PICK s \in rec.left :
              /\ scratch' = scratch \ {s} /\ staged' = staged \cup {s}
              /\ rec' = [rec EXCEPT !.left = @ \ {s}, !.moved = @ \cup {s}]
      BY <1>2 DEF MoveOut
    <2>2. s \in Leftover /\ rec' \in RecoveryRecord
      BY <1>0, <2>1 DEF RecoveryRecord
    <2>3. QED
      BY <1>0, <1>2, <2>1, <2>2 DEF MoveOut, Recovering
  <1>3. CASE Recheck
    <2>1. rec' \in RecoveryRecord
      BY <1>0, <1>3 DEF Recheck, RecoveryRecord
    <2>2. QED
      BY <1>0, <1>3, <2>1 DEF Recheck, Recovering
  <1>4. CASE Publish
    <2>1. rec.moved \in SUBSET Leftover
      BY <1>0 DEF RecoveryRecord
    <2>2. QED
      BY <1>0, <1>4, <2>1, NoRecoveryType DEF Publish, Recovering
  <1>5. CASE RecoverFails
    <2>1. rec' \in RecoveryRecord
      BY <1>0, <1>5 DEF RecoverFails, RecoveryRecord
    <2>2. QED
      BY <1>0, <1>5, <2>1 DEF RecoverFails, Recovering, Failure
  <1>6. CASE MoveBack
    <2>1. PICK s \in rec.moved :
              \/ /\ scratch' = scratch \cup {s} /\ staged' = staged \ {s}
                 /\ rec' = [rec EXCEPT !.moved = @ \ {s}]
                 /\ UNCHANGED failures
              \/ /\ Failure
                 /\ rec' = [rec EXCEPT !.moved = @ \ {s}, !.kept = @ \cup {s}]
                 /\ UNCHANGED <<scratch, staged>>
      BY <1>6 DEF MoveBack
    <2>2. s \in Leftover /\ rec' \in RecoveryRecord
      BY <1>0, <2>1, ZenonT(40) DEF RecoveryRecord
    <2>3. QED
      BY <1>0, <1>6, <2>1, <2>2 DEF MoveBack, Recovering, Failure
  <1>7. CASE RolledBack
    BY <1>0, <1>7, NoRecoveryType DEF RolledBack, Recovering
  <1>8. CASE RecoverStops
    BY <1>0, <1>8, NoRecoveryType DEF RecoverStops, Failure
  <1>9. QED
    BY <1>1, <1>2, <1>3, <1>4, <1>5, <1>6, <1>7, <1>8 DEF RecoverNext

LEMMA RecoversGood ==
  ASSUME LifeInv, Recovers
  PROVE  LifeInv'
  <1>1. /\ restore' = NoRestore /\ RecoverNext
        /\ UNCHANGED <<data, versions, backup, bundle, siblings, seen>>
    BY DEF Recovers
  <1>2. /\ rec' \in RecoveryRecord /\ failures' \in Nat /\ failures <= failures'
        /\ scratch' \in SUBSET Leftover /\ staged' \in SUBSET Leftover /\ quarantine' \in SUBSET Leftover
        /\ scratch \cup staged \cup quarantine \subseteq scratch' \cup staged' \cup quarantine'
        /\ UNCHANGED <<reg, mig, exists, active, txn, torn, proc, evidence>>
        /\ proc = "down" /\ exists
    BY <1>1, RecoverMoves DEF LifeInv, LifeTypeOK
  <1>3. TransferTypeOK' /\ VersionsGrow' /\ CopyIsOfOneMoment' /\ BackupConsistent'
    BY <1>1, WrittenGood DEF LifeInv, LifeTypeOK
  <1>4. LivesTypeOK'
    BY <1>2 DEF LivesTypeOK, LifeInv, LifeTypeOK
  <1>5. EvidenceKept'
    BY <1>1, <1>2 DEF LifeInv, EvidenceKept
  <1>6. \A s \in evidence' : s.stop < failures'
    BY <1>2 DEF LifeInv, LifeTypeOK, LivesTypeOK, OwnScratch, Leftover
  <1>7. OneCommand' /\ OneProfile' /\ OwnScratch' /\ PriorKept'
    <2>1. /\ mig = NoMigration /\ mig.pc = "idle" /\ \A a \in Agents : reg.dirs[a] # "both"
      BY <1>2, NoMigrationType DEF LifeInv, OneCommand, OneProfile
    <2>2. QED
      BY <1>1, <1>2, <1>6, <2>1, WithoutRestore
  <1>8. QED
    BY <1>3, <1>4, <1>5, <1>7 DEF LifeInv, LifeTypeOK

-----------------------------------------------------------------------------
(* backup *)

LEMMA NoBackupType ==
  NoBackup \in BackupRecord /\ NoBackup.pc = "idle"
  BY NoRegistryType DEF NoBackup, BackupRecord

\* What is left of the invariant for a step of a backup is what the backup itself records.
LEMMA BackupOnly ==
  ASSUME LifeInv, UNCHANGED <<reg, mig, failures, startVars, data, versions, restore, siblings, seen>>,
         restore.pc = "idle", backup' \in BackupRecord, bundle' \in BundleRecord,
         \A f \in Files : bundle'.files[f] <= versions,
         bundle'.made => bundle'.files \in seen,
         CopyIsOfOneMoment'
  PROVE  LifeInv'
  <1>1. LifeTypeOK'
    BY DEF LifeInv, LifeTypeOK, LivesTypeOK, TransferTypeOK, startVars
  <1>2. OneCommand'
    BY DEF LifeInv, OneCommand, startVars
  <1>3. OneProfile'
    BY DEF LifeInv, OneProfile, startVars
  <1>4. OwnScratch' /\ EvidenceKept'
    BY DEF LifeInv, OwnScratch, EvidenceKept, startVars
  <1>5. PriorKept'
    BY DEF LifeInv, PriorKept, RestoreKeepsState, Here, startVars
  <1>6. VersionsGrow' /\ BackupConsistent'
    BY DEF LifeInv, VersionsGrow, BackupConsistent, startVars
  <1>7. QED
    BY <1>1, <1>2, <1>3, <1>4, <1>5, <1>6 DEF LifeInv

\* A backup that ends without a bundle has nothing to keep.
LEMMA BackupGivenUp ==
  ASSUME backup' = NoBackup
  PROVE  CopyIsOfOneMoment'
  BY NoBackupType DEF CopyIsOfOneMoment

LEMMA BackupGood ==
  ASSUME LifeInv, BackupNext
  PROVE  LifeInv'
  <1>0. /\ backup \in BackupRecord /\ bundle \in BundleRecord /\ data \in Versions /\ versions \in Nat
        /\ seen \in SUBSET Versions /\ data \in seen
        /\ \A f \in Files : data[f] <= versions /\ bundle.files[f] <= versions
        /\ bundle.made => bundle.files \in seen
        /\ CopyIsOfOneMoment
        /\ backup.pc # "idle" => restore.pc = "idle"
    BY DEF LifeInv, LifeTypeOK, TransferTypeOK, VersionsGrow, BackupConsistent, OneCommand
  <1>1. CASE BackupBegins
    <2>1. /\ backup' \in BackupRecord /\ backup'.pc = "list" /\ backup'.copy = Absent
      BY <1>1, NoRegistryType DEF BackupBegins, NoBackup, BackupRecord
    <2>2. CopyIsOfOneMoment'
      BY <2>1 DEF CopyIsOfOneMoment
    <2>3. QED
      BY <1>0, <1>1, <2>1, <2>2, BackupOnly DEF BackupBegins
  <1>2. CASE List
    <2> DEFINE listed(f) == IF Present(f) THEN backup.names \cup {f} ELSE backup.names
    <2>0. PICK f \in backup.todo :
              backup' = IF backup.todo = {f}
                        THEN [backup EXCEPT !.pc = "copy", !.todo = listed(f), !.names = listed(f)]
                        ELSE [backup EXCEPT !.todo = @ \ {f}, !.names = listed(f)]
      BY <1>2 DEF List
    <2>1. PICK names \in SUBSET Files :
              backup' = IF backup.todo = {f}
                        THEN [backup EXCEPT !.pc = "copy", !.todo = names, !.names = names]
                        ELSE [backup EXCEPT !.todo = @ \ {f}, !.names = names]
      <3>1. listed(f) \in SUBSET Files
        BY <1>0, <2>0 DEF BackupRecord
      <3>2. QED
        BY <2>0, <3>1
    <2>2. /\ backup' \in BackupRecord /\ backup'.copy = Absent
          /\ backup'.pc \in {"list", "copy"} /\ (backup'.pc = "copy" => backup'.todo = backup'.names)
      <3>1. backup.pc = "list" /\ backup.copy = Absent
        BY <1>0, <1>2 DEF List, BackingUp, CopyIsOfOneMoment
      <3>2. CASE backup' = [backup EXCEPT !.pc = "copy", !.todo = names, !.names = names]
        BY <1>0, <2>1, <3>1, <3>2, ZenonT(40) DEF BackupRecord
      <3>3. CASE backup' = [backup EXCEPT !.todo = @ \ {f}, !.names = names]
        BY <1>0, <2>1, <3>1, <3>3 DEF BackupRecord
      <3>4. QED
        BY <2>1, <3>2, <3>3
    <2>3. CopyIsOfOneMoment'
      BY <1>0, <1>2, <2>2, NoRegistryType DEF CopyIsOfOneMoment, List, BackingUp, Versions
    <2>4. QED
      BY <1>0, <1>2, <2>2, <2>3, BackupOnly DEF List, BackingUp
  <1>3. CASE CopyFile
    <2>1. PICK f \in backup.todo :
              /\ backup' \in BackupRecord /\ backup'.pc = "copy" /\ backup'.names = backup.names
              /\ backup'.todo = backup.todo \ {f} /\ backup'.copy = [backup.copy EXCEPT ![f] = data[f]]
      <3>1. PICK f \in backup.todo :
                backup' = [backup EXCEPT !.todo = @ \ {f}, !.copy[f] = data[f],
                                         !.active = IF f = "tasks" THEN active ELSE @,
                                         !.torn = IF f = "log" THEN torn ELSE @]
        BY <1>3 DEF CopyFile
      <3>2. [backup.copy EXCEPT ![f] = data[f]] \in Versions
        BY <1>0, <3>1 DEF BackupRecord, Versions
      <3>3. active \in BOOLEAN /\ torn \in BOOLEAN
        BY DEF LifeInv, LifeTypeOK, LivesTypeOK
      <3>4. QED
        BY <1>0, <1>3, <3>1, <3>2, <3>3 DEF BackupRecord, CopyFile, BackingUp
    <2>2. CopyIsOfOneMoment'
      <3>1. backup.todo \subseteq backup.names /\ backup.todo \subseteq Files
        BY <1>0, <1>3 DEF CopyIsOfOneMoment, CopyFile, BackingUp, BackupRecord
      <3>2. \A g \in Files : backup.copy[g] <= data[g] /\ data[g] <= data[g]
        BY <1>0, <1>3 DEF CopyIsOfOneMoment, CopyFile, BackingUp, Versions
      <3>3. \A g \in Files : g \notin backup.names \/ g \in backup.todo => backup.copy[g] = 0
        BY <1>0, <1>3 DEF CopyIsOfOneMoment, CopyFile, BackingUp
      <3>4. /\ \A g \in Files : backup'.copy[g] = IF g = f THEN data[f] ELSE backup.copy[g]
            /\ data' = data
        BY <1>0, <1>3, <2>1, <3>1 DEF BackupRecord, Versions, CopyFile, BackingUp
      <3>5. \A g \in Files : /\ backup'.copy[g] <= data'[g]
                             /\ g \notin backup'.names \/ g \in backup'.todo => backup'.copy[g] = 0
        BY <2>1, <3>1, <3>2, <3>3, <3>4
      <3>6. QED
        BY <2>1, <3>1, <3>5 DEF CopyIsOfOneMoment
    <2>3. QED
      BY <1>0, <1>3, <2>1, <2>2, BackupOnly DEF CopyFile, BackingUp
  <1>4. CASE Copied
    <2>1. /\ backup' \in BackupRecord /\ backup'.pc = "compare" /\ backup'.todo = backup.names
          /\ backup'.names = backup.names /\ backup'.copy = backup.copy /\ data' = data /\ seen' = seen
      BY <1>0, <1>4 DEF Copied, BackingUp, BackupRecord
    <2>2. CopyIsOfOneMoment'
      <3>1. \A f \in Files : /\ backup.copy[f] <= data[f] /\ data[f] <= data[f]
                             /\ f \notin backup.names => backup.copy[f] = 0
        BY <1>0, <1>4 DEF CopyIsOfOneMoment, Copied, BackingUp, Versions
      <3>2. Moment(data)'
        BY <2>1, <3>1 DEF Moment
      <3>3. QED
        BY <1>0, <2>1, <3>2 DEF CopyIsOfOneMoment
    <2>3. QED
      BY <1>0, <1>4, <2>1, <2>2, BackupOnly DEF Copied, BackingUp
  <1>5. CASE Compare
    <2>1. CASE backup' = NoBackup
      BY <1>0, <1>5, <2>1, NoBackupType, BackupGivenUp, BackupOnly DEF Compare, BackingUp
    <2>2. ASSUME backup.todo = {}, backup' = [backup EXCEPT !.pc = "relist", !.todo = Files]
          PROVE  LifeInv'
      <3>1. /\ backup' \in BackupRecord /\ backup'.pc = "relist" /\ backup'.todo = Files
            /\ backup'.names = backup.names /\ backup'.copy = backup.copy /\ data' = data /\ seen' = seen
        BY <1>0, <1>5, <2>2 DEF Compare, BackingUp, BackupRecord
      <3>2. PICK snap \in seen : Moment(snap)
        BY <1>0, <1>5 DEF Compare, BackingUp, CopyIsOfOneMoment
      <3>3. Moment(snap)'
        BY <1>5, <2>2, <3>1, <3>2 DEF Moment, Compare, BackingUp
      <3>4. CopyIsOfOneMoment'
        BY <3>1, <3>2, <3>3 DEF CopyIsOfOneMoment
      <3>5. QED
        BY <1>0, <1>5, <3>1, <3>4, BackupOnly DEF Compare, BackingUp
    <2>3. ASSUME NEW f \in backup.todo, Unchanged(f), backup' = [backup EXCEPT !.todo = @ \ {f}]
          PROVE  LifeInv'
      <3>1. /\ backup' \in BackupRecord /\ backup'.pc = "compare" /\ backup'.todo = backup.todo \ {f}
            /\ backup'.names = backup.names /\ backup'.copy = backup.copy /\ data' = data /\ seen' = seen
        BY <1>0, <1>5, <2>3 DEF Compare, BackingUp, BackupRecord
      <3>2. PICK snap \in seen : Moment(snap)
        BY <1>0, <1>5 DEF Compare, BackingUp, CopyIsOfOneMoment
      <3>3. f \in Files /\ snap[f] = backup.copy[f]
        BY <1>0, <2>3, <3>2 DEF Moment, Unchanged, BackupRecord, Versions
      <3>4. Moment(snap)'
        BY <1>5, <3>1, <3>2, <3>3 DEF Moment, Compare, BackingUp
      <3>5. CopyIsOfOneMoment'
        BY <3>1, <3>2, <3>4 DEF CopyIsOfOneMoment
      <3>6. QED
        BY <1>0, <1>5, <3>1, <3>5, BackupOnly DEF Compare, BackingUp
    <2>4. QED
      BY <1>5, <2>1, <2>2, <2>3 DEF Compare
  <1>6. CASE Relist
    <2>1. PICK f \in backup.todo :
              backup' = [backup EXCEPT !.todo = @ \ {f}, !.again = IF Present(f) THEN @ \cup {f} ELSE @]
      BY <1>6 DEF Relist
    <2>2. /\ backup' \in BackupRecord /\ backup'.pc = "relist" /\ backup'.todo = backup.todo \ {f}
          /\ backup'.names = backup.names /\ backup'.copy = backup.copy /\ data' = data /\ seen' = seen
          /\ backup.again \subseteq backup'.again /\ (data[f] # 0 => f \in backup'.again) /\ f \in Files
      BY <1>0, <1>6, <2>1 DEF Relist, BackingUp, BackupRecord, Present
    <2>3. PICK snap \in seen : Moment(snap)
      BY <1>0, <1>6 DEF Relist, BackingUp, CopyIsOfOneMoment
    <2>4. f \notin backup'.again => snap[f] = 0
      BY <1>0, <2>2, <2>3 DEF Moment, Versions
    <2>5. Moment(snap)'
      BY <1>6, <2>2, <2>3, <2>4 DEF Moment, Relist, BackingUp
    <2>6. CopyIsOfOneMoment'
      BY <2>2, <2>3, <2>5 DEF CopyIsOfOneMoment
    <2>7. QED
      BY <1>0, <1>6, <2>2, <2>6, BackupOnly DEF Relist, BackingUp
  <1>7. CASE BackupEnds
    <2>1. PICK snap \in seen : Moment(snap)
      BY <1>0, <1>7 DEF BackupEnds, BackingUp, CopyIsOfOneMoment
    <2>2. backup.again = backup.names => snap = backup.copy
      <3>1. SUFFICES ASSUME backup.again = backup.names
                     PROVE  \A f \in Files : snap[f] = backup.copy[f]
        BY <1>0 DEF BackupRecord, Versions
      <3>2. QED
        BY <1>7, <2>1, <3>1 DEF Moment, BackupEnds, BackingUp
    <2>3. \A f \in Files : backup.copy[f] <= versions
      BY <1>0, <2>1 DEF Moment, BackupRecord, Versions
    <2>4. /\ bundle' \in BundleRecord /\ \A f \in Files : bundle'.files[f] <= versions
          /\ bundle'.made => bundle'.files \in seen
      <3>1. CASE backup.again = backup.names
        <4>1. bundle' = [files |-> backup.copy, active |-> backup.active, torn |-> backup.torn, made |-> TRUE]
          BY <1>7, <3>1 DEF BackupEnds
        <4>2. bundle' \in BundleRecord
          BY <1>0, <4>1 DEF BundleRecord, BackupRecord
        <4>3. QED
          BY <2>1, <2>2, <2>3, <3>1, <4>1, <4>2
      <3>2. CASE backup.again # backup.names
        BY <1>0, <1>7, <3>2 DEF BackupEnds
      <3>3. QED
        BY <3>1, <3>2
    <2>5. backup' = NoBackup
      BY <1>7 DEF BackupEnds
    <2>6. QED
      BY <1>0, <1>7, <2>4, <2>5, NoBackupType, BackupGivenUp, BackupOnly DEF BackupEnds, BackingUp
  <1>8. QED
    BY <1>1, <1>2, <1>3, <1>4, <1>5, <1>6, <1>7 DEF BackupNext

-----------------------------------------------------------------------------
(* restore --replace *)

\* A directory is known by its parts.
LEMMA DirectoryParts ==
  ASSUME NEW d \in DirectoryRecord
  PROVE  d = Directory(d.exists, d.reg, d.active, d.txn, d.torn, d.scratch, d.data)
  BY DEF Directory, DirectoryRecord

LEMMA HereParts ==
  /\ Here.exists = exists /\ Here.reg = reg /\ Here.scratch = scratch /\ Here.data = data
  /\ LifeTypeOK => Here \in DirectoryRecord
  BY DEF Here, Directory, DirectoryRecord, LifeTypeOK, LivesTypeOK, TransferTypeOK

LEMMA RestoredParts ==
  ASSUME LifeTypeOK
  PROVE  /\ Restored \in DirectoryRecord /\ Restored.exists = TRUE /\ Restored.reg = NoRegistry
         /\ Restored.scratch = {} /\ Restored.data = bundle.files
  BY NoRegistryType DEF Restored, Directory, DirectoryRecord, LifeTypeOK, TransferTypeOK, BundleRecord

\* What the data directory becomes is where it is then.
LEMMA BecomesHere ==
  ASSUME NEW d \in DirectoryRecord, Becomes(d)
  PROVE  Here' = d
  BY DirectoryParts DEF Becomes, Here

\* A restore runs alone: what it leaves of the rest of the invariant.
LEMMA RestoreOnly ==
  ASSUME LifeInv, proc = "down", rec.pc = "idle", backup.pc = "idle",
         UNCHANGED <<mig, proc, rec, staged, quarantine, versions, backup, bundle>>,
         failures' \in Nat, failures <= failures', evidence' \subseteq evidence,
         Here' \in DirectoryRecord, seen \subseteq seen', seen' \in SUBSET Versions, data' \in seen',
         \A f \in Files : data'[f] <= versions /\ restore'.prior.data[f] <= versions,
         \A a \in Agents : reg'.dirs[a] # "both" /\ restore'.prior.reg.dirs[a] # "both",
         ~exists' \/ restore'.pc \in Replacing => scratch' = {},
         siblings' \in SUBSET DirectoryRecord, restore' \in RestoreRecord,
         PriorKept', EvidenceKept'
  PROVE  LifeInv'
  <1>0. mig = NoMigration /\ mig.pc = "idle"
    BY NoMigrationType DEF LifeInv, OneCommand
  <1>1. /\ exists' \in BOOLEAN /\ reg' \in Registry /\ active' \in BOOLEAN /\ txn' \in BOOLEAN
        /\ torn' \in BOOLEAN /\ scratch' \in SUBSET Leftover /\ data' \in Versions
    BY DEF Here, Directory, DirectoryRecord
  <1>2. LivesTypeOK'
    BY <1>1 DEF LifeInv, LifeTypeOK, LivesTypeOK
  <1>3. TransferTypeOK'
    BY <1>1 DEF LifeInv, LifeTypeOK, TransferTypeOK
  <1>4. OneCommand' /\ OneProfile'
    BY <1>0 DEF LifeInv, OneCommand, OneProfile
  <1>5. OwnScratch'
    <2>1. \A s \in evidence' : s.stop < failures'
      BY DEF LifeInv, LifeTypeOK, LivesTypeOK, OwnScratch, Leftover
    <2>2. QED
      BY <2>1 DEF OwnScratch
  <1>6. VersionsGrow' /\ BackupConsistent'
    BY DEF LifeInv, VersionsGrow, BackupConsistent
  <1>7. CopyIsOfOneMoment'
    BY DEF CopyIsOfOneMoment
  <1>8. QED
    BY <1>2, <1>3, <1>4, <1>5, <1>6, <1>7 DEF LifeInv, LifeTypeOK

\* A step of a restore that leaves the directory as it is.
LEMMA RestoreKeeps ==
  ASSUME LifeInv, proc = "down", rec.pc = "idle", backup.pc = "idle",
         UNCHANGED <<mig, proc, rec, staged, quarantine, versions, backup, bundle, siblings, evidence>>,
         failures' \in Nat, failures <= failures', Keeps,
         restore' \in RestoreRecord, restore'.pc \in Replacing => scratch = {},
         \A f \in Files : restore'.prior.data[f] <= versions,
         \A a \in Agents : restore'.prior.reg.dirs[a] # "both",
         PriorKept'
  PROVE  LifeInv'
  <1>1. Here' = Here /\ Here \in DirectoryRecord
    BY HereParts DEF Keeps, Here, LifeInv
  <1>2. EvidenceKept'
    BY DEF LifeInv, EvidenceKept, Keeps
  <1>3. /\ \A f \in Files : data'[f] <= versions
        /\ \A a \in Agents : reg'.dirs[a] # "both"
        /\ siblings' \in SUBSET DirectoryRecord /\ evidence' = evidence
    BY DEF LifeInv, LifeTypeOK, TransferTypeOK, VersionsGrow, OneProfile, Keeps
  <1>4. /\ data' \in seen' /\ (~exists' => scratch' = {}) /\ scratch' = scratch
        /\ seen' = seen /\ seen' \in SUBSET Versions
    BY DEF LifeInv, LifeTypeOK, TransferTypeOK, VersionsGrow, OwnScratch, Keeps
  <1>5. QED
    BY <1>1, <1>2, <1>3, <1>4, RestoreOnly

LEMMA RestoreGoesTo ==
  ASSUME LifeInv, NEW pc \in {"idle", "copy", "aside"} \cup Replacing, RestoreGoes(pc)
  PROVE  /\ restore' \in RestoreRecord /\ restore'.pc = pc
         /\ restore'.had = restore.had /\ restore'.prior = restore.prior
  BY DEF LifeInv, LifeTypeOK, TransferTypeOK, RestoreRecord, RestoreGoes

\* What a restore keeps of the directory that it found has its bounds.
LEMMA PriorBounds ==
  ASSUME LifeInv
  PROVE  /\ \A f \in Files : restore.prior.data[f] <= versions
         /\ \A a \in Agents : restore.prior.reg.dirs[a] # "both"
         /\ restore.prior \in DirectoryRecord /\ restore.had = restore.prior.exists
         /\ restore.had \in BOOLEAN
  BY DEF LifeInv, LifeTypeOK, TransferTypeOK, VersionsGrow, OneProfile, PriorKept, RestoreRecord

LEMMA RestoreBeginsGood ==
  ASSUME LifeInv, RestoreBegins
  PROVE  LifeInv'
  <1>1. Here \in DirectoryRecord /\ Here.exists = exists /\ Here.reg = reg /\ Here.data = data
    BY HereParts DEF LifeInv
  <1>2. restore' = [pc |-> "copy", had |-> exists, prior |-> Here] /\ Here' = Here
    BY DEF RestoreBegins, startVars, Here
  <1>3. restore' \in RestoreRecord
    BY <1>1, <1>2 DEF RestoreRecord, LifeInv, LifeTypeOK, LivesTypeOK
  <1>4. PriorKept'
    BY <1>1, <1>2 DEF PriorKept, Replacing, RestoreKeepsState
  <1>5. /\ \A f \in Files : restore'.prior.data[f] <= versions
        /\ \A a \in Agents : restore'.prior.reg.dirs[a] # "both"
    BY <1>1, <1>2 DEF LifeInv, VersionsGrow, OneProfile
  <1>6. failures' \in Nat /\ failures <= failures' /\ Keeps
    BY DEF RestoreBegins, startVars, Keeps, LifeInv, LifeTypeOK, LivesTypeOK
  <1>7. restore'.pc \notin Replacing
    BY <1>2 DEF Replacing
  <1>8. QED
    BY <1>3, <1>4, <1>5, <1>6, <1>7, RestoreKeeps DEF RestoreBegins, startVars

\* A restore under way has the data directory to itself.
LEMMA RestoreAlone ==
  ASSUME LifeInv, restore.pc # "idle"
  PROVE  proc = "down" /\ rec.pc = "idle" /\ backup.pc = "idle"
  BY NoRestoreType DEF LifeInv, OneCommand, LifeTypeOK, LivesTypeOK

\* A step of a restore that goes from one place to another and moves nothing.
LEMMA RestoreWaits ==
  ASSUME LifeInv, NEW pc \in {"idle", "copy", "aside"} \cup Replacing,
         restore.pc # "idle", Restoring(restore.pc), Keeps, UNCHANGED <<siblings, evidence>>,
         failures' \in Nat, failures <= failures',
         restore' = [restore EXCEPT !.pc = pc],
         pc \in {"copy", "aside"} => restore.pc \in {"copy", "aside"},
         pc \in {"aside", "discard", "back", "again", "last"} => restore.had,
         pc \in Replacing => restore.pc \in Replacing \/ ~restore.had
  PROVE  LifeInv'
  <1>0. UNCHANGED <<mig, proc, rec, staged, quarantine, versions, backup, bundle>>
    BY DEF Restoring
  <1>1. /\ restore' \in RestoreRecord /\ restore'.pc = pc
        /\ restore'.had = restore.had /\ restore'.prior = restore.prior
    BY RestoreGoesTo DEF RestoreGoes
  <1>2. proc = "down" /\ rec.pc = "idle" /\ backup.pc = "idle"
    BY RestoreAlone
  <1>3. Here' = Here
    BY DEF Keeps, Here
  <1>4. PriorKept'
    BY <1>1, <1>3 DEF LifeInv, PriorKept, RestoreKeepsState
  <1>5. pc \in Replacing => scratch = {}
    <2>1. CASE restore.pc \in Replacing
      BY <2>1 DEF LifeInv, OwnScratch
    <2>2. ASSUME ~restore.had, restore.pc \notin Replacing
          PROVE  ~exists
      <3>1. restore.pc \in {"copy", "aside"}
        BY <2>2 DEF LifeInv, LifeTypeOK, TransferTypeOK, RestoreRecord
      <3>2. restore.prior = Here /\ restore.had = restore.prior.exists
        BY <3>1 DEF LifeInv, PriorKept
      <3>3. QED
        BY <2>2, <3>2, HereParts
    <2>3. QED
      BY <2>1, <2>2 DEF LifeInv, OwnScratch
  <1>6. QED
    BY <1>0, <1>1, <1>2, <1>4, <1>5, PriorBounds, RestoreKeeps

\* A step of a restore that moves directories.
LEMMA RestoreMoves ==
  ASSUME LifeInv, NEW pc \in {"idle", "copy", "aside"} \cup Replacing, NEW d \in DirectoryRecord,
         restore.pc # "idle", Restoring(restore.pc), Becomes(d), RestoreGoes(pc),
         UNCHANGED <<failures, evidence>>,
         d.data \in Versions, \A f \in Files : d.data[f] <= versions,
         \A a \in Agents : d.reg.dirs[a] # "both",
         ~d.exists \/ pc \in Replacing => d.scratch = {},
         siblings' \in SUBSET DirectoryRecord,
         pc \notin {"copy", "aside"},
         pc \in {"discard", "back", "again", "last"} => restore.had,
         pc \in Replacing /\ restore.had => restore.prior \in siblings',
         restore.had => restore.prior \in siblings' \cup {d},
         EvidenceKept'
  PROVE  LifeInv'
  <1>0. UNCHANGED <<mig, proc, rec, staged, quarantine, versions, backup, bundle>>
    BY DEF Restoring
  <1>1. /\ restore' \in RestoreRecord /\ restore'.pc = pc
        /\ restore'.had = restore.had /\ restore'.prior = restore.prior
    BY RestoreGoesTo
  <1>2. proc = "down" /\ rec.pc = "idle" /\ backup.pc = "idle"
    BY RestoreAlone
  <1>3. Here' = d
    BY BecomesHere
  <1>4. PriorKept'
    BY <1>1, <1>3, PriorBounds DEF PriorKept, RestoreKeepsState
  <1>5. /\ seen \subseteq seen' /\ seen' \in SUBSET Versions /\ data' \in seen'
        /\ \A f \in Files : data'[f] <= versions
        /\ \A a \in Agents : reg'.dirs[a] # "both"
        /\ ~exists' \/ pc \in Replacing => scratch' = {}
    BY DEF Becomes, LifeInv, LifeTypeOK, TransferTypeOK
  <1>6. failures' \in Nat /\ failures <= failures' /\ evidence' \subseteq evidence
    BY DEF LifeInv, LifeTypeOK, LivesTypeOK
  <1>7. QED
    BY <1>0, <1>1, <1>2, <1>3, <1>4, <1>5, <1>6, PriorBounds, RestoreOnly

LEMMA SetAsideGood ==
  ASSUME LifeInv, SetAside
  PROVE  LifeInv'
  <1>1. restore.pc = "aside" /\ restore.prior = Here /\ restore.had
    BY DEF SetAside, Restoring, LifeInv, PriorKept
  <1>2. Here \in DirectoryRecord /\ Here.scratch = scratch /\ siblings' = siblings \cup {Here}
    BY HereParts DEF SetAside, LifeInv
  <1>3. EvidenceKept'
    <2>1. scratch \subseteq UNION {d.scratch : d \in siblings'}
      BY <1>2
    <2>2. UNCHANGED <<evidence, staged, quarantine>>
      BY DEF SetAside, Restoring
    <2>3. QED
      BY <1>2, <2>1, <2>2 DEF EvidenceKept, LifeInv
  <1>4. /\ NoDirectory \in DirectoryRecord /\ NoDirectory.data \in Versions
        /\ \A f \in Files : NoDirectory.data[f] <= versions
        /\ \A a \in Agents : NoDirectory.reg.dirs[a] # "both" /\ NoDirectory.scratch = {}
    BY NoDirectoryType, NoRegistryType DEF LifeInv, LifeTypeOK, TransferTypeOK
  <1>5. siblings' \in SUBSET DirectoryRecord
    BY <1>2 DEF LifeInv, LifeTypeOK, TransferTypeOK
  <1>6. QED
    BY <1>1, <1>2, <1>3, <1>4, <1>5, NoDirectoryType, RestoreMoves DEF SetAside, Replacing

LEMMA InstallGood ==
  ASSUME LifeInv, Install
  PROVE  LifeInv'
  <1>1. restore.pc = "install" /\ siblings' = siblings
    BY DEF Install, Restoring
  <1>2. /\ Restored \in DirectoryRecord /\ Restored.data \in Versions
        /\ \A f \in Files : Restored.data[f] <= versions
        /\ \A a \in Agents : Restored.reg.dirs[a] # "both"
        /\ Restored.scratch = {}
    BY RestoredParts, NoRegistryType DEF LifeInv, LifeTypeOK, TransferTypeOK, BundleRecord, VersionsGrow
  <1>3. EvidenceKept'
    <2>1. scratch = {}
      BY <1>1 DEF LifeInv, OwnScratch, Replacing
    <2>2. QED
      BY <1>1, <2>1 DEF EvidenceKept, LifeInv, Install, Restoring
  <1>4. siblings' \in SUBSET DirectoryRecord /\ (restore.had => restore.prior \in siblings')
    BY <1>1 DEF LifeInv, LifeTypeOK, TransferTypeOK, PriorKept, Replacing
  <1>5. QED
    BY <1>1, <1>2, <1>3, <1>4, RestoreMoves, RestoredParts DEF Install, Replacing, LifeInv

LEMMA DiscardGood ==
  ASSUME LifeInv, Discard
  PROVE  LifeInv'
  <1>1. /\ restore.pc = "discard" /\ scratch = {} /\ Keeps
        /\ UNCHANGED <<mig, proc, rec, staged, quarantine, versions, backup, bundle, failures>>
        /\ siblings' = siblings \ {restore.prior} /\ evidence' = evidence \ restore.prior.scratch
        /\ restore' = NoRestore
    BY DEF Discard, Restoring, LifeInv, OwnScratch, Replacing
  <1>2. EvidenceKept'
    <2>1. ASSUME NEW s \in evidence'
          PROVE  s \in staged' \/ s \in quarantine' \/ \E d \in siblings' : s \in d.scratch
      <3>1. s \in evidence /\ s \notin restore.prior.scratch
        BY <1>1, <2>1
      <3>2. s \in staged \/ s \in quarantine \/ \E d \in siblings : s \in d.scratch
        BY <1>1, <3>1 DEF LifeInv, EvidenceKept
      <3>3. QED
        BY <1>1, <3>1, <3>2
    <2>2. QED
      BY <2>1 DEF EvidenceKept
  <1>3. PriorKept'
    BY <1>1, NoRestoreType, NoDirectoryType DEF PriorKept, Replacing, RestoreKeepsState
  <1>4. Here' = Here /\ Here \in DirectoryRecord
    BY <1>1, HereParts DEF Keeps, Here, LifeInv
  <1>5. /\ restore' \in RestoreRecord /\ \A f \in Files : restore'.prior.data[f] <= versions
        /\ \A a \in Agents : restore'.prior.reg.dirs[a] # "both"
    <2>1. restore'.prior.data = Absent /\ restore'.prior.reg = NoRegistry /\ restore' \in RestoreRecord
      BY <1>1, NoRestoreType, NoDirectoryType
    <2>2. QED
      BY <2>1, NoRegistryType DEF LifeInv, LifeTypeOK, TransferTypeOK
  <1>6. /\ \A f \in Files : data'[f] <= versions
        /\ \A a \in Agents : reg'.dirs[a] # "both"
        /\ data' \in seen' /\ seen' = seen /\ seen' \in SUBSET Versions /\ scratch' = {}
        /\ siblings' \in SUBSET DirectoryRecord
        /\ failures' \in Nat /\ failures <= failures' /\ evidence' \subseteq evidence
    BY <1>1 DEF LifeInv, LifeTypeOK, LivesTypeOK, TransferTypeOK, VersionsGrow, OneProfile, Keeps
  <1>7. proc = "down" /\ rec.pc = "idle" /\ backup.pc = "idle"
    BY <1>1, RestoreAlone
  <1>8. QED
    BY <1>1, <1>2, <1>3, <1>4, <1>5, <1>6, <1>7, RestoreOnly

LEMMA ClearGood ==
  ASSUME LifeInv, Clear
  PROVE  LifeInv'
  <1>1. restore.pc = "clear" /\ siblings' = siblings
    BY DEF Clear, Restoring
  <1>2. EvidenceKept'
    <2>1. scratch = {}
      BY <1>1 DEF LifeInv, OwnScratch, Replacing
    <2>2. QED
      BY <1>1, <2>1 DEF EvidenceKept, LifeInv, Clear, Restoring
  <1>3. /\ NoDirectory \in DirectoryRecord /\ NoDirectory.data \in Versions
        /\ \A f \in Files : NoDirectory.data[f] <= versions
        /\ \A a \in Agents : NoDirectory.reg.dirs[a] # "both"
    BY NoDirectoryType, NoRegistryType DEF LifeInv, LifeTypeOK, TransferTypeOK
  <1>4. siblings' \in SUBSET DirectoryRecord /\ (restore.had => restore.prior \in siblings')
    BY <1>1 DEF LifeInv, LifeTypeOK, TransferTypeOK, PriorKept, Replacing
  <1>5. PICK pc \in {"idle", "last"} : RestoreGoes(pc) /\ (pc = "last" => restore.had)
    BY DEF Clear
  <1>6. QED
    BY <1>1, <1>2, <1>3, <1>4, <1>5, NoDirectoryType, RestoreMoves DEF Clear, Replacing

LEMMA MoveDirectoryBackGood ==
  ASSUME LifeInv, MoveDirectoryBack
  PROVE  LifeInv'
  <1>1. /\ restore.pc \in {"back", "again", "last"} /\ Restoring(restore.pc) /\ restore.had
        /\ siblings' = siblings \ {restore.prior} /\ scratch' = restore.prior.scratch
    BY DEF MoveDirectoryBack, Restoring, Becomes, LifeInv, PriorKept
  <1>2. EvidenceKept'
    <2>1. scratch = {} /\ UNCHANGED <<evidence, staged, quarantine>>
      BY <1>1 DEF LifeInv, OwnScratch, Replacing, MoveDirectoryBack, Restoring
    <2>2. ASSUME NEW s \in evidence
          PROVE  \/ s \in scratch' \/ s \in staged \/ s \in quarantine
                 \/ \E d \in siblings' : s \in d.scratch
      <3>1. s \in staged \/ s \in quarantine \/ \E d \in siblings : s \in d.scratch
        BY <2>1, <2>2 DEF LifeInv, EvidenceKept
      <3>2. QED
        BY <1>1, <3>1
    <2>3. QED
      BY <2>1, <2>2 DEF EvidenceKept
  <1>3. /\ restore.prior \in DirectoryRecord /\ restore.prior.data \in Versions /\ restore.prior.exists
        /\ \A f \in Files : restore.prior.data[f] <= versions
        /\ \A a \in Agents : restore.prior.reg.dirs[a] # "both"
    BY <1>1, PriorBounds DEF DirectoryRecord
  <1>4. siblings' \in SUBSET DirectoryRecord
    BY <1>1 DEF LifeInv, LifeTypeOK, TransferTypeOK
  <1>5. Becomes(restore.prior) /\ RestoreGoes("idle") /\ UNCHANGED <<failures, evidence>>
    BY DEF MoveDirectoryBack
  <1>6. QED
    BY <1>1, <1>2, <1>3, <1>4, <1>5, RestoreMoves DEF Replacing

\* The steps of a restore that move nothing, one that fails or is stopped among them.
LEMMA WaitsGood ==
  ASSUME LifeInv,
         CopyBundle \/ Validate \/ RestoreFails \/ MoveDirectoryBackFails
         \/ (RestoreStops /\ restore.pc # "discard")
  PROVE  LifeInv'
  <1>1. /\ restore.pc # "idle" /\ Restoring(restore.pc) /\ Keeps /\ UNCHANGED <<siblings, evidence>>
    BY DEF CopyBundle, Validate, RestoreFails, MoveDirectoryBackFails, RestoreStops, Restoring
  <1>2. failures' \in Nat /\ failures <= failures'
    BY DEF CopyBundle, Validate, RestoreFails, MoveDirectoryBackFails, RestoreStops, Failure,
           LifeInv, LifeTypeOK, LivesTypeOK
  <1>3. restore.pc \in {"again", "back"} => restore.had
    BY DEF LifeInv, PriorKept
  <1>4. PICK pc \in {"idle", "copy", "aside"} \cup Replacing :
            /\ restore' = [restore EXCEPT !.pc = pc]
            /\ pc \in {"copy", "aside"} => restore.pc \in {"copy", "aside"}
            /\ pc \in {"aside", "discard", "back", "again", "last"} => restore.had
            /\ pc \in Replacing => restore.pc \in Replacing \/ ~restore.had
    <2> USE DEF Replacing, RestoreGoes, Restoring
    <2>1. CASE CopyBundle
      <3>1. PICK pc \in {"idle", "aside", "install"} :
                /\ restore' = [restore EXCEPT !.pc = pc]
                /\ (pc = "aside" => restore.had) /\ (pc = "install" => ~restore.had)
        BY <2>1 DEF CopyBundle
      <3>2. restore.pc = "copy"
        BY <2>1 DEF CopyBundle
      <3>3. QED
        BY <3>1, <3>2
    <2>2. CASE Validate
      <3>1. PICK pc \in {"idle", "discard"} :
                restore' = [restore EXCEPT !.pc = pc] /\ (pc = "discard" => restore.had)
        BY <2>2 DEF Validate
      <3>2. restore.pc = "validate"
        BY <2>2 DEF Validate
      <3>3. QED
        BY <3>1, <3>2
    <2>3. CASE RestoreFails
      <3>1. PICK pc \in {"idle", "back", "clear"} :
                /\ restore' = [restore EXCEPT !.pc = pc] /\ (pc = "back" => restore.had)
                /\ pc # "idle" => restore.pc \in Replacing
        BY <2>3 DEF RestoreFails
      <3>2. QED
        BY <3>1
    <2>4. CASE MoveDirectoryBackFails
      <3>1. PICK pc \in {"idle", "again"} :
                /\ restore' = [restore EXCEPT !.pc = pc]
                /\ pc = "again" => restore.pc = "back"
        BY <2>4 DEF MoveDirectoryBackFails
      <3>2. QED
        BY <1>3, <3>1
    <2>5. CASE RestoreStops /\ restore.pc # "discard"
      BY <2>5 DEF RestoreStops
    <2>6. QED
      BY <2>1, <2>2, <2>3, <2>4, <2>5
  <1>5. QED
    BY <1>1, <1>2, <1>4, RestoreWaits

\* A stop while the old directory is discarded: the new one has been validated.
LEMMA StopInDiscardGood ==
  ASSUME LifeInv, RestoreStops, restore.pc = "discard"
  PROVE  LifeInv'
  <1>1. /\ restore' = NoRestore /\ Keeps /\ UNCHANGED <<siblings, evidence>>
        /\ UNCHANGED <<mig, proc, rec, staged, quarantine, versions, backup, bundle>>
        /\ failures' \in Nat /\ failures <= failures'
    BY DEF RestoreStops, Restoring, Failure, LifeInv, LifeTypeOK, LivesTypeOK
  <1>2. PriorKept'
    BY <1>1, NoRestoreType, NoDirectoryType DEF PriorKept, Replacing, RestoreKeepsState
  <1>3. /\ restore' \in RestoreRecord /\ \A f \in Files : restore'.prior.data[f] <= versions
        /\ \A a \in Agents : restore'.prior.reg.dirs[a] # "both"
    <2>1. restore'.prior.data = Absent /\ restore'.prior.reg = NoRegistry /\ restore' \in RestoreRecord
      BY <1>1, NoRestoreType, NoDirectoryType
    <2>2. QED
      BY <2>1, NoRegistryType DEF LifeInv, LifeTypeOK, TransferTypeOK
  <1>4. proc = "down" /\ rec.pc = "idle" /\ backup.pc = "idle"
    BY RestoreAlone
  <1>5. restore'.pc \notin Replacing
    BY <1>1, NoRestoreType DEF Replacing
  <1>6. QED
    BY <1>1, <1>2, <1>3, <1>4, <1>5, RestoreKeeps

LEMMA RestoreGood ==
  ASSUME LifeInv, RestoreNext
  PROVE  LifeInv'
  <1>1. CASE RestoreBegins \/ SetAside \/ Install \/ Discard \/ Clear \/ MoveDirectoryBack
    BY <1>1, RestoreBeginsGood, SetAsideGood, InstallGood, DiscardGood, ClearGood, MoveDirectoryBackGood
  <1>2. CASE CopyBundle \/ Validate \/ RestoreFails \/ MoveDirectoryBackFails
    BY <1>2, WaitsGood
  <1>3. CASE RestoreStops
    BY <1>3, WaitsGood, StopInDiscardGood
  <1>4. QED
    BY <1>1, <1>2, <1>3 DEF RestoreNext

-----------------------------------------------------------------------------
(* The theorems *)

LEMMA LifeInit ==
  ASSUME TransferInit
  PROVE  LifeInv
  <1>1. /\ reg \in Registry /\ \A a \in Agents : reg.dirs[a] # "both"
    BY DEF TransferInit, Init, StartRegistry, Registry, StateDoc, FileStatus, Place
  <1>2. LivesTypeOK
    BY <1>1, NoMigrationType, NoRecoveryType DEF TransferInit, Init, LivesTypeOK
  <1>3. data \in Versions /\ \A f \in Files : data[f] = 1
    BY DEF TransferInit, Versions
  <1>4. bundle \in BundleRecord /\ bundle.made = FALSE /\ \A f \in Files : bundle.files[f] = 0
    BY NoRegistryType DEF TransferInit, NoBundle, BundleRecord
  <1>5. TransferTypeOK
    BY <1>3, <1>4, NoBackupType, NoRestoreType DEF TransferInit, TransferTypeOK
  <1>6. OneCommand
    BY NoRecoveryType, NoRestoreType DEF TransferInit, Init, OneCommand
  <1>7. OneProfile
    <2>1. restore.prior.reg = NoRegistry /\ mig.pc = "idle" /\ proc = "down"
      BY NoRestoreType, NoDirectoryType, NoMigrationType DEF TransferInit, Init
    <2>2. QED
      BY <1>1, <2>1, NoRegistryType DEF OneProfile
  <1>8. OwnScratch /\ EvidenceKept
    BY DEF TransferInit, Init, OwnScratch, EvidenceKept
  <1>9. PriorKept
    BY NoRestoreType, NoDirectoryType DEF TransferInit, PriorKept, Replacing, RestoreKeepsState
  <1>10. VersionsGrow
    <2>1. restore.prior.data = Absent /\ versions = 1 /\ data \in seen
      BY NoRestoreType, NoDirectoryType DEF TransferInit
    <2>2. QED
      BY <1>3, <1>4, <2>1, NoRegistryType DEF VersionsGrow
  <1>11. CopyIsOfOneMoment /\ BackupConsistent
    BY <1>4, NoBackupType DEF TransferInit, CopyIsOfOneMoment, BackupConsistent
  <1>12. QED
    BY <1>2, <1>5, <1>6, <1>7, <1>8, <1>9, <1>10, <1>11 DEF LifeInv, LifeTypeOK

LEMMA LifeStutters ==
  ASSUME LifeInv, UNCHANGED vars
  PROVE  LifeInv'
  <1>1. UNCHANGED <<reg, mig, failures, startVars, data, versions, restore, siblings, seen>>
        /\ UNCHANGED <<backup, bundle>>
    BY DEF vars, transferVars
  <1>2. LifeTypeOK'
    BY <1>1 DEF LifeInv, LifeTypeOK, LivesTypeOK, TransferTypeOK, startVars
  <1>3. OneCommand' /\ OneProfile'
    BY <1>1 DEF LifeInv, OneCommand, OneProfile, startVars
  <1>4. OwnScratch' /\ EvidenceKept'
    BY <1>1 DEF LifeInv, OwnScratch, EvidenceKept, startVars
  <1>5. PriorKept'
    BY <1>1 DEF LifeInv, PriorKept, RestoreKeepsState, Here, startVars
  <1>6. VersionsGrow' /\ BackupConsistent'
    BY <1>1 DEF LifeInv, VersionsGrow, BackupConsistent
  <1>7. CopyIsOfOneMoment'
    BY <1>1 DEF LifeInv, CopyIsOfOneMoment, Moment
  <1>8. QED
    BY <1>2, <1>3, <1>4, <1>5, <1>6, <1>7 DEF LifeInv

\* The inductive invariant holds of the data directory, whatever is started, fails or stops.
THEOREM LifeInvariant == Spec => []LifeInv
  <1>1. TransferInit => LifeInv
    BY LifeInit
  <1>2. LifeInv /\ [Next]_vars => LifeInv'
    BY LivesGood, AppendRowGood, RecoversGood, BackupGood, RestoreGood, LifeStutters DEF Next
  <1>3. QED
    BY <1>1, <1>2, PTL DEF Spec

\* The files of the data directory and the locals of the commands have their types (runtime.js,
\* computer-migration.js, crash-recovery.js, state-transfer.js).
THEOREM LifeTypeCorrect == Spec => []LifeTypeOK
  BY LifeInvariant, PTL DEF LifeInv

\* Stops, failed renames and rollbacks of the migration never give a computer two directories, and no
\* runtime works with a registry that is not of version 2 (computer-migration.js, registry init).
THEOREM ProfileIsKept == Spec => []ProfileKept
  <1>1. LifeInv => ProfileKept
    BY DEF LifeInv, OneProfile, ProfileKept
  <1>2. QED
    BY <1>1, LifeInvariant, PTL

\* What a stopped runtime leaves behind is never deleted, whatever fails or stops in
\* `recover --apply` or in a restore (applyCrashRecovery, restoreStateBackup).
THEOREM EvidenceIsKept == Spec => []EvidenceKept
  BY LifeInvariant, PTL DEF LifeInv

\* A published bundle holds core files as they were together at one time, although the runtime
\* writes them while they are copied (createStateBackup).
THEOREM BackupIsConsistent == Spec => []BackupConsistent
  BY LifeInvariant, PTL DEF LifeInv

\* Until what replaces it has been validated, the directory that a restore found is in place or set
\* aside, at every step and after every failure or stop (restoreStateBackup).
THEOREM RestoreIsSafe == Spec => []RestoreKeepsState
  <1>1. LifeInv => RestoreKeepsState
    BY DEF LifeInv, PriorKept
  <1>2. QED
    BY <1>1, LifeInvariant, PTL

\* A data directory that doctor calls ok is one that the preflight lets start, and a provider that a
\* task left running lacks is an error: the two share no code (runDoctor, preflightRuntimeStartup).
THEOREM DoctorIsRight == Spec => []DoctorExplains
  <1>1. ASSUME NEW m \in Machine, Overall(FileResults \cup MachineResults(m)) = "ok"
        PROVE  Preflight
    <2>1. \A c \in FileResults : c # "error" /\ c # "warning"
      BY <1>1 DEF Overall
    <2>2. /\ exists => ~torn /\ ~txn /\ scratch = {}
          /\ exists => Inspect(reg) \in {"none", "current"}
      BY <2>1 DEF FileResults, LogCheck, PolicyCheck, MigrationCheck, StaleCheck
    <2>3. QED
      BY <2>2 DEF Preflight, LogsPass, PolicyPasses, ComputersPass, NothingIsLeft
  <1>2. ASSUME NEW m \in Machine, active, exists, m.cli = "missing"
        PROVE  Overall(FileResults \cup MachineResults(m)) = "error"
    <2>1. HarnessCheck(m.cli) = "error"
      BY <1>2 DEF HarnessCheck, Required
    <2>2. QED
      BY <2>1 DEF Overall, MachineResults
  <1>3. DoctorExplains
    BY <1>1, <1>2 DEF DoctorExplains
  <1>4. QED
    BY <1>3, PTL
=============================================================================
