----------------------- MODULE PolicyActivationProofs -----------------------
(***************************************************************************)
(* Proofs about PolicyActivation for every set of policies and every value *)
(* of the bounds: wherever a file operation or an append fails and         *)
(* wherever the process stops, the pointer, the marker, the engine and the *)
(* audit log agree on the policy.                                          *)
(***************************************************************************)
EXTENDS PolicyActivation, TLAPS

-----------------------------------------------------------------------------
(* The inductive invariant *)

Engines == [version : Nat, tx : Nat]
Markers == [kind : {"none", "bootstrap", "activation"}, tx : Nat, to : Nat]
Rows == [type : {"activated", "decision"}, tx : Nat, to : Nat]
Commits == [tx : Nat, to : Nat]
Operations ==
    [pc : {"idle", "begin", "pointer", "swap", "commit", "clear", "restore"},
     to : Nat, from : Nat, tx : Nat, undo : Engines]

\* Every store and every field of the process has its type.
TypeOK ==
    /\ versions \in Seq(Policies) /\ pointer \in Nat /\ marker \in Markers
    /\ chain \in Seq(Commits)
    /\ pc \in {"down", "marker", "version", "pointer", "clear", "up"}
    /\ active \in Nat /\ engine \in Engines /\ op \in Operations
    /\ pending \in BOOLEAN /\ queue \in Seq(Rows)
    /\ tx \in Nat

\* An operation lives in a runtime that serves, and a locked manager has none.
OneAtATime ==
    /\ pc # "up" => op = Idle /\ pending = FALSE /\ queue = <<>>
    /\ op.pc # "idle" => pending = FALSE

\* What the start finds and leaves: a bootstrap precedes the first activation, and
\* a runtime that serves has a pointer and no bootstrap marker.
BootOrder ==
    /\ pc = "marker" => pointer = 0
    /\ pc \in {"version", "pointer"} => marker.kind = "bootstrap"
    /\ pc = "clear" => pointer # 0 /\ pointer = LastTo
    /\ pc = "up" => pointer # 0 /\ marker.kind # "bootstrap"

\* The marker tells what the pointer means: without one it names the version
\* committed last; that of an activation belongs to the last transaction begun.
MarkerTells ==
    /\ pointer = 0 => chain = <<>>
    /\ marker.kind = "none" => marker = NoMarker /\ (pointer # 0 => pointer = LastTo)
    /\ marker.kind = "bootstrap" => chain = <<>> /\ marker.to = 1
    /\ marker.kind = "activation" =>
        marker.tx = tx /\ pointer # 0 /\ (Committed(tx) => LastTo = marker.to)

\* The transactions in the audit log have been begun, and only the last row can be
\* that of the last transaction.
ChainOrdered ==
    \A i \in DOMAIN chain :
        chain[i].tx <= tx /\ (chain[i].tx = tx => i = Len(chain))

\* Where the pointer, the store's copy, the engine and the marker stand at each
\* step of an activation.
Uncommitted == \A i \in DOMAIN chain : chain[i].tx # tx

Undoable ==
    /\ op.undo.version = LastTo /\ op.undo.tx = LastTx
    /\ op.from = LastTo /\ op.from # 0

Marked == marker.kind = "activation" /\ marker.to = op.to /\ op.tx = tx

Standing ==
    /\ op.pc \in {"begin", "pointer", "swap", "commit", "restore"} => Undoable /\ op.to # 0
    /\ op.pc \in {"pointer", "swap", "commit", "restore"} => Marked /\ Uncommitted
    /\ op.pc = "clear" => marker.kind = "activation"
    /\ pc = "up" /\ op.pc \in {"idle", "begin"} /\ ~pending => marker = NoMarker
    /\ pc = "up" /\ op.pc \in {"idle", "begin", "pointer", "clear"} /\ ~pending =>
        pointer = LastTo /\ active = LastTo /\ engine.version = LastTo
    /\ op.pc = "swap" => pointer = op.to /\ active = op.from /\ engine = op.undo
    /\ op.pc = "commit" =>
        pointer = op.to /\ active = op.to /\ engine = [version |-> op.to, tx |-> op.tx]
    /\ op.pc = "restore" => engine = op.undo
    /\ pc = "up" /\ op.pc # "commit" => engine.tx = LastTx

\* The queue holds the activation row of the operation that waits for it and no
\* other; decisions in front of it are of the engine committed last, or of one
\* whose row failed; those behind it are of the new engine.
IsRow(i) == i \in DOMAIN queue /\ queue[i].type = "activated"

QueueOrdered ==
    /\ op.pc = "commit" => \E i \in DOMAIN queue : IsRow(i)
    /\ \A i \in DOMAIN queue : IsRow(i) =>
        op.pc = "commit" /\ queue[i].tx = op.tx /\ queue[i].to = op.to
    /\ \A i, j \in DOMAIN queue : IsRow(i) /\ IsRow(j) => i = j
    /\ \A i \in DOMAIN queue : queue[i].type = "decision" =>
        \/ queue[i].tx \in dropped
        \/ queue[i].tx = LastTx /\ \A j \in DOMAIN queue : IsRow(j) => i < j
        \/ queue[i].tx = op.tx /\ \E j \in DOMAIN queue : IsRow(j) /\ j < i

IInv == TypeOK /\ OneAtATime /\ BootOrder /\ MarkerTells /\ ChainOrdered /\ Standing
        /\ QueueOrdered

-----------------------------------------------------------------------------
(* Lemmas about the log and the queue *)

LEMMA LastType ==
  ASSUME TypeOK
  PROVE  LastTx \in Nat /\ LastTo \in Nat
  <1>1. CASE chain = <<>>
    BY <1>1 DEF LastTx, LastTo
  <1>2. CASE chain # <<>>
    <2>1. chain[Len(chain)] \in Commits
      BY <1>2 DEF TypeOK
    <2>2. QED
      BY <1>2, <2>1 DEF LastTx, LastTo, Commits
  <1>3. QED
    BY <1>1, <1>2

LEMMA CommitType ==
  ASSUME TypeOK, NEW i \in DOMAIN chain
  PROVE  chain[i] \in Commits /\ chain[i].tx \in Nat
  <1>1. chain[i] \in Commits
    BY DEF TypeOK
  <1>2. QED
    BY <1>1 DEF Commits

\* The last row decides what a log of this length tells.
LEMMA SameChain ==
  ASSUME chain' = chain
  PROVE  LastTx' = LastTx /\ LastTo' = LastTo
  BY DEF LastTx, LastTo

\* A committed transaction is that of the last row.
LEMMA AppendedChain ==
  ASSUME chain \in Seq(Commits), NEW row \in Commits, chain' = Append(chain, row)
  PROVE  /\ LastTx' = row.tx /\ LastTo' = row.to
         /\ Len(chain') = Len(chain) + 1
         /\ \A i \in DOMAIN chain : i \in DOMAIN chain' /\ chain'[i] = chain[i]
         /\ \A i \in DOMAIN chain' : i = Len(chain') \/ i \in DOMAIN chain
         /\ chain'[Len(chain')] = row
  BY DEF LastTx, LastTo, Commits

LEMMA AppendedRow ==
  ASSUME queue \in Seq(Rows), NEW row \in Rows, queue' = Append(queue, row)
  PROVE  /\ Len(queue') = Len(queue) + 1
         /\ queue' \in Seq(Rows)
         /\ \A i \in DOMAIN queue : i \in DOMAIN queue' /\ queue'[i] = queue[i] /\ i < Len(queue')
         /\ \A i \in DOMAIN queue' : i = Len(queue') \/ i \in DOMAIN queue
         /\ Len(queue') \in DOMAIN queue' /\ queue'[Len(queue')] = row
  OBVIOUS

\* Taking the oldest row shifts the others.
LEMMA TakenRow ==
  ASSUME queue \in Seq(Rows), queue # <<>>, queue' = Tail(queue)
  PROVE  /\ Head(queue) = queue[1] /\ 1 \in DOMAIN queue /\ queue[1] \in Rows
         /\ queue' \in Seq(Rows)
         /\ \A i \in DOMAIN queue' :
                i \in Nat \ {0} /\ i + 1 \in DOMAIN queue /\ queue'[i] = queue[i + 1]
         /\ \A i \in DOMAIN queue : i \in Nat /\ (i = 1 \/ (i - 1 \in DOMAIN queue' /\ queue'[i - 1] = queue[i]))
  <1>1. queue' \in Seq(Rows) /\ Len(queue') = Len(queue) - 1 /\ Len(queue) \in Nat \ {0}
    OBVIOUS
  <1>2. DOMAIN queue = 1..Len(queue) /\ DOMAIN queue' = 1..(Len(queue) - 1)
    BY <1>1
  <1>3. \A i \in 1..(Len(queue) - 1) : queue'[i] = queue[i + 1]
    BY <1>1, <1>2
  <1>4. Head(queue) = queue[1] /\ queue[1] \in Rows
    OBVIOUS
  <1>5. ASSUME NEW i \in DOMAIN queue, i # 1
        PROVE  i - 1 \in DOMAIN queue' /\ queue'[i - 1] = queue[i]
    <2>1. i - 1 \in 1..(Len(queue) - 1) /\ (i - 1) + 1 = i
      BY <1>1, <1>2, <1>5
    <2>2. QED
      BY <1>2, <1>3, <2>1
  <1>6. ASSUME NEW i \in DOMAIN queue'
        PROVE  i \in Nat \ {0} /\ i + 1 \in DOMAIN queue /\ queue'[i] = queue[i + 1]
    BY <1>1, <1>2, <1>3
  <1>7. 1 \in DOMAIN queue /\ \A i \in DOMAIN queue : i \in Nat
    BY <1>1, <1>2
  <1>8. \A i \in DOMAIN queue :
            i \in Nat /\ (i = 1 \/ (i - 1 \in DOMAIN queue' /\ queue'[i - 1] = queue[i]))
    BY <1>5, <1>7, Zenon
  <1>9. QED
    BY <1>1, <1>4, <1>6, <1>7, <1>8, Zenon

-----------------------------------------------------------------------------
(* Type correctness *)

LEMMA InitType == Init => TypeOK
  <1> SUFFICES ASSUME Init PROVE TypeOK
    OBVIOUS
  <1>1. marker \in Markers /\ engine \in Engines /\ op \in Operations
    BY DEF Init, NoMarker, NoEngine, Idle, Engines, Markers, Operations
  <1>2. versions \in Seq(Policies) /\ chain \in Seq(Commits) /\ queue \in Seq(Rows)
    BY DEF Init
  <1>3. QED
    BY <1>1, <1>2 DEF Init, TypeOK

LEMMA LoadType ==
  ASSUME TypeOK, NEW v \in Nat, Load(v)
  PROVE  /\ pc' = "up" /\ active' \in Nat /\ engine' \in Engines
         /\ op' = op /\ pending' = pending /\ queue' = queue
  BY LastType DEF Load, Engines

LEMMA GoType ==
  ASSUME TypeOK, NEW label \in {"idle", "begin", "pointer", "swap", "commit", "clear", "restore"},
         Go(label)
  PROVE  op' \in Operations
  BY DEF Go, TypeOK, Operations

LEMMA IdleType == Idle \in Operations
  BY DEF Idle, Operations, NoEngine, Engines

LEMMA BeginType ==
  ASSUME TypeOK, NEW v \in Nat, Begin(v)
  PROVE  op' \in Operations
  BY DEF Begin, TypeOK, Operations

LEMMA NextType == TypeOK /\ [Next]_vars => TypeOK'
  <1> SUFFICES ASSUME TypeOK, [Next]_vars PROVE TypeOK'
    OBVIOUS
  <1> USE DEF durable, process
  <1>1. CASE Start
    <2>1. CASE marker.kind = "none" /\ pointer # 0 /\ Load(pointer)
      BY <1>1, <2>1, LoadType DEF Start, TypeOK
    <2>2. CASE \E label \in {"marker", "version", "pointer", "clear"} : Boot(label)
      BY <1>1, <2>2 DEF Start, Boot, TypeOK
    <2>3. QED
      BY <1>1, <2>1, <2>2 DEF Start
  <1>2. CASE BootMarker \/ BootVersion \/ BootPointer
    <2>1. \A p \in Policies : <<p>> \in Seq(Policies)
      OBVIOUS
    <2>2. versions' \in Seq(Policies)
      BY <1>2, <2>1 DEF BootMarker, BootVersion, BootPointer, TypeOK
    <2>3. marker' \in Markers /\ pointer' \in Nat
      BY <1>2 DEF BootMarker, BootVersion, BootPointer, TypeOK, Markers
    <2>4. QED
      BY <1>2, <2>2, <2>3 DEF BootMarker, BootVersion, BootPointer, Boot, TypeOK
  <1>3. CASE BootClear
    <2>1. Load(pointer) /\ pointer \in Nat
      BY <1>3 DEF BootClear, TypeOK
    <2>2. NoMarker \in Markers
      BY DEF NoMarker, Markers
    <2>3. QED
      BY <1>3, <2>1, <2>2, LoadType DEF BootClear, TypeOK
  <1>4. ASSUME NEW p \in Policies, Apply(p)
        PROVE  TypeOK'
    <2>1. op' \in Operations
      BY <1>4, BeginType DEF Apply, TypeOK
    <2>2. versions' \in Seq(Policies)
      BY <1>4 DEF Apply, TypeOK
    <2>3. QED
      BY <1>4, <2>1, <2>2 DEF Apply, TypeOK
  <1>5. ASSUME NEW v \in Versions, Rollback(v)
        PROVE  TypeOK'
    <2>1. op' \in Operations
      BY <1>5, BeginType DEF Rollback, TypeOK
    <2>2. QED
      BY <1>5, <2>1 DEF Rollback, TypeOK
  <1>6. CASE BeginActivation
    <2>1. CASE marker = NoMarker
      <3>1. tx' \in Nat /\ op.to \in Nat
        BY <1>6, <2>1 DEF BeginActivation, TypeOK, Operations
      <3>2. marker' \in Markers
        BY <1>6, <2>1, <3>1 DEF BeginActivation, Markers
      <3>3. op' = [op EXCEPT !.pc = "pointer", !.tx = tx'] /\ op \in Operations
        BY <1>6, <2>1 DEF BeginActivation, TypeOK
      <3>4. op' \in Operations
        BY <3>1, <3>3 DEF Operations
      <3>5. QED
        BY <1>6, <2>1, <3>1, <3>2, <3>4 DEF BeginActivation, TypeOK
    <2>2. CASE marker # NoMarker
      BY <1>6, <2>2, IdleType DEF BeginActivation, TypeOK
    <2>3. QED
      BY <2>1, <2>2
  <1>7. CASE SetPointer \/ RestorePointer
    <2>1. op' \in Operations
      BY <1>7, GoType DEF SetPointer, RestorePointer
    <2>2. op.to \in Nat /\ op.from \in Nat
      BY DEF TypeOK, Operations
    <2>3. QED
      BY <1>7, <2>1, <2>2 DEF SetPointer, RestorePointer, TypeOK
  <1>8. CASE Swap
    <2>1. op' \in Operations
      BY <1>8, GoType DEF Swap
    <2>2. op.to \in Nat /\ op.tx \in Nat
      BY DEF TypeOK, Operations
    <2>3. Activation(op.tx, op.to) \in Rows /\ [version |-> op.to, tx |-> op.tx] \in Engines
      BY <2>2 DEF Activation, Rows, Engines
    <2>4. queue' \in Seq(Rows)
      BY <1>8, <2>3 DEF Swap, TypeOK
    <2>5. QED
      BY <1>8, <2>1, <2>2, <2>3, <2>4 DEF Swap, TypeOK
  <1>9. CASE ClearMarker
    BY <1>9, IdleType DEF ClearMarker, TypeOK, NoMarker, Markers
  <1>10. CASE Fails
    <2>1. op' \in Operations
      BY <1>10, IdleType, GoType DEF Fails
    <2>2. QED
      BY <1>10, <2>1 DEF Fails, TypeOK
  <1>11. CASE Authorize
    <2>1. Decision(engine.tx) \in Rows
      BY DEF Decision, Rows, TypeOK, Engines
    <2>2. queue' \in Seq(Rows)
      BY <1>11, <2>1 DEF Authorize, TypeOK
    <2>3. QED
      BY <1>11, <2>2 DEF Authorize, TypeOK
  <1>12. CASE AppendRow
    <2>1. queue' \in Seq(Rows) /\ Head(queue) \in Rows
      BY <1>12 DEF AppendRow, TypeOK
    <2>2. op' \in Operations
      BY <1>12, GoType DEF AppendRow, TypeOK
    <2>3. [tx |-> Head(queue).tx, to |-> Head(queue).to] \in Commits
      BY <2>1 DEF Rows, Commits
    <2>4. chain' \in Seq(Commits)
      <3>1. CASE chain' = chain
        BY <3>1 DEF TypeOK
      <3>2. CASE chain' = Append(chain, [tx |-> Head(queue).tx, to |-> Head(queue).to])
        BY <2>3, <3>2 DEF TypeOK
      <3>3. QED
        BY <1>12, <3>1, <3>2 DEF AppendRow
    <2>5. QED
      BY <1>12, <2>1, <2>2, <2>4 DEF AppendRow, TypeOK
  <1>13. CASE AppendFails
    <2>1. queue' \in Seq(Rows)
      BY <1>13 DEF AppendFails, TypeOK
    <2>2. op' \in Operations
      BY <1>13, GoType DEF AppendFails, TypeOK
    <2>3. op.undo \in Engines
      BY DEF TypeOK, Operations
    <2>4. QED
      BY <1>13, <2>1, <2>2, <2>3 DEF AppendFails, TypeOK
  <1>14. CASE Stop
    <2>1. queue' \in Seq(Rows) /\ engine' \in Engines
      BY <1>14 DEF Stop, NoEngine, Engines
    <2>2. QED
      BY <1>14, <2>1, IdleType DEF Stop, TypeOK
  <1>15. CASE UNCHANGED vars
    BY <1>15 DEF vars, TypeOK
  <1>16. QED
    BY <1>1, <1>2, <1>3, <1>4, <1>5, <1>6, <1>7, <1>8, <1>9, <1>10, <1>11, <1>12, <1>13,
       <1>14, <1>15 DEF Next

-----------------------------------------------------------------------------
(* The invariant: one lemma per part, one step per action *)

LEMMA InitInv == Init => IInv
  <1> SUFFICES ASSUME Init PROVE IInv
    OBVIOUS
  <1>1. TypeOK
    BY InitType
  <1>2. OneAtATime /\ BootOrder /\ MarkerTells /\ ChainOrdered /\ Standing
    BY DEF Init, OneAtATime, BootOrder, MarkerTells, ChainOrdered, Standing, NoMarker, Idle
  <1>3. QueueOrdered
    BY DEF Init, QueueOrdered, IsRow, Idle
  <1>4. QED
    BY <1>1, <1>2, <1>3 DEF IInv

LEMMA NextOneAtATime == IInv /\ [Next]_vars => OneAtATime'
  <1> SUFFICES ASSUME IInv, [Next]_vars PROVE OneAtATime'
    OBVIOUS
  <1> USE DEF IInv, OneAtATime, durable, process
  <1>1. CASE Start \/ BootMarker \/ BootVersion \/ BootPointer \/ BootClear
    BY <1>1 DEF Start, BootMarker, BootVersion, BootPointer, BootClear, Boot, Load
  <1>2. CASE (\E p \in Policies : Apply(p)) \/ (\E v \in Versions : Rollback(v))
    BY <1>2 DEF Apply, Rollback, Ready, TypeOK
  <1>3. CASE BeginActivation \/ SetPointer \/ Swap \/ ClearMarker \/ RestorePointer
    BY <1>3 DEF BeginActivation, SetPointer, Swap, ClearMarker, RestorePointer, Idle, TypeOK
  <1>4. CASE Fails
    BY <1>4 DEF Fails, Go, Idle, TypeOK
  <1>5. CASE Authorize \/ AppendRow \/ AppendFails
    <2>1. pc = "up" /\ pc' = "up" /\ pending' = pending
      BY <1>5 DEF Authorize, AppendRow, AppendFails
    <2>2. CASE op' = op
      BY <2>1, <2>2
    <2>3. CASE op' # op
      <3>1. Head(queue).type = "activated" /\ queue # <<>>
        BY <1>5, <2>3 DEF Authorize, AppendRow, AppendFails
      <3>2. op.pc = "commit"
        BY <3>1, TakenRow DEF QueueOrdered, IsRow, TypeOK
      <3>3. QED
        BY <2>1, <3>2
    <2>4. QED
      BY <2>2, <2>3
  <1>6. CASE Stop
    BY <1>6 DEF Stop, Idle
  <1>7. CASE UNCHANGED vars
    BY <1>7 DEF vars
  <1>8. QED
    BY <1>1, <1>2, <1>3, <1>4, <1>5, <1>6, <1>7 DEF Next

LEMMA NextBootOrder == IInv /\ [Next]_vars => BootOrder'
  <1> SUFFICES ASSUME IInv, [Next]_vars PROVE BootOrder'
    OBVIOUS
  <1> USE DEF IInv, BootOrder, durable, process
  <1>1. CASE Start
    BY <1>1, SameChain DEF Start, Boot, Load, MarkerTells, TypeOK, Markers
  <1>2. CASE BootMarker \/ BootVersion \/ BootPointer \/ BootClear
    BY <1>2, SameChain DEF BootMarker, BootVersion, BootPointer, BootClear, Boot, Load, MarkerTells,
       NoMarker, LastTo
  <1>3. CASE \/ \E p \in Policies : Apply(p)
             \/ \E v \in Versions : Rollback(v)
             \/ BeginActivation \/ ClearMarker \/ Fails \/ Swap
             \/ Authorize
    BY <1>3, SameChain DEF Apply, Rollback, Ready, BeginActivation, ClearMarker, Fails, Swap,
       Authorize, NoMarker, OneAtATime, Standing, MarkerTells, Idle
  <1>4. CASE SetPointer \/ RestorePointer
    BY <1>4 DEF SetPointer, RestorePointer, OneAtATime, Standing, Undoable, Idle
  <1>5. CASE AppendRow \/ AppendFails
    BY <1>5 DEF AppendRow, AppendFails, OneAtATime
  <1>6. CASE Stop \/ UNCHANGED vars
    BY <1>6 DEF Stop, vars, LastTo
  <1>7. QED
    BY <1>1, <1>2, <1>3, <1>4, <1>5, <1>6 DEF Next

\* The row at the head of the queue, when it is an activation, is that of the
\* operation that waits for it.
LEMMA HeadRow ==
  ASSUME IInv, queue # <<>>
  PROVE  /\ Head(queue) \in Rows
         /\ Head(queue).type = "activated" =>
                op.pc = "commit" /\ Head(queue).tx = op.tx /\ Head(queue).to = op.to
  <1>1. Head(queue) = queue[1] /\ 1 \in DOMAIN queue /\ queue[1] \in Rows
    BY DEF IInv, TypeOK
  <1>2. QED
    BY <1>1 DEF IInv, QueueOrdered, IsRow

LEMMA NextMarkerTells == IInv /\ [Next]_vars => MarkerTells'
  <1> SUFFICES ASSUME IInv, [Next]_vars PROVE MarkerTells'
    OBVIOUS
  <1> USE DEF IInv, MarkerTells, durable, process
  <1>1. CASE Start \/ BootVersion \/ Stop \/ UNCHANGED vars
    BY <1>1, SameChain DEF Start, BootVersion, Stop, vars, Committed
  <1>2. CASE BootMarker \/ BootPointer \/ BootClear
    BY <1>2, SameChain DEF BootMarker, BootPointer, BootClear, BootOrder, Committed, NoMarker,
       LastTo
  <1>3. CASE \/ \E p \in Policies : Apply(p)
             \/ \E v \in Versions : Rollback(v)
             \/ Fails \/ Swap \/ Authorize
    BY <1>3, SameChain DEF Apply, Rollback, Fails, Swap, Authorize, Committed
  <1>4. CASE BeginActivation
    <2>1. CASE marker # NoMarker
      BY <1>4, <2>1, SameChain DEF BeginActivation, Committed
    <2>2. CASE marker = NoMarker
      <3>1. tx' = tx + 1 /\ marker' = [kind |-> "activation", tx |-> tx', to |-> op.to]
            /\ chain' = chain /\ pointer' = pointer
        BY <1>4, <2>2 DEF BeginActivation
      <3>2. pointer # 0
        BY <1>4 DEF BeginActivation, OneAtATime, BootOrder, Idle
      <3>3. \A i \in DOMAIN chain : chain[i].tx # tx'
        <4>1. \A i \in DOMAIN chain : chain[i].tx \in Nat
          BY CommitType
        <4>2. tx \in Nat /\ \A i \in DOMAIN chain : chain[i].tx <= tx
          BY DEF ChainOrdered, TypeOK
        <4>3. QED
          BY <3>1, <4>1, <4>2
      <3>4. QED
        BY <3>1, <3>2, <3>3 DEF Committed
    <2>3. QED
      BY <2>1, <2>2
  <1>5. CASE SetPointer \/ RestorePointer \/ ClearMarker
    BY <1>5, SameChain DEF SetPointer, RestorePointer, ClearMarker, Committed, Standing, Marked,
       Undoable, OneAtATime, BootOrder, Idle, NoMarker
  <1>6. CASE AppendRow
    <2>1. CASE chain' = chain
      BY <1>6, <2>1, SameChain DEF AppendRow, Committed
    <2>2. CASE chain' # chain
      <3>1. queue # <<>> /\ Head(queue).type = "activated" /\ marker' = marker
            /\ pointer' = pointer /\ tx' = tx
            /\ chain' = Append(chain, [tx |-> Head(queue).tx, to |-> Head(queue).to])
        BY <1>6, <2>2 DEF AppendRow
      <3>2. op.pc = "commit" /\ Head(queue).to = op.to /\ Head(queue) \in Rows
        BY <3>1, HeadRow
      <3>3. [tx |-> Head(queue).tx, to |-> Head(queue).to] \in Commits
        BY <3>2 DEF Rows, Commits
      <3>4. LastTo' = op.to
        BY <3>1, <3>2, <3>3, AppendedChain DEF TypeOK
      <3>5. marker.kind = "activation" /\ marker.to = op.to
        BY <3>2 DEF Standing, Marked
      <3>6. pointer # 0
        BY <3>2 DEF OneAtATime, BootOrder, Idle
      <3>7. QED
        BY <3>1, <3>4, <3>5, <3>6
    <2>3. QED
      BY <2>1, <2>2
  <1>7. CASE AppendFails
    BY <1>7, SameChain DEF AppendFails, Committed
  <1>8. QED
    BY <1>1, <1>2, <1>3, <1>4, <1>5, <1>6, <1>7 DEF Next

LEMMA NextChainOrdered == IInv /\ [Next]_vars => ChainOrdered'
  <1> SUFFICES ASSUME IInv, [Next]_vars PROVE ChainOrdered'
    OBVIOUS
  <1> USE DEF IInv, ChainOrdered, durable, process
  <1>1. CASE chain' = chain /\ tx' = tx
    BY <1>1
  <1>2. CASE BeginActivation
    <2>1. chain' = chain /\ tx' \in {tx, tx + 1} /\ tx \in Nat
      BY <1>2 DEF BeginActivation, TypeOK
    <2>2. \A i \in DOMAIN chain : chain[i].tx \in Nat
      BY CommitType
    <2>3. QED
      BY <2>1, <2>2
  <1>3. CASE AppendRow /\ chain' # chain
    <2>1. queue # <<>> /\ Head(queue).type = "activated" /\ tx' = tx
          /\ chain' = Append(chain, [tx |-> Head(queue).tx, to |-> Head(queue).to])
      BY <1>3 DEF AppendRow
    <2>2. op.pc = "commit" /\ Head(queue).tx = op.tx /\ Head(queue) \in Rows
      BY <2>1, HeadRow
    <2>3. [tx |-> Head(queue).tx, to |-> Head(queue).to] \in Commits
      BY <2>2 DEF Rows, Commits
    <2>4. op.tx = tx /\ (\A i \in DOMAIN chain : chain[i].tx # tx) /\ tx \in Nat
      BY <2>2 DEF Standing, Marked, Uncommitted, TypeOK
    <2>5. /\ \A i \in DOMAIN chain : i \in DOMAIN chain' /\ chain'[i] = chain[i]
          /\ \A i \in DOMAIN chain' : i = Len(chain') \/ i \in DOMAIN chain
          /\ chain'[Len(chain')].tx = op.tx
      BY <2>1, <2>2, <2>3, AppendedChain DEF TypeOK
    <2>6. QED
      BY <2>1, <2>4, <2>5
  <1>4. QED
    BY <1>1, <1>2, <1>3 DEF Next, vars, Start, BootMarker, BootVersion, BootPointer, BootClear,
       Apply, Rollback, SetPointer, Swap, ClearMarker, RestorePointer, Fails, Authorize,
       AppendRow, AppendFails, Stop

\* An operation in progress is one of a runtime that serves and is not locked.
LEMMA Serving ==
  ASSUME IInv, op.pc # "idle"
  PROVE  pc = "up" /\ pending = FALSE /\ pointer # 0 /\ op \in Operations
  BY DEF IInv, OneAtATime, BootOrder, Idle, TypeOK

LEMMA NextStanding == IInv /\ [Next]_vars => Standing'
  <1> SUFFICES ASSUME IInv, [Next]_vars PROVE Standing'
    OBVIOUS
  <1> USE DEF IInv, Standing, Undoable, Marked, Uncommitted, durable, process
  <1>1. CASE Start
    BY <1>1, SameChain DEF Start, Boot, Load, OneAtATime, MarkerTells, Idle
  <1>2. CASE BootMarker \/ BootVersion \/ BootPointer
    BY <1>2 DEF BootMarker, BootVersion, BootPointer, Boot, OneAtATime, Idle
  <1>3. CASE BootClear
    BY <1>3, SameChain DEF BootClear, Load, OneAtATime, BootOrder, Idle
  <1>4. ASSUME NEW v, v # 0, Ready, Begin(v), pc' = pc, pending' = pending, chain' = chain,
               marker' = marker, tx' = tx, pointer' = pointer, active' = active, engine' = engine
        PROVE  Standing'
    BY <1>4, SameChain DEF Ready, Begin, BootOrder
  <1>5. ASSUME NEW p \in Policies, Apply(p)
        PROVE  Standing'
    <2>1. Len(versions) + 1 # 0
      BY DEF TypeOK
    <2>2. QED
      BY <1>4, <1>5, <2>1 DEF Apply
  <1>6. ASSUME NEW v \in Versions, Rollback(v)
        PROVE  Standing'
    <2>1. v # 0
      BY DEF Versions
    <2>2. QED
      BY <1>4, <1>6, <2>1 DEF Rollback
  <1>7. CASE BeginActivation
    <2>1. op.pc = "begin" /\ marker = NoMarker
      BY <1>7, Serving DEF BeginActivation
    <2>2. tx' = tx + 1 /\ marker' = [kind |-> "activation", tx |-> tx', to |-> op.to]
          /\ op' = [op EXCEPT !.pc = "pointer", !.tx = tx']
          /\ UNCHANGED <<chain, pointer, pc, active, engine, pending>>
      BY <1>7, <2>1 DEF BeginActivation
    <2>3. op'.pc = "pointer" /\ op'.tx = tx' /\ op'.to = op.to /\ op'.from = op.from
          /\ op'.undo = op.undo
      BY <2>1, <2>2, Serving DEF Operations
    <2>4. Uncommitted'
      <3>1. tx \in Nat /\ \A i \in DOMAIN chain : chain[i].tx <= tx /\ chain[i].tx \in Nat
        BY CommitType DEF ChainOrdered, TypeOK
      <3>2. QED
        BY <2>2, <3>1
    <2>5. QED
      BY <2>1, <2>2, <2>3, <2>4, Serving, SameChain
  <1>8. CASE SetPointer
    <2>1. op' = [op EXCEPT !.pc = "swap"] /\ op.pc = "pointer" /\ op \in Operations
      BY <1>8 DEF SetPointer, Go, TypeOK
    <2>2. op'.pc = "swap" /\ op'.to = op.to /\ op'.from = op.from /\ op'.tx = op.tx
          /\ op'.undo = op.undo
      BY <2>1 DEF Operations
    <2>3. engine = op.undo
      <3>1. engine.version = op.undo.version /\ engine.tx = op.undo.tx
        BY <2>1, Serving
      <3>2. engine \in Engines /\ op.undo \in Engines
        BY DEF TypeOK, Operations
      <3>3. QED
        BY <3>1, <3>2 DEF Engines
    <2>4. QED
      BY <1>8, <2>1, <2>2, <2>3, Serving, SameChain DEF SetPointer
  <1>9. CASE Swap
    <2>1. op' = [op EXCEPT !.pc = "commit"] /\ op.pc = "swap" /\ op \in Operations
      BY <1>9 DEF Swap, Go, TypeOK
    <2>2. op'.pc = "commit" /\ op'.to = op.to /\ op'.from = op.from /\ op'.tx = op.tx
          /\ op'.undo = op.undo
      BY <2>1 DEF Operations
    <2>3. QED
      BY <1>9, <2>1, <2>2, Serving, SameChain DEF Swap
  <1>10. CASE ClearMarker
    BY <1>10, Serving, SameChain DEF ClearMarker, Idle
  <1>11. CASE RestorePointer
    <2>1. op' = [op EXCEPT !.pc = "clear"] /\ op.pc = "restore" /\ op \in Operations
      BY <1>11 DEF RestorePointer, Go, TypeOK
    <2>2. op'.pc = "clear"
      BY <2>1 DEF Operations
    <2>3. QED
      BY <1>11, <2>1, <2>2, Serving, SameChain DEF RestorePointer
  <1>12. CASE Fails
    <2>1. CASE op.pc = "begin" /\ op' = Idle /\ UNCHANGED pending
      BY <1>12, <2>1, Serving, SameChain DEF Fails, Idle
    <2>2. CASE op.pc = "pointer" /\ op' = [op EXCEPT !.pc = "clear"] /\ UNCHANGED pending
      <3>1. op'.pc = "clear"
        BY <2>2 DEF TypeOK, Operations
      <3>2. QED
        BY <1>12, <2>2, <3>1, Serving, SameChain DEF Fails
    <2>3. CASE op.pc \in {"clear", "restore"} /\ op' = Idle /\ pending' = TRUE
      BY <1>12, <2>3, Serving, SameChain DEF Fails, Idle
    <2>4. QED
      BY <1>12, <2>1, <2>2, <2>3 DEF Fails, Go
  <1>13. CASE UNCHANGED <<op, chain, marker, tx, pointer, active, engine, pc, pending>>
    BY <1>13, SameChain \* Authorize, and a decision row that is appended or lost
  <1>14. CASE AppendRow /\ Head(queue).type = "activated"
    <2>1. queue # <<>> /\ Head(queue).type = "activated"
          /\ op' = [op EXCEPT !.pc = "clear"]
          /\ chain' = Append(chain, [tx |-> Head(queue).tx, to |-> Head(queue).to])
          /\ UNCHANGED <<marker, tx, pointer, active, engine, pc, pending>>
      BY <1>14 DEF AppendRow, Go
    <2>2. op.pc = "commit" /\ Head(queue).tx = op.tx /\ Head(queue).to = op.to
          /\ Head(queue) \in Rows
      BY <2>1, HeadRow
    <2>3. [tx |-> Head(queue).tx, to |-> Head(queue).to] \in Commits
      BY <2>2 DEF Rows, Commits
    <2>4. LastTx' = op.tx /\ LastTo' = op.to
      BY <2>1, <2>2, <2>3, AppendedChain DEF TypeOK
    <2>5. op'.pc = "clear"
      BY <2>1 DEF TypeOK, Operations
    <2>6. QED
      BY <2>1, <2>2, <2>4, <2>5, Serving
  <1>15. CASE AppendFails /\ Head(queue).type = "activated"
    <2>1. queue # <<>> /\ Head(queue).type = "activated"
          /\ op' = [op EXCEPT !.pc = "restore"] /\ engine' = op.undo
          /\ UNCHANGED <<chain, marker, tx, pointer, active, pc, pending>>
      BY <1>15 DEF AppendFails, Go
    <2>2. op.pc = "commit"
      BY <2>1, HeadRow
    <2>3. op'.pc = "restore" /\ op'.to = op.to /\ op'.from = op.from /\ op'.tx = op.tx
          /\ op'.undo = op.undo
      BY <2>1 DEF TypeOK, Operations
    <2>4. QED
      BY <2>1, <2>2, <2>3, Serving, SameChain
  <1>16. CASE Stop
    BY <1>16 DEF Stop, Idle
  <1>17. QED
    BY <1>1, <1>2, <1>3, <1>5, <1>6, <1>7, <1>8, <1>9, <1>10, <1>11, <1>12, <1>13, <1>14,
       <1>15, <1>16 DEF Next, vars, Authorize, AppendRow, AppendFails

LEMMA NextQueueOrdered == IInv /\ [Next]_vars => QueueOrdered'
  <1> SUFFICES ASSUME IInv, [Next]_vars PROVE QueueOrdered'
    OBVIOUS
  <1> USE DEF IInv, QueueOrdered, IsRow, durable, process
  <1>1. CASE UNCHANGED <<queue, op, chain, dropped>>
    BY <1>1, SameChain
  <1>2. ASSUME op'.pc # "commit", op.pc # "commit", UNCHANGED <<queue, chain, dropped>>
        PROVE  QueueOrdered'
    <2>1. \A i \in DOMAIN queue : queue[i].type = "decision"
      <3>1. \A i \in DOMAIN queue : queue[i] \in Rows /\ queue[i].type # "activated"
        BY <1>2 DEF TypeOK
      <3>2. QED
        BY <3>1 DEF Rows
    <2>2. \A i \in DOMAIN queue : ~IsRow(i) /\ (queue[i].tx \in dropped \/ queue[i].tx = LastTx)
      BY <1>2, <2>1
    <2>3. QED
      BY <1>2, <2>1, <2>2, SameChain
  <1>3. CASE \/ \E p \in Policies : Apply(p)
             \/ \E v \in Versions : Rollback(v)
    BY <1>2, <1>3 DEF Apply, Rollback, Ready, Begin
  <1>4. CASE BeginActivation \/ SetPointer \/ ClearMarker \/ RestorePointer \/ Fails
    <2>1. op.pc # "commit"
      BY <1>4 DEF BeginActivation, SetPointer, ClearMarker, RestorePointer, Fails
    <2>2. op'.pc # "commit"
      <3>1. op \in Operations
        BY DEF TypeOK
      <3>2. \/ op' = Idle
            \/ op' = [op EXCEPT !.pc = "pointer", !.tx = tx']
            \/ \E label \in {"swap", "clear"} : op' = [op EXCEPT !.pc = label]
        <4>1. CASE Fails
          BY <4>1 DEF Fails, Go
        <4>2. CASE BeginActivation
          BY <4>2 DEF BeginActivation
        <4>3. QED
          BY <1>4, <4>1, <4>2 DEF SetPointer, ClearMarker, RestorePointer, Go
      <3>3. CASE op' = Idle
        BY <3>3 DEF Idle
      <3>4. CASE op' = [op EXCEPT !.pc = "pointer", !.tx = tx']
        BY <3>1, <3>4 DEF Operations
      <3>5. CASE \E label \in {"swap", "clear"} : op' = [op EXCEPT !.pc = label]
        BY <3>1, <3>5 DEF Operations
      <3>6. QED
        BY <3>2, <3>3, <3>4, <3>5
    <2>3. UNCHANGED <<queue, chain, dropped>>
      BY <1>4 DEF BeginActivation, SetPointer, ClearMarker, RestorePointer, Fails
    <2>4. QED
      BY <1>2, <2>1, <2>2, <2>3
  <1>5. CASE Swap
    <2>1. op.pc = "swap" /\ op'.pc = "commit" /\ op'.tx = op.tx /\ op'.to = op.to
      BY <1>5, Serving DEF Swap, Go, Operations
    <2>2. Activation(op.tx, op.to) \in Rows
      BY <2>1, Serving DEF Activation, Rows, Operations
    <2>3. queue' = Append(queue, Activation(op.tx, op.to)) /\ UNCHANGED <<chain, dropped>>
      BY <1>5 DEF Swap
    <2> DEFINE n == Len(queue')
    <2>4. /\ \A i \in DOMAIN queue : i \in DOMAIN queue' /\ queue'[i] = queue[i] /\ i < n
          /\ \A i \in DOMAIN queue' : i = n \/ i \in DOMAIN queue
          /\ n \in DOMAIN queue' /\ queue'[n] = Activation(op.tx, op.to)
      BY <2>2, <2>3, AppendedRow DEF TypeOK
    <2>5. \A i \in DOMAIN queue : ~IsRow(i)
      BY <2>1
    <2>6. \A i \in DOMAIN queue' : queue'[i].type = "activated" <=> i = n
      BY <2>4, <2>5 DEF Activation
    <2>7. \A i \in DOMAIN queue' : queue'[i].type = "decision" =>
              i \in DOMAIN queue /\ i < n /\ (queue[i].tx \in dropped \/ queue[i].tx = LastTx)
      BY <2>1, <2>4, <2>5 DEF Activation
    <2> HIDE DEF n
    <2>8. QED
      BY <2>1, <2>3, <2>4, <2>6, <2>7, SameChain DEF Activation
  <1>6. CASE Authorize
    <2>1. Decision(engine.tx) \in Rows
      BY DEF Decision, Rows, TypeOK, Engines
    <2>2. queue' = Append(queue, Decision(engine.tx)) /\ pc = "up"
          /\ UNCHANGED <<chain, dropped, op>>
      BY <1>6 DEF Authorize
    <2> DEFINE n == Len(queue')
    <2>3. /\ \A i \in DOMAIN queue : i \in DOMAIN queue' /\ queue'[i] = queue[i] /\ i < n
          /\ \A i \in DOMAIN queue' : i = n \/ i \in DOMAIN queue
          /\ n \in DOMAIN queue' /\ queue'[n] = Decision(engine.tx)
      BY <2>1, <2>2, AppendedRow DEF TypeOK
    <2>4. \A i \in DOMAIN queue' : IsRow(i)' <=> IsRow(i)
      BY <2>3 DEF Decision
    <2>5. IF op.pc = "commit" THEN engine.tx = op.tx ELSE engine.tx = LastTx
      BY <2>2 DEF Standing
    <2> HIDE DEF n
    <2>6. \A i \in DOMAIN queue' : queue'[i].type = "decision" =>
            \/ queue'[i].tx \in dropped'
            \/ queue'[i].tx = LastTx' /\ \A j \in DOMAIN queue' : IsRow(j)' => i < j
            \/ queue'[i].tx = op'.tx /\ \E j \in DOMAIN queue' : IsRow(j)' /\ j < i
      <3> SUFFICES ASSUME NEW i \in DOMAIN queue', queue'[i].type = "decision"
                   PROVE  \/ queue'[i].tx \in dropped'
                          \/ queue'[i].tx = LastTx' /\ \A j \in DOMAIN queue' : IsRow(j)' => i < j
                          \/ queue'[i].tx = op'.tx /\ \E j \in DOMAIN queue' : IsRow(j)' /\ j < i
        OBVIOUS
      <3>1. CASE i = n
        BY <2>2, <2>3, <2>4, <2>5, <3>1, SameChain DEF Decision
      <3>2. CASE i \in DOMAIN queue
        BY <2>2, <2>3, <2>4, <3>2, SameChain
      <3>3. QED
        BY <2>3, <3>1, <3>2
    <2>7. QED
      BY <2>2, <2>3, <2>4, <2>6
  <1>7. CASE (AppendRow \/ AppendFails) /\ Head(queue).type # "activated"
    <2>1. queue # <<>> /\ queue' = Tail(queue) /\ UNCHANGED <<op, chain, dropped>>
      BY <1>7 DEF AppendRow, AppendFails
    <2>2. /\ \A i \in DOMAIN queue' :
                i \in Nat \ {0} /\ i + 1 \in DOMAIN queue /\ queue'[i] = queue[i + 1]
          /\ \A i \in DOMAIN queue :
                i \in Nat /\ (i = 1 \/ (i - 1 \in DOMAIN queue' /\ queue'[i - 1] = queue[i]))
          /\ ~IsRow(1)
      BY <1>7, <2>1, TakenRow DEF TypeOK
    <2>3. \A i \in DOMAIN queue' : IsRow(i)' <=> IsRow(i + 1)
      BY <2>2
    <2>4. op'.pc = "commit" => \E i \in DOMAIN queue' : IsRow(i)'
      <3> SUFFICES ASSUME op.pc = "commit" PROVE \E i \in DOMAIN queue' : IsRow(i)'
        BY <2>1
      <3>1. PICK k \in DOMAIN queue : IsRow(k)
        OBVIOUS
      <3>2. k - 1 \in DOMAIN queue' /\ queue'[k - 1] = queue[k]
        BY <2>2, <3>1
      <3>3. QED
        BY <3>1, <3>2
    <2>5. \A i \in DOMAIN queue' : IsRow(i)' =>
              op'.pc = "commit" /\ queue'[i].tx = op'.tx /\ queue'[i].to = op'.to
      BY <2>1, <2>2, <2>3
    <2>6. \A i, j \in DOMAIN queue' : IsRow(i)' /\ IsRow(j)' => i = j
      <3> SUFFICES ASSUME NEW i \in DOMAIN queue', NEW j \in DOMAIN queue', IsRow(i)', IsRow(j)'
                   PROVE  i = j
        OBVIOUS
      <3>1. i + 1 = j + 1
        BY <2>2, <2>3
      <3>2. QED
        BY <2>2, <3>1
    <2>7. ASSUME NEW i \in DOMAIN queue', queue'[i].type = "decision"
          PROVE  \/ queue'[i].tx \in dropped'
                 \/ queue'[i].tx = LastTx' /\ \A j \in DOMAIN queue' : IsRow(j)' => i < j
                 \/ queue'[i].tx = op'.tx /\ \E j \in DOMAIN queue' : IsRow(j)' /\ j < i
      <3>1. i + 1 \in DOMAIN queue /\ queue'[i] = queue[i + 1] /\ i \in Nat
        BY <2>2
      <3>2. CASE queue[i + 1].tx \in dropped
        BY <2>1, <3>1, <3>2
      <3>3. CASE queue[i + 1].tx = LastTx /\ \A j \in DOMAIN queue : IsRow(j) => i + 1 < j
        <4>1. ASSUME NEW j \in DOMAIN queue', IsRow(j)' PROVE i < j
          BY <2>2, <2>3, <3>1, <3>3, <4>1
        <4>2. QED
          BY <2>1, <3>1, <3>3, <4>1, SameChain
      <3>4. CASE queue[i + 1].tx = op.tx /\ \E j \in DOMAIN queue : IsRow(j) /\ j < i + 1
        <4>1. PICK j \in DOMAIN queue : IsRow(j) /\ j < i + 1
          BY <3>4
        <4>2. j - 1 \in DOMAIN queue' /\ queue'[j - 1] = queue[j] /\ j \in Nat
          BY <2>2, <4>1
        <4>3. IsRow(j - 1)' /\ j - 1 < i
          BY <3>1, <4>1, <4>2
        <4>4. QED
          BY <2>1, <3>1, <3>4, <4>2, <4>3
      <3>5. QED
        BY <2>7, <3>1, <3>2, <3>3, <3>4
    <2>8. QED
      BY <2>4, <2>5, <2>6, <2>7
  <1>8. CASE (AppendRow \/ AppendFails) /\ Head(queue).type = "activated"
    <2>1. queue # <<>> /\ queue' = Tail(queue) /\ Head(queue).tx = op.tx
          /\ Head(queue).to = op.to /\ Head(queue) \in Rows /\ op.pc = "commit"
      BY <1>8, HeadRow DEF AppendRow, AppendFails
    <2>2. \A i \in DOMAIN queue' :
              i \in Nat \ {0} /\ i + 1 \in DOMAIN queue /\ queue'[i] = queue[i + 1]
      BY <2>1, TakenRow DEF TypeOK
    <2>3. IsRow(1)
      BY <1>8, <2>1, TakenRow DEF TypeOK
    <2>4. \A i \in DOMAIN queue' : ~IsRow(i)'
      <3> SUFFICES ASSUME NEW i \in DOMAIN queue', IsRow(i)' PROVE FALSE
        OBVIOUS
      <3>1. i + 1 = 1 /\ i \in Nat \ {0}
        BY <2>2, <2>3
      <3>2. QED
        BY <3>1
    <2>5. op'.pc # "commit"
      BY <1>8 DEF AppendRow, AppendFails, Go, TypeOK, Operations
    <2>6. \A i \in DOMAIN queue' : queue'[i].type = "decision" =>
              queue'[i].tx \in dropped \/ queue'[i].tx = op.tx
      <3> SUFFICES ASSUME NEW i \in DOMAIN queue', queue'[i].type = "decision",
                          queue'[i].tx \notin dropped
                   PROVE  queue'[i].tx = op.tx
        OBVIOUS
      <3>1. i + 1 \in DOMAIN queue /\ queue'[i] = queue[i + 1] /\ ~(i + 1 < 1)
        BY <2>2
      <3>2. QED
        BY <2>3, <3>1
    <2>7. CASE AppendRow
      <3>1. chain' = Append(chain, [tx |-> op.tx, to |-> op.to]) /\ dropped' = dropped
        BY <1>8, <2>1, <2>7 DEF AppendRow
      <3>2. [tx |-> op.tx, to |-> op.to] \in Commits
        BY DEF Commits, TypeOK, Operations
      <3>3. LastTx' = op.tx
        BY <3>1, <3>2, AppendedChain DEF TypeOK
      <3>4. QED
        BY <2>4, <2>5, <2>6, <3>1, <3>3
    <2>8. CASE AppendFails
      <3>1. dropped' = dropped \cup {op.tx}
        BY <1>8, <2>8 DEF AppendFails
      <3>2. QED
        BY <2>4, <2>5, <2>6, <3>1
    <2>9. QED
      BY <1>8, <2>7, <2>8
  <1>9. CASE Stop
    BY <1>9 DEF Stop, Idle
  <1>10. QED
    BY <1>1, <1>3, <1>4, <1>5, <1>6, <1>7, <1>8, <1>9
       DEF Next, vars, Start, BootMarker, BootVersion, BootPointer, BootClear, Boot, Load

LEMMA NextInv == IInv /\ [Next]_vars => IInv'
  BY NextType, NextOneAtATime, NextBootOrder, NextMarkerTells, NextChainOrdered, NextStanding,
     NextQueueOrdered DEF IInv

LEMMA Invariance == Spec => []IInv
  BY InitInv, NextInv, PTL DEF Spec

-----------------------------------------------------------------------------
(* The theorems *)

\* Every variable has its type (PolicyManager, PolicyVersionStore, Governor, AuditLog).
THEOREM TypeCorrect == Spec => []TypeOK
  <1>1. IInv => TypeOK
    BY DEF IInv
  <1>2. QED
    BY <1>1, Invariance, PTL

\* Between operations the engine, the store's copy and the file name the same
\* version and no marker is left, whatever failed, unless the manager is locked
\* (PolicyManager.#activate).
THEOREM AuthorityAgreesTheorem == Spec => []AuthorityAgrees
  <1>1. IInv => AuthorityAgrees
    BY DEF IInv, Standing, AuthorityAgrees, TypeOK
  <1>2. QED
    BY <1>1, Invariance, PTL

\* Wherever the process stops, a start that PolicyVersionStore.init does not refuse
\* loads the policy committed last in the audit log.
THEOREM RestartLoadsCommittedTheorem == Spec => []RestartLoadsCommitted
  <1>1. IInv => RestartLoadsCommitted
    BY DEF IInv, MarkerTells, RestartLoadsCommitted
  <1>2. QED
    BY <1>1, Invariance, PTL

\* Read in order, the audit log tells the policy behind each decision
\* (Governor.replacePolicy and authorize over AuditLog.append).
THEOREM DecisionsFollowActivationTheorem == Spec => []DecisionsFollowActivation
  <1>1. IInv => DecisionsFollowActivation
    <2> SUFFICES ASSUME IInv, NEW i \in DOMAIN queue, queue[i].type = "decision",
                        queue[i].tx \notin dropped
                 PROVE  queue[i].tx = Replayed(i)
      BY DEF DecisionsFollowActivation
    <2> DEFINE before == {j \in 1..(i - 1) : queue[j].type = "activated"}
    <2>1. DOMAIN queue = 1..Len(queue) /\ Len(queue) \in Nat
      BY DEF IInv, TypeOK
    <2>2. i \in Nat /\ \A j \in 1..(i - 1) : j \in DOMAIN queue /\ j < i
      BY <2>1
    <2>3. \A j \in DOMAIN queue : j < i => j \in 1..(i - 1)
      BY <2>1
    <2>4. \A j : j \in before <=> IsRow(j) /\ j < i
      BY <2>2, <2>3 DEF IsRow
    <2>5. Replayed(i) = IF before = {} THEN LastTx
                        ELSE queue[CHOOSE j \in before : \A k \in before : k <= j].tx
      BY DEF Replayed
    <2> HIDE DEF before
    <2>6. CASE queue[i].tx = LastTx /\ \A j \in DOMAIN queue : IsRow(j) => i < j
      <3>1. before = {}
        <4> SUFFICES ASSUME NEW j \in before PROVE FALSE
          OBVIOUS
        <4>1. j \in DOMAIN queue /\ j < i /\ i < j
          BY <2>4, <2>6 DEF IsRow
        <4>2. QED
          BY <2>1, <4>1
      <3>2. QED
        BY <2>5, <2>6, <3>1
    <2>7. CASE queue[i].tx = op.tx /\ \E j \in DOMAIN queue : IsRow(j) /\ j < i
      <3>1. PICK m \in DOMAIN queue : IsRow(m) /\ m < i
        BY <2>7
      <3>2. before = {m}
        BY <2>4, <3>1 DEF IInv, QueueOrdered, IsRow
      <3>3. m <= m
        BY <2>1
      <3>4. (CHOOSE j \in before : \A k \in before : k <= j) = m
        BY <3>2, <3>3
      <3>5. queue[m].tx = op.tx
        BY <3>1 DEF IInv, QueueOrdered
      <3>6. QED
        BY <2>5, <2>7, <3>2, <3>4, <3>5
    <2>8. QED
      BY <2>6, <2>7 DEF IInv, QueueOrdered
  <1>2. QED
    BY <1>1, Invariance, PTL
=============================================================================
