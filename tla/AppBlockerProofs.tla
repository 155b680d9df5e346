---------------------------- MODULE AppBlockerProofs ----------------------------
(***************************************************************************)
(* Type correctness of AppBlocker, that no held exec is lost, and that a   *)
(* program that stays blocked does not start, for any processes, programs, *)
(* patterns and limits of the queue and the buffer.                        *)
(***************************************************************************)
EXTENDS AppBlocker, TLAPS

(***************************************************************************)
(* The inductive invariant                                                 *)
(***************************************************************************)
(* The held execs are in the queue or in the batch, and there once. *)
Held ==
  /\ \A p \in Proc : state[p] = "asked" <=>
       (\E i \in 1..Len(queue) : queue[i] = p) \/ (\E i \in 1..Len(batch) : batch[i] = p)
  /\ \A i, j \in 1..Len(queue) : i # j => queue[i] # queue[j]
  /\ \A i, j \in 1..Len(batch) : i # j => batch[i] # batch[j]
  /\ \A i \in 1..Len(queue), j \in 1..Len(batch) : queue[i] # batch[j]

(* What is due is blocked still, waits or is denied, and will be denied    *)
(* once it has been looked up.                                             *)
DueOK ==
  /\ \A p \in due : state[p] \in {"asked", "denied"} /\ IsBlocked(program[p], blocked)
  /\ thread = "answer" /\ batch[1] \in due => deny

IInv == TypeOK /\ Held /\ DueOK

-------------------------------------------------------------------------------
(***************************************************************************)
(* Types                                                                   *)
(***************************************************************************)
LEMMA ExecFacts ==
  ASSUME TypeOK, NEW p \in Proc, NEW g \in Program, Exec(p, g)
  PROVE  /\ state[p] = "none" /\ UNCHANGED <<blocked, thread, batch, deny, restarts>>
         /\ program' = [program EXCEPT ![p] = g]
         /\ \/ state' = [state EXCEPT ![p] = "asked"] /\ queue' = Append(queue, p)
               /\ Len(queue) < QueueLimit
            \/ state' = [state EXCEPT ![p] = "running"] /\ queue' = queue
         /\ due' = IF state'[p] = "asked" /\ IsBlocked(g, blocked) THEN due \cup {p} ELSE due
BY DEF Exec

LEMMA ExecType ==
  ASSUME TypeOK, NEW p \in Proc, NEW g \in Program, Exec(p, g)
  PROVE  /\ queue' \in Seq(Proc) /\ Len(queue') <= QueueLimit
         /\ state' \in [Proc -> {"none", "asked", "running", "denied"}]
         /\ program' \in [Proc -> Program] /\ due' \subseteq Proc
         /\ UNCHANGED <<blocked, thread, batch, deny, restarts>>
<1>1. state' \in [Proc -> {"none", "asked", "running", "denied"}]
  BY ExecFacts DEF TypeOK
<1>2. queue' \in Seq(Proc) /\ Len(queue') <= QueueLimit
  <2>1. queue \in Seq(Proc) /\ Len(queue) \in Nat /\ Len(queue) <= QueueLimit
    BY DEF TypeOK
  <2>2. CASE queue' = Append(queue, p) /\ Len(queue) < QueueLimit
    <3>1. queue' \in Seq(Proc) /\ Len(queue') = Len(queue) + 1
      BY <2>1, <2>2
    <3> QED
      BY <2>1, <2>2, <3>1, BoundAssumption
  <2>3. CASE queue' = queue
    BY <2>1, <2>3
  <2> QED
    BY <2>2, <2>3, ExecFacts
<1>3. program' \in [Proc -> Program] /\ due' \subseteq Proc
  BY ExecFacts DEF TypeOK
<1> QED
  BY <1>1, <1>2, <1>3, ExecFacts

LEMMA ReadFacts ==
  ASSUME TypeOK, Read
  PROVE  /\ batch' \in Seq(Proc) /\ queue' \in Seq(Proc)
         /\ Len(batch') <= BatchLimit /\ batch' # <<>> /\ Len(queue') <= Len(queue)
         /\ \E n \in 1..Len(queue) :
              /\ Len(batch') = n /\ Len(queue') = Len(queue) - n
              /\ \A i \in 1..n : batch'[i] = queue[i]
              /\ \A i \in 1..Len(queue) - n : queue'[i] = queue[n + i]
<1> DEFINE n == IF Len(queue) < BatchLimit THEN Len(queue) ELSE BatchLimit
<1>0. batch' = SubSeq(queue, 1, n) /\ queue' = SubSeq(queue, n + 1, Len(queue))
  BY DEF Read
<1>1. queue \in Seq(Proc) /\ n \in 1..Len(queue) /\ n <= BatchLimit
  BY BoundAssumption DEF Read, TypeOK
<1> HIDE DEF n
<1>2. batch' \in Seq(Proc) /\ Len(batch') = n /\ \A i \in 1..n : batch'[i] = queue[i]
  BY <1>0, <1>1
<1>3. /\ queue' \in Seq(Proc) /\ Len(queue') = Len(queue) - n
      /\ \A i \in 1..Len(queue) - n : queue'[i] = queue[n + i]
  BY <1>0, <1>1
<1>4. batch' # <<>>
  BY <1>1, <1>2
<1>5. Len(queue') <= Len(queue) /\ Len(batch') <= BatchLimit
  BY <1>1, <1>2, <1>3
<1> QED
  BY <1>1, <1>2, <1>3, <1>4, <1>5

LEMMA TypeStep == TypeOK /\ [Next]_vars => TypeOK'
<1> SUFFICES ASSUME TypeOK, [Next]_vars PROVE TypeOK'
  OBVIOUS
<1> USE BoundAssumption
<1>1. ASSUME NEW b \in Blockable, BlockApp(b) \/ UnblockApp(b) PROVE TypeOK'
  BY <1>1 DEF BlockApp, UnblockApp, Change, TypeOK
<1>2. ASSUME NEW p \in Proc, NEW g \in Program, UserExec(p, g) PROVE TypeOK'
  <2>1. Exec(p, g) /\ execs' \in 0..MaxExecs /\ UNCHANGED <<notifier, notices>>
    BY <1>2 DEF UserExec, TypeOK
  <2> QED
    BY <2>1, ExecType DEF TypeOK
<1>3. ASSUME NEW p \in Proc, Notify(p) PROVE TypeOK'
  <2>1. Exec(p, NotifySend) /\ notices' \in Nat /\ notifier' \subseteq Proc /\ execs' = execs
    BY <1>3 DEF Notify, TypeOK
  <2> QED
    BY <2>1, ExecType, ProgramAssumption DEF TypeOK
<1>4. ASSUME NEW p \in Proc, Exit(p) PROVE TypeOK'
  BY <1>4 DEF Exit, TypeOK
<1>5. CASE Mark \/ MarkFails
  BY <1>5 DEF Mark, MarkFails, TypeOK
<1>6. CASE Read
  <2>1. thread' = "batch" /\ UNCHANGED <<blocked, deny, state, program, notifier, notices, due,
                                         execs, restarts>>
    BY <1>6 DEF Read
  <2> QED
    BY <1>6, <2>1, ReadFacts DEF TypeOK
<1>7. CASE Check
  <2>1. deny' \in BOOLEAN
    BY <1>7 DEF Check, IsBlocked
  <2> QED
    BY <1>7, <2>1 DEF Check, TypeOK
<1>11. CASE CheckUnread
  <2>1. deny' \in BOOLEAN /\ due' \subseteq Proc
    BY <1>11 DEF CheckUnread, IsBlocked, TypeOK
  <2> QED
    BY <1>11, <2>1 DEF CheckUnread, TypeOK
<1>8. CASE Respond
  <2>1. Len(batch) \in Nat \ {0} /\ batch \in Seq(Proc)
    BY <1>8 DEF Respond, TypeOK
  <2>2. /\ batch' \in Seq(Proc) /\ Len(batch') = Len(batch) - 1
        /\ (thread' \in {"batch", "answer"}) = (batch' # <<>>)
    <3>1. batch' = Tail(batch) /\ thread' = IF Len(batch) = 1 THEN "read" ELSE "batch"
      BY <1>8 DEF Respond
    <3>2. batch' \in Seq(Proc) /\ Len(batch') = Len(batch) - 1
      BY <2>1, <3>1
    <3>3. batch' = <<>> <=> Len(batch) = 1
      <4>1. batch' = <<>> <=> Len(batch') = 0
        BY <3>2
      <4> QED
        BY <2>1, <3>2, <4>1
    <3> QED
      BY <3>1, <3>2, <3>3
  <2>3. state' \in [Proc -> {"none", "asked", "running", "denied"}] /\ notices' \in Nat
    BY <1>8 DEF Respond, TypeOK
  <2> QED
    BY <1>8, <2>1, <2>2, <2>3 DEF Respond, TypeOK
<1>9. CASE Restart
  <2>1. /\ blocked' = {} /\ thread' = "start" /\ queue' = <<>> /\ batch' = <<>> /\ deny' = FALSE
        /\ notices' = 0 /\ due' = {} /\ UNCHANGED <<program, notifier, execs>>
    BY <1>9 DEF Restart
  <2>2. restarts' \in 0..MaxRestarts
    BY <1>9 DEF Restart, TypeOK
  <2>3. state' \in [Proc -> {"none", "asked", "running", "denied"}]
    BY <1>9 DEF Restart, TypeOK
  <2>4. queue' \in Seq(Proc) /\ Len(queue') <= QueueLimit /\ batch' \in Seq(Proc)
        /\ Len(batch') <= BatchLimit
    BY <2>1
  <2>5. thread' \notin {"batch", "answer"} /\ ~(batch' # <<>>)
    BY <2>1
  <2>6. (thread' \in {"batch", "answer"}) = (batch' # <<>>)
    BY <2>5
  <2> QED
    BY <2>1, <2>2, <2>3, <2>4, <2>6 DEF TypeOK
<1>10. CASE UNCHANGED vars
  BY <1>10 DEF vars, TypeOK
<1> QED
  BY <1>1, <1>2, <1>3, <1>4, <1>5, <1>6, <1>7, <1>8, <1>9, <1>10, <1>11 DEF Next, Thread

-------------------------------------------------------------------------------
(***************************************************************************)
(* Held execs                                                              *)
(***************************************************************************)
LEMMA ExecHeld ==
  ASSUME TypeOK, Held, NEW p \in Proc, NEW g \in Program, Exec(p, g)
  PROVE  Held'
<1>1. /\ \A i \in 1..Len(queue) : queue[i] \in Proc /\ queue[i] # p
      /\ \A i \in 1..Len(batch) : batch[i] \in Proc /\ batch[i] # p
  BY ExecFacts DEF Held, TypeOK
<1>2. CASE state' = [state EXCEPT ![p] = "running"] /\ queue' = queue
  <2>1. \A r \in Proc : state'[r] = IF r = p THEN "running" ELSE state[r]
    BY <1>2 DEF TypeOK
  <2>2. \A r \in Proc : state'[r] = "asked" <=> state[r] = "asked"
    BY <2>1, ExecFacts
  <2>3. queue' = queue /\ batch' = batch
    BY <1>2, ExecFacts
  <2> QED
    BY <2>2, <2>3 DEF Held
<1>3. CASE state' = [state EXCEPT ![p] = "asked"] /\ queue' = Append(queue, p)
  <2>1. /\ \A r \in Proc : state'[r] = IF r = p THEN "asked" ELSE state[r]
        /\ Len(queue') = Len(queue) + 1 /\ queue'[Len(queue) + 1] = p /\ batch' = batch
        /\ \A i \in 1..Len(queue) : queue'[i] = queue[i]
        /\ Len(queue) \in Nat
    <3>1. queue \in Seq(Proc) /\ Len(queue) \in Nat
      BY DEF TypeOK
    <3>2. Len(Append(queue, p)) = Len(queue) + 1 /\ Append(queue, p)[Len(queue) + 1] = p
          /\ \A i \in 1..Len(queue) : Append(queue, p)[i] = queue[i]
      BY <3>1
    <3>3. batch' = batch
      BY ExecFacts
    <3>4. \A r \in Proc : state'[r] = IF r = p THEN "asked" ELSE state[r]
      BY <1>3 DEF TypeOK
    <3> QED
      BY <1>3, <3>1, <3>2, <3>3, <3>4
  <2>2. \A i \in 1..Len(queue') : i \in 1..Len(queue) \/ i = Len(queue) + 1
    BY <2>1
  <2>3. \A r \in Proc : state'[r] = "asked" <=>
          (\E i \in 1..Len(queue') : queue'[i] = r) \/ (\E i \in 1..Len(batch') : batch'[i] = r)
    BY <1>1, <2>1, <2>2 DEF Held
  <2>4. \A i, j \in 1..Len(queue') : i # j => queue'[i] # queue'[j]
    BY <1>1, <2>1, <2>2 DEF Held
  <2>5. \A i \in 1..Len(queue'), j \in 1..Len(batch') : queue'[i] # batch'[j]
    BY <1>1, <2>1, <2>2 DEF Held
  <2> QED
    BY <2>1, <2>3, <2>4, <2>5 DEF Held
<1> QED
  BY <1>2, <1>3, ExecFacts

LEMMA ReadHeld == ASSUME TypeOK, Held, Read PROVE Held'
<1>1. batch = <<>> /\ state' = state
  BY DEF Read, TypeOK
<1>2. PICK n \in 1..Len(queue) :
        /\ Len(batch') = n /\ Len(queue') = Len(queue) - n
        /\ \A i \in 1..n : batch'[i] = queue[i]
        /\ \A i \in 1..Len(queue) - n : queue'[i] = queue[n + i]
  BY ReadFacts
<1>3. Len(queue) \in Nat
  BY DEF TypeOK
<1>4. \A i \in 1..Len(queue) : i \in 1..n \/ (i - n \in 1..Len(queue) - n /\ i = n + (i - n))
  BY <1>3
<1>5. \A i \in 1..Len(queue) - n : n + i \in 1..Len(queue)
  BY <1>3
<1>6. \A i \in 1..n : i \in 1..Len(queue)
  BY <1>3
<1>7. \A r \in Proc : state'[r] = "asked" <=>
        (\E i \in 1..Len(queue') : queue'[i] = r) \/ (\E i \in 1..Len(batch') : batch'[i] = r)
  <2> SUFFICES ASSUME NEW r \in Proc
               PROVE  (\E i \in 1..Len(queue) : queue[i] = r) <=>
                      (\E i \in 1..Len(queue') : queue'[i] = r)
                        \/ (\E i \in 1..Len(batch') : batch'[i] = r)
    BY <1>1 DEF Held
  <2>1. ASSUME NEW i \in 1..Len(queue), queue[i] = r
        PROVE  (\E j \in 1..Len(queue') : queue'[j] = r) \/ (\E j \in 1..Len(batch') : batch'[j] = r)
    <3>1. CASE i \in 1..n
      BY <1>2, <2>1, <3>1
    <3>2. CASE i - n \in 1..Len(queue) - n /\ i = n + (i - n)
      BY <1>2, <2>1, <3>2
    <3> QED
      BY <1>4, <3>1, <3>2
  <2>2. ASSUME NEW i \in 1..Len(queue'), queue'[i] = r
        PROVE  \E j \in 1..Len(queue) : queue[j] = r
    BY <1>2, <1>5, <2>2
  <2>3. ASSUME NEW i \in 1..Len(batch'), batch'[i] = r
        PROVE  \E j \in 1..Len(queue) : queue[j] = r
    BY <1>2, <1>6, <2>3
  <2> QED
    BY <2>1, <2>2, <2>3
<1>8. \A i, j \in 1..Len(queue') : i # j => queue'[i] # queue'[j]
  BY <1>2, <1>5 DEF Held
<1>9. \A i, j \in 1..Len(batch') : i # j => batch'[i] # batch'[j]
  BY <1>2, <1>6 DEF Held
<1>10. \A i \in 1..Len(queue'), j \in 1..Len(batch') : queue'[i] # batch'[j]
  BY <1>2, <1>5, <1>6 DEF Held
<1> QED
  BY <1>7, <1>8, <1>9, <1>10 DEF Held

LEMMA RespondHeld == ASSUME TypeOK, Held, Respond PROVE Held'
<1>1. /\ batch \in Seq(Proc) /\ Len(batch) \in Nat \ {0} /\ Head(batch) = batch[1]
      /\ batch[1] \in Proc
  BY DEF Respond, TypeOK
<1>2. /\ queue' = queue /\ Len(batch') = Len(batch) - 1
      /\ \A i \in 1..Len(batch') : i + 1 \in 1..Len(batch) /\ batch'[i] = batch[i + 1]
      /\ \A i \in 1..Len(batch) : i = 1 \/ (i - 1 \in 1..Len(batch') /\ i = (i - 1) + 1)
  BY <1>1 DEF Respond
<1>3. \A r \in Proc : /\ r # batch[1] => state'[r] = state[r]
                      /\ r = batch[1] => state'[r] # "asked"
  BY <1>1 DEF Respond, TypeOK
<1>4. \A i \in 1..Len(batch') : batch'[i] # batch[1]
  BY <1>1, <1>2 DEF Held
<1>5. \A r \in Proc : r # batch[1] =>
        ((\E i \in 1..Len(batch) : batch[i] = r) <=> (\E i \in 1..Len(batch') : batch'[i] = r))
  <2> SUFFICES ASSUME NEW r \in Proc, r # batch[1]
               PROVE  (\E i \in 1..Len(batch) : batch[i] = r)
                        <=> (\E i \in 1..Len(batch') : batch'[i] = r)
    OBVIOUS
  <2>1. ASSUME NEW i \in 1..Len(batch), batch[i] = r PROVE \E j \in 1..Len(batch') : batch'[j] = r
    <3>1. i - 1 \in 1..Len(batch') /\ i = (i - 1) + 1
      BY <1>2, <2>1
    <3> QED
      BY <1>2, <2>1, <3>1
  <2>2. ASSUME NEW i \in 1..Len(batch'), batch'[i] = r PROVE \E j \in 1..Len(batch) : batch[j] = r
    BY <1>2, <2>2
  <2> QED
    BY <2>1, <2>2
<1>6. \A i \in 1..Len(queue) : queue[i] # batch[1]
  BY <1>1 DEF Held
<1>7. \A r \in Proc : state'[r] = "asked" <=>
        (\E i \in 1..Len(queue') : queue'[i] = r) \/ (\E i \in 1..Len(batch') : batch'[i] = r)
  <2>1. ASSUME NEW r \in Proc, r # batch[1]
        PROVE  state'[r] = "asked" <=>
                 (\E i \in 1..Len(queue') : queue'[i] = r) \/ (\E i \in 1..Len(batch') : batch'[i] = r)
    BY <1>2, <1>3, <1>5, <2>1 DEF Held
  <2>2. state'[batch[1]] # "asked"
    BY <1>1, <1>3
  <2>3. ~ \E i \in 1..Len(queue') : queue'[i] = batch[1]
    BY <1>2, <1>6
  <2>4. ~ \E i \in 1..Len(batch') : batch'[i] = batch[1]
    BY <1>4
  <2> QED
    BY <2>1, <2>2, <2>3, <2>4
<1>8. /\ \A i, j \in 1..Len(queue') : i # j => queue'[i] # queue'[j]
      /\ \A i, j \in 1..Len(batch') : i # j => batch'[i] # batch'[j]
      /\ \A i \in 1..Len(queue'), j \in 1..Len(batch') : queue'[i] # batch'[j]
  <2>1. \A i, j \in 1..Len(batch') : i # j => i + 1 # j + 1
    BY <1>1, <1>2
  <2>2. \A i, j \in 1..Len(batch') : i # j => batch'[i] # batch'[j]
    <3> SUFFICES ASSUME NEW i \in 1..Len(batch'), NEW j \in 1..Len(batch'), i # j
                 PROVE  batch'[i] # batch'[j]
      OBVIOUS
    <3>1. /\ i + 1 \in 1..Len(batch) /\ j + 1 \in 1..Len(batch) /\ i + 1 # j + 1
          /\ batch'[i] = batch[i + 1] /\ batch'[j] = batch[j + 1]
      BY <1>2, <2>1
    <3>2. \A k, m \in 1..Len(batch) : k # m => batch[k] # batch[m]
      BY DEF Held
    <3>3. batch[i + 1] # batch[j + 1]
      BY <3>1, <3>2
    <3> QED
      BY <3>1, <3>3
  <2>3. \A i, j \in 1..Len(queue') : i # j => queue'[i] # queue'[j]
    BY <1>2 DEF Held
  <2>4. \A i \in 1..Len(queue'), j \in 1..Len(batch') : queue'[i] # batch'[j]
    <3> SUFFICES ASSUME NEW i \in 1..Len(queue'), NEW j \in 1..Len(batch')
                 PROVE  queue'[i] # batch'[j]
      OBVIOUS
    <3>1. j + 1 \in 1..Len(batch) /\ batch'[j] = batch[j + 1] /\ queue' = queue
      BY <1>2
    <3> QED
      BY <3>1 DEF Held
  <2> QED
    BY <2>2, <2>3, <2>4
<1> QED
  BY <1>7, <1>8 DEF Held

LEMMA HeldStep == TypeOK /\ Held /\ [Next]_vars => Held'
<1> SUFFICES ASSUME TypeOK, Held, [Next]_vars PROVE Held'
  OBVIOUS
<1>1. CASE UNCHANGED <<queue, batch, state>>
  BY <1>1 DEF Held
<1>2. ASSUME NEW p \in Proc, Exit(p) PROVE Held'
  <2>1. /\ UNCHANGED <<queue, batch>>
        /\ \A r \in Proc : state'[r] = "asked" <=> state[r] = "asked"
    BY <1>2 DEF Exit, TypeOK
  <2> QED
    BY <2>1 DEF Held
<1>3. CASE Restart
  <2>1. queue' = <<>> /\ batch' = <<>> /\ \A r \in Proc : state'[r] # "asked"
    BY <1>3 DEF Restart
  <2> QED
    BY <2>1 DEF Held
<1>4. ASSUME NEW p \in Proc, NEW g \in Program, UserExec(p, g) PROVE Held'
  BY <1>4, ExecHeld DEF UserExec
<1>5. ASSUME NEW p \in Proc, Notify(p) PROVE Held'
  BY <1>5, ExecHeld, ProgramAssumption DEF Notify
<1>6. CASE Mark \/ MarkFails \/ Check \/ CheckUnread \/ UNCHANGED vars
  BY <1>1, <1>6 DEF Mark, MarkFails, Check, CheckUnread, vars
<1>7. ASSUME NEW b \in Blockable, BlockApp(b) \/ UnblockApp(b) PROVE Held'
  BY <1>1, <1>7 DEF BlockApp, UnblockApp, Change
<1> QED
  BY <1>2, <1>3, <1>4, <1>5, <1>6, <1>7, ReadHeld, RespondHeld DEF Next, Thread

-------------------------------------------------------------------------------
(***************************************************************************)
(* What is due                                                             *)
(***************************************************************************)
LEMMA ExecDue ==
  ASSUME TypeOK, Held, DueOK, NEW p \in Proc, NEW g \in Program, Exec(p, g)
  PROVE  DueOK'
<1>1. /\ state[p] = "none" /\ UNCHANGED <<blocked, thread, batch, deny>>
      /\ \A r \in Proc : r # p => state'[r] = state[r] /\ program'[r] = program[r]
      /\ program'[p] = g /\ due \subseteq Proc
      /\ due' = IF state'[p] = "asked" /\ IsBlocked(g, blocked) THEN due \cup {p} ELSE due
  BY ExecFacts DEF TypeOK
<1>2. p \notin due
  BY <1>1 DEF DueOK
<1>3. thread = "answer" => batch[1] # p
  <2> SUFFICES ASSUME thread = "answer" PROVE batch[1] # p
    OBVIOUS
  <2>1. batch \in Seq(Proc) /\ batch # <<>>
    BY DEF TypeOK
  <2>2. batch[1] \in Proc /\ 1 \in 1..Len(batch)
    BY <2>1
  <2>3. state[batch[1]] = "asked"
    BY <2>2 DEF Held
  <2> QED
    BY <1>1, <2>3
<1>4. \A r \in due' : state'[r] \in {"asked", "denied"} /\ IsBlocked(program'[r], blocked)
  BY <1>1, <1>2 DEF DueOK
<1>5. thread' = "answer" /\ batch'[1] \in due' => deny'
  BY <1>1, <1>3 DEF DueOK
<1> QED
  BY <1>1, <1>4, <1>5 DEF DueOK

LEMMA DueStep == TypeOK /\ Held /\ DueOK /\ [Next]_vars => DueOK'
<1> SUFFICES ASSUME TypeOK, Held, DueOK, [Next]_vars PROVE DueOK'
  OBVIOUS
<1>1. ASSUME NEW set, Change(set) PROVE DueOK'
  BY <1>1 DEF Change, DueOK
<1>2. ASSUME NEW p \in Proc, NEW g \in Program, UserExec(p, g) PROVE DueOK'
  BY <1>2, ExecDue DEF UserExec
<1>3. ASSUME NEW p \in Proc, Notify(p) PROVE DueOK'
  BY <1>3, ExecDue, ProgramAssumption DEF Notify
<1>4. ASSUME NEW p \in Proc, Exit(p) PROVE DueOK'
  <2>1. /\ due' = due \ {p} /\ UNCHANGED <<blocked, thread, batch, deny, program>>
        /\ \A r \in Proc : r # p => state'[r] = state[r]
    BY <1>4 DEF Exit, TypeOK
  <2> QED
    BY <2>1 DEF DueOK, TypeOK
<1>5. CASE Mark \/ MarkFails
  BY <1>5 DEF Mark, MarkFails, DueOK
<1>6. CASE Read
  BY <1>6 DEF Read, DueOK
<1>7. CASE Check
  <2>1. /\ UNCHANGED <<blocked, batch, state, program, due>>
        /\ deny' = IsBlocked(program[batch[1]], blocked)
    BY <1>7 DEF Check, TypeOK
  <2> QED
    BY <2>1 DEF DueOK
<1>11. CASE CheckUnread
  <2>1. UNCHANGED <<blocked, batch, state, program>> /\ due' = due \ {batch[1]}
    BY <1>11 DEF CheckUnread, TypeOK
  <2> QED
    BY <2>1 DEF DueOK
<1>8. CASE Respond
  <2>1. /\ thread' \in {"read", "batch"} /\ UNCHANGED <<blocked, program, due>>
        /\ thread = "answer" /\ Head(batch) = batch[1]
    BY <1>8 DEF Respond, TypeOK
  <2>2. \A r \in Proc : state'[r] = IF r = batch[1] THEN (IF deny THEN "denied" ELSE "running")
                                    ELSE state[r]
    BY <1>8, <2>1 DEF Respond, TypeOK
  <2>3. \A r \in due : state'[r] \in {"asked", "denied"}
    BY <2>1, <2>2 DEF DueOK, TypeOK
  <2> QED
    BY <2>1, <2>3 DEF DueOK
<1>9. CASE Restart
  BY <1>9 DEF Restart, DueOK
<1>10. CASE UNCHANGED vars
  BY <1>10 DEF vars, DueOK
<1> QED
  BY <1>1, <1>2, <1>3, <1>4, <1>5, <1>6, <1>7, <1>8, <1>9, <1>10, <1>11
  DEF Next, Thread, BlockApp, UnblockApp

-------------------------------------------------------------------------------
(***************************************************************************)
(* Theorems                                                                *)
(***************************************************************************)
LEMMA Invariance == Spec => []IInv
<1>1. Init => IInv
  <2> SUFFICES ASSUME Init PROVE IInv
    OBVIOUS
  <2>1. queue \in Seq(Proc) /\ batch \in Seq(Proc) /\ Len(queue) = 0 /\ Len(batch) = 0
    BY DEF Init
  <2>2. TypeOK
    <3>1. thread \notin {"batch", "answer"} /\ ~(batch # <<>>)
      BY DEF Init
    <3>2. (thread \in {"batch", "answer"}) = (batch # <<>>)
      BY <3>1
    <3>3. state \in [Proc -> {"none", "asked", "running", "denied"}] /\ program \in [Proc -> Program]
      BY ProgramAssumption DEF Init
    <3> QED
      <4>1. /\ blocked \subseteq Blockable /\ thread \in {"start", "read", "batch", "answer", "ended"}
            /\ notifier \subseteq Proc /\ due \subseteq Proc
        BY DEF Init
      <4>3. deny \in BOOLEAN
        BY DEF Init
      <4>4. notices \in Nat /\ execs \in 0..MaxExecs /\ restarts \in 0..MaxRestarts
        BY BoundAssumption DEF Init
      <4>2. Len(queue) <= QueueLimit /\ Len(batch) <= BatchLimit
        BY <2>1, BoundAssumption
      <4> QED
        BY <2>1, <3>2, <3>3, <4>1, <4>2, <4>3, <4>4 DEF TypeOK
  <2>3. Held
    BY <2>1 DEF Init, Held
  <2>4. DueOK
    BY DEF Init, DueOK
  <2> QED
    BY <2>2, <2>3, <2>4 DEF IInv
<1>2. IInv /\ [Next]_vars => IInv'
  BY TypeStep, HeldStep, DueStep DEF IInv
<1> QED
  BY <1>1, <1>2, PTL DEF Spec

(* Every variable keeps its type: the queue and the buffer their limits,   *)
(* and the thread is in the middle of a batch when there is one.           *)
THEOREM TypeCorrect == Spec => []TypeOK
<1>1. IInv => TypeOK
  BY DEF IInv
<1> QED
  BY <1>1, Invariance, PTL

(* An exec that the kernel holds is in the queue or in the batch, once, so *)
(* that the thread has still to answer it, however many processes and      *)
(* events there are.                                                       *)
THEOREM NoExecForgottenHolds == Spec => []NoExecForgotten
<1>1. ASSUME IInv PROVE NoExecForgotten
  <2> DEFINE both == queue \o batch
  <2>1. /\ queue \in Seq(Proc) /\ batch \in Seq(Proc)
        /\ Len(queue) \in Nat /\ Len(batch) \in Nat
    BY <1>1 DEF IInv, TypeOK
  <2>2. /\ both \in Seq(Proc) /\ Len(both) = Len(queue) + Len(batch)
        /\ \A i \in 1..Len(both) : both[i] = IF i <= Len(queue) THEN queue[i]
                                             ELSE batch[i - Len(queue)]
    BY <2>1
  <2>3. \A i \in 1..Len(batch) : both[Len(queue) + i] = batch[i] /\ Len(queue) + i \in 1..Len(both)
    BY <2>1, <2>2
  <2>4. \A i \in 1..Len(queue) : both[i] = queue[i] /\ i \in 1..Len(both)
    BY <2>1, <2>2
  <2>5. \A i \in 1..Len(both) : \/ i \in 1..Len(queue) /\ both[i] = queue[i]
                                \/ i - Len(queue) \in 1..Len(batch) /\ both[i] = batch[i - Len(queue)]
    BY <2>1, <2>2
  <2>6. ToSet(both) = {both[i] : i \in 1..Len(both)}
    BY <2>2 DEF ToSet
  <2> HIDE DEF both
  <2>7. \A p \in Proc : p \in ToSet(both) <=> state[p] = "asked"
    <3>1. ASSUME NEW p \in Proc, state[p] = "asked" PROVE p \in ToSet(both)
      BY <1>1, <2>3, <2>4, <2>6, <3>1 DEF IInv, Held
    <3>2. ASSUME NEW p \in Proc, p \in ToSet(both) PROVE state[p] = "asked"
      BY <1>1, <2>5, <2>6, <3>2 DEF IInv, Held
    <3> QED
      BY <3>1, <3>2
  <2>8. ToSet(both) \subseteq Proc
    BY <2>2, <2>6
  <2>9. \A i, j \in 1..Len(both) : i # j => both[i] # both[j]
    <3> SUFFICES ASSUME NEW i \in 1..Len(both), NEW j \in 1..Len(both), i # j
                 PROVE  both[i] # both[j]
      OBVIOUS
    <3>0. Held /\ i - Len(queue) # j - Len(queue)
      BY <1>1, <2>1, <2>2 DEF IInv
    <3>1. CASE i \in 1..Len(queue) /\ both[i] = queue[i]
      BY <2>5, <3>0, <3>1 DEF Held
    <3>2. CASE i - Len(queue) \in 1..Len(batch) /\ both[i] = batch[i - Len(queue)]
      <4>1. CASE j \in 1..Len(queue) /\ both[j] = queue[j]
        BY <3>0, <3>2, <4>1 DEF Held
      <4>2. CASE j - Len(queue) \in 1..Len(batch) /\ both[j] = batch[j - Len(queue)]
        BY <3>0, <3>2, <4>2 DEF Held
      <4> QED
        BY <2>5, <4>1, <4>2
    <3> QED
      BY <2>5, <3>1, <3>2
  <2>10. IsInjective(both)
    BY <2>2, <2>9 DEF IsInjective
  <2> QED
    BY <2>7, <2>8, <2>10 DEF NoExecForgotten, both
<1> QED
  BY <1>1, Invariance, PTL

(* A program that was blocked when its start was asked for does not start  *)
(* as long as the block stands, whatever is read, answered and changed,    *)
(* unless its path could not be read.                                      *)
THEOREM BlockedNeverStartsHolds == Spec => []BlockedNeverStarts
<1>1. IInv => BlockedNeverStarts
  BY DEF IInv, DueOK, BlockedNeverStarts
<1> QED
  BY <1>1, Invariance, PTL
===============================================================================
