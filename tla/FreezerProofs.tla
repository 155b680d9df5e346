----------------------------- MODULE FreezerProofs -----------------------------
(***************************************************************************)
(* Type correctness of Freezer, and the reversibility of freezing as long  *)
(* as commands come one after the other and the daemon is not restarted.   *)
(***************************************************************************)
EXTENDS Freezer, TLAPS

LEMMA TypeStep == TypeOK /\ [Next]_vars => TypeOK'
<1> SUFFICES ASSUME TypeOK, [Next]_vars PROVE TypeOK'
  OBVIOUS
<1> USE PidAssumption, NameAssumption, BoundAssumption
    DEF TypeOK, system, table, locals, history, PC, Command, NoCommand, NoScan, Matching, Idle
<1>1. ASSUME NEW c \in Conn, Accept(c) PROVE TypeOK'
  BY <1>1 DEF Accept, Transition
<1>2. ASSUME NEW c \in Conn, FreezeAlready(c) PROVE TypeOK'
  BY <1>2 DEF FreezeAlready, Reply, Transition
<1>3. ASSUME NEW c \in Conn, FreezeCheck(c) PROVE TypeOK'
  BY <1>3 DEF FreezeCheck, Transition
<1>4. ASSUME NEW c \in Conn, FreezeScan(c) PROVE TypeOK'
  <2>1. Matching(command[c].app) \subseteq Pid
    OBVIOUS
  <2>2. CASE Reply(c, "scan", "error")
    BY <1>4, <2>2 DEF FreezeScan, Reply, Transition
  <2>3. CASE ~Reply(c, "scan", "error")
    <3>1. Transition(c, "scan", "trees")
          /\ roots' = [roots EXCEPT ![c] = Matching(command[c].app)]
          /\ UNCHANGED <<answer, tree, above, signaled, resume, system, table, command, history>>
      <4> HIDE DEF TypeOK, Matching
      <4> QED
        BY <1>4, <2>3 DEF FreezeScan
    <3> QED
      BY <2>1, <3>1 DEF Transition
  <2> QED
    BY <2>2, <2>3
<1>5. ASSUME NEW c \in Conn, FreezeTree(c) PROVE TypeOK'
  <2>1. PICK r \in roots[c] : /\ roots' = [roots EXCEPT ![c] = @ \ {r}]
                             /\ tree' = [tree EXCEPT ![c] = Subtree(r)]
    BY <1>5 DEF FreezeTree
  <2>2. Subtree(r) \subseteq Pid
    BY DEF Subtree
  <2> QED
    BY <1>5, <2>1, <2>2 DEF FreezeTree, Transition
<1>6. ASSUME NEW c \in Conn, Stop(c) PROVE TypeOK'
  <2>1. PICK p \in tree[c] :
          /\ tree' = [tree EXCEPT ![c] = @ \ {p}]
          /\ IF p \in alive
               THEN /\ stopped' = stopped \cup {p}
                    /\ signaled' = [signaled EXCEPT ![c] = @ \cup {p}]
               ELSE UNCHANGED <<stopped, signaled>>
    BY <1>6 DEF Stop
  <2>2. p \in Pid /\ tree' \in [Conn -> SUBSET Pid]
    BY <2>1
  <2>3. stopped' \subseteq alive /\ signaled' \in [Conn -> SUBSET Pid]
    <3>1. CASE p \in alive
      BY <2>1, <2>2, <3>1
    <3>2. CASE p \notin alive
      BY <2>1, <3>2
    <3> QED
      BY <3>1, <3>2
  <2> QED
    BY <1>6, <2>2, <2>3 DEF Stop
<1>7. ASSUME NEW c \in Conn, TreeDone(c) PROVE TypeOK'
  BY <1>7 DEF TreeDone, Transition
<1>8. ASSUME NEW c \in Conn, FreezeRecord(c) PROVE TypeOK'
  BY <1>8 DEF FreezeRecord, Reply, Transition
<1>9. ASSUME NEW c \in Conn, ThawUnknown(c) PROVE TypeOK'
  BY <1>9 DEF ThawUnknown, Reply, Transition
<1>10. ASSUME NEW c \in Conn, ThawTake(c) PROVE TypeOK'
  BY <1>10 DEF ThawTake, Transition
<1>11. ASSUME NEW c \in Conn, Continue(c) PROVE TypeOK'
  BY <1>11 DEF Continue
<1>12. ASSUME NEW c \in Conn, ThawRescan(c) PROVE TypeOK'
  BY <1>12 DEF ThawRescan, Transition
<1>13. ASSUME NEW c \in Conn, ThawReply(c) PROVE TypeOK'
  BY <1>13 DEF ThawReply, Reply, Transition
<1>14. ASSUME NEW p \in Pid, Fork(p) PROVE TypeOK'
  BY <1>14 DEF Fork, Running
<1>15. ASSUME NEW p \in Pid, Die(p) PROVE TypeOK'
  BY <1>15 DEF Die
<1>16. ASSUME Restart PROVE TypeOK'
  BY <1>16 DEF Restart
<1>17. CASE UNCHANGED vars
  BY <1>17 DEF vars
<1> QED
  BY <1>1, <1>2, <1>3, <1>4, <1>5, <1>6, <1>7, <1>8, <1>9, <1>10, <1>11,
     <1>12, <1>13, <1>14, <1>15, <1>16, <1>17 DEF Next, Step

THEOREM TypeCorrect == Spec => []TypeOK
<1>1. Init => TypeOK
  <2> SUFFICES ASSUME Init PROVE TypeOK
    OBVIOUS
  <2> USE DEF Init
  <2>1. parent \in [Pid -> Pid \cup {Root}] /\ name \in [Pid -> App \cup {Other}]
    BY TreeAssumption
  <2>2. forks \in 0..MaxForks /\ deaths \in 0..MaxDeaths /\ restarts \in 0..MaxRestarts
    BY BoundAssumption
  <2> QED
    BY <2>1, <2>2 DEF TypeOK, PC, Command, NoCommand, NoScan, Unused
<1> QED
  BY <1>1, TypeStep, PTL DEF Spec

-------------------------------------------------------------------------------
(* An overlap and a restart are never forgotten. *)
LEMMA HistoryStep ==
  TypeOK /\ [Next]_vars => (overlapped => overlapped') /\ (restarts' = 0 => restarts = 0)
<1> SUFFICES ASSUME TypeOK, [Next]_vars
             PROVE  (overlapped => overlapped') /\ (restarts' = 0 => restarts = 0)
  OBVIOUS
<1> USE BoundAssumption DEF TypeOK, history
<1>1. ASSUME NEW c \in Conn, Step(c) PROVE (overlapped => overlapped') /\ restarts' = restarts
  BY <1>1 DEF Step, Accept, FreezeAlready, FreezeCheck, FreezeScan, FreezeTree, Stop,
     TreeDone, FreezeRecord, ThawUnknown, ThawTake, Continue, ThawRescan, ThawReply
<1>2. ASSUME NEW p \in Pid, Fork(p) \/ Die(p) PROVE UNCHANGED history
  BY <1>2 DEF Fork, Die
<1>3. ASSUME Restart PROVE overlapped' = overlapped /\ restarts' # 0
  BY <1>3 DEF Restart
<1>4. CASE UNCHANGED vars
  BY <1>4 DEF vars
<1> QED
  BY <1>1, <1>2, <1>3, <1>4 DEF Next

(* One handler at a time, and no entry of the table is overwritten. *)
LEMMA SequentialStep == TypeOK /\ SequentialInv /\ [Next]_vars => SequentialInv'
<1> SUFFICES ASSUME TypeOK, ~overlapped', Sequential, [Next]_vars PROVE Sequential'
  BY HistoryStep DEF SequentialInv
<1> USE DEF TypeOK, Sequential, system, table, locals, history, PC, Command, NoCommand, Idle
<1>1. ASSUME NEW c \in Conn, Accept(c) PROVE Sequential'
  <2>1. \A d \in Conn : Idle(d)
    BY <1>1 DEF Accept
  <2>2. PICK r \in Command : command' = [command EXCEPT ![c] = r]
    BY <1>1 DEF Accept
  <2>3. pc' = [pc EXCEPT ![c] = "start"] /\ UNCHANGED <<listed, captured, signaled>>
    BY <1>1 DEF Accept, Transition
  <2>4. \A d, e \in Conn : ~Idle(d)' /\ ~Idle(e)' => d = e
    BY <2>1, <2>3
  <2>5. \A a \in App \ listed' : captured'[a] = {}
    BY <2>3
  <2>6. \A d \in Conn : pc'[d] \notin {"scan", "trees", "stopping", "record"}
    BY <2>1, <2>3
  <2> QED
    BY <2>4, <2>5, <2>6
<1>2. ASSUME NEW c \in Conn, FreezeAlready(c) PROVE Sequential'
  BY <1>2 DEF FreezeAlready, Reply, Transition
<1>3. ASSUME NEW c \in Conn, FreezeCheck(c) PROVE Sequential'
  BY <1>3 DEF FreezeCheck, Transition
<1>4. ASSUME NEW c \in Conn, FreezeScan(c) PROVE Sequential'
  <2>1. CASE Reply(c, "scan", "error")
    BY <1>4, <2>1 DEF FreezeScan, Reply, Transition
  <2>2. CASE ~Reply(c, "scan", "error")
    <3>1. Transition(c, "scan", "trees") /\ UNCHANGED <<signaled, listed, captured, command>>
      BY <1>4, <2>2 DEF FreezeScan
    <3> QED
      BY <3>1 DEF Transition
  <2> QED
    BY <2>1, <2>2
<1>5. ASSUME NEW c \in Conn, FreezeTree(c) PROVE Sequential'
  BY <1>5 DEF FreezeTree, Transition
<1>6. ASSUME NEW c \in Conn, Stop(c) PROVE Sequential'
  BY <1>6 DEF Stop
<1>7. ASSUME NEW c \in Conn, TreeDone(c) PROVE Sequential'
  BY <1>7 DEF TreeDone, Transition
<1>8. ASSUME NEW c \in Conn, FreezeRecord(c) PROVE Sequential'
  BY <1>8 DEF FreezeRecord, Reply, Transition
<1>9. ASSUME NEW c \in Conn, ThawUnknown(c) PROVE Sequential'
  BY <1>9 DEF ThawUnknown, Reply, Transition
<1>10. ASSUME NEW c \in Conn, ThawTake(c) PROVE Sequential'
  BY <1>10 DEF ThawTake, Transition
<1>11. ASSUME NEW c \in Conn, Continue(c) PROVE Sequential'
  BY <1>11 DEF Continue
<1>12. ASSUME NEW c \in Conn, ThawRescan(c) PROVE Sequential'
  BY <1>12 DEF ThawRescan, Transition
<1>13. ASSUME NEW c \in Conn, ThawReply(c) PROVE Sequential'
  BY <1>13 DEF ThawReply, Reply, Transition
<1>14. ASSUME NEW p \in Pid, Fork(p) PROVE Sequential'
  BY <1>14 DEF Fork, Running
<1>15. ASSUME NEW p \in Pid, Die(p) PROVE Sequential'
  BY <1>15 DEF Die
<1>16. ASSUME Restart PROVE Sequential'
  BY <1>16 DEF Restart
<1>17. CASE UNCHANGED vars
  BY <1>17 DEF vars
<1> QED
  BY <1>1, <1>2, <1>3, <1>4, <1>5, <1>6, <1>7, <1>8, <1>9, <1>10, <1>11,
     <1>12, <1>13, <1>14, <1>15, <1>16, <1>17 DEF Next, Step

(* A process that is stopped stays in somebody's hands. *)
AllAccounted == \A p \in stopped : Accounted(p)

LEMMA StrandedStep ==
  TypeOK /\ SequentialInv /\ NothingStranded /\ [Next]_vars => NothingStranded'
<1> SUFFICES ASSUME TypeOK, restarts' = 0, Sequential, AllAccounted, [Next]_vars
             PROVE  AllAccounted'
  BY HistoryStep DEF SequentialInv, NothingStranded, AllAccounted
<1> USE BoundAssumption
    DEF TypeOK, Sequential, AllAccounted, Accounted, system, table, locals, history, PC, Command, NoCommand, Idle
<1>1. ASSUME NEW c \in Conn, Accept(c) PROVE AllAccounted'
  BY <1>1 DEF Accept, Transition
<1>2. ASSUME NEW c \in Conn, FreezeAlready(c) PROVE AllAccounted'
  BY <1>2 DEF FreezeAlready, Reply, Transition
<1>3. ASSUME NEW c \in Conn, FreezeCheck(c) PROVE AllAccounted'
  BY <1>3 DEF FreezeCheck, Transition
<1>4. ASSUME NEW c \in Conn, FreezeScan(c) PROVE AllAccounted'
  BY <1>4 DEF FreezeScan, Reply, Transition
<1>5. ASSUME NEW c \in Conn, FreezeTree(c) PROVE AllAccounted'
  BY <1>5 DEF FreezeTree, Transition
<1>6. ASSUME NEW c \in Conn, Stop(c) PROVE AllAccounted'
  <2>1. PICK p \in tree[c] :
          IF p \in alive
            THEN /\ stopped' = stopped \cup {p}
                 /\ signaled' = [signaled EXCEPT ![c] = @ \cup {p}]
            ELSE UNCHANGED <<stopped, signaled>>
    BY <1>6 DEF Stop
  <2>2. pc[c] = "stopping" /\ UNCHANGED <<pc, captured, resume>>
    BY <1>6 DEF Stop
  <2>3. \A d \in Conn : signaled[d] \subseteq signaled'[d]
    <3>1. CASE p \in alive
      <4> DEFINE more == signaled[c] \cup {p}
      <4>1. signaled' = [signaled EXCEPT ![c] = more] /\ signaled[c] \subseteq more
        BY <2>1, <3>1
      <4> HIDE DEF more
      <4> QED
        BY <4>1
    <3>2. CASE p \notin alive
      BY <2>1, <3>2
    <3> QED
      BY <3>1, <3>2
  <2>4. \A q \in stopped : Accounted(q)'
    BY <2>2, <2>3
  <2>5. CASE p \in alive
    <3>1. stopped' = stopped \cup {p} /\ p \in signaled'[c]
      BY <2>1, <2>5
    <3>2. Accounted(p)'
      BY <2>2, <3>1
    <3> QED
      BY <2>4, <3>1, <3>2
  <2>6. CASE p \notin alive
    BY <2>1, <2>4, <2>6
  <2> QED
    BY <2>5, <2>6
<1>7. ASSUME NEW c \in Conn, TreeDone(c) PROVE AllAccounted'
  BY <1>7 DEF TreeDone, Transition
<1>8. ASSUME NEW c \in Conn, FreezeRecord(c) PROVE AllAccounted'
  <2> DEFINE a == command[c].app
  <2>1. /\ pc[c] = "record" /\ pc' = [pc EXCEPT ![c] = "done"]
        /\ captured' = [captured EXCEPT ![a] = signaled[c]]
        /\ stopped' = stopped
    BY <1>8 DEF FreezeRecord, Reply, Transition
  <2>2. a \in App /\ captured[a] = {}
    BY <2>1
  <2>3. \A d \in Conn : pc[d] \in {"trees", "stopping", "record", "continuing", "again"} => d = c
    BY <2>1
  <2> HIDE DEF a
  <2>4. captured'[a] = signaled[c] /\ \A b \in App : captured[b] \subseteq captured'[b]
    BY <2>1, <2>2
  <2>5. SUFFICES ASSUME NEW p \in stopped PROVE \E b \in App : p \in captured'[b]
    BY <2>1
  <2>6. CASE \E b \in App : p \in captured[b]
    BY <2>4, <2>6
  <2>7. CASE p \in signaled[c]
    BY <2>2, <2>4, <2>7
  <2> QED
    BY <2>1, <2>3, <2>6, <2>7
<1>9. ASSUME NEW c \in Conn, ThawUnknown(c) PROVE AllAccounted'
  <2>1. /\ pc[c] = "start" /\ pc' = [pc EXCEPT ![c] = "done"]
        /\ signaled' = [signaled EXCEPT ![c] = {}] /\ resume' = [resume EXCEPT ![c] = {}]
        /\ captured' = captured /\ stopped' = stopped
    BY <1>9 DEF ThawUnknown, Reply, Transition
  <2> QED
    BY <2>1
<1>10. ASSUME NEW c \in Conn, ThawTake(c) PROVE AllAccounted'
  <2> DEFINE a == command[c].app
  <2>1. /\ pc[c] = "start" /\ pc' = [pc EXCEPT ![c] = "continuing"]
        /\ captured' = [captured EXCEPT ![a] = {}]
        /\ resume' = [resume EXCEPT ![c] = captured[a]]
        /\ signaled' = [signaled EXCEPT ![c] = captured[a]]
        /\ stopped' = stopped
    BY <1>10 DEF ThawTake, Transition
  <2>2. a \in App
    BY <2>1
  <2> HIDE DEF a
  <2>3. SUFFICES ASSUME NEW p \in stopped PROVE Accounted(p)'
    BY <2>1
  <2>4. CASE p \in captured[a]
    BY <2>1, <2>4
  <2>5. CASE p \notin captured[a]
    BY <2>1, <2>2, <2>5
  <2> QED
    BY <2>4, <2>5
<1>11. ASSUME NEW c \in Conn, Continue(c) PROVE AllAccounted'
  BY <1>11 DEF Continue
<1>12. ASSUME NEW c \in Conn, ThawRescan(c) PROVE AllAccounted'
  BY <1>12 DEF ThawRescan, Transition
<1>13. ASSUME NEW c \in Conn, ThawReply(c) PROVE AllAccounted'
  BY <1>13 DEF ThawReply, Reply, Transition
<1>14. ASSUME NEW p \in Pid, Fork(p) PROVE AllAccounted'
  BY <1>14 DEF Fork, Running
<1>15. ASSUME NEW p \in Pid, Die(p) PROVE AllAccounted'
  BY <1>15 DEF Die
<1>16. ASSUME Restart PROVE AllAccounted'
  BY <1>16 DEF Restart
<1>17. CASE UNCHANGED vars
  BY <1>17 DEF vars
<1> QED
  BY <1>1, <1>2, <1>3, <1>4, <1>5, <1>6, <1>7, <1>8, <1>9, <1>10, <1>11,
     <1>12, <1>13, <1>14, <1>15, <1>16, <1>17 DEF Next, Step

(* Freezing is reversible: as long as no commands have overlapped and the  *)
(* daemon has not been restarted, a process that is stopped is in the      *)
(* table or in the hands of the running command (process_freezer.rs).      *)
THEOREM ReversibleFreezing == Spec => []NothingStranded
<1>1. Init => SequentialInv /\ NothingStranded
  BY DEF Init, SequentialInv, Sequential, NothingStranded, Idle
<1> QED
  BY <1>1, SequentialStep, StrandedStep, TypeCorrect, PTL DEF Spec

-------------------------------------------------------------------------------
(* What a thaw has taken from the table, or found as it looked once more,  *)
(* and is stopped, it has still to continue.                               *)
StillInHand ==
  \A c \in Conn :
    /\ pc[c] = "continuing" => stopped \cap signaled[c] \subseteq resume[c]
    /\ pc[c] = "again" =>
         stopped \cap (signaled[c] \cup Matching(command[c].app)) \subseteq resume[c]
ThawInv == ~overlapped => StillInHand

LEMMA ThawStep == TypeOK /\ SequentialInv /\ ThawInv /\ [Next]_vars => ThawInv'
<1> SUFFICES ASSUME TypeOK, Sequential, StillInHand, [Next]_vars PROVE StillInHand'
  BY HistoryStep DEF SequentialInv, ThawInv
<1> USE DEF TypeOK, StillInHand, Matching, system, table, locals, history, PC, Command,
        NoCommand
<1>1. ASSUME NEW c \in Conn, Accept(c) PROVE StillInHand'
  <2>1. PICK r \in Command : command' = [command EXCEPT ![c] = r]
    BY <1>1 DEF Accept
  <2>2. /\ pc[c] = "idle" /\ pc' = [pc EXCEPT ![c] = "start"]
        /\ UNCHANGED <<alive, name, stopped, signaled, resume>>
    BY <1>1 DEF Accept, Transition
  <2> QED
    BY <2>1, <2>2
<1>2. ASSUME NEW c \in Conn, FreezeAlready(c) PROVE StillInHand'
  BY <1>2 DEF FreezeAlready, Reply, Transition
<1>3. ASSUME NEW c \in Conn, FreezeCheck(c) PROVE StillInHand'
  BY <1>3 DEF FreezeCheck, Transition
<1>4. ASSUME NEW c \in Conn, FreezeScan(c) PROVE StillInHand'
  <2>1. UNCHANGED <<alive, name, stopped, command>>
    BY <1>4 DEF FreezeScan
  <2>2. CASE Reply(c, "scan", "error")
    BY <2>1, <2>2 DEF Reply, Transition
  <2>3. CASE ~Reply(c, "scan", "error")
    <3>1. Transition(c, "scan", "trees") /\ UNCHANGED <<signaled, resume>>
      BY <1>4, <2>3 DEF FreezeScan
    <3> QED
      BY <2>1, <3>1 DEF Transition
  <2> QED
    BY <2>2, <2>3
<1>5. ASSUME NEW c \in Conn, FreezeTree(c) PROVE StillInHand'
  BY <1>5 DEF FreezeTree, Transition
<1>6. ASSUME NEW c \in Conn, Stop(c) PROVE StillInHand'
  (* Only this handler runs, so that no thaw is under way. *)
  <2>1. pc[c] = "stopping" /\ pc' = pc
    BY <1>6 DEF Stop
  <2>2. \A d \in Conn : pc'[d] \notin {"continuing", "again"}
    BY <2>1 DEF Sequential, Idle
  <2> QED
    BY <2>2
<1>7. ASSUME NEW c \in Conn, TreeDone(c) PROVE StillInHand'
  BY <1>7 DEF TreeDone, Transition
<1>8. ASSUME NEW c \in Conn, FreezeRecord(c) PROVE StillInHand'
  BY <1>8 DEF FreezeRecord, Reply, Transition
<1>9. ASSUME NEW c \in Conn, ThawUnknown(c) PROVE StillInHand'
  BY <1>9 DEF ThawUnknown, Reply, Transition
<1>10. ASSUME NEW c \in Conn, ThawTake(c) PROVE StillInHand'
  BY <1>10 DEF ThawTake, Transition
<1>11. ASSUME NEW c \in Conn, Continue(c) PROVE StillInHand'
  <2>1. PICK p \in resume[c] : /\ resume' = [resume EXCEPT ![c] = @ \ {p}]
                               /\ stopped' = stopped \ {p}
    BY <1>11 DEF Continue
  <2>2. UNCHANGED <<pc, command, alive, name, signaled>>
    BY <1>11 DEF Continue
  <2>3. \A d \in Conn : resume[d] \ {p} \subseteq resume'[d]
    BY <2>1
  <2> QED
    BY <2>1, <2>2, <2>3
<1>12. ASSUME NEW c \in Conn, ThawRescan(c) PROVE StillInHand'
  <2>1. /\ pc[c] = "continuing" /\ pc' = [pc EXCEPT ![c] = "again"] /\ resume[c] = {}
        /\ resume' = [resume EXCEPT ![c] = Matching(command[c].app) \ signaled[c]]
        /\ UNCHANGED <<alive, name, stopped, command, signaled>>
    BY <1>12 DEF ThawRescan, Transition
  <2>2. stopped \cap signaled[c] = {}
    BY <2>1
  <2> QED
    BY <2>1, <2>2
<1>13. ASSUME NEW c \in Conn, ThawReply(c) PROVE StillInHand'
  BY <1>13 DEF ThawReply, Reply, Transition
<1>14. ASSUME NEW p \in Pid, Fork(p) PROVE StillInHand'
  (* The new process runs, and no stopped one changes its name. *)
  <2>1. PICK q \in Pid \ alive, n \in App \cup {Other} :
          alive' = alive \cup {q} /\ name' = [name EXCEPT ![q] = n]
    BY <1>14 DEF Fork
  <2>2. UNCHANGED <<stopped, pc, command, signaled, resume>>
    BY <1>14 DEF Fork
  <2>3. \A r \in stopped : r \in alive /\ name'[r] = name[r]
    BY <2>1
  <2> QED
    BY <2>1, <2>2, <2>3
<1>15. ASSUME NEW p \in Pid, Die(p) PROVE StillInHand'
  <2>1. /\ stopped' = stopped \ {p} /\ \A r \in stopped' : r \in alive /\ name'[r] = name[r]
        /\ UNCHANGED <<pc, command, signaled, resume>>
    BY <1>15 DEF Die
  <2> QED
    BY <2>1
<1>16. ASSUME Restart PROVE StillInHand'
  BY <1>16 DEF Restart
<1>17. CASE UNCHANGED vars
  BY <1>17 DEF vars
<1> QED
  BY <1>1, <1>2, <1>3, <1>4, <1>5, <1>6, <1>7, <1>8, <1>9, <1>10, <1>11,
     <1>12, <1>13, <1>14, <1>15, <1>16, <1>17 DEF Next, Step

(* A thaw at its end has left nothing stopped that the table held under    *)
(* its name, nor what carries the name now, unless commands overlapped     *)
(* (thaw_app, process_freezer.rs).                                         *)
THEOREM ThawIsComplete == Spec => []ThawLeavesNoneStopped
<1>1. Init => SequentialInv /\ ThawInv
  BY DEF Init, SequentialInv, Sequential, ThawInv, StillInHand, Idle
<1>2. ThawInv => ThawLeavesNoneStopped
  BY DEF ThawInv, StillInHand, ThawLeavesNoneStopped
<1> QED
  BY <1>1, <1>2, SequentialStep, ThawStep, TypeCorrect, PTL DEF Spec

-------------------------------------------------------------------------------
(* As long as nothing forks, a freeze that stops children first has the    *)
(* children of what it stopped behind it, and those of what is left in the *)
(* tree are stopped or in the tree, under the parent that the scan showed. *)
Unsignalled(c) == pc[c] \in {"idle", "start", "scan", "done"} => signaled[c] = {}
Behind(c) ==
  pc[c] \in {"trees", "stopping", "record"} =>
    \A p \in alive : parent[p] \in signaled[c] => p \in stopped
Ahead(c) ==
  pc[c] = "stopping" =>
    \A p \in alive : parent[p] \in Pid =>
      /\ above[c][p] = parent[p]
      /\ parent[p] \in tree[c] => p \in tree[c] \cup stopped
TreeInv == forks = 0 /\ ~overlapped => \A c \in Conn : Unsignalled(c) /\ Behind(c) /\ Ahead(c)

LEMMA SubtreeClosed ==
  ASSUME TypeOK, NEW r \in Pid, NEW q \in alive, parent[q] \in Subtree(r)
  PROVE  q \in Subtree(r)
BY DEF Subtree, Closed, TypeOK

(* The handlers of the others are untouched, and so is the system. *)
LEMMA TreeKept ==
  ASSUME TypeOK, NEW c \in Conn, \A d \in Conn : Unsignalled(d) /\ Behind(d) /\ Ahead(d),
         UNCHANGED <<alive, parent, stopped>>,
         \A d \in Conn \ {c} : /\ pc'[d] = pc[d] /\ signaled'[d] = signaled[d]
                               /\ above'[d] = above[d] /\ tree'[d] = tree[d],
         Unsignalled(c)', Behind(c)', Ahead(c)'
  PROVE  \A d \in Conn : Unsignalled(d)' /\ Behind(d)' /\ Ahead(d)'
<1>1. ASSUME NEW d \in Conn \ {c} PROVE Unsignalled(d)' /\ Behind(d)' /\ Ahead(d)'
  BY <1>1 DEF Unsignalled, Behind, Ahead
<1> QED
  BY <1>1

(* A fork is never forgotten. *)
LEMMA ForksStep == TypeOK /\ [Next]_vars => (forks' = 0 => forks = 0)
<1> SUFFICES ASSUME TypeOK, [Next]_vars PROVE forks' = 0 => forks = 0
  OBVIOUS
<1> USE BoundAssumption DEF TypeOK, system
<1>1. ASSUME NEW c \in Conn, Step(c) PROVE forks' = forks
  BY <1>1 DEF Step, Accept, FreezeAlready, FreezeCheck, FreezeScan, FreezeTree, Stop,
     TreeDone, FreezeRecord, ThawUnknown, ThawTake, Continue, ThawRescan, ThawReply
<1>2. ASSUME NEW p \in Pid, Fork(p) PROVE forks' # 0
  BY <1>2 DEF Fork
<1>3. ASSUME NEW p \in Pid, Die(p) PROVE forks' = forks
  BY <1>3 DEF Die
<1>4. CASE Restart \/ UNCHANGED vars
  BY <1>4 DEF Restart, vars
<1> QED
  BY <1>1, <1>2, <1>3, <1>4 DEF Next

LEMMA TreeStep == TypeOK /\ SequentialInv /\ TreeInv /\ [Next]_vars => TreeInv'
<1> DEFINE Good == \A c \in Conn : Unsignalled(c) /\ Behind(c) /\ Ahead(c)
<1> SUFFICES ASSUME TypeOK, Sequential, Good, [Next]_vars, forks' = 0 PROVE Good'
  BY HistoryStep, ForksStep DEF SequentialInv, TreeInv
<1> USE DEF TypeOK, system, table, locals, history, PC
(* Handlers that signal nothing end, or go on to where nothing is claimed. *)
<1>1. ASSUME NEW c \in Conn, NEW from, NEW what, Reply(c, from, what),
             UNCHANGED <<alive, parent, stopped>>
      PROVE  Good'
  <2>1. Unsignalled(c)' /\ Behind(c)' /\ Ahead(c)'
    BY <1>1 DEF Reply, Transition, Unsignalled, Behind, Ahead
  <2> HIDE DEF TypeOK
  <2>2. \A d \in Conn \ {c} : /\ pc'[d] = pc[d] /\ signaled'[d] = signaled[d]
                              /\ above'[d] = above[d] /\ tree'[d] = tree[d]
    BY <1>1 DEF Reply, Transition, TypeOK
  <2> QED
    BY <1>1, <2>1, <2>2, TreeKept
<1>2. ASSUME NEW c \in Conn, NEW from \in {"idle", "start"}, NEW to \in {"start", "scan"},
             Transition(c, from, to),
             UNCHANGED <<alive, parent, stopped, signaled, above, tree>>
      PROVE  Good'
  <2>1. Unsignalled(c)' /\ Behind(c)' /\ Ahead(c)'
    BY <1>2 DEF Transition, Unsignalled, Behind, Ahead
  <2> QED
    BY <1>2, <2>1, TreeKept DEF Transition
<1>3. ASSUME NEW c \in Conn, Accept(c) \/ FreezeCheck(c) PROVE Good'
  BY <1>2, <1>3 DEF Accept, FreezeCheck
<1>4. ASSUME NEW c \in Conn,
             FreezeAlready(c) \/ FreezeRecord(c) \/ ThawUnknown(c) \/ ThawReply(c)
      PROVE  Good'
  <2>1. UNCHANGED <<alive, parent, stopped>>
    BY <1>4 DEF FreezeAlready, FreezeRecord, ThawUnknown, ThawReply
  <2> HIDE DEF TypeOK, Good
  <2> QED
    BY <1>1, <1>4, <2>1 DEF FreezeAlready, FreezeRecord, ThawUnknown, ThawReply
<1>5. ASSUME NEW c \in Conn, FreezeScan(c) PROVE Good'
  <2>1. UNCHANGED <<alive, parent, stopped>>
    BY <1>5 DEF FreezeScan
  <2>2. CASE Reply(c, "scan", "error")
    BY <1>1, <2>1, <2>2
  <2>3. CASE ~Reply(c, "scan", "error")
    <3>1. Transition(c, "scan", "trees") /\ UNCHANGED <<signaled, above, tree>>
      BY <1>5, <2>3 DEF FreezeScan
    <3>2. Unsignalled(c)' /\ Behind(c)' /\ Ahead(c)'
      BY <3>1 DEF Transition, Unsignalled, Behind, Ahead
    <3> QED
      BY <2>1, <3>1, <3>2, TreeKept DEF Transition
  <2> QED
    BY <2>2, <2>3
<1>6. ASSUME NEW c \in Conn, FreezeTree(c) PROVE Good'
  (* The tree that is read is closed under children. *)
  <2>1. PICK r \in roots[c] : tree' = [tree EXCEPT ![c] = Subtree(r)]
    BY <1>6 DEF FreezeTree
  <2>2. /\ pc[c] = "trees" /\ pc' = [pc EXCEPT ![c] = "stopping"]
        /\ above' = [above EXCEPT ![c] = parent]
        /\ UNCHANGED <<alive, parent, stopped, signaled>>
    BY <1>6 DEF FreezeTree, Transition
  <2>3. Unsignalled(c)' /\ Behind(c)'
    BY <2>2 DEF Unsignalled, Behind
  <2>4. r \in Pid /\ above'[c] = parent /\ tree'[c] = Subtree(r)
    BY <2>1, <2>2
  <2>5. Ahead(c)'
    BY <2>2, <2>4, SubtreeClosed DEF Ahead
  <2> QED
    BY <2>1, <2>2, <2>3, <2>5, TreeKept
<1>7. ASSUME NEW c \in Conn, Stop(c) PROVE Good'
  <2>1. PICK q \in tree[c] :
          /\ \A p \in tree[c] \ {q} : above[c][p] # q
          /\ tree' = [tree EXCEPT ![c] = @ \ {q}]
          /\ IF q \in alive
               THEN /\ stopped' = stopped \cup {q}
                    /\ signaled' = [signaled EXCEPT ![c] = @ \cup {q}]
               ELSE UNCHANGED <<stopped, signaled>>
    BY <1>7 DEF Stop
  <2>2. pc[c] = "stopping" /\ UNCHANGED <<pc, alive, parent, above>>
    BY <1>7 DEF Stop
  <2>3. /\ q \in Pid /\ stopped \subseteq stopped' /\ (q \in alive => q \in stopped')
        /\ signaled'[c] \subseteq signaled[c] \cup {q} /\ tree'[c] = tree[c] \ {q}
    <3>1. CASE q \in alive
      BY <2>1, <3>1
    <3>2. CASE q \notin alive
      BY <2>1, <3>2
    <3> QED
      BY <3>1, <3>2
  <2>4. Behind(c)'
    <3> SUFFICES ASSUME NEW p \in alive, parent[p] \in signaled[c] \cup {q} PROVE p \in stopped'
      BY <2>2, <2>3 DEF Behind
    <3>1. CASE parent[p] \in signaled[c]
      BY <2>2, <2>3, <3>1 DEF Behind
    <3>2. CASE parent[p] = q
      <4>1. above[c][p] = q /\ p \in tree[c] \cup stopped
        BY <2>2, <2>3, <3>2 DEF Ahead
      <4> QED
        BY <2>1, <2>3, <4>1
    <3> QED
      BY <3>1, <3>2
  <2>5. Ahead(c)'
    BY <2>2, <2>3 DEF Ahead
  <2>6. Unsignalled(c)'
    BY <2>2 DEF Unsignalled
  <2>7. ASSUME NEW d \in Conn \ {c} PROVE Unsignalled(d)' /\ Behind(d)' /\ Ahead(d)'
    <3>1. pc'[d] \in {"idle", "done"}
      BY <2>2 DEF Sequential, Idle
    <3>2. signaled'[d] = signaled[d]
      BY <2>1
    <3> QED
      BY <2>2, <3>1, <3>2 DEF Unsignalled, Behind, Ahead
  <2> QED
    BY <2>4, <2>5, <2>6, <2>7
<1>8. ASSUME NEW c \in Conn, TreeDone(c) PROVE Good'
  <2>1. /\ pc[c] = "stopping" /\ pc'[c] \in {"trees", "record"}
        /\ \A d \in Conn \ {c} : pc'[d] = pc[d] /\ above'[d] = above[d]
        /\ UNCHANGED <<alive, parent, stopped, signaled, tree>>
    BY <1>8 DEF TreeDone, Transition
  <2>2. Unsignalled(c)' /\ Behind(c)' /\ Ahead(c)'
    BY <2>1 DEF Unsignalled, Behind, Ahead
  <2> QED
    BY <2>1, <2>2, TreeKept
<1>9. ASSUME NEW c \in Conn, ThawTake(c) \/ ThawRescan(c) PROVE Good'
  <2>1. /\ pc'[c] \in {"continuing", "again"}
        /\ \A d \in Conn \ {c} : pc'[d] = pc[d] /\ signaled'[d] = signaled[d]
        /\ UNCHANGED <<alive, parent, stopped, above, tree>>
    BY <1>9 DEF ThawTake, ThawRescan, Transition
  <2>2. Unsignalled(c)' /\ Behind(c)' /\ Ahead(c)'
    BY <2>1 DEF Unsignalled, Behind, Ahead
  <2> QED
    BY <2>1, <2>2, TreeKept
<1>10. ASSUME NEW c \in Conn, Continue(c) PROVE Good'
  (* Only this handler runs, so that no freeze is under way. *)
  <2>1. pc[c] \in {"continuing", "again"} /\ UNCHANGED <<pc, signaled>>
    BY <1>10 DEF Continue
  <2>2. \A d \in Conn : pc'[d] \notin {"trees", "stopping", "record"}
    BY <2>1 DEF Sequential, Idle
  <2> QED
    BY <2>1, <2>2 DEF Unsignalled, Behind, Ahead
<1>11. ASSUME NEW p \in Pid, Fork(p) PROVE FALSE
  BY <1>11, BoundAssumption DEF Fork
<1>12. ASSUME NEW p \in Pid, Die(p) PROVE Good'
  (* Who dies leaves the rest as it is, and its children to the root. *)
  <2>1. /\ alive' = alive \ {p} /\ stopped' = stopped \ {p}
        /\ \A q \in alive' : parent'[q] \in Pid => parent'[q] = parent[q]
        /\ UNCHANGED <<pc, signaled, above, tree>>
    BY <1>12, PidAssumption DEF Die
  <2> QED
    BY <2>1 DEF Unsignalled, Behind, Ahead
<1>13. ASSUME Restart PROVE Good'
  BY <1>13 DEF Restart, Unsignalled, Behind, Ahead
<1>14. CASE UNCHANGED vars
  BY <1>14 DEF vars, Unsignalled, Behind, Ahead
<1> QED
  BY <1>3, <1>4, <1>5, <1>6, <1>7, <1>8, <1>9, <1>10, <1>11, <1>12, <1>13, <1>14 DEF Next, Step

(* A freeze during which nothing forks has reached the whole tree when it  *)
(* records its name, whatever dies meanwhile and whatever the shape of the *)
(* tree, unless commands overlapped (freeze_app, process_freezer.rs).      *)
THEOREM FreezeReachesTree == Spec => []ChildrenStopped
<1>1. Init => SequentialInv /\ TreeInv
  BY DEF Init, SequentialInv, Sequential, TreeInv, Unsignalled, Behind, Ahead, Idle
<1>2. TreeInv => ChildrenStopped
  BY DEF TreeInv, Behind, ChildrenStopped, TreeReached
<1> QED
  BY <1>1, <1>2, SequentialStep, TreeStep, TypeCorrect, PTL DEF Spec
===============================================================================
