------------------------- MODULE ControlServerProofs --------------------------
(***************************************************************************)
(* Type correctness of ControlServer and the invariance of IInv, for any   *)
(* number of connections, any commands and any capacity of the map.        *)
(***************************************************************************)
EXTENDS ControlServer, FiniteSetTheorems, TLAPS

(* The parts of a command that has arrived. *)
LEMMA CommandFields ==
  ASSUME TypeOK, NEW c \in Conn, request[c] # None
  PROVE  /\ request[c] \in Command
         /\ request[c].domains \subseteq Domain
         /\ request[c].paths \subseteq Path
         /\ request[c].names \subseteq Name
<1>1. request[c] \in Command
  BY DEF TypeOK
<1>2. request[c] \in [op : Op, domains : SUBSET Domain,
                     paths : SUBSET Path, names : SUBSET Name]
  BY <1>1, CommandAssumption
<1> QED
  BY <1>1, <1>2

(* The two updates of a Status report yield a report. *)
LEMMA ReportListed ==
  ASSUME NEW r \in Report, NEW l \in SUBSET Domain
  PROVE  [r EXCEPT !.stage = 1, !.listed = l] \in Report
<1> DEFINE r1 == [r EXCEPT !.stage = 1]
<1>1. r1 \in Report
  BY DEF Report
<1>2. [r1 EXCEPT !.listed = l] \in Report
  BY <1>1 DEF Report
<1>3. [r EXCEPT !.stage = 1, !.listed = l] = [r1 EXCEPT !.listed = l]
  BY DEF Report
<1> QED
  BY <1>2, <1>3

LEMMA ReportFocus ==
  ASSUME NEW r \in Report, NEW b \in BOOLEAN
  PROVE  [r EXCEPT !.stage = 2, !.focus = b] \in Report
<1> DEFINE r1 == [r EXCEPT !.stage = 2]
<1>1. r1 \in Report
  BY DEF Report
<1>2. [r1 EXCEPT !.focus = b] \in Report
  BY <1>1 DEF Report
<1>3. [r EXCEPT !.stage = 2, !.focus = b] = [r1 EXCEPT !.focus = b]
  BY DEF Report
<1> QED
  BY <1>2, <1>3

LEMMA ReportApps ==
  ASSUME NEW r \in Report, NEW p \in SUBSET Path, NEW n \in SUBSET Name
  PROVE  [r EXCEPT !.stage = 3, !.paths = p, !.names = n] \in Report
<1> DEFINE r1 == [r EXCEPT !.stage = 3]
           r2 == [r1 EXCEPT !.paths = p]
<1>1. r1 \in Report
  BY DEF Report
<1>2. r2 \in Report
  BY <1>1 DEF Report
<1>3. [r2 EXCEPT !.names = n] \in Report
  BY <1>2 DEF Report
<1>4. [r EXCEPT !.stage = 3, !.paths = p, !.names = n] = [r2 EXCEPT !.names = n]
  BY DEF Report
<1> QED
  BY <1>3, <1>4

LEMMA TypeStep == TypeOK /\ [Next]_vars => TypeOK'
<1> SUFFICES ASSUME TypeOK, [Next]_vars PROVE TypeOK'
  OBVIOUS
<1> USE DEF TypeOK, lists, locals, history, Lock, PC
<1>1. ASSUME NEW c \in Conn, Accept(c) PROVE TypeOK'
  <2>1. PICK r \in Command : /\ request' = [request EXCEPT ![c] = r]
                            /\ named' = named \cup r.domains
    BY <1>1 DEF Accept, Transition
  <2>2. r.domains \subseteq Domain
    BY CommandAssumption
  <2> QED
    BY <1>1, <2>1, <2>2 DEF Accept, Transition
<1>2. ASSUME NEW c \in Conn, LockEbpf(c) PROVE TypeOK'
  <2>1. request[c] # None
    BY <1>2 DEF LockEbpf, Acquire, Free, Transition, Is
  <2>2. request[c].domains \subseteq Domain
    BY <2>1, CommandFields
  <2> QED
    BY <1>2, <2>2 DEF LockEbpf, Acquire, Free, Transition, Is
<1>3. ASSUME NEW c \in Conn, LockFocus(c) PROVE TypeOK'
  BY <1>3 DEF LockFocus, Acquire, Free, Transition
<1>4. ASSUME NEW c \in Conn, LockDynamic(c) PROVE TypeOK'
  <2>1. request[c] # None
    BY <1>4 DEF LockDynamic, Acquire, Free, Transition, Is
  <2>2. request[c].domains \subseteq Domain
    BY <2>1, CommandFields
  <2> QED
    BY <1>4, <2>2 DEF LockDynamic, Acquire, Free, Transition, Is
<1>5. ASSUME NEW c \in Conn, RemoveDomain(c) PROVE TypeOK'
  BY <1>5 DEF RemoveDomain, Is
<1>6. ASSUME NEW c \in Conn, AddDomain(c) PROVE TypeOK'
  <2>1. PICK d \in todo[c] : AddDomain(c)!2!(d)
    BY <1>6 DEF AddDomain
  <2>2. d \in Domain
    OBVIOUS
  <2>3. todo' \in [Conn -> SUBSET Domain]
    BY <2>1
  <2>4. map' \subseteq Domain /\ dynamic' \subseteq Domain
    BY <2>1, <2>2
  <2>5. added' \in [Conn -> SUBSET Domain] /\ failed' \in [Conn -> SUBSET Domain]
    BY <2>1, <2>2
  <2> QED
    BY <1>6, <2>3, <2>4, <2>5 DEF AddDomain
<1>7. ASSUME NEW c \in Conn, SyncClear(c) PROVE TypeOK'
  <2>1. request[c] # None
    BY <1>7 DEF SyncClear, Is, Transition
  <2>2. request[c].domains \subseteq Domain
    BY <2>1, CommandFields
  <2> QED
    BY <1>7, <2>2 DEF SyncClear, Is, Transition
<1>8. ASSUME NEW c \in Conn, SyncApps(c) PROVE TypeOK'
  <2>1. request[c] # None
    BY <1>8 DEF SyncApps, Is, Transition, Acquire, Free
  <2>2. request[c].paths \subseteq Path /\ request[c].names \subseteq Name
    BY <2>1, CommandFields
  <2> QED
    BY <1>8, <2>2 DEF SyncApps, Is, Transition, Acquire, Free
<1>9. ASSUME NEW c \in Conn, BlockReply(c) PROVE TypeOK'
  BY <1>9 DEF BlockReply, Is, Free, Reply, Transition
<1>10. ASSUME NEW c \in Conn, UnblockReply(c) PROVE TypeOK'
  BY <1>10 DEF UnblockReply, Is, Free, Reply, Transition
<1>11. ASSUME NEW c \in Conn, SyncReply(c) PROVE TypeOK'
  BY <1>11 DEF SyncReply, Reply, Transition
<1>12. ASSUME NEW c \in Conn, FocusOnReply(c) PROVE TypeOK'
  BY <1>12 DEF FocusOnReply, Is, Reply, Transition
<1>13. ASSUME NEW c \in Conn, FocusOffReply(c) PROVE TypeOK'
  BY <1>13 DEF FocusOffReply, Is, Reply, Transition
<1>14. ASSUME NEW c \in Conn, BlockApp(c) PROVE TypeOK'
  <2>1. request[c] # None
    BY <1>14 DEF BlockApp, Is, Free, Reply, Transition
  <2>2. request[c].paths \subseteq Path /\ request[c].names \subseteq Name
    BY <2>1, CommandFields
  <2> QED
    BY <1>14, <2>2 DEF BlockApp, Is, Free, Reply, Transition
<1>15. ASSUME NEW c \in Conn, UnblockApp(c) PROVE TypeOK'
  <2>1. request[c] # None
    BY <1>15 DEF UnblockApp, Is, Free, Reply, Transition
  <2>2. request[c].paths \subseteq Path /\ request[c].names \subseteq Name
    BY <2>1, CommandFields
  <2> QED
    BY <1>15, <2>2 DEF UnblockApp, Is, Free, Reply, Transition
<1>16. ASSUME NEW c \in Conn, StatusDynamic(c) PROVE TypeOK'
  <2>1. report[c] \in Report
    BY DEF TypeOK
  <2>2. [report[c] EXCEPT !.stage = 1, !.listed = dynamic] \in Report
    BY <2>1, ReportListed DEF TypeOK
  <2>3. report' \in [Conn -> Report]
    BY <1>16, <2>2 DEF StatusDynamic, Is, Free, Transition, TypeOK
  <2> HIDE DEF Report
  <2> QED
    BY <1>16, <2>3 DEF StatusDynamic, Is, Free, Transition
<1>17. ASSUME NEW c \in Conn, StatusFocus(c) PROVE TypeOK'
  <2>1. report[c] \in Report
    BY DEF TypeOK
  <2>2. [report[c] EXCEPT !.stage = 2, !.focus = focus] \in Report
    BY <2>1, ReportFocus DEF TypeOK
  <2>3. report' \in [Conn -> Report]
    BY <1>17, <2>2 DEF StatusFocus, Free, Transition, TypeOK
  <2> HIDE DEF Report
  <2> QED
    BY <1>17, <2>3 DEF StatusFocus, Free, Transition
<1>18. ASSUME NEW c \in Conn, StatusReply(c) PROVE TypeOK'
  <2>1. report[c] \in Report
    BY DEF TypeOK
  <2>2. [report[c] EXCEPT !.stage = 3, !.paths = paths, !.names = names] \in Report
    BY <2>1, ReportApps DEF TypeOK
  <2>3. report' \in [Conn -> Report]
    BY <1>18, <2>2 DEF StatusReply, Free, Reply, Transition, TypeOK
  <2> HIDE DEF Report
  <2> QED
    BY <1>18, <2>3 DEF StatusReply, Free, Reply, Transition
<1>19. CASE UNCHANGED vars
  BY <1>19 DEF vars
<1> QED
  BY <1>1, <1>2, <1>3, <1>4, <1>5, <1>6, <1>7, <1>8, <1>9, <1>10, <1>11,
     <1>12, <1>13, <1>14, <1>15, <1>16, <1>17, <1>18, <1>19 DEF Next, Step

THEOREM TypeCorrect == Spec => []TypeOK
<1>1. EmptyReport \in Report
  BY DEF EmptyReport, Report
<1>2. Init => TypeOK
  <2> SUFFICES ASSUME Init PROVE TypeOK
    OBVIOUS
  <2>1. report \in [Conn -> Report]
    BY <1>1 DEF Init
  <2>2. /\ lock \in [Lock -> Conn \cup {None}]
        /\ pc \in [Conn -> PC]
    BY DEF Init, PC
  <2> QED
    BY <2>1, <2>2, DefaultAssumption DEF Init, TypeOK
<1> QED
  BY <1>2, TypeStep, PTL DEF Spec

-------------------------------------------------------------------------------
LEMMA ControlStep == TypeOK /\ ControlInv /\ [Next]_vars => ControlInv'
<1> SUFFICES ASSUME TypeOK, ControlInv, [Next]_vars PROVE ControlInv'
  OBVIOUS
<1> USE DEF TypeOK, ControlInv, FocusOps, lists, locals, history, Lock, PC, Is
<1>1. ASSUME NEW c \in Conn, Accept(c) PROVE ControlInv'
  BY <1>1, NoneIsNoCommand DEF Accept, Transition
<1>2. ASSUME NEW c \in Conn, LockEbpf(c) PROVE ControlInv'
  BY <1>2, NoneIsNoCommand DEF LockEbpf, Acquire, Free, Transition, Is
<1>3. ASSUME NEW c \in Conn, LockFocus(c) PROVE ControlInv'
  BY <1>3, NoneIsNoCommand DEF LockFocus, Acquire, Free, Transition
<1>4. ASSUME NEW c \in Conn, LockDynamic(c) PROVE ControlInv'
  BY <1>4, NoneIsNoCommand DEF LockDynamic, Acquire, Free, Transition, Is
<1>5. ASSUME NEW c \in Conn, RemoveDomain(c) PROVE ControlInv'
  BY <1>5, NoneIsNoCommand DEF RemoveDomain, Is
<1>6. ASSUME NEW c \in Conn, AddDomain(c) PROVE ControlInv'
  BY <1>6, NoneIsNoCommand DEF AddDomain, Is, Fits
<1>7. ASSUME NEW c \in Conn, SyncClear(c) PROVE ControlInv'
  BY <1>7, NoneIsNoCommand DEF SyncClear, Is, Transition
<1>8. ASSUME NEW c \in Conn, SyncApps(c) PROVE ControlInv'
  BY <1>8, NoneIsNoCommand DEF SyncApps, Is, Transition, Acquire, Free
<1>9. ASSUME NEW c \in Conn, BlockReply(c) PROVE ControlInv'
  BY <1>9, NoneIsNoCommand DEF BlockReply, Is, Free, Reply, Transition
<1>10. ASSUME NEW c \in Conn, UnblockReply(c) PROVE ControlInv'
  BY <1>10, NoneIsNoCommand DEF UnblockReply, Is, Free, Reply, Transition
<1>11. ASSUME NEW c \in Conn, SyncReply(c) PROVE ControlInv'
  BY <1>11, NoneIsNoCommand DEF SyncReply, Reply, Transition
<1>12. ASSUME NEW c \in Conn, FocusOnReply(c) PROVE ControlInv'
  BY <1>12, NoneIsNoCommand DEF FocusOnReply, Is, Reply, Transition
<1>13. ASSUME NEW c \in Conn, FocusOffReply(c) PROVE ControlInv'
  BY <1>13, NoneIsNoCommand DEF FocusOffReply, Is, Reply, Transition
<1>14. ASSUME NEW c \in Conn, BlockApp(c) PROVE ControlInv'
  BY <1>14, NoneIsNoCommand DEF BlockApp, Is, Free, Reply, Transition
<1>15. ASSUME NEW c \in Conn, UnblockApp(c) PROVE ControlInv'
  BY <1>15, NoneIsNoCommand DEF UnblockApp, Is, Free, Reply, Transition
<1>16. ASSUME NEW c \in Conn, StatusDynamic(c) PROVE ControlInv'
  BY <1>16, NoneIsNoCommand DEF StatusDynamic, Is, Free, Transition
<1>17. ASSUME NEW c \in Conn, StatusFocus(c) PROVE ControlInv'
  BY <1>17, NoneIsNoCommand DEF StatusFocus, Free, Transition
<1>18. ASSUME NEW c \in Conn, StatusReply(c) PROVE ControlInv'
  BY <1>18, NoneIsNoCommand DEF StatusReply, Free, Reply, Transition
<1>19. CASE UNCHANGED vars
  BY <1>19 DEF vars
<1> QED
  BY <1>1, <1>2, <1>3, <1>4, <1>5, <1>6, <1>7, <1>8, <1>9, <1>10, <1>11,
     <1>12, <1>13, <1>14, <1>15, <1>16, <1>17, <1>18, <1>19 DEF Next, Step

LEMMA LockStep == TypeOK /\ ControlInv /\ LockInv /\ [Next]_vars => LockInv'
<1> SUFFICES ASSUME TypeOK, ControlInv, LockInv, [Next]_vars PROVE LockInv'
  OBVIOUS
<1> USE DEF TypeOK, ControlInv, LockInv, FocusOps, lists, locals, history, Lock, PC, Is
<1>1. ASSUME NEW c \in Conn, Accept(c) PROVE LockInv'
  BY <1>1, NoneAssumption, NoneIsNoCommand DEF Accept, Transition
<1>2. ASSUME NEW c \in Conn, LockEbpf(c) PROVE LockInv'
  BY <1>2, NoneAssumption, NoneIsNoCommand DEF LockEbpf, Acquire, Free, Transition, Is
<1>3. ASSUME NEW c \in Conn, LockFocus(c) PROVE LockInv'
  BY <1>3, NoneAssumption, NoneIsNoCommand DEF LockFocus, Acquire, Free, Transition
<1>4. ASSUME NEW c \in Conn, LockDynamic(c) PROVE LockInv'
  BY <1>4, NoneAssumption, NoneIsNoCommand DEF LockDynamic, Acquire, Free, Transition, Is
<1>5. ASSUME NEW c \in Conn, RemoveDomain(c) PROVE LockInv'
  BY <1>5, NoneAssumption, NoneIsNoCommand DEF RemoveDomain, Is
<1>6. ASSUME NEW c \in Conn, AddDomain(c) PROVE LockInv'
  BY <1>6, NoneAssumption, NoneIsNoCommand DEF AddDomain, Is, Fits
<1>7. ASSUME NEW c \in Conn, SyncClear(c) PROVE LockInv'
  BY <1>7, NoneAssumption, NoneIsNoCommand DEF SyncClear, Is, Transition
<1>8. ASSUME NEW c \in Conn, SyncApps(c) PROVE LockInv'
  BY <1>8, NoneAssumption, NoneIsNoCommand DEF SyncApps, Is, Transition, Acquire, Free
<1>9. ASSUME NEW c \in Conn, BlockReply(c) PROVE LockInv'
  BY <1>9, NoneAssumption, NoneIsNoCommand DEF BlockReply, Is, Free, Reply, Transition
<1>10. ASSUME NEW c \in Conn, UnblockReply(c) PROVE LockInv'
  BY <1>10, NoneAssumption, NoneIsNoCommand DEF UnblockReply, Is, Free, Reply, Transition
<1>11. ASSUME NEW c \in Conn, SyncReply(c) PROVE LockInv'
  BY <1>11, NoneAssumption, NoneIsNoCommand DEF SyncReply, Reply, Transition
<1>12. ASSUME NEW c \in Conn, FocusOnReply(c) PROVE LockInv'
  BY <1>12, NoneAssumption, NoneIsNoCommand DEF FocusOnReply, Is, Reply, Transition
<1>13. ASSUME NEW c \in Conn, FocusOffReply(c) PROVE LockInv'
  BY <1>13, NoneAssumption, NoneIsNoCommand DEF FocusOffReply, Is, Reply, Transition
<1>14. ASSUME NEW c \in Conn, BlockApp(c) PROVE LockInv'
  BY <1>14, NoneAssumption, NoneIsNoCommand DEF BlockApp, Is, Free, Reply, Transition
<1>15. ASSUME NEW c \in Conn, UnblockApp(c) PROVE LockInv'
  BY <1>15, NoneAssumption, NoneIsNoCommand DEF UnblockApp, Is, Free, Reply, Transition
<1>16. ASSUME NEW c \in Conn, StatusDynamic(c) PROVE LockInv'
  BY <1>16, NoneAssumption, NoneIsNoCommand DEF StatusDynamic, Is, Free, Transition
<1>17. ASSUME NEW c \in Conn, StatusFocus(c) PROVE LockInv'
  BY <1>17, NoneAssumption, NoneIsNoCommand DEF StatusFocus, Free, Transition
<1>18. ASSUME NEW c \in Conn, StatusReply(c) PROVE LockInv'
  BY <1>18, NoneAssumption, NoneIsNoCommand DEF StatusReply, Free, Reply, Transition
<1>19. CASE UNCHANGED vars
  BY <1>19 DEF vars
<1> QED
  BY <1>1, <1>2, <1>3, <1>4, <1>5, <1>6, <1>7, <1>8, <1>9, <1>10, <1>11,
     <1>12, <1>13, <1>14, <1>15, <1>16, <1>17, <1>18, <1>19 DEF Next, Step

-------------------------------------------------------------------------------
(* Only one handler at a time is past LockEbpf. *)
LEMMA OneHolder ==
  ASSUME LockInv, NEW c \in Conn, NEW e \in Conn,
         pc[c] \in {"lockfm", "lockdb", "adding", "removing", "swapped"},
         pc[e] \in {"lockfm", "lockdb", "adding", "removing", "swapped"}
  PROVE  c = e
  BY DEF LockInv

LEMMA MapStep == TypeOK /\ ControlInv /\ LockInv /\ MapInv /\ [Next]_vars => MapInv'
<1> SUFFICES ASSUME TypeOK, ControlInv, LockInv, MapInv, [Next]_vars PROVE MapInv'
  OBVIOUS
<1> USE DEF TypeOK, ControlInv, LockInv, MapInv, ListMatchesMap, Agree, FocusOps, lists, locals, history, Lock, PC, Is, Free
<1>1. ASSUME NEW c \in Conn, Accept(c) PROVE MapInv'
  BY <1>1, NoneAssumption, NoneIsNoCommand DEF Accept, Transition
<1>2. ASSUME NEW c \in Conn, LockEbpf(c) PROVE MapInv'
  BY <1>2, NoneAssumption, NoneIsNoCommand DEF LockEbpf, Acquire, Free, Transition, Is
<1>3. ASSUME NEW c \in Conn, LockFocus(c) PROVE MapInv'
  BY <1>3, NoneAssumption, NoneIsNoCommand DEF LockFocus, Acquire, Free, Transition
<1>4. ASSUME NEW c \in Conn, LockDynamic(c) PROVE MapInv'
  BY <1>4, NoneAssumption, NoneIsNoCommand DEF LockDynamic, Acquire, Free, Transition, Is
<1>5. ASSUME NEW c \in Conn, RemoveDomain(c) PROVE MapInv'
  <2> USE <1>5, NoneAssumption DEF RemoveDomain, Is
  <2>1. PICK d \in todo[c] : RemoveDomain(c)!2!(d)
    OBVIOUS
  <2>2. ListMatchesMap'
    OBVIOUS
  <2>3. ASSUME NEW e \in Conn, e # c
        PROVE  pc'[e] \notin {"lockfm", "lockdb", "adding", "removing", "swapped"}
    BY <2>3, OneHolder
  <2>4. CASE Is(c, {"unblock"})
    <3>1. todo'[c] = todo[c] \ {d} /\ map' = map \ {d} /\ UNCHANGED <<request, dynamic>>
      BY <2>1
    <3>2. /\ todo[c] \subseteq request[c].domains
          /\ dynamic \subseteq map \cup (request[c].domains \ todo[c])
          /\ map \subseteq Default \cup dynamic
          /\ map \cap (request[c].domains \ todo[c]) = {}
      BY <2>4
    <3>3. map' \cap (request'[c].domains \ todo'[c]) = {}
      BY <3>1, <3>2, Zenon
    <3>4. /\ todo'[c] \subseteq request'[c].domains
          /\ dynamic' \subseteq map' \cup (request'[c].domains \ todo'[c])
          /\ map' \subseteq Default \cup dynamic'
      BY <2>1, <3>1, <3>2
    <3> QED
      BY <2>2, <2>3, <2>4, <3>3, <3>4
  <2>5. CASE Is(c, {"sync", "focus_off"})
    <3>1. map' \subseteq Default \cup todo'[c]
      BY <2>1, <2>5
    <3> QED
      BY <2>2, <2>3, <2>5, <3>1
  <2> QED
    BY <2>4, <2>5
<1>6. ASSUME NEW c \in Conn, AddDomain(c) PROVE MapInv'
  BY <1>6, NoneAssumption, NoneIsNoCommand DEF AddDomain, Is, Fits
<1>7. ASSUME NEW c \in Conn, SyncClear(c) PROVE MapInv'
  BY <1>7, NoneAssumption, NoneIsNoCommand DEF SyncClear, Is, Transition
<1>8. ASSUME NEW c \in Conn, SyncApps(c) PROVE MapInv'
  BY <1>8, NoneAssumption, NoneIsNoCommand DEF SyncApps, Is, Transition, Acquire, Free
<1>9. ASSUME NEW c \in Conn, BlockReply(c) PROVE MapInv'
  BY <1>9, NoneAssumption, NoneIsNoCommand DEF BlockReply, Is, Free, Reply, Transition
<1>10. ASSUME NEW c \in Conn, UnblockReply(c) PROVE MapInv'
  BY <1>10, NoneAssumption, NoneIsNoCommand DEF UnblockReply, Is, Free, Reply, Transition
<1>11. ASSUME NEW c \in Conn, SyncReply(c) PROVE MapInv'
  BY <1>11, NoneAssumption, NoneIsNoCommand DEF SyncReply, Reply, Transition
<1>12. ASSUME NEW c \in Conn, FocusOnReply(c) PROVE MapInv'
  BY <1>12, NoneAssumption, NoneIsNoCommand DEF FocusOnReply, Is, Reply, Transition
<1>13. ASSUME NEW c \in Conn, FocusOffReply(c) PROVE MapInv'
  BY <1>13, NoneAssumption, NoneIsNoCommand DEF FocusOffReply, Is, Reply, Transition
<1>14. ASSUME NEW c \in Conn, BlockApp(c) PROVE MapInv'
  BY <1>14, NoneAssumption, NoneIsNoCommand DEF BlockApp, Is, Free, Reply, Transition
<1>15. ASSUME NEW c \in Conn, UnblockApp(c) PROVE MapInv'
  BY <1>15, NoneAssumption, NoneIsNoCommand DEF UnblockApp, Is, Free, Reply, Transition
<1>16. ASSUME NEW c \in Conn, StatusDynamic(c) PROVE MapInv'
  BY <1>16, NoneAssumption, NoneIsNoCommand DEF StatusDynamic, Is, Free, Transition
<1>17. ASSUME NEW c \in Conn, StatusFocus(c) PROVE MapInv'
  BY <1>17, NoneAssumption, NoneIsNoCommand DEF StatusFocus, Free, Transition
<1>18. ASSUME NEW c \in Conn, StatusReply(c) PROVE MapInv'
  BY <1>18, NoneAssumption, NoneIsNoCommand DEF StatusReply, Free, Reply, Transition
<1>19. CASE UNCHANGED vars
  BY <1>19 DEF vars
<1> QED
  BY <1>1, <1>2, <1>3, <1>4, <1>5, <1>6, <1>7, <1>8, <1>9, <1>10, <1>11,
     <1>12, <1>13, <1>14, <1>15, <1>16, <1>17, <1>18, <1>19 DEF Next, Step

LEMMA NamedStep == TypeOK /\ ControlInv /\ MapInv /\ NamedInv /\ [Next]_vars => NamedInv'
<1> SUFFICES ASSUME TypeOK, ControlInv, MapInv, NamedInv, [Next]_vars PROVE NamedInv'
  OBVIOUS
<1> USE DEF TypeOK, ControlInv, NamedInv, DefaultsLostOnlyByName, FocusOps, lists, locals, history, Lock, PC, Is, Free
<1>1. ASSUME NEW c \in Conn, Accept(c) PROVE NamedInv'
  BY <1>1, NoneAssumption, NoneIsNoCommand DEF Accept, Transition
<1>2. ASSUME NEW c \in Conn, LockEbpf(c) PROVE NamedInv'
  BY <1>2, NoneAssumption, NoneIsNoCommand DEF LockEbpf, Acquire, Free, Transition, Is
<1>3. ASSUME NEW c \in Conn, LockFocus(c) PROVE NamedInv'
  BY <1>3, NoneAssumption, NoneIsNoCommand DEF LockFocus, Acquire, Free, Transition
<1>4. ASSUME NEW c \in Conn, LockDynamic(c) PROVE NamedInv'
  <2>1. todo'[c] \subseteq named
    BY <1>4 DEF LockDynamic, Acquire, Free, Transition, Is
  <2> QED
    BY <1>4, <2>1 DEF LockDynamic, Acquire, Free, Transition, Is
<1>5. ASSUME NEW c \in Conn, RemoveDomain(c) PROVE NamedInv'
  BY <1>5, NoneAssumption, NoneIsNoCommand DEF RemoveDomain, Is
<1>6. ASSUME NEW c \in Conn, AddDomain(c) PROVE NamedInv'
  BY <1>6, NoneAssumption, NoneIsNoCommand DEF AddDomain, Is, Fits
<1>7. ASSUME NEW c \in Conn, SyncClear(c) PROVE NamedInv'
  BY <1>7, NoneAssumption, NoneIsNoCommand DEF SyncClear, Is, Transition
<1>8. ASSUME NEW c \in Conn, SyncApps(c) PROVE NamedInv'
  BY <1>8, NoneAssumption, NoneIsNoCommand DEF SyncApps, Is, Transition, Acquire, Free
<1>9. ASSUME NEW c \in Conn, BlockReply(c) PROVE NamedInv'
  BY <1>9, NoneAssumption, NoneIsNoCommand DEF BlockReply, Is, Free, Reply, Transition
<1>10. ASSUME NEW c \in Conn, UnblockReply(c) PROVE NamedInv'
  BY <1>10, NoneAssumption, NoneIsNoCommand DEF UnblockReply, Is, Free, Reply, Transition
<1>11. ASSUME NEW c \in Conn, SyncReply(c) PROVE NamedInv'
  BY <1>11, NoneAssumption, NoneIsNoCommand DEF SyncReply, Reply, Transition
<1>12. ASSUME NEW c \in Conn, FocusOnReply(c) PROVE NamedInv'
  BY <1>12, NoneAssumption, NoneIsNoCommand DEF FocusOnReply, Is, Reply, Transition
<1>13. ASSUME NEW c \in Conn, FocusOffReply(c) PROVE NamedInv'
  BY <1>13, NoneAssumption, NoneIsNoCommand DEF FocusOffReply, Is, Reply, Transition
<1>14. ASSUME NEW c \in Conn, BlockApp(c) PROVE NamedInv'
  BY <1>14, NoneAssumption, NoneIsNoCommand DEF BlockApp, Is, Free, Reply, Transition
<1>15. ASSUME NEW c \in Conn, UnblockApp(c) PROVE NamedInv'
  BY <1>15, NoneAssumption, NoneIsNoCommand DEF UnblockApp, Is, Free, Reply, Transition
<1>16. ASSUME NEW c \in Conn, StatusDynamic(c) PROVE NamedInv'
  BY <1>16, NoneAssumption, NoneIsNoCommand DEF StatusDynamic, Is, Free, Transition
<1>17. ASSUME NEW c \in Conn, StatusFocus(c) PROVE NamedInv'
  BY <1>17, NoneAssumption, NoneIsNoCommand DEF StatusFocus, Free, Transition
<1>18. ASSUME NEW c \in Conn, StatusReply(c) PROVE NamedInv'
  BY <1>18, NoneAssumption, NoneIsNoCommand DEF StatusReply, Free, Reply, Transition
<1>19. CASE UNCHANGED vars
  BY <1>19 DEF vars
<1> QED
  BY <1>1, <1>2, <1>3, <1>4, <1>5, <1>6, <1>7, <1>8, <1>9, <1>10, <1>11,
     <1>12, <1>13, <1>14, <1>15, <1>16, <1>17, <1>18, <1>19 DEF Next, Step

LEMMA SyncNoStep == TypeOK /\ ControlInv /\ LockInv /\ SyncNoInv /\ [Next]_vars => SyncNoInv'
<1> SUFFICES ASSUME TypeOK, ControlInv, LockInv, SyncNoInv, [Next]_vars PROVE SyncNoInv'
  OBVIOUS
<1> USE DEF TypeOK, ControlInv, LockInv, SyncNoInv, StatusNeverAhead, FocusOps, lists, locals, history, Lock, PC, Is, Free
<1>1. ASSUME NEW c \in Conn, Accept(c) PROVE SyncNoInv'
  BY <1>1, NoneAssumption, NoneIsNoCommand DEF Accept, Transition
<1>2. ASSUME NEW c \in Conn, LockEbpf(c) PROVE SyncNoInv'
  BY <1>2, NoneAssumption, NoneIsNoCommand DEF LockEbpf, Acquire, Free, Transition, Is
<1>3. ASSUME NEW c \in Conn, LockFocus(c) PROVE SyncNoInv'
  BY <1>3, NoneAssumption, NoneIsNoCommand DEF LockFocus, Acquire, Free, Transition
<1>4. ASSUME NEW c \in Conn, LockDynamic(c) PROVE SyncNoInv'
  BY <1>4, NoneAssumption, NoneIsNoCommand DEF LockDynamic, Acquire, Free, Transition, Is
<1>5. ASSUME NEW c \in Conn, RemoveDomain(c) PROVE SyncNoInv'
  BY <1>5, NoneAssumption, NoneIsNoCommand DEF RemoveDomain, Is
<1>6. ASSUME NEW c \in Conn, AddDomain(c) PROVE SyncNoInv'
  BY <1>6, NoneAssumption, NoneIsNoCommand DEF AddDomain, Is, Fits
<1>7. ASSUME NEW c \in Conn, SyncClear(c) PROVE SyncNoInv'
  BY <1>7, NoneAssumption, NoneIsNoCommand DEF SyncClear, Is, Transition
<1>8. ASSUME NEW c \in Conn, SyncApps(c) PROVE SyncNoInv'
  BY <1>8, NoneAssumption, NoneIsNoCommand DEF SyncApps, Is, Transition, Acquire, Free
<1>9. ASSUME NEW c \in Conn, BlockReply(c) PROVE SyncNoInv'
  BY <1>9, NoneAssumption, NoneIsNoCommand DEF BlockReply, Is, Free, Reply, Transition
<1>10. ASSUME NEW c \in Conn, UnblockReply(c) PROVE SyncNoInv'
  BY <1>10, NoneAssumption, NoneIsNoCommand DEF UnblockReply, Is, Free, Reply, Transition
<1>11. ASSUME NEW c \in Conn, SyncReply(c) PROVE SyncNoInv'
  BY <1>11, NoneAssumption, NoneIsNoCommand DEF SyncReply, Reply, Transition
<1>12. ASSUME NEW c \in Conn, FocusOnReply(c) PROVE SyncNoInv'
  BY <1>12, NoneAssumption, NoneIsNoCommand DEF FocusOnReply, Is, Reply, Transition
<1>13. ASSUME NEW c \in Conn, FocusOffReply(c) PROVE SyncNoInv'
  BY <1>13, NoneAssumption, NoneIsNoCommand DEF FocusOffReply, Is, Reply, Transition
<1>14. ASSUME NEW c \in Conn, BlockApp(c) PROVE SyncNoInv'
  BY <1>14, NoneAssumption, NoneIsNoCommand DEF BlockApp, Is, Free, Reply, Transition
<1>15. ASSUME NEW c \in Conn, UnblockApp(c) PROVE SyncNoInv'
  BY <1>15, NoneAssumption, NoneIsNoCommand DEF UnblockApp, Is, Free, Reply, Transition
<1>16. ASSUME NEW c \in Conn, StatusDynamic(c) PROVE SyncNoInv'
  BY <1>16, NoneAssumption, NoneIsNoCommand DEF StatusDynamic, Is, Free, Transition
<1>17. ASSUME NEW c \in Conn, StatusFocus(c) PROVE SyncNoInv'
  BY <1>17, NoneAssumption, NoneIsNoCommand DEF StatusFocus, Free, Transition
<1>18. ASSUME NEW c \in Conn, StatusReply(c) PROVE SyncNoInv'
  BY <1>18, NoneAssumption, NoneIsNoCommand DEF StatusReply, Free, Reply, Transition
<1>19. CASE UNCHANGED vars
  BY <1>19 DEF vars
<1> QED
  BY <1>1, <1>2, <1>3, <1>4, <1>5, <1>6, <1>7, <1>8, <1>9, <1>10, <1>11,
     <1>12, <1>13, <1>14, <1>15, <1>16, <1>17, <1>18, <1>19 DEF Next, Step

LEMMA AnswerStep == TypeOK /\ ControlInv /\ LockInv /\ AnswerInv /\ [Next]_vars => AnswerInv'
<1> SUFFICES ASSUME TypeOK, ControlInv, LockInv, AnswerInv, [Next]_vars PROVE AnswerInv'
  OBVIOUS
<1> USE DEF TypeOK, ControlInv, LockInv, AnswerInv, Partition, FocusOps, lists, locals, history, Lock, PC, Is, Free
<1>1. ASSUME NEW c \in Conn, Accept(c) PROVE AnswerInv'
  BY <1>1, NoneAssumption, NoneIsNoCommand DEF Accept, Transition
<1>2. ASSUME NEW c \in Conn, LockEbpf(c) PROVE AnswerInv'
  BY <1>2, NoneAssumption, NoneIsNoCommand DEF LockEbpf, Acquire, Free, Transition, Is
<1>3. ASSUME NEW c \in Conn, LockFocus(c) PROVE AnswerInv'
  BY <1>3, NoneAssumption, NoneIsNoCommand DEF LockFocus, Acquire, Free, Transition
<1>4. ASSUME NEW c \in Conn, LockDynamic(c) PROVE AnswerInv'
  BY <1>4, NoneAssumption, NoneIsNoCommand DEF LockDynamic, Acquire, Free, Transition, Is
<1>5. ASSUME NEW c \in Conn, RemoveDomain(c) PROVE AnswerInv'
  BY <1>5, NoneAssumption, NoneIsNoCommand DEF RemoveDomain, Is
<1>6. ASSUME NEW c \in Conn, AddDomain(c) PROVE AnswerInv'
  BY <1>6, NoneAssumption, NoneIsNoCommand DEF AddDomain, Is, Fits
<1>7. ASSUME NEW c \in Conn, SyncClear(c) PROVE AnswerInv'
  BY <1>7, NoneAssumption, NoneIsNoCommand DEF SyncClear, Is, Transition
<1>8. ASSUME NEW c \in Conn, SyncApps(c) PROVE AnswerInv'
  BY <1>8, NoneAssumption, NoneIsNoCommand DEF SyncApps, Is, Transition, Acquire, Free
<1>9. ASSUME NEW c \in Conn, BlockReply(c) PROVE AnswerInv'
  BY <1>9, NoneAssumption, NoneIsNoCommand DEF BlockReply, Is, Free, Reply, Transition
<1>10. ASSUME NEW c \in Conn, UnblockReply(c) PROVE AnswerInv'
  BY <1>10, NoneAssumption, NoneIsNoCommand DEF UnblockReply, Is, Free, Reply, Transition
<1>11. ASSUME NEW c \in Conn, SyncReply(c) PROVE AnswerInv'
  BY <1>11, NoneAssumption, NoneIsNoCommand DEF SyncReply, Reply, Transition
<1>12. ASSUME NEW c \in Conn, FocusOnReply(c) PROVE AnswerInv'
  BY <1>12, NoneAssumption, NoneIsNoCommand DEF FocusOnReply, Is, Reply, Transition
<1>13. ASSUME NEW c \in Conn, FocusOffReply(c) PROVE AnswerInv'
  BY <1>13, NoneAssumption, NoneIsNoCommand DEF FocusOffReply, Is, Reply, Transition
<1>14. ASSUME NEW c \in Conn, BlockApp(c) PROVE AnswerInv'
  BY <1>14, NoneAssumption, NoneIsNoCommand DEF BlockApp, Is, Free, Reply, Transition
<1>15. ASSUME NEW c \in Conn, UnblockApp(c) PROVE AnswerInv'
  BY <1>15, NoneAssumption, NoneIsNoCommand DEF UnblockApp, Is, Free, Reply, Transition
<1>16. ASSUME NEW c \in Conn, StatusDynamic(c) PROVE AnswerInv'
  BY <1>16, NoneAssumption, NoneIsNoCommand DEF StatusDynamic, Is, Free, Transition
<1>17. ASSUME NEW c \in Conn, StatusFocus(c) PROVE AnswerInv'
  BY <1>17, NoneAssumption, NoneIsNoCommand DEF StatusFocus, Free, Transition
<1>18. ASSUME NEW c \in Conn, StatusReply(c) PROVE AnswerInv'
  BY <1>18, NoneAssumption, NoneIsNoCommand DEF StatusReply, Free, Reply, Transition
<1>19. CASE UNCHANGED vars
  BY <1>19 DEF vars
<1> QED
  BY <1>1, <1>2, <1>3, <1>4, <1>5, <1>6, <1>7, <1>8, <1>9, <1>10, <1>11,
     <1>12, <1>13, <1>14, <1>15, <1>16, <1>17, <1>18, <1>19 DEF Next, Step

(* The inductive invariant, and with it each property it contains.         *)
THEOREM Invariance == Spec => [](TypeOK /\ IInv)
<1>1. Init => IInv
  BY NoneAssumption
  DEF Init, IInv, ControlInv, LockInv, MapInv, ListMatchesMap, Agree, NamedInv,
      DefaultsLostOnlyByName, SyncNoInv, StatusNeverAhead, AnswerInv, Is, Free,
      FocusOps, EmptyReport, Lock
<1>2. TypeOK /\ IInv /\ [Next]_vars => IInv'
  BY ControlStep, LockStep, MapStep, NamedStep, SyncNoStep, AnswerStep DEF IInv
<1> QED
  BY <1>1, <1>2, TypeCorrect, PTL DEF Spec

(* A domain is listed if and only if it is dropped (defaults aside),       *)
(* whenever no handler is at work on the map.                              *)
THEOREM ListMatchesMapHolds == Spec => []ListMatchesMap
<1>1. IInv => ListMatchesMap
  BY DEF IInv, MapInv
<1> QED
  BY <1>1, Invariance, PTL

(* A default domain leaves the map only if a command named it. *)
THEOREM DefaultsLostOnlyByNameHolds == Spec => []DefaultsLostOnlyByName
<1>1. IInv => DefaultsLostOnlyByName
  BY DEF IInv, NamedInv
<1> QED
  BY <1>1, Invariance, PTL

(* Status never shows the domains of a Sync with older names. *)
THEOREM StatusNeverAheadHolds == Spec => []StatusNeverAhead
<1>1. IInv => StatusNeverAhead
  BY DEF IInv, SyncNoInv
<1> QED
  BY <1>1, Invariance, PTL

-------------------------------------------------------------------------------
(* While a Sync takes its old entries from the map, and as long as it has  *)
(* put back none but old ones, they have room in the map beside the rest.  *)
Room == Cardinality(map \cup before.listed) <= MaxEntries
Shrinking(c) == Is(c, {"sync"}) /\ request[c].domains \subseteq before.listed
RoomInv ==
  /\ Cardinality(map) <= MaxEntries
  /\ \A c \in Conn :
       /\ Is(c, {"sync"}) /\ pc[c] = "removing" => Room
       /\ Shrinking(c) /\ pc[c] = "adding" => Room
       /\ Shrinking(c) /\ pc[c] \in {"adding", "swapped"} => failed[c] = {}

(* A set of domains within another one has no more of them, and fewer if   *)
(* one is missing.                                                         *)
LEMMA SmallerSet ==
  ASSUME NEW S \in SUBSET Domain, NEW T \in SUBSET S
  PROVE  /\ Cardinality(S) \in Nat /\ Cardinality(T) \in Nat
         /\ Cardinality(T) <= Cardinality(S)
         /\ S # T => Cardinality(T) < Cardinality(S)
<1>1. IsFiniteSet(S)
  BY CapacityAssumption, FS_Subset
<1>2. IsFiniteSet(T) /\ Cardinality(T) <= Cardinality(S) /\ (Cardinality(S) = Cardinality(T) => S = T)
  BY <1>1, FS_Subset
<1>3. Cardinality(S) \in Nat /\ Cardinality(T) \in Nat
  BY <1>1, <1>2, FS_CardinalityType
<1> QED
  BY <1>2, <1>3

LEMMA RoomStep == TypeOK /\ IInv /\ RoomInv /\ [Next]_vars => RoomInv'
<1> SUFFICES ASSUME TypeOK, ControlInv, LockInv, MapInv, AnswerInv, RoomInv, [Next]_vars
             PROVE  RoomInv'
  BY DEF IInv
<1> USE NoneAssumption, NoneIsNoCommand
    DEF TypeOK, ControlInv, RoomInv, Room, Shrinking, FocusOps, lists, locals, history, Lock, PC, Is
<1>1. ASSUME NEW c \in Conn, Accept(c) PROVE RoomInv'
  BY <1>1 DEF Accept, Transition
<1>2. ASSUME NEW c \in Conn, LockEbpf(c) PROVE RoomInv'
  <2>1. /\ pc'[c] \in {"adding", "removing"} => ~Is(c, {"sync"})
        /\ pc'[c] # "swapped" /\ \A e \in Conn \ {c} : pc'[e] = pc[e]
        /\ UNCHANGED <<map, request, failed, before>>
    BY <1>2 DEF LockEbpf, Transition
  <2> QED
    BY <2>1
<1>3. ASSUME NEW c \in Conn, LockFocus(c) PROVE RoomInv'
  BY <1>3 DEF LockFocus, Acquire, Transition
<1>4. ASSUME NEW c \in Conn, LockDynamic(c) PROVE RoomInv'
  (* What is listed is in the map, so that the old entries take no room. *)
  <2>1. /\ pc[c] = "lockdb" /\ before'.listed = dynamic
        /\ pc'[c] \in {"removing", "adding"} /\ (pc'[c] = "adding" => ~Is(c, {"sync"}))
        /\ \A e \in Conn \ {c} : pc'[e] = pc[e]
        /\ UNCHANGED <<map, request, failed>>
    BY <1>4 DEF LockDynamic, Transition
  <2>2. map \cup dynamic = map
    BY <2>1 DEF MapInv, Agree
  <2>3. \A e \in Conn \ {c} : pc'[e] \notin {"removing", "adding", "swapped"}
    BY <2>1, OneHolder
  <2> QED
    BY <2>1, <2>2, <2>3
<1>5. ASSUME NEW c \in Conn, RemoveDomain(c) PROVE RoomInv'
  <2>1. PICK e \in todo[c] : map' = map \ {e}
    BY <1>5 DEF RemoveDomain
  <2>2. UNCHANGED <<pc, request, before>> /\ pc[c] = "removing"
    BY <1>5 DEF RemoveDomain
  <2>3. /\ Cardinality(map') <= MaxEntries
        /\ Room => Room'
    <3>1. map \subseteq Domain /\ before.listed \subseteq Domain
      OBVIOUS
    <3>2. map' \subseteq map /\ map' \cup before'.listed \subseteq map \cup before.listed
      BY <2>1, <2>2
    <3>3. /\ Cardinality(map) \in Nat /\ Cardinality(map') \in Nat
          /\ Cardinality(map') <= Cardinality(map)
      BY <3>1, <3>2, SmallerSet
    <3>4. /\ Cardinality(map \cup before.listed) \in Nat
          /\ Cardinality(map' \cup before'.listed) \in Nat
          /\ Cardinality(map' \cup before'.listed) <= Cardinality(map \cup before.listed)
      BY <3>1, <3>2, SmallerSet
    <3> QED
      BY <3>3, <3>4, CapacityAssumption
  <2>4. \A f \in Conn : pc[f] \in {"adding", "swapped"} => f # c /\ f = c
    BY <2>2, OneHolder
  <2> HIDE DEF Room
  <2> QED
    BY <2>2, <2>3, <2>4
<1>6. ASSUME NEW c \in Conn, AddDomain(c) PROVE RoomInv'
  <2>1. PICK d \in todo[c] :
          \/ /\ Fits(d) /\ map' = map \cup {d} /\ failed' = failed
          \/ ~Fits(d) /\ map' = map /\ failed' = [failed EXCEPT ![c] = @ \cup {d}]
    BY <1>6 DEF AddDomain
  <2>2. pc[c] = "adding" /\ UNCHANGED <<pc, request, before>> /\ d \in Domain
    BY <1>6 DEF AddDomain
  <2>3. \A f \in Conn : pc[f] \in {"removing", "adding", "swapped"} => f = c
    BY <2>2, OneHolder
  <2>4. Cardinality(map') <= MaxEntries
    <3>1. CASE map' = map
      BY <3>1
    <3>2. CASE map' = map \cup {d} /\ d \notin map
      <4>1. Cardinality(map) < MaxEntries
        BY <2>1, <3>2 DEF Fits
      <4>2. IsFiniteSet(map)
        BY CapacityAssumption, FS_Subset
      <4>3. Cardinality(map \cup {d}) = Cardinality(map) + 1 /\ Cardinality(map) \in Nat
        BY <3>2, <4>2, FS_AddElement, FS_CardinalityType
      <4> QED
        BY <3>2, <4>1, <4>3, CapacityAssumption
    <3>3. d \in map => map \cup {d} = map
      OBVIOUS
    <3> QED
      BY <2>1, <3>1, <3>2, <3>3
  <2>5. ASSUME Shrinking(c) PROVE Room' /\ failed'[c] = {}
    (* An old entry that is not in the map makes the union the larger one. *)
    <3>1. Room /\ failed[c] = {}
      BY <2>2, <2>5
    <3>2. d \in before.listed
      <4>1. Partition(request[c].domains, todo[c], dynamic, failed[c])
        BY <2>2, <2>5 DEF AnswerInv
      <4> QED
        BY <2>5, <4>1 DEF Partition
    <3>3. Fits(d)
      <4>1. map \subseteq Domain /\ before.listed \subseteq Domain
        OBVIOUS
      <4>2. CASE d \notin map
        <5>1. map # map \cup before.listed
          BY <3>2, <4>2
        <5>2. /\ Cardinality(map) \in Nat /\ Cardinality(map \cup before.listed) \in Nat
              /\ Cardinality(map) < Cardinality(map \cup before.listed)
          BY <4>1, <5>1, SmallerSet
        <5> QED
          BY <3>1, <5>2, CapacityAssumption DEF Fits
      <4> QED
        BY <4>2 DEF Fits
    <3>4. map' = map \cup {d} /\ failed' = failed
      BY <2>1, <3>3
    <3>5. map' \cup before'.listed = map \cup before.listed
      BY <2>2, <3>2, <3>4
    <3> QED
      BY <3>1, <3>4, <3>5
  <2>6. Shrinking(c)' = Shrinking(c)
    BY <2>2
  <2> HIDE DEF Room, Shrinking
  <2> QED
    BY <2>2, <2>3, <2>4, <2>5, <2>6
<1>7. ASSUME NEW c \in Conn, SyncClear(c) PROVE RoomInv'
  <2>1. /\ pc[c] = "removing" /\ Is(c, {"sync"}) /\ pc' = [pc EXCEPT ![c] = "adding"]
        /\ UNCHANGED <<map, request, failed, before>>
    BY <1>7 DEF SyncClear, Transition
  <2>2. Room /\ failed[c] = {}
    BY <2>1 DEF AnswerInv
  <2> QED
    BY <2>1, <2>2
<1>8. ASSUME NEW c \in Conn, SyncApps(c) PROVE RoomInv'
  BY <1>8 DEF SyncApps, Transition
<1>9. ASSUME NEW c \in Conn, BlockReply(c) PROVE RoomInv'
  BY <1>9 DEF BlockReply, Reply, Transition
<1>10. ASSUME NEW c \in Conn, UnblockReply(c) PROVE RoomInv'
  BY <1>10 DEF UnblockReply, Reply, Transition
<1>11. ASSUME NEW c \in Conn, SyncReply(c) PROVE RoomInv'
  BY <1>11 DEF SyncReply, Reply, Transition
<1>12. ASSUME NEW c \in Conn, FocusOnReply(c) PROVE RoomInv'
  BY <1>12 DEF FocusOnReply, Reply, Transition
<1>13. ASSUME NEW c \in Conn, FocusOffReply(c) PROVE RoomInv'
  BY <1>13 DEF FocusOffReply, Reply, Transition
<1>14. ASSUME NEW c \in Conn, BlockApp(c) PROVE RoomInv'
  BY <1>14 DEF BlockApp, Reply, Transition
<1>15. ASSUME NEW c \in Conn, UnblockApp(c) PROVE RoomInv'
  BY <1>15 DEF UnblockApp, Reply, Transition
<1>16. ASSUME NEW c \in Conn, StatusDynamic(c) PROVE RoomInv'
  BY <1>16 DEF StatusDynamic, Transition
<1>17. ASSUME NEW c \in Conn, StatusFocus(c) PROVE RoomInv'
  BY <1>17 DEF StatusFocus, Transition
<1>18. ASSUME NEW c \in Conn, StatusReply(c) PROVE RoomInv'
  BY <1>18 DEF StatusReply, Reply, Transition
<1>19. CASE UNCHANGED vars
  BY <1>19 DEF vars
<1> QED
  BY <1>1, <1>2, <1>3, <1>4, <1>5, <1>6, <1>7, <1>8, <1>9, <1>10, <1>11,
     <1>12, <1>13, <1>14, <1>15, <1>16, <1>17, <1>18, <1>19 DEF Next, Step

(* A Sync that asks for nothing new has not failed when its domains are in *)
(* place, for any capacity of the map and whatever else is in it.          *)
THEOREM ShrinkingSyncSucceedsHolds == Spec => []ShrinkingSyncSucceeds
<1>1. Init => RoomInv
  BY CapacityAssumption DEF Init, RoomInv, Shrinking, Is
<1>2. RoomInv => ShrinkingSyncSucceeds
  BY DEF RoomInv, Shrinking, ShrinkingSyncSucceeds
<1> QED
  BY <1>1, <1>2, RoomStep, Invariance, PTL DEF Spec

-------------------------------------------------------------------------------
(* The server implements the atomic commands: the steps of ControlServer   *)
(* up to the last one of a command change nothing a client can see, and    *)
(* the last one is the command of ControlApi.                              *)
LEMMA PartitionEnd ==
  ASSUME NEW S, NEW A, NEW F, Partition(S, {}, A, F)
  PROVE  A \in SUBSET S /\ (A = S <=> F = {})
<1>1. S = A \cup F /\ A \cap F = {}
  BY DEF Partition
<1>2. A = S => F = {}
  BY <1>1
<1>3. F = {} => A = S
  BY <1>1
<1> QED
  BY <1>1, <1>2, <1>3

LEMMA ApiInit == Init => Api!Init
  BY DEF Init, Api!Init, ApiListed, ApiNames, Free, EmptyReport,
         Api!EmptyReport, Lock

LEMMA ApiStep == TypeOK /\ IInv /\ [Next]_vars => [Api!Next]_(Api!vars)
<1> SUFFICES ASSUME TypeOK, IInv, [Next]_vars PROVE [Api!Next]_(Api!vars)
  OBVIOUS
<1> USE NoneAssumption, NoneIsNoCommand
    DEF IInv, ControlInv, LockInv, AnswerInv, FocusOps, TypeOK, Lock, PC,
        lists, locals, history, Is, Free, ApiListed, ApiNames
<1>1. ASSUME NEW c \in Conn, Accept(c) PROVE Api!Accept(c)
  BY <1>1 DEF Accept, Transition, Partition, Api!Accept, Api!Pending, Api!Answer
<1>2. ASSUME NEW c \in Conn, LockEbpf(c) PROVE UNCHANGED Api!vars
  BY <1>2 DEF LockEbpf, Acquire, Transition, Api!vars
<1>3. ASSUME NEW c \in Conn, LockFocus(c) PROVE UNCHANGED Api!vars
  BY <1>3 DEF LockFocus, Acquire, Transition, Api!vars
<1>4. ASSUME NEW c \in Conn, LockDynamic(c) PROVE UNCHANGED Api!vars
  BY <1>4 DEF LockDynamic, Acquire, Transition, Api!vars
<1>5. ASSUME NEW c \in Conn, RemoveDomain(c) PROVE UNCHANGED Api!vars
  BY <1>5 DEF RemoveDomain, Api!vars
<1>6. ASSUME NEW c \in Conn, AddDomain(c) PROVE UNCHANGED Api!vars
  BY <1>6 DEF AddDomain, Fits, Api!vars
<1>7. ASSUME NEW c \in Conn, SyncClear(c) PROVE UNCHANGED Api!vars
  BY <1>7 DEF SyncClear, Transition, Api!vars
<1>8. ASSUME NEW c \in Conn, SyncApps(c) PROVE UNCHANGED Api!vars
  BY <1>8 DEF SyncApps, Transition, Acquire, Api!vars
<1>9. ASSUME NEW c \in Conn, BlockReply(c) PROVE Api!Block(c)
  <2> USE <1>9 DEF BlockReply, Reply, Transition
  <2>1. /\ added[c] \in SUBSET request[c].domains
        /\ added[c] = request[c].domains <=> failed[c] = {}
    <3>1. Partition(request[c].domains, todo[c], added[c], failed[c])
      OBVIOUS
    <3>2. todo[c] = {}
      OBVIOUS
    <3>3. Partition(request[c].domains, {}, added[c], failed[c])
      BY <3>1, <3>2, Zenon
    <3> QED
      BY <3>3, PartitionEnd
  <2>2. ApiListed' = ApiListed \cup added[c]
    OBVIOUS
  <2>3. Api!Answer(c, added[c] = request[c].domains)
    BY <2>1 DEF Api!Answer
  <2>4. Api!Pending(c, "block") /\ UNCHANGED <<focus, paths, ApiNames>>
    BY DEF Api!Pending
  <2> HIDE DEF ApiListed, ApiNames, BlockReply, Api!Answer
  <2> QED
    BY <2>1, <2>2, <2>3, <2>4 DEF Api!Block
<1>10. ASSUME NEW c \in Conn, UnblockReply(c) PROVE Api!Unblock(c)
  BY <1>10 DEF UnblockReply, Reply, Transition, Partition, Api!Unblock, Api!Pending, Api!Answer
<1>11. ASSUME NEW c \in Conn, SyncReply(c) PROVE Api!Sync(c)
  <2> USE <1>11 DEF SyncReply, Reply, Transition
  <2>1. /\ dynamic \in SUBSET request[c].domains
        /\ dynamic = request[c].domains <=> failed[c] = {}
    <3>1. Partition(request[c].domains, todo[c], dynamic, failed[c])
      OBVIOUS
    <3>2. todo[c] = {}
      OBVIOUS
    <3>3. Partition(request[c].domains, {}, dynamic, failed[c])
      BY <3>1, <3>2, Zenon
    <3> QED
      BY <3>3, PartitionEnd
  <2>2. ApiListed' = dynamic /\ ApiNames' = request[c].names
    OBVIOUS
  <2>3. Api!Answer(c, dynamic = request[c].domains)
    BY <2>1 DEF Api!Answer
  <2>4. Api!Pending(c, "sync") /\ UNCHANGED <<focus, paths>>
    BY DEF Api!Pending
  <2> HIDE DEF ApiListed, ApiNames, SyncReply, Api!Answer
  <2> QED
    BY <2>1, <2>2, <2>3, <2>4 DEF Api!Sync
<1>12. ASSUME NEW c \in Conn, FocusOnReply(c) PROVE Api!FocusOn(c)
  <2> USE <1>12 DEF FocusOnReply, Reply, Transition
  <2> DEFINE new == dynamic \ before.listed
  <2>1. new \in SUBSET request[c].domains /\ dynamic = before.listed \cup new
    OBVIOUS
  <2>2. ApiListed' = dynamic /\ ApiListed = before.listed
    OBVIOUS
  <2>3. Api!Answer(c, TRUE) /\ focus' = TRUE
    BY DEF Api!Answer
  <2>4. Api!Pending(c, "focus_on") /\ UNCHANGED <<paths, ApiNames>>
    BY DEF Api!Pending
  <2> HIDE DEF new, ApiListed, ApiNames, FocusOnReply, Api!Answer
  <2> QED
    BY <2>1, <2>2, <2>3, <2>4 DEF Api!FocusOn
<1>13. ASSUME NEW c \in Conn, FocusOffReply(c) PROVE Api!FocusOff(c)
  BY <1>13 DEF FocusOffReply, Reply, Transition, Partition, Api!FocusOff, Api!Pending, Api!Answer
<1>14. ASSUME NEW c \in Conn, BlockApp(c) PROVE Api!BlockApp(c)
  BY <1>14 DEF BlockApp, Reply, Transition, Partition, Api!BlockApp, Api!Pending, Api!Answer
<1>15. ASSUME NEW c \in Conn, UnblockApp(c) PROVE Api!UnblockApp(c)
  BY <1>15 DEF UnblockApp, Reply, Transition, Partition, Api!UnblockApp, Api!Pending, Api!Answer
<1>16. ASSUME NEW c \in Conn, StatusDynamic(c) PROVE Api!ReadListed(c)
  BY <1>16 DEF StatusDynamic, Transition, Partition, Api!ReadListed, Api!Pending, Api!Answer
<1>17. ASSUME NEW c \in Conn, StatusFocus(c) PROVE Api!ReadFocus(c)
  BY <1>17 DEF StatusFocus, Transition, Partition, Api!ReadFocus, Api!Pending, Api!Answer
<1>18. ASSUME NEW c \in Conn, StatusReply(c) PROVE Api!ReadApps(c)
  BY <1>18 DEF StatusReply, Reply, Transition, Partition, Api!ReadApps, Api!Pending, Api!Answer
<1>19. CASE UNCHANGED vars
  BY <1>19 DEF vars, Api!vars
<1> QED
  BY <1>1, <1>2, <1>3, <1>4, <1>5, <1>6, <1>7, <1>8, <1>9, <1>10, <1>11, <1>12, <1>13, <1>14, <1>15, <1>16, <1>17, <1>18, <1>19
     DEF Next, Step, Api!Next, Api!Step

THEOREM Implementation == Spec => ImplementsApi
  BY ApiInit, ApiStep, Invariance, PTL DEF Spec, ImplementsApi, Api!Spec
===============================================================================
