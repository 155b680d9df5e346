---------------------------- MODULE LinuxMainProofs ----------------------------
(***************************************************************************)
(* What a process of LinuxMain takes for attached is filtered: type        *)
(* correctness, the strengthening that speaks of every phase, and the      *)
(* property, for any interfaces and any bounds.                            *)
(***************************************************************************)
EXTENDS LinuxMain, SequenceTheorems, TLAPS

LEMMA InitialTypes == Initial \in Seq(Domain) /\ ToSet(Initial) \subseteq Domain
BY ScreenAssumption DEF ToSet

LEMMA TypeStep == TypeOK /\ [Next]_vars => TypeOK'
<1> SUFFICES ASSUME TypeOK, [Next]_vars PROVE TypeOK'
  OBVIOUS
<1> USE InterfaceAssumption, LimitAssumption
    DEF TypeOK, system, process, terminal, counters, Process, Fixed
<1>1. ASSUME NEW i \in Iface, Appear(i) PROVE TypeOK'
  BY <1>1 DEF Appear
<1>2. ASSUME NEW i \in Iface, Disappear(i) PROVE TypeOK'
  BY <1>2 DEF Disappear
<1>3. ASSUME NEW p \in Process, Start(p) PROVE TypeOK'
  BY <1>3 DEF Start
<1>4. CASE DaemonLoaded
  <2>1. CASE got["daemon"]
    BY <1>4, <2>1 DEF DaemonLoaded
  <2>2. CASE ~got["daemon"]
    <3>1. Off("daemon") /\ lost' = [lost EXCEPT !["daemon"] = {}]
          /\ UNCHANGED <<system, terminal, counters>>
      BY <1>4, <2>2 DEF DaemonLoaded
    <3> QED
      BY <3>1 DEF Off
  <2> QED
    BY <2>1, <2>2
<1>5. CASE Tick
  BY <1>5 DEF Tick
<1>6. CASE Polled
  BY <1>6 DEF Polled
<1>7. ASSUME NEW p \in Process, NEW i \in Iface, NEW ok \in BOOLEAN, Attach(p, i, ok)
      PROVE  /\ todo' \in [Process -> SUBSET Iface]
             /\ filters' \in [Iface -> SUBSET (Process \cup {"orphan"})]
             /\ failures' \in 0..MaxFailures
             /\ UNCHANGED <<kernel, up, phase, terminal, changes, ends>>
  <2>1. failures' \in 0..MaxFailures
    BY <1>7 DEF Attach, Outcome
  <2>2. Remaining(i) \subseteq Process \cup {"orphan"}
    BY DEF Remaining
  <2> QED
    BY <1>7, <2>1, <2>2 DEF Attach
<1>8. ASSUME NEW p \in Process, NEW i \in Iface, NEW ok \in BOOLEAN, LoadAttach(p, i, ok)
      PROVE  TypeOK'
  <2>1. lost' \in [Process -> SUBSET Iface] /\ got' \in [Process -> BOOLEAN]
        /\ known' = known /\ Attach(p, i, ok)
    BY <1>8 DEF LoadAttach
  <2> QED
    BY <1>7, <2>1
<1>9. ASSUME NEW i \in Iface, NEW ok \in BOOLEAN, PollAttach(i, ok) PROVE TypeOK'
  <2>1. lost' \in [Process -> SUBSET Iface] /\ known' \in [Process -> SUBSET Iface]
        /\ got' = got /\ Attach("daemon", i, ok)
    BY <1>9 DEF PollAttach, PollAttaches
  <2> QED
    BY <1>7, <2>1
<1>10. CASE TuiLoaded
  BY <1>10, InitialTypes DEF TuiLoaded
<1>11. CASE RemoveDomain
  <2>1. Front(screen) \in Seq(Domain)
    BY <1>11 DEF RemoveDomain, Front
  <2> QED
    BY <1>11, <2>1 DEF RemoveDomain
<1>12. ASSUME NEW d \in Domain, AddDomain(d) PROVE TypeOK'
  BY <1>12 DEF AddDomain, Typed
<1>13. ASSUME NEW p \in Process, Ended(p)
       PROVE  /\ phase' \in [Process -> {"off", "load", "run", "poll"}]
              /\ todo' \in [Process -> SUBSET Iface] /\ known' \in [Process -> SUBSET Iface]
              /\ got' \in [Process -> BOOLEAN]
              /\ screen' \in Seq(Domain) /\ map' \in SUBSET Domain /\ doubled' \in SUBSET Domain
              /\ ends' \in 0..MaxEnds /\ UNCHANGED <<kernel, up, changes, failures>>
  <2>1. Off(p) /\ ends' \in 0..MaxEnds /\ UNCHANGED <<kernel, up, changes, failures>>
    BY <1>13 DEF Ended
  <2>2. screen' \in Seq(Domain) /\ map' \in SUBSET Domain /\ doubled' \in SUBSET Domain
    <3>1. CASE p = "tui"
      BY <1>13, <3>1 DEF Ended
    <3>2. CASE p # "tui"
      <4>1. UNCHANGED terminal
        BY <1>13, <3>2 DEF Ended
      <4> QED
        BY <4>1
    <3> QED
      BY <3>1, <3>2
  <2> QED
    BY <2>1, <2>2 DEF Off
<1>14. ASSUME NEW p \in Process, Finish(p) PROVE TypeOK'
  <2>1. PICK taken \in SUBSET {i \in known[p] : kernel = "netlink" /\ p \notin filters[i]} :
          /\ filters' = [i \in Iface |-> IF i \in taken THEN {} ELSE filters[i] \ {p}]
          /\ lost' = [q \in Process |->
                        IF q = p THEN {} ELSE lost[q] \cup {i \in taken : q \in filters[i]}]
    BY <1>14 DEF Finish
  <2>2. taken \subseteq Iface /\ Ended(p)
    BY <1>14, <2>1 DEF Finish
  <2>3. filters' \in [Iface -> SUBSET (Process \cup {"orphan"})] /\ lost' \in [Process -> SUBSET Iface]
    BY <2>1, <2>2
  <2> QED
    BY <1>13, <2>2, <2>3
<1>15. ASSUME NEW p \in Process, Kill(p) PROVE TypeOK'
  <2>1. filters' \in [Iface -> SUBSET (Process \cup {"orphan"})]
    BY <1>15 DEF Kill
  <2>2. lost' \in [Process -> SUBSET Iface] /\ Ended(p)
    BY <1>15 DEF Kill
  <2> QED
    BY <1>13, <2>1, <2>2
<1>16. CASE UNCHANGED vars
  BY <1>16 DEF vars
<1> QED
  BY <1>1, <1>2, <1>3, <1>4, <1>5, <1>6, <1>8, <1>9, <1>10, <1>11, <1>12, <1>14, <1>15, <1>16
     DEF Next, StartDaemon, StartTui

(* The variables of the Linux program keep their types. *)
THEOREM TypeCorrect == Spec => []TypeOK
<1>1. Init => TypeOK
  BY InterfaceAssumption, LimitAssumption DEF Init, TypeOK, Process
<1> QED
  BY <1>1, TypeStep, PTL DEF Spec
-------------------------------------------------------------------------------
(* The strengthening: what a process takes for attached and has not lost   *)
(* is filtered or still to be turned to, in every phase; at a poll only    *)
(* new interfaces are.                                                     *)
Attached(p) ==
  /\ phase[p] = "off" => known[p] = {}
  /\ phase[p] \in {"off", "run"} => todo[p] = {}
  /\ phase[p] = "poll" => todo[p] \cap known[p] = {}
  /\ \A i \in known[p] \ lost[p] : i \in todo[p] \/ p \in filters[i]

IInv == TypeOK /\ (\A p \in Process : Attached(p)) /\ phase["tui"] # "poll"

(* What is attached by one process is taken from another only with a note. *)
LEMMA AttachStep ==
  ASSUME IInv, NEW p \in Process, NEW i \in Iface, NEW ok \in BOOLEAN, Attach(p, i, ok),
         NEW q \in Process, q # p, UNCHANGED <<known[q], phase[q]>>,
         lost'[q] = IF q \in Overtaken(p, i) THEN lost[q] \cup {i} ELSE lost[q]
  PROVE  Attached(q)'
<1> USE DEF IInv, TypeOK, Process
<1>1. todo'[q] = todo[q]
  BY DEF Attach
<1>2. ASSUME NEW j \in known[q] \ lost'[q] PROVE j \in todo[q] \/ q \in filters'[j]
  <2>1. j \in Iface /\ (j \in todo[q] \/ q \in filters[j])
    BY <1>2 DEF Attached
  <2>2. CASE j = i
    BY <1>2, <2>1, <2>2 DEF Attach, Overtaken
  <2>3. CASE j # i
    BY <2>1, <2>3 DEF Attach
  <2> QED
    BY <2>2, <2>3
<1> QED
  BY <1>1, <1>2 DEF Attached

LEMMA EndStep ==
  ASSUME IInv, NEW p \in Process, Off(p), NEW q \in Process,
         q # p => /\ lost[q] \subseteq lost'[q]
                  /\ \A i \in Iface \ lost'[q] : q \in filters[i] => q \in filters'[i]
  PROVE  Attached(q)' /\ phase'["tui"] # "poll"
<1> USE DEF IInv, TypeOK, Process
<1>1. CASE q = p
  BY <1>1 DEF Attached, Off
<1>2. CASE q # p
  <2>1. phase'[q] = phase[q] /\ todo'[q] = todo[q] /\ known'[q] = known[q]
    BY <1>2 DEF Off
  <2> QED
    BY <1>2, <2>1 DEF Attached, Off
<1> QED
  BY <1>1, <1>2

LEMMA AttachedStep == IInv /\ [Next]_vars => IInv'
<1> SUFFICES ASSUME IInv, [Next]_vars
             PROVE  (\A p \in Process : Attached(p)') /\ phase'["tui"] # "poll"
  BY TypeStep DEF IInv
<1> USE InterfaceAssumption DEF IInv, TypeOK, Process, system, process, terminal, counters
<1>1. ASSUME NEW i \in Iface, Appear(i)
      PROVE  (\A p \in Process : Attached(p)') /\ phase'["tui"] # "poll"
  BY <1>1 DEF Appear, Attached
<1>2. ASSUME NEW i \in Iface, Disappear(i)
      PROVE  (\A p \in Process : Attached(p)') /\ phase'["tui"] # "poll"
  BY <1>2 DEF Disappear, Attached
<1>3. ASSUME NEW p \in Process, Start(p)
      PROVE  (\A q \in Process : Attached(q)') /\ phase'["tui"] # "poll"
  BY <1>3 DEF Start, Attached
<1>4. CASE DaemonLoaded
  <2>1. CASE got["daemon"]
    BY <1>4, <2>1 DEF DaemonLoaded, Attached
  <2>2. CASE ~got["daemon"]
    <3>1. Off("daemon") /\ lost' = [lost EXCEPT !["daemon"] = {}] /\ filters' = filters
      BY <1>4, <2>2 DEF DaemonLoaded
    <3> QED
      BY <3>1, EndStep
  <2> QED
    BY <2>1, <2>2
<1>5. CASE Tick
  BY <1>5 DEF Tick, Attached
<1>6. CASE Polled
  BY <1>6 DEF Polled, Attached
<1>7. ASSUME NEW p \in Process, NEW i \in Iface, NEW ok \in BOOLEAN, LoadAttach(p, i, ok)
      PROVE  (\A q \in Process : Attached(q)') /\ phase'["tui"] # "poll"
  <2>1. Attach(p, i, ok) /\ known' = known /\ phase' = phase /\ phase[p] = "load"
    BY <1>7 DEF LoadAttach, Attach
  <2>2. ASSUME NEW q \in Process, q # p PROVE Attached(q)'
    <3>1. lost'[q] = IF q \in Overtaken(p, i) THEN lost[q] \cup {i} ELSE lost[q]
      BY <1>7, <2>2 DEF LoadAttach
    <3>2. UNCHANGED <<known[q], phase[q]>>
      BY <2>1
    <3>3. Attach(p, i, ok) /\ q # p
      BY <2>1, <2>2
    <3> HIDE DEF IInv, TypeOK, Process
    <3> QED
      BY <3>1, <3>2, <3>3, AttachStep
  <2>3. Attached(p)'
    <3>1. lost'[p] = IF ok THEN lost[p] ELSE lost[p] \cup {i}
      BY <1>7 DEF LoadAttach, Overtaken
    <3> QED
      BY <2>1, <3>1 DEF Attach, Attached
  <2> QED
    BY <2>1, <2>2, <2>3
<1>8. ASSUME NEW i \in Iface, NEW ok \in BOOLEAN, PollAttach(i, ok)
      PROVE  (\A q \in Process : Attached(q)') /\ phase'["tui"] # "poll"
  <2>1. /\ Attach("daemon", i, ok) /\ phase' = phase /\ phase["daemon"] = "poll"
        /\ known' = IF ok THEN [known EXCEPT !["daemon"] = @ \cup {i}] ELSE known
    BY <1>8 DEF PollAttach, PollAttaches, Attach
  <2>2. \A q \in Process :
          lost'[q] = IF q \in Overtaken("daemon", i) THEN lost[q] \cup {i} ELSE lost[q]
    BY <1>8 DEF PollAttach, PollAttaches
  <2>3. Attached("tui")'
    <3>1. UNCHANGED <<known["tui"], phase["tui"]>>
      BY <2>1
    <3> QED
      BY <2>1, <2>2, <3>1, AttachStep
  <2>4. Attached("daemon")'
    <3>1. lost'["daemon"] = lost["daemon"]
      BY <2>2 DEF Overtaken
    <3>2. todo'["daemon"] = todo["daemon"] \ {i} /\ i \in todo["daemon"]
      BY <2>1 DEF Attach
    <3>3. ASSUME NEW j \in known["daemon"] \ lost["daemon"]
          PROVE  j # i /\ "daemon" \in filters'[j]
      BY <2>1, <3>2, <3>3 DEF Attach, Attached
    <3>4. ok => "daemon" \in filters'[i]
      BY <2>1 DEF Attach
    <3> QED
      BY <2>1, <3>1, <3>2, <3>3, <3>4 DEF Attached
  <2> QED
    BY <2>1, <2>3, <2>4
<1>9. CASE TuiLoaded
  BY <1>9 DEF TuiLoaded, Attached
<1>10. CASE RemoveDomain \/ \E d \in Domain : AddDomain(d)
  BY <1>10 DEF RemoveDomain, AddDomain, Typed, Attached
<1>11. ASSUME NEW p \in Process, Finish(p)
       PROVE  (\A q \in Process : Attached(q)') /\ phase'["tui"] # "poll"
  <2>1. PICK taken \in SUBSET {i \in known[p] : kernel = "netlink" /\ p \notin filters[i]} :
          /\ filters' = [i \in Iface |-> IF i \in taken THEN {} ELSE filters[i] \ {p}]
          /\ lost' = [q \in Process |->
                        IF q = p THEN {} ELSE lost[q] \cup {i \in taken : q \in filters[i]}]
    BY <1>11 DEF Finish
  <2>2. Off(p)
    BY <1>11 DEF Finish, Ended
  <2>3. ASSUME NEW q \in Process, q # p
        PROVE  /\ lost[q] \subseteq lost'[q]
               /\ \A i \in Iface \ lost'[q] : q \in filters[i] => q \in filters'[i]
    BY <2>1, <2>3
  <2> QED
    BY <2>2, <2>3, EndStep
<1>12. ASSUME NEW p \in Process, Kill(p)
       PROVE  (\A q \in Process : Attached(q)') /\ phase'["tui"] # "poll"
  <2>1. Off(p) /\ lost' = [lost EXCEPT ![p] = {}]
    BY <1>12 DEF Kill, Ended
  <2>2. \A i \in Iface, q \in Process : q # p /\ q \in filters[i] => q \in filters'[i]
    BY <1>12 DEF Kill
  <2> QED
    BY <2>1, <2>2, EndStep
<1>13. CASE UNCHANGED vars
  BY <1>13 DEF vars, Attached
<1> QED
  BY <1>1, <1>2, <1>3, <1>4, <1>5, <1>6, <1>7, <1>8, <1>9, <1>10, <1>11, <1>12, <1>13
     DEF Next, StartDaemon, StartTui

(* What a process takes for attached has its program, unless the attaching *)
(* failed at load or another process or an interface took it away.         *)
THEOREM KnownAreFilteredHolds == Spec => []KnownAreFiltered
<1>1. Init => IInv
  <2>1. Init => TypeOK
    BY InterfaceAssumption, LimitAssumption DEF Init, TypeOK, Process
  <2> QED
    BY <2>1 DEF Init, IInv, Attached, Process
<1>2. IInv => KnownAreFiltered
  BY DEF IInv, TypeOK, Attached, KnownAreFiltered
<1> QED
  BY <1>1, <1>2, AttachedStep, PTL DEF Spec

-------------------------------------------------------------------------------
(***************************************************************************)
(* The list on screen                                                      *)
(***************************************************************************)
(* What is not doubled is on the screen once, and there if it is in the    *)
(* map.                                                                    *)
ScreenInv ==
  phase["tui"] = "run" =>
    /\ \A i, j \in 1..Len(screen) : i # j /\ screen[i] = screen[j] => screen[i] \in doubled
    /\ got["tui"] => \A d \in Domain \ doubled :
         d \in map <=> \E i \in 1..Len(screen) : screen[i] = d

LEMMA ScreenKept ==
  ASSUME ScreenInv, UNCHANGED <<screen, map, doubled>>,
         phase'["tui"] = "run" => phase["tui"] = "run" /\ got'["tui"] = got["tui"]
  PROVE  ScreenInv'
BY DEF ScreenInv

LEMMA OffKept ==
  ASSUME TypeOK, ScreenInv, NEW p \in Process, Off(p),
         p # "tui" => UNCHANGED <<screen, map, doubled>>
  PROVE  ScreenInv'
<1>1. phase' = [phase EXCEPT ![p] = "off"] /\ got' = [got EXCEPT ![p] = FALSE]
  BY DEF Off
<1>2. CASE p = "tui"
  <2>1. phase'["tui"] = "off"
    BY <1>1, <1>2 DEF TypeOK
  <2> QED
    BY <2>1 DEF ScreenInv
<1>3. CASE p # "tui"
  <2>1. phase'["tui"] = phase["tui"] /\ got'["tui"] = got["tui"]
    BY <1>1, <1>3 DEF TypeOK, Process
  <2> QED
    BY <1>3, <2>1, ScreenKept
<1> QED
  BY <1>2, <1>3

LEMMA ScreenStep == TypeOK /\ ScreenInv /\ [Next]_vars => ScreenInv'
<1> SUFFICES ASSUME TypeOK, ScreenInv, [Next]_vars PROVE ScreenInv'
  OBVIOUS
<1>0. screen \in Seq(Domain) /\ Len(screen) \in Nat
  BY DEF TypeOK
<1>1. CASE UNCHANGED <<phase, got, terminal>>
  BY <1>1, ScreenKept DEF terminal
<1>2. ASSUME NEW p \in Process, Start(p) PROVE ScreenInv'
  <2>1. UNCHANGED <<screen, map, doubled>> /\ phase' = [phase EXCEPT ![p] = "load"]
        /\ got' = [got EXCEPT ![p] = FALSE]
    BY <1>2 DEF Start, terminal
  <2>2. phase'["tui"] = "run" => phase["tui"] = "run" /\ got'["tui"] = got["tui"]
    BY <2>1 DEF TypeOK, Process
  <2> QED
    BY <2>1, <2>2, ScreenKept
<1>3. CASE DaemonLoaded
  <2>1. CASE got["daemon"]
    <3>1. phase' = [phase EXCEPT !["daemon"] = "run"] /\ got' = got
      BY <1>3, <2>1 DEF DaemonLoaded
    <3>2. phase'["tui"] = phase["tui"]
      BY <3>1 DEF TypeOK, Process
    <3> QED
      BY <1>3, <3>1, <3>2, ScreenKept DEF DaemonLoaded, terminal
  <2>2. CASE ~got["daemon"]
    BY <1>3, <2>2, OffKept DEF DaemonLoaded, terminal, Process
  <2> QED
    BY <2>1, <2>2
<1>4. CASE Tick \/ Polled
  <2>1. UNCHANGED <<got, screen, map, doubled>> /\ phase'["tui"] = phase["tui"]
    BY <1>4 DEF Tick, Polled, terminal, TypeOK, Process
  <2> QED
    BY <2>1, ScreenKept
<1>5. ASSUME NEW p \in Process, NEW i \in Iface, NEW ok \in BOOLEAN, LoadAttach(p, i, ok)
      PROVE  ScreenInv'
  <2>1. UNCHANGED <<phase, screen, map, doubled>> /\ phase[p] = "load"
    BY <1>5 DEF LoadAttach, Attach, terminal
  <2>2. phase["tui"] = "run" => got'["tui"] = got["tui"]
    <3>1. got' = [got EXCEPT ![p] = got[p] \/ ok]
      BY <1>5 DEF LoadAttach
    <3>2. phase["tui"] = "run" => p # "tui"
      BY <2>1
    <3> QED
      BY <3>1, <3>2 DEF TypeOK
  <2> QED
    BY <2>1, <2>2, ScreenKept
<1>6. CASE TuiLoaded
  <2>1. screen' = Initial /\ got' = got /\ (got["tui"] => map' = ToSet(Initial))
    BY <1>6 DEF TuiLoaded
  <2>2. \A d \in Domain : d \in ToSet(Initial) <=> \E i \in 1..Len(Initial) : Initial[i] = d
    BY ScreenAssumption DEF ToSet
  <2> QED
    BY <2>1, <2>2, ScreenAssumption DEF ScreenInv
<1>7. ASSUME NEW d \in Domain, AddDomain(d) PROVE ScreenInv'
  <2>1. /\ screen' = Append(screen, d) /\ map' = map \cup {d}
        /\ UNCHANGED <<phase, got>> /\ phase["tui"] = "run" /\ got["tui"]
        /\ doubled' = IF d \in ToSet(screen) THEN doubled \cup {d} ELSE doubled
    BY <1>7 DEF AddDomain, Typed, process
  <2>2. d \in ToSet(screen) <=> \E i \in 1..Len(screen) : screen[i] = d
    BY <1>0 DEF ToSet
  <2>3. /\ Len(screen') = Len(screen) + 1 /\ screen'[Len(screen) + 1] = d
        /\ \A i \in 1..Len(screen) : screen'[i] = screen[i] /\ i \in 1..Len(screen')
        /\ \A i \in 1..Len(screen') : i \in 1..Len(screen) \/ i = Len(screen) + 1
    BY <1>0, <2>1
  <2>4. \A i, j \in 1..Len(screen') : i # j /\ screen'[i] = screen'[j] => screen'[i] \in doubled'
    BY <2>1, <2>2, <2>3 DEF ScreenInv
  <2>5. ASSUME NEW e \in Domain \ doubled'
        PROVE  e \in map' <=> \E i \in 1..Len(screen') : screen'[i] = e
    <3>1. e \in map <=> \E i \in 1..Len(screen) : screen[i] = e
      BY <2>1, <2>5 DEF ScreenInv
    <3>2. (\E i \in 1..Len(screen') : screen'[i] = e)
            <=> e = d \/ \E i \in 1..Len(screen) : screen[i] = e
      <4>1. Len(screen) + 1 \in 1..Len(screen')
        BY <1>0, <2>3
      <4> QED
        BY <2>3, <4>1
    <3> QED
      BY <2>1, <3>1, <3>2
  <2> QED
    BY <2>4, <2>5 DEF ScreenInv
<1>8. CASE RemoveDomain
  <2>1. /\ screen' = SubSeq(screen, 1, Len(screen) - 1) /\ map' = map \ {screen[Len(screen)]}
        /\ UNCHANGED <<phase, got, doubled>> /\ phase["tui"] = "run" /\ screen # <<>>
    BY <1>8 DEF RemoveDomain, process, Front, Last
  <2>2. /\ Len(screen) \in 1..Len(screen) /\ Len(screen') = Len(screen) - 1
        /\ \A i \in 1..Len(screen') : /\ screen'[i] = screen[i] /\ i \in 1..Len(screen)
                                      /\ i # Len(screen)
        /\ \A i \in 1..Len(screen) : i \in 1..Len(screen') \/ i = Len(screen)
    <3> DEFINE n == Len(screen)
    <3>1. n \in Nat \ {0}
      BY <1>0, <2>1
    <3>2. \A i \in 1..(n - 1) : screen[i] \in Domain
      BY <1>0
    <3> HIDE DEF n
    <3>3. /\ Len(SubSeq(screen, 1, n - 1)) = IF 1 <= n - 1 THEN n - 1 - 1 + 1 ELSE 0
          /\ \A i \in 1..(n - 1 - 1 + 1) : SubSeq(screen, 1, n - 1)[i] = screen[1 + i - 1]
      BY <3>1, <3>2, SubSeqProperties
    <3>4. /\ Len(SubSeq(screen, 1, n - 1)) = n - 1
          /\ \A i \in 1..(n - 1) : SubSeq(screen, 1, n - 1)[i] = screen[i]
      BY <3>1, <3>3
    <3>5. screen' = SubSeq(screen, 1, n - 1) /\ Len(screen) = n
      BY <2>1 DEF n
    <3> QED
      BY <3>1, <3>4, <3>5
  <2>3. \A i, j \in 1..Len(screen') : i # j /\ screen'[i] = screen'[j] => screen'[i] \in doubled'
    BY <2>1, <2>2 DEF ScreenInv
  <2>4. ASSUME NEW e \in Domain \ doubled, got["tui"]
        PROVE  e \in map' <=> \E i \in 1..Len(screen') : screen'[i] = e
    <3>1. e \in map <=> \E i \in 1..Len(screen) : screen[i] = e
      BY <2>1, <2>4 DEF ScreenInv
    <3>2. e = screen[Len(screen)] => ~ \E i \in 1..Len(screen') : screen'[i] = e
      BY <2>1, <2>2, <2>4 DEF ScreenInv
    <3>3. e # screen[Len(screen)] =>
            ((\E i \in 1..Len(screen') : screen'[i] = e) <=> \E i \in 1..Len(screen) : screen[i] = e)
      BY <2>2
    <3> QED
      BY <2>1, <3>1, <3>2, <3>3
  <2> QED
    BY <2>1, <2>3, <2>4 DEF ScreenInv
<1>9. ASSUME NEW p \in Process, Finish(p) \/ Kill(p) PROVE ScreenInv'
  <2>1. Off(p) /\ (p # "tui" => UNCHANGED <<screen, map, doubled>>)
    <3>1. Ended(p)
      BY <1>9 DEF Finish, Kill
    <3>2. Off(p) /\ IF p = "tui" THEN TRUE ELSE UNCHANGED terminal
      BY <3>1 DEF Ended
    <3> QED
      BY <3>2 DEF terminal
  <2> QED
    BY <2>1, OffKept
<1>10. ASSUME NEW i \in Iface, Appear(i) \/ Disappear(i) PROVE ScreenInv'
  BY <1>1, <1>10 DEF Appear, Disappear, process
<1>11. ASSUME NEW i \in Iface, NEW ok \in BOOLEAN, PollAttach(i, ok) PROVE ScreenInv'
  BY <1>1, <1>11 DEF PollAttach, PollAttaches, Attach
<1>12. CASE UNCHANGED vars
  BY <1>1, <1>12 DEF vars, process
<1> QED
  BY <1>2, <1>3, <1>4, <1>5, <1>6, <1>7, <1>8, <1>9, <1>10, <1>11, <1>12
  DEF Next, StartDaemon, StartTui, Process

(* The list on screen is what the map blocks, but for domains that were    *)
(* listed twice, whatever is typed and removed and in whatever order the   *)
(* interface is started and ended.                                         *)
THEOREM ScreenMatchesMapHolds == Spec => []ScreenMatchesMap
<1>1. Init => ScreenInv
  BY DEF Init, ScreenInv, Process
<1>2. TypeOK /\ ScreenInv => ScreenMatchesMap
  <2> SUFFICES ASSUME TypeOK, ScreenInv, phase["tui"] = "run", got["tui"]
               PROVE  ToSet(screen) \ doubled = map \ doubled
    BY DEF ScreenMatchesMap
  <2>1. screen \in Seq(Domain) /\ map \subseteq Domain
    BY DEF TypeOK
  <2>2. \A d : d \in ToSet(screen) <=> d \in Domain /\ \E i \in 1..Len(screen) : screen[i] = d
    BY <2>1 DEF ToSet
  <2>3. \A d \in Domain \ doubled : d \in map <=> \E i \in 1..Len(screen) : screen[i] = d
    BY DEF ScreenInv
  <2> QED
    BY <2>1, <2>2, <2>3
<1>3. ScreenInv /\ TypeOK /\ [Next]_vars => ScreenInv'
  BY ScreenStep
<1> QED
  BY <1>1, <1>2, <1>3, TypeCorrect, PTL DEF Spec
===============================================================================
