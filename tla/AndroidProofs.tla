----------------------------- MODULE AndroidProofs -----------------------------
(***************************************************************************)
(* The Android parts, for any apps, names, queries, ports, entries,        *)
(* services and connections. AndroidServices: the lists of the services    *)
(* follow the stored list, and what makes a change of it atomic.           *)
(* AndroidDns: an answer fits its query unless a port was used again, and  *)
(* the loop implements DnsResolver.                                        *)
(* AndroidShield: only an app that came back unseen is marked as shielded  *)
(* without a shield. The three share no variable and are proved each from  *)
(* its own specification.                                                  *)
(***************************************************************************)
EXTENDS AndroidShield, AndroidDns, AndroidServices, FiniteSetTheorems, TLAPS

-------------------------------------------------------------------------------
(***************************************************************************)
(* The control server and the services                                     *)
(***************************************************************************)
(* The numbers of TypeOK by what bounds them: intents by the toggles since *)
(* the boot, broadcasts by the requests that are done.                     *)
Done == {c \in Conn : pc[c] = "done"}
CountInv ==
  \A s \in Service : Len(intents[s]) <= toggles + 2 /\ pending[s] <= Cardinality(Done)

(* A request that nobody has overtaken saves the effect of its command on  *)
(* the list as it still is.                                                *)
LocalInv ==
  \A c \in Conn : pc[c] = "save" /\ c \notin stale => local[c] = Changed(command[c], store)

(* A list has been saved and the broadcast of it is yet to be sent. *)
Notifying == \E c \in Conn : pc[c] = "notify"
(* A service that runs, or that is starting and has read the list, blocks  *)
(* by the list as it is, unless a broadcast is about to be sent or on its  *)
(* way, or it has missed one. This holds through the requests, where       *)
(* CachesFollowStore only speaks of the moments between them.              *)
CacheInv ==
  \A s \in Service :
    (s \in running \/ main = s) /\ s \notin missed /\ pending[s] = 0 /\ ~Notifying
      => cache[s] = store \cap Cares[s]

(* The invariant. *)
ServicesInv == TypeOK /\ CountInv /\ LocalInv /\ CacheInv

(* The requests that are done are finitely many, at most as many as there  *)
(* are connections.                                                        *)
LEMMA CardTypes ==
  ASSUME TypeOK
  PROVE  /\ IsFiniteSet(Done) /\ Cardinality(Done) \in Nat /\ Cardinality(Conn) \in Nat
         /\ Cardinality(Done) <= Cardinality(Conn)
BY EntryAssumption, FS_Subset, FS_CardinalityType DEF Done

(* One more request is done. *)
LEMMA DoneGrows ==
  ASSUME TypeOK, NEW c \in Conn, pc[c] # "done", pc' = [pc EXCEPT ![c] = "done"]
  PROVE  /\ Cardinality(Done') = Cardinality(Done) + 1
         /\ Cardinality(Done) + 1 \in 0..Cardinality(Conn)
<1>1. Done' = Done \cup {c} /\ c \notin Done /\ Done' \subseteq Conn
  BY DEF TypeOK, Done
<1>2. Cardinality(Done') = Cardinality(Done) + 1
  BY <1>1, CardTypes, FS_AddElement
<1>3. Cardinality(Done') <= Cardinality(Conn)
  BY <1>1, EntryAssumption, FS_Subset
<1> QED
  BY <1>2, <1>3, CardTypes

(* The types are kept; the counts bound the intents and the broadcasts. *)
LEMMA ServicesTypeStep == TypeOK /\ CountInv /\ [Next]_vars => TypeOK'
<1> SUFFICES ASSUME TypeOK, CountInv, [Next]_vars PROVE TypeOK'
  OBVIOUS
<1> USE EntryAssumption, BoundAssumption
    DEF TypeOK, NoCommand, preferences, requests, services, counters, history
<1>1. ASSUME NEW c \in Conn, Accept(c)
      PROVE  TypeOK'
  BY <1>1 DEF Accept, Transition
<1>2. ASSUME NEW c \in Conn, Load(c)
      PROVE  TypeOK'
  <2>1. command[c] \in Command \/ command[c] = NoCommand
    OBVIOUS
  <2>2. command[c].entries \subseteq Entry
    BY <2>1
  <2>3. Changed(command[c], store) \subseteq Entry
    BY <2>2 DEF Changed
  <2> QED
    BY <1>2, <2>3 DEF Load, Transition
<1>3. ASSUME NEW c \in Conn, Save(c)
      PROVE  TypeOK'
  BY <1>3 DEF Save, Transition
<1>4. ASSUME NEW c \in Conn, Notify(c)
      PROVE  TypeOK'
  <2>1. pc[c] # "done" /\ pc' = [pc EXCEPT ![c] = "done"]
    BY <1>4 DEF Notify, Transition
  <2>2. Cardinality(Done) + 1 \in 0..Cardinality(Conn)
    BY <2>1, DoneGrows
  <2>3. pending' \in [Service -> 0..Cardinality(Conn)]
    <3>1. ASSUME NEW s \in Service PROVE pending[s] + 1 \in 0..Cardinality(Conn)
      BY <2>2, CardTypes DEF CountInv
    <3> QED
      BY <1>4, <3>1 DEF Notify
  <2>4. \A s \in Service : pending'[s] > 0 => s \in registered'
    BY <1>4 DEF Notify
  <2>5. missed' \subseteq Service
    BY <1>4 DEF Notify, Miss
  <2> QED
    BY <1>4, <2>3, <2>4, <2>5 DEF Notify, Transition, Answered
<1>5. ASSUME NEW s \in Service, NEW on \in BOOLEAN, Toggle(s, on)
      PROVE  TypeOK'
  <2>1. intents' \in [Service -> Seq({"start", "stop"})]
    BY <1>5 DEF Toggle
  <2>2. ASSUME NEW r \in Service PROVE Len(intents'[r]) <= MaxToggles + 2
    <3>1. Len(intents'[r]) <= Len(intents[r]) + 1 /\ Len(intents[r]) <= toggles + 2
          /\ Len(intents[r]) \in Nat
      BY <1>5 DEF Toggle, CountInv
    <3> QED
      BY <1>5, <2>1, <3>1 DEF Toggle
  <2>3. toggles' \in 0..MaxToggles /\ flag' \subseteq Service
    BY <1>5 DEF Toggle
  <2> QED
    BY <1>5, <2>1, <2>2, <2>3 DEF Toggle
<1>6. ASSUME NEW s \in Service, StartLoad(s)
      PROVE  TypeOK'
  BY <1>6 DEF StartLoad, Intent
<1>7. ASSUME NEW s \in Service, StartRegister(s)
      PROVE  TypeOK'
  BY <1>7 DEF StartRegister
<1>8. ASSUME NEW s \in Service, StartAgain(s)
      PROVE  TypeOK'
  BY <1>8 DEF StartAgain, Intent
<1>9. ASSUME NEW s \in Service, Stop(s)
      PROVE  TypeOK'
  <2>1. pending' \in [Service -> 0..Cardinality(Conn)]
        /\ \A r \in Service : pending'[r] > 0 => r \in registered'
    <3>1. pending' \in {pending, [pending EXCEPT ![s] = 0]}
          /\ (pending'[s] > 0 => registered' = registered)
          /\ registered \ {s} \subseteq registered'
      <4>1. CASE s \in KeepsReceiver
        BY <1>9, <4>1 DEF Stop
      <4>2. CASE s \notin KeepsReceiver
        <5>1. registered' = registered \ {s} /\ pending' = [pending EXCEPT ![s] = 0]
          BY <1>9, <4>2 DEF Stop
        <5>2. pending'[s] = 0
          BY <5>1
        <5> QED
          BY <5>1, <5>2
      <4> QED
        BY <4>1, <4>2
    <3>2. pending' \in [Service -> 0..Cardinality(Conn)]
      <4>1. 0 \in 0..Cardinality(Conn)
        BY CardTypes
      <4>2. CASE pending' = pending
        BY <4>2
      <4>3. CASE pending' = [pending EXCEPT ![s] = 0]
        BY <4>1, <4>3
      <4> QED
        BY <3>1, <4>2, <4>3
    <3>3. ASSUME NEW r \in Service, pending'[r] > 0 PROVE r \in registered'
      <4>1. CASE r = s
        BY <3>1, <3>3, <4>1
      <4>2. CASE r # s
        BY <3>1, <3>3, <4>2
      <4> QED
        BY <4>1, <4>2
    <3> QED
      BY <3>2, <3>3
  <2>2. running' \subseteq registered' /\ registered' \subseteq Service
    BY <1>9 DEF Stop
  <2>3. intents' \in [Service -> Seq({"start", "stop"})]
        /\ \A r \in Service : Len(intents'[r]) <= MaxToggles + 2
    BY <1>9 DEF Stop, Intent
  <2> QED
    BY <1>9, <2>1, <2>2, <2>3 DEF Stop
<1>10. ASSUME NEW s \in Service, Deliver(s)
      PROVE  TypeOK'
  <2>1. pending' \in [Service -> 0..Cardinality(Conn)]
        /\ \A r \in Service : pending'[r] > 0 => r \in registered'
    BY <1>10, CardTypes DEF Deliver
  <2> QED
    BY <1>10, <2>1 DEF Deliver
<1>11. CASE Flush
  BY <1>11 DEF Flush
<1>12. CASE Crash
  <2>1. pc' \in [Conn -> {"idle", "start", "save", "notify", "done"}]
        /\ command' \in [Conn -> Command \cup {NoCommand}] /\ local' \in [Conn -> SUBSET Entry]
        /\ answer' \in [Conn -> {"none", "ok", "lost"}]
    BY <1>12 DEF Crash
  <2>2. intents' \in [Service -> Seq({"start", "stop"})]
        /\ \A s \in Service : Len(intents'[s]) <= MaxToggles + 2
    BY <1>12 DEF Crash
  <2>3. pending' \in [Service -> 0..Cardinality(Conn)]
        /\ \A s \in Service : pending'[s] > 0 => s \in registered'
    BY <1>12, CardTypes DEF Crash
  <2>4. crashes' \in 0..MaxCrashes
    BY <1>12 DEF Crash
  <2> QED
    BY <1>12, <2>1, <2>2, <2>3, <2>4 DEF Crash
<1>13. CASE Boot
  <2>1. ASSUME NEW s \in Service
        PROVE  intents'[s] \in Seq({"start", "stop"}) /\ Len(intents'[s]) <= 2
    <3>1. PICK begun \in {<<"start">>, <<"start", "start">>} :
                 intents' = [r \in Service |-> IF r \in flag THEN begun ELSE <<>>]
      BY <1>13 DEF Boot
    <3>2. begun \in Seq({"start", "stop"}) /\ Len(begun) <= 2
      <4>1. CASE begun = <<"start">>
        BY <4>1
      <4>2. CASE begun = <<"start", "start">>
        BY <4>2
      <4> QED
        BY <4>1, <4>2
    <3>3. <<>> \in Seq({"start", "stop"}) /\ Len(<<>>) <= 2
      OBVIOUS
    <3>4. intents'[s] = begun \/ intents'[s] = <<>>
      BY <3>1
    <3> QED
      BY <3>2, <3>3, <3>4
  <2>2. intents' \in [Service -> Seq({"start", "stop"})]
    BY <1>13, <2>1 DEF Boot
  <2>3. \A s \in Service : Len(intents'[s]) <= MaxToggles + 2
    BY <2>1, <2>2
  <2> QED
    BY <1>13, <2>2, <2>3 DEF Boot
<1>14. CASE UNCHANGED vars
  BY <1>14 DEF vars
<1> QED
  BY <1>1, <1>2, <1>3, <1>4, <1>5, <1>6, <1>7, <1>8, <1>9, <1>10, <1>11, <1>12, <1>13, <1>14
  DEF Next, Handle, MainThread, SwitchOn, SwitchOff

(* The counts are kept by every step. *)
LEMMA CountStep == TypeOK /\ CountInv /\ [Next]_vars => CountInv'
<1> SUFFICES ASSUME TypeOK, CountInv, [Next]_vars PROVE CountInv'
  OBVIOUS
<1> USE EntryAssumption, BoundAssumption
    DEF CountInv, TypeOK, preferences, requests, services, counters, history
<1>1. ASSUME NEW c \in Conn, Accept(c)
      PROVE  CountInv'
  BY <1>1 DEF Accept, Transition, Done
<1>2. ASSUME NEW c \in Conn, Load(c)
      PROVE  CountInv'
  BY <1>2 DEF Load, Transition, Done
<1>3. ASSUME NEW c \in Conn, Save(c)
      PROVE  CountInv'
  BY <1>3 DEF Save, Transition, Done
<1>4. ASSUME NEW c \in Conn, Notify(c)
      PROVE  CountInv'
  <2>1. pc[c] # "done" /\ pc' = [pc EXCEPT ![c] = "done"]
    BY <1>4 DEF Notify, Transition
  <2>2. Cardinality(Done') = Cardinality(Done) + 1
    BY <2>1, DoneGrows
  <2>3. ASSUME NEW s \in Service PROVE pending'[s] <= Cardinality(Done')
    BY <1>4, <2>2, CardTypes DEF Notify
  <2> QED
    BY <1>4, <2>3 DEF Notify
<1>5. ASSUME NEW s \in Service, NEW on \in BOOLEAN, Toggle(s, on)
      PROVE  CountInv'
  BY <1>5 DEF Toggle, Done
<1>6. ASSUME NEW s \in Service, StartLoad(s)
      PROVE  CountInv'
  BY <1>6 DEF StartLoad, Intent, Done
<1>7. ASSUME NEW s \in Service, StartRegister(s)
      PROVE  CountInv'
  BY <1>7 DEF StartRegister, Done
<1>8. ASSUME NEW s \in Service, StartAgain(s)
      PROVE  CountInv'
  BY <1>8 DEF StartAgain, Intent, Done
<1>9. ASSUME NEW s \in Service, Stop(s)
      PROVE  CountInv'
  <2>1. ASSUME NEW r \in Service PROVE pending'[r] <= Cardinality(Done')
    <3>1. Done' = Done /\ pending'[r] \in {0, pending[r]}
      BY <1>9 DEF Stop, Done
    <3> QED
      BY <3>1, CardTypes
  <2>2. ASSUME NEW r \in Service PROVE Len(intents'[r]) <= toggles + 2
    BY <1>9 DEF Stop, Intent
  <2> QED
    BY <1>9, <2>1, <2>2 DEF Stop
<1>10. ASSUME NEW s \in Service, Deliver(s)
      PROVE  CountInv'
  <2>1. ASSUME NEW r \in Service PROVE pending'[r] <= Cardinality(Done')
    <3>1. Done' = Done /\ pending'[r] \in {pending[r] - 1, pending[r]}
      BY <1>10 DEF Deliver, Done
    <3> QED
      BY <3>1, CardTypes
  <2> QED
    BY <1>10, <2>1 DEF Deliver
<1>11. CASE Flush
  BY <1>11 DEF Flush, Done
<1>12. CASE Crash
  <2>1. pc' \in [Conn -> {"idle", "done"}]
    BY <1>12 DEF Crash
  <2>2. IsFiniteSet(Done') /\ Cardinality(Done') \in Nat
    BY <2>1, FS_Subset, FS_CardinalityType DEF Done
  <2> QED
    BY <1>12, <2>2 DEF Crash
<1>13. CASE Boot
  <2>1. ASSUME NEW s \in Service
        PROVE  intents'[s] \in Seq({"start", "stop"}) /\ Len(intents'[s]) <= 2
    <3>1. PICK begun \in {<<"start">>, <<"start", "start">>} :
                 intents' = [r \in Service |-> IF r \in flag THEN begun ELSE <<>>]
      BY <1>13 DEF Boot
    <3>2. begun \in Seq({"start", "stop"}) /\ Len(begun) <= 2
      <4>1. CASE begun = <<"start">>
        BY <4>1
      <4>2. CASE begun = <<"start", "start">>
        BY <4>2
      <4> QED
        BY <4>1, <4>2
    <3>3. <<>> \in Seq({"start", "stop"}) /\ Len(<<>>) <= 2
      OBVIOUS
    <3>4. intents'[s] = begun \/ intents'[s] = <<>>
      BY <3>1
    <3> QED
      BY <3>2, <3>3, <3>4
  <2>2. ASSUME NEW s \in Service PROVE Len(intents'[s]) <= toggles' + 2
    BY <1>13, <2>1 DEF Boot
  <2>3. Done' = Done /\ pending' = pending
    BY <1>13 DEF Boot, Done
  <2> QED
    BY <2>2, <2>3
<1>14. CASE UNCHANGED vars
  BY <1>14 DEF vars, Done
<1> QED
  BY <1>1, <1>2, <1>3, <1>4, <1>5, <1>6, <1>7, <1>8, <1>9, <1>10, <1>11, <1>12, <1>13, <1>14
  DEF Next, Handle, MainThread, SwitchOn, SwitchOff

(* A save makes every other loaded list stale. *)
LEMMA LocalStep == TypeOK /\ LocalInv /\ [Next]_vars => LocalInv'
<1> SUFFICES ASSUME TypeOK, LocalInv, [Next]_vars PROVE LocalInv'
  OBVIOUS
<1> USE EntryAssumption, BoundAssumption
    DEF LocalInv, TypeOK, preferences, requests, services, counters, history
<1>1. ASSUME NEW c \in Conn, Accept(c)
      PROVE  LocalInv'
  BY <1>1 DEF Accept, Transition
<1>2. ASSUME NEW c \in Conn, Load(c)
      PROVE  LocalInv'
  BY <1>2 DEF Load, Transition
<1>3. ASSUME NEW c \in Conn, Save(c)
      PROVE  LocalInv'
  BY <1>3 DEF Save, Transition
<1>4. ASSUME NEW c \in Conn, Notify(c)
      PROVE  LocalInv'
  BY <1>4 DEF Notify, Transition, Answered, Miss
<1>5. ASSUME NEW s \in Service, NEW on \in BOOLEAN, Toggle(s, on)
      PROVE  LocalInv'
  BY <1>5 DEF Toggle
<1>6. ASSUME NEW s \in Service, StartLoad(s)
      PROVE  LocalInv'
  BY <1>6 DEF StartLoad, Intent
<1>7. ASSUME NEW s \in Service, StartRegister(s)
      PROVE  LocalInv'
  BY <1>7 DEF StartRegister
<1>8. ASSUME NEW s \in Service, StartAgain(s)
      PROVE  LocalInv'
  BY <1>8 DEF StartAgain, Intent
<1>9. ASSUME NEW s \in Service, Stop(s)
      PROVE  LocalInv'
  BY <1>9 DEF Stop, Intent
<1>10. ASSUME NEW s \in Service, Deliver(s)
      PROVE  LocalInv'
  BY <1>10 DEF Deliver
<1>11. CASE Flush
  BY <1>11 DEF Flush
<1>12. CASE Crash
  BY <1>12 DEF Crash, Quiet
<1>13. CASE Boot
  BY <1>13 DEF Boot
<1>14. CASE UNCHANGED vars
  BY <1>14 DEF vars
<1> QED
  BY <1>1, <1>2, <1>3, <1>4, <1>5, <1>6, <1>7, <1>8, <1>9, <1>10, <1>11, <1>12, <1>13, <1>14
  DEF Next, Handle, MainThread, SwitchOn, SwitchOff

(* The caches follow: a save is followed by its broadcast, a broadcast     *)
(* reaches whoever has registered, and the others are noted as having      *)
(* missed it.                                                              *)
LEMMA CacheStep == TypeOK /\ CacheInv /\ [Next]_vars => CacheInv'
<1> SUFFICES ASSUME TypeOK, CacheInv, [Next]_vars PROVE CacheInv'
  OBVIOUS
<1> USE EntryAssumption, BoundAssumption
    DEF CacheInv, Notifying, TypeOK, preferences, requests, services, counters, history
<1>1. ASSUME NEW c \in Conn, Accept(c)
      PROVE  CacheInv'
  BY <1>1 DEF Accept, Transition
<1>2. ASSUME NEW c \in Conn, Load(c)
      PROVE  CacheInv'
  BY <1>2 DEF Load, Transition
<1>3. ASSUME NEW c \in Conn, Save(c)
      PROVE  CacheInv'
  BY <1>3 DEF Save, Transition
<1>4. ASSUME NEW c \in Conn, Notify(c)
      PROVE  CacheInv'
  BY <1>4 DEF Notify, Transition, Answered, Miss
<1>5. ASSUME NEW s \in Service, NEW on \in BOOLEAN, Toggle(s, on)
      PROVE  CacheInv'
  BY <1>5 DEF Toggle
<1>6. ASSUME NEW s \in Service, StartLoad(s)
      PROVE  CacheInv'
  BY <1>6 DEF StartLoad, Intent
<1>7. ASSUME NEW s \in Service, StartRegister(s)
      PROVE  CacheInv'
  BY <1>7 DEF StartRegister
<1>8. ASSUME NEW s \in Service, StartAgain(s)
      PROVE  CacheInv'
  BY <1>8 DEF StartAgain, Intent
<1>9. ASSUME NEW s \in Service, Stop(s)
      PROVE  CacheInv'
  BY <1>9 DEF Stop, Intent
<1>10. ASSUME NEW s \in Service, Deliver(s)
      PROVE  CacheInv'
  BY <1>10 DEF Deliver
<1>11. CASE Flush
  BY <1>11 DEF Flush
<1>12. CASE Crash
  BY <1>12 DEF Crash, Quiet
<1>13. CASE Boot
  BY <1>13 DEF Boot
<1>14. CASE UNCHANGED vars
  BY <1>14 DEF vars
<1> QED
  BY <1>1, <1>2, <1>3, <1>4, <1>5, <1>6, <1>7, <1>8, <1>9, <1>10, <1>11, <1>12, <1>13, <1>14
  DEF Next, Handle, MainThread, SwitchOn, SwitchOff

(* The first start of the process satisfies the invariant. *)
LEMMA ServicesInvInit == Init => ServicesInv
<1> SUFFICES ASSUME Init PROVE ServicesInv
  OBVIOUS
<1> USE EntryAssumption, BoundAssumption DEF Init
<1>1. TypeOK
  <2>1. Cardinality(Conn) \in Nat
    BY FS_CardinalityType
  <2>2. pc \in [Conn -> {"idle", "start", "save", "notify", "done"}]
        /\ command \in [Conn -> Command \cup {NoCommand}] /\ local \in [Conn -> SUBSET Entry]
        /\ answer \in [Conn -> {"none", "ok", "lost"}]
        /\ intents \in [Service -> Seq({"start", "stop"})]
        /\ pending \in [Service -> 0..Cardinality(Conn)]
    BY <2>1
  <2>3. \A s \in Service : Len(intents[s]) <= MaxToggles + 2
    OBVIOUS
  <2> QED
    BY <2>2, <2>3 DEF TypeOK
<1>2. CountInv
  BY <1>1, CardTypes DEF CountInv
<1> QED
  BY <1>1, <1>2 DEF ServicesInv, LocalInv, CacheInv

(* The invariant holds throughout. *)
LEMMA ServicesInvCorrect == Spec => []ServicesInv
<1>1. ServicesInv /\ [Next]_vars => ServicesInv'
  BY ServicesTypeStep, CountStep, LocalStep, CacheStep DEF ServicesInv
<1> QED
  BY <1>1, ServicesInvInit, PTL DEF Spec

(* The variables of the control server and the services keep their types. *)
THEOREM ServicesTypeCorrect == Spec => []TypeOK
BY ServicesInvCorrect, PTL DEF ServicesInv

(* Between requests and broadcasts every running service blocks by the     *)
(* list as it is, unless it has missed a change as it started              *)
(* (onStartCommand loads before it registers).                             *)
THEOREM CachesFollow == Spec => []CachesFollowStore
<1>1. ServicesInv => CachesFollowStore
  BY DEF ServicesInv, CacheInv, Notifying, TypeOK, CachesFollowStore, Settled, Quiet
<1> QED
  BY <1>1, ServicesInvCorrect, PTL

(* The list changes by a save, or by a crash that takes back what was not  *)
(* on the disk.                                                            *)
LEMMA StoreStep ==
  ASSUME ServicesInv, [Next]_vars, store' # store
  PROVE  \/ \E c \in Conn : /\ pc[c] = "save" /\ pc'[c] = "notify"
                            /\ c \in stale \/ store' = Changed(command[c], store)
         \/ process' = "down"
<1> USE DEF preferences
<1>1. ASSUME NEW c \in Conn, Save(c) PROVE pc[c] = "save" /\ pc'[c] = "notify" /\ store' = local[c]
  BY <1>1 DEF Save, Transition, ServicesInv, TypeOK
<1>2. CASE \E c \in Conn : Save(c)
  BY <1>1, <1>2 DEF ServicesInv, LocalInv
<1>3. ~(\E c \in Conn : Accept(c) \/ Load(c) \/ Notify(c))
  BY DEF Accept, Load, Notify
<1>4. ~(\E s \in Service : MainThread(s))
  BY DEF MainThread, StartLoad, StartRegister, StartAgain, Stop, Deliver
<1>5. ~(\E s \in Service : SwitchOn(s) \/ SwitchOff(s))
  BY DEF SwitchOn, SwitchOff, Toggle
<1>6. ~(Flush \/ Boot \/ UNCHANGED vars)
  BY DEF Flush, Boot, vars
<1>7. CASE Crash
  BY <1>7 DEF Crash
<1> QED
  BY <1>2, <1>3, <1>4, <1>5, <1>6, <1>7 DEF Next, Handle

(* Each change of the list is the effect of one command on the list as it  *)
(* was, unless its request had loaded a list that another has since        *)
(* replaced (handleBlock and the like take no lock).                       *)
THEOREM UndisturbedAtomic == Spec => UndisturbedChangesAreAtomic
<1>1. ServicesInv /\ [Next]_vars =>
        [\/ \E c \in Conn : /\ pc[c] = "save" /\ pc'[c] = "notify"
                            /\ c \in stale \/ store' = Changed(command[c], store)
         \/ process' = "down"]_store
  BY StoreStep
<1> QED
  BY <1>1, ServicesInvCorrect, PTL DEF Spec, UndisturbedChangesAreAtomic

-------------------------------------------------------------------------------
(***************************************************************************)
(* The packet path of the VPN                                              *)
(***************************************************************************)
Busy == {"lookup", "send", "wait", "write"}

(***************************************************************************)
(* The inductive invariant                                                 *)
(***************************************************************************)
(* Starts to come have no loop yet. *)
StartOK == \A l \in Loop : l > starts => phase[l] = "none"

(* What is queued is queued once and is in nobody's hand. *)
QueueOK ==
  /\ \A i \in 1..Len(queue) : status[queue[i]] = "queued"
  /\ \A i, j \in 1..Len(queue) : i # j => queue[i] # queue[j]

(* A loop has a query in hand from reading to writing, of its own. *)
HandOK ==
  /\ \A l \in Loop : phase[l] \in Busy => packet[l] \in Id /\ status[packet[l]] = "hand"
  /\ \A l \in Loop : phase[l] \notin Busy => packet[l] = None
  /\ \A l, k \in Loop : l # k /\ packet[l] # None => packet[l] # packet[k]

Hands == DnsTypeOK /\ StartOK /\ QueueOK /\ HandOK

(* Whoever waits for an answer, or has one to write, has forwarded its     *)
(* query.                                                                  *)
UpstreamOK ==
  \A l \in Loop :
    phase[l] = "wait" \/ (phase[l] = "write" /\ reply[l] \notin {"refuse", "back"}) =>
      packet[l] \in sent

(* Only the loop's own answer comes to a port that is not used again. *)
PortOK ==
  /\ \A l \in Loop : phase[l] = "wait" => port[l] # None
  /\ \A l \in Loop \ reused : phase[l] = "wait" =>
       \A q \in Id : <<q, port[l]>> \in flight => q = packet[l]
  /\ AnswerFits

-------------------------------------------------------------------------------

LEMMA LoopFacts == Loop \subseteq Nat \ {0} /\ None \notin Id /\ None \notin Port
BY NameAssumption, LimitAssumption DEF Loop

LEMMA StatusType ==
  ASSUME DnsTypeOK, NEW queries, NEW s \in Statuses, Becomes(queries, s)
  PROVE  status' \in [Id -> Statuses]
BY DEF DnsTypeOK, Becomes

LEMMA EndsType ==
  ASSUME DnsTypeOK, NEW set, Ends(set)
  PROVE  /\ phase' \in [Loop -> Phases] /\ packet' \in [Loop -> Id \cup {None}]
         /\ port' \in [Loop -> Port \cup {None}]
         /\ reply' \in [Loop -> Id \cup {"refuse", "back", None}]
         /\ status' \in [Id -> Statuses]
<1>1. status' \in [Id -> Statuses]
  BY StatusType DEF Ends, Statuses
<1> QED
  BY <1>1 DEF DnsTypeOK, Ends, Phases

LEMMA DecidesType ==
  ASSUME DnsTypeOK, NEW l \in Loop, NEW p \in Phases, NEW a \in Id \cup {"refuse", "back", None},
         Decides(l, p, a)
  PROVE  /\ phase' \in [Loop -> Phases] /\ reply' \in [Loop -> Id \cup {"refuse", "back", None}]
         /\ UNCHANGED <<blocked, open, queue, name, status, packet, starts, updates>>
BY DEF DnsTypeOK, Decides

LEMMA HandledType ==
  ASSUME DnsTypeOK, NEW l \in Loop, NEW a \in Id \cup {"back"}, Handled(l, a)
  PROVE  /\ phase' \in [Loop -> Phases] /\ packet' \in [Loop -> Id \cup {None}]
         /\ port' \in [Loop -> Port \cup {None}]
         /\ reply' \in [Loop -> Id \cup {"refuse", "back", None}]
         /\ status' \in [Id -> Statuses]
         /\ UNCHANGED <<blocked, open, queue, name, starts, updates>>
<1>1. port' \in [Loop -> Port \cup {None}]
  BY DEF Handled, DnsTypeOK
<1>2. CASE l = open
  <2>1. Decides(l, "write", a)
    BY <1>2 DEF Handled
  <2> QED
    BY <1>1, <2>1, DecidesType DEF Phases, DnsTypeOK
<1>3. CASE l # open
  <2>1. Ends({l}) /\ UNCHANGED <<blocked, open, queue, name, starts, updates>>
    BY <1>3 DEF Handled
  <2> QED
    BY <1>1, <2>1, EndsType
<1> QED
  BY <1>2, <1>3

LEMMA AppEndsType ==
  ASSUME DnsTypeOK, AppEnds
  PROVE  /\ open' \in Loop \cup {0} /\ queue' \in Seq(Id) /\ status' \in [Id -> Statuses]
         /\ phase' \in [Loop -> Phases] /\ packet' \in [Loop -> Id \cup {None}]
         /\ port' \in [Loop -> Port \cup {None}]
         /\ reply' \in [Loop -> Id \cup {"refuse", "back", None}]
<1>1. Becomes(ToSet(queue) \cup InHand(Loop), "dropped")
  BY DEF AppEnds
<1>2. status' \in [Id -> Statuses]
  BY <1>1, StatusType DEF Statuses
<1> QED
  BY <1>2 DEF AppEnds, DnsTypeOK, Phases

LEMMA DnsTypeStep == Hands /\ [DnsNext]_dnsVars => DnsTypeOK'
<1> SUFFICES ASSUME DnsTypeOK, HandOK, [DnsNext]_dnsVars PROVE DnsTypeOK'
  BY DEF Hands
<1> USE LimitAssumption, LoopFacts
<1>1. ASSUME NEW set \in SUBSET Domain, StartVpn(set) PROVE DnsTypeOK'
  <2>1. starts + 1 \in Loop /\ starts' \in 0..MaxStarts
    BY <1>1 DEF StartVpn, DnsTypeOK, Loop
  <2> QED
    BY <1>1, <2>1 DEF StartVpn, DnsTypeOK, Phases, network
<1>2. ASSUME NEW set \in SUBSET Domain, UpdateDomains(set) PROVE DnsTypeOK'
  BY <1>2 DEF UpdateDomains, DnsTypeOK, network, loops
<1>3. CASE StopVpn
  <2>1. status' \in [Id -> Statuses]
    BY <1>3, StatusType DEF StopVpn, Statuses
  <2> QED
    BY <1>3, <2>1 DEF StopVpn, DnsTypeOK, network, loops
<1>4. ASSUME NEW q \in Id, Ask(q) PROVE DnsTypeOK'
  <2>1. status' \in [Id -> Statuses]
    BY <1>4, StatusType DEF Ask, Statuses
  <2> QED
    BY <1>4, <2>1 DEF Ask, DnsTypeOK, network, loops
<1>5. ASSUME NEW l \in Loop, Read(l) PROVE DnsTypeOK'
  <2>1. status' \in [Id -> Statuses]
    BY <1>5, StatusType DEF Read, Statuses
  <2>2. Head(queue) \in Id /\ Tail(queue) \in Seq(Id)
    BY <1>5 DEF Read, DnsTypeOK
  <2> QED
    BY <1>5, <2>1, <2>2 DEF Read, DnsTypeOK, Phases, network
<1>6. ASSUME NEW l \in Loop, Cancelled(l) \/ ReadFails(l) PROVE DnsTypeOK'
  BY <1>6, EndsType DEF Cancelled, ReadFails, DnsTypeOK, network
<1>7. ASSUME NEW l \in Loop, Lookup(l) PROVE DnsTypeOK'
  <2>1. UNCHANGED <<port, network>>
        /\ \E p \in Phases, a \in {"back", "refuse", None} : Decides(l, p, a)
    BY <1>7 DEF Lookup, Phases
  <2> QED
    BY <2>1, DecidesType DEF DnsTypeOK, network
<1>8. ASSUME NEW l \in Loop, NEW p \in Port, Send(l, p) PROVE DnsTypeOK'
  <2>1. packet[l] \in Id /\ port' \in [Loop -> Port \cup {None}]
    BY <1>8 DEF Send, DnsTypeOK, HandOK, Busy
  <2>2. reused' \in SUBSET Loop
    BY <1>8 DEF Send, DnsTypeOK
  <2>3. phase' \in [Loop -> Phases] /\ reply' \in [Loop -> Id \cup {"refuse", "back", None}]
        /\ UNCHANGED <<blocked, open, queue, name, status, packet, starts, updates>>
    BY <1>8, DecidesType DEF Send, Phases
  <2>4. flight' \in SUBSET (Id \X Port) /\ sent' \in SUBSET Id
    BY <1>8, <2>1 DEF Send, DnsTypeOK
  <2> QED
    BY <2>1, <2>2, <2>3, <2>4 DEF DnsTypeOK
<1>9. ASSUME NEW l \in Loop, NEW q \in Id, Receive(l, q) PROVE DnsTypeOK'
  BY <1>9, HandledType DEF Receive, DnsTypeOK
<1>10. ASSUME NEW l \in Loop, Fail(l) PROVE DnsTypeOK'
  BY <1>10, HandledType DEF Fail, DnsTypeOK, network
<1>11. ASSUME NEW l \in Loop, Write(l) PROVE DnsTypeOK'
  <2>1. UNCHANGED <<blocked, name, flight, sent, reused, starts, updates>>
    BY <1>11 DEF Write, network
  <2>2. CASE l = open
    <3> DEFINE s == CASE reply[l] = "refuse" -> "refused" [] reply[l] = "back" -> "dropped"
                      [] OTHER -> "answered"
    <3>1. s \in Statuses /\ Becomes({packet[l]}, s)
      BY <1>11, <2>2 DEF Write, Statuses
    <3>2. status' \in [Id -> Statuses]
      BY <3>1, StatusType
    <3>3. /\ packet' = [packet EXCEPT ![l] = None] /\ reply' = [reply EXCEPT ![l] = None]
          /\ phase' = [phase EXCEPT ![l] = "read"] /\ UNCHANGED <<open, queue, port>>
      BY <1>11, <2>2 DEF Write
    <3> QED
      BY <2>1, <3>2, <3>3 DEF DnsTypeOK, Phases
  <2>3. CASE l # open
    BY <1>11, <2>1, <2>3, AppEndsType DEF Write, DnsTypeOK
  <2> QED
    BY <2>2, <2>3
<1>12. CASE UNCHANGED dnsVars
  BY <1>12 DEF dnsVars, DnsTypeOK, loops, network
<1>13. ASSUME NEW l \in Loop, LookupThrows(l) PROVE DnsTypeOK'
  BY <1>13, AppEndsType DEF LookupThrows, DnsTypeOK, network
<1> QED
  BY <1>1, <1>2, <1>3, <1>4, <1>5, <1>6, <1>7, <1>8, <1>9, <1>10, <1>11, <1>12, <1>13 DEF DnsNext

-------------------------------------------------------------------------------
(***************************************************************************)
(* Hands                                                                   *)
(***************************************************************************)
LEMMA EndsHands ==
  ASSUME Hands, NEW l \in Loop, phase[l] # "none", Ends({l}), queue' = queue, starts' = starts
  PROVE  StartOK' /\ QueueOK' /\ HandOK'
<1>0. DnsTypeOK /\ StartOK /\ QueueOK /\ HandOK
  BY DEF Hands
<1>1. \A q \in Id : status'[q] = IF packet[l] = q THEN "dropped" ELSE status[q]
  <2>1. InHand({l}) = {q \in Id : packet[l] = q}
    BY DEF InHand
  <2> QED
    BY <2>1 DEF Ends, Becomes
<1>2. \A k \in Loop : /\ phase'[k] = IF k = l THEN "ended" ELSE phase[k]
                      /\ packet'[k] = IF k = l THEN None ELSE packet[k]
  BY DEF Ends
<1>3. \A i \in 1..Len(queue) : queue[i] \in Id /\ queue[i] # packet[l]
  BY <1>0, LoopFacts DEF QueueOK, HandOK, DnsTypeOK
<1>4. StartOK'
  BY <1>0, <1>2 DEF StartOK
<1>5. QueueOK'
  BY <1>0, <1>1, <1>3 DEF QueueOK
<1>6. HandOK'
  <2>1. \A k \in Loop : phase'[k] \in Busy => k # l /\ phase[k] \in Busy /\ packet'[k] = packet[k]
    BY <1>2 DEF Busy
  <2>2. \A k \in Loop : phase[k] \in Busy => packet[k] \in Id /\ status[packet[k]] = "hand"
    BY <1>0 DEF HandOK
  <2>3. \A k \in Loop : k # l /\ packet[k] # None => packet[k] # packet[l]
    BY <1>0 DEF HandOK
  <2>4. \A k \in Loop : phase'[k] \in Busy => packet'[k] \in Id /\ status'[packet'[k]] = "hand"
    BY <1>1, <2>1, <2>2, <2>3, LoopFacts
  <2>5. \A k \in Loop : phase'[k] \notin Busy => packet'[k] = None
    BY <1>0, <1>2 DEF HandOK, Busy
  <2>6. \A k, m \in Loop : k # m /\ packet'[k] # None => packet'[k] # packet'[m]
    BY <1>0, <1>2 DEF HandOK
  <2> QED
    BY <2>4, <2>5, <2>6 DEF HandOK
<1> QED
  BY <1>4, <1>5, <1>6

LEMMA DecidesHands ==
  ASSUME Hands, NEW l \in Loop, phase[l] \in Busy, NEW p \in Busy, NEW a, Decides(l, p, a)
  PROVE  StartOK' /\ QueueOK' /\ HandOK'
<1> USE LoopFacts DEF Hands, DnsTypeOK
<1>1. \A k \in Loop : phase'[k] = IF k = l THEN p ELSE phase[k]
  BY DEF Decides
<1>2. UNCHANGED <<queue, status, packet, starts>>
  BY DEF Decides
<1> QED
  BY <1>1, <1>2 DEF StartOK, QueueOK, HandOK, Busy

LEMMA HandledHands ==
  ASSUME Hands, NEW l \in Loop, phase[l] \in Busy, NEW a, Handled(l, a)
  PROVE  StartOK' /\ QueueOK' /\ HandOK'
<1>1. CASE l = open
  <2>1. Decides(l, "write", a)
    BY <1>1 DEF Handled
  <2> QED
    BY <2>1, DecidesHands DEF Busy
<1>2. CASE l # open
  <2>1. Ends({l}) /\ queue' = queue /\ starts' = starts
    BY <1>2 DEF Handled
  <2> QED
    BY <2>1, EndsHands DEF Busy
<1> QED
  BY <1>1, <1>2

LEMMA AppEndsHands ==
  ASSUME Hands, AppEnds, starts' = starts PROVE StartOK' /\ QueueOK' /\ HandOK'
<1>1. /\ queue' = <<>>
      /\ \A k \in Loop : phase'[k] \in {"none", "ended"} /\ packet'[k] = None
      /\ \A k \in Loop : phase[k] = "none" => phase'[k] = "none"
  BY DEF AppEnds
<1> QED
  BY <1>1, LoopFacts DEF Hands, StartOK, QueueOK, HandOK, Busy

LEMMA HandsStep == Hands /\ [DnsNext]_dnsVars => StartOK' /\ QueueOK' /\ HandOK'
<1> SUFFICES ASSUME Hands, [DnsNext]_dnsVars PROVE StartOK' /\ QueueOK' /\ HandOK'
  OBVIOUS
<1>0. DnsTypeOK /\ StartOK /\ QueueOK /\ HandOK
  BY DEF Hands
<1> USE LoopFacts, LimitAssumption
<1>1. ASSUME NEW set \in SUBSET Domain, StartVpn(set) PROVE StartOK' /\ QueueOK' /\ HandOK'
  <2>1. UNCHANGED <<queue, status, packet>> /\ starts' = starts + 1 /\ starts + 1 \in Loop
    BY <1>0, <1>1 DEF StartVpn, DnsTypeOK, Loop
  <2>2. \A k \in Loop : phase'[k] = IF k = starts + 1 THEN "read" ELSE phase[k]
    BY <1>0, <1>1 DEF StartVpn, DnsTypeOK
  <2>3. phase[starts + 1] = "none"
    BY <1>0, <2>1 DEF StartOK, DnsTypeOK
  <2>4. StartOK'
    <3>1. \A k \in Loop : k > starts + 1 => k # starts + 1 /\ k > starts
      BY <1>0 DEF Loop, DnsTypeOK
    <3> QED
      BY <1>0, <2>1, <2>2, <3>1 DEF StartOK
  <2>5. QueueOK'
    BY <1>0, <2>1 DEF QueueOK
  <2>6. HandOK'
    BY <1>0, <2>1, <2>2, <2>3 DEF HandOK, Busy
  <2> QED
    BY <2>4, <2>5, <2>6
<1>2. ASSUME NEW set \in SUBSET Domain, UpdateDomains(set) PROVE StartOK' /\ QueueOK' /\ HandOK'
  BY <1>0, <1>2 DEF UpdateDomains, loops, StartOK, QueueOK, HandOK
<1>3. CASE StopVpn
  <2>1. queue' = <<>> /\ UNCHANGED <<phase, packet, starts>>
        /\ \A q \in Id : status'[q] = IF q \in ToSet(queue) THEN "dropped" ELSE status[q]
    BY <1>3 DEF StopVpn, loops, Becomes
  <2>2. \A q \in ToSet(queue) : status[q] = "queued"
    BY <1>0 DEF QueueOK, ToSet, DnsTypeOK
  <2> QED
    BY <1>0, <2>1, <2>2 DEF StartOK, QueueOK, HandOK, DnsTypeOK
<1>4. ASSUME NEW q \in Id, Ask(q) PROVE StartOK' /\ QueueOK' /\ HandOK'
  <2>1. queue' = Append(queue, q) /\ UNCHANGED <<phase, packet, starts>> /\ status[q] = "new"
        /\ \A r \in Id : status'[r] = IF r = q THEN "queued" ELSE status[r]
    BY <1>4 DEF Ask, loops, Becomes
  <2>2. /\ Len(queue') = Len(queue) + 1 /\ queue'[Len(queue) + 1] = q
        /\ \A i \in 1..Len(queue) : queue'[i] = queue[i] /\ queue[i] \in Id /\ queue[i] # q
    BY <1>0, <2>1 DEF QueueOK, DnsTypeOK
  <2>3. QueueOK'
    BY <1>0, <2>1, <2>2 DEF QueueOK, DnsTypeOK
  <2> QED
    BY <1>0, <2>1, <2>3 DEF StartOK, HandOK, DnsTypeOK
<1>5. ASSUME NEW l \in Loop, Read(l) PROVE StartOK' /\ QueueOK' /\ HandOK'
  <2> DEFINE h == Head(queue)
  <2>1. /\ queue' = Tail(queue) /\ starts' = starts /\ phase[l] = "read"
        /\ \A r \in Id : status'[r] = IF r = h THEN "hand" ELSE status[r]
        /\ \A k \in Loop : phase'[k] = IF k = l THEN "lookup" ELSE phase[k]
        /\ \A k \in Loop : packet'[k] = IF k = l THEN h ELSE packet[k]
    BY <1>0, <1>5 DEF Read, Becomes, DnsTypeOK
  <2>2. /\ h = queue[1] /\ h \in Id /\ status[h] = "queued"
        /\ Len(queue') = Len(queue) - 1
        /\ \A i \in 1..Len(queue') : i + 1 \in 1..Len(queue) /\ queue'[i] = queue[i + 1]
                                     /\ queue'[i] \in Id /\ queue'[i] # h
    BY <1>0, <1>5, <2>1 DEF Read, QueueOK, DnsTypeOK
  <2>3. QueueOK'
    <3>1. \A i \in 1..Len(queue') : status'[queue'[i]] = "queued"
      BY <1>0, <2>1, <2>2 DEF QueueOK
    <3>2. \A i, j \in 1..Len(queue') : i # j => queue'[i] # queue'[j]
      BY <1>0, <2>2 DEF QueueOK
    <3> QED
      BY <3>1, <3>2 DEF QueueOK
  <2>4. \A k \in Loop : packet[k] # h
    BY <1>0, <2>2 DEF HandOK
  <2> HIDE DEF h
  <2>5. HandOK'
    BY <1>0, <2>1, <2>2, <2>4 DEF HandOK, Busy
  <2> QED
    BY <1>0, <2>1, <2>3, <2>5 DEF StartOK
<1>6. ASSUME NEW l \in Loop, Cancelled(l) \/ ReadFails(l) PROVE StartOK' /\ QueueOK' /\ HandOK'
  BY <1>6, EndsHands DEF Cancelled, ReadFails
<1>7. ASSUME NEW l \in Loop, Lookup(l) PROVE StartOK' /\ QueueOK' /\ HandOK'
  <2>1. phase[l] \in Busy /\ \E p \in Busy, a \in {"back", "refuse", None} : Decides(l, p, a)
    BY <1>7 DEF Lookup, Busy
  <2> QED
    BY <2>1, DecidesHands
<1>8. ASSUME NEW l \in Loop, NEW p \in Port, Send(l, p) PROVE StartOK' /\ QueueOK' /\ HandOK'
  BY <1>8, DecidesHands DEF Send, Busy
<1>9. ASSUME NEW l \in Loop, NEW q \in Id, Receive(l, q) PROVE StartOK' /\ QueueOK' /\ HandOK'
  BY <1>9, HandledHands DEF Receive, Busy
<1>10. ASSUME NEW l \in Loop, Fail(l) PROVE StartOK' /\ QueueOK' /\ HandOK'
  BY <1>10, HandledHands DEF Fail, Busy
<1>11. ASSUME NEW l \in Loop, Write(l) PROVE StartOK' /\ QueueOK' /\ HandOK'
  <2>1. phase[l] = "write" /\ starts' = starts
    BY <1>11 DEF Write
  <2>2. CASE l = open
    <3>1. /\ UNCHANGED queue
          /\ \A k \in Loop : phase'[k] = IF k = l THEN "read" ELSE phase[k]
          /\ \A k \in Loop : packet'[k] = IF k = l THEN None ELSE packet[k]
          /\ \A q \in Id : q # packet[l] => status'[q] = status[q]
      BY <1>0, <1>11, <2>2 DEF Write, Becomes, DnsTypeOK
    <3>2. QueueOK'
      <4>1. \A i \in 1..Len(queue) : queue[i] \in Id /\ queue[i] # packet[l]
        BY <1>0, <2>1 DEF QueueOK, HandOK, Busy, DnsTypeOK
      <4> QED
        BY <1>0, <3>1, <4>1 DEF QueueOK
    <3>3. HandOK'
      BY <1>0, <2>1, <3>1 DEF HandOK, Busy
    <3> QED
      BY <1>0, <2>1, <3>1, <3>2, <3>3 DEF StartOK, DnsTypeOK
  <2>3. CASE l # open
    BY <1>11, <2>1, <2>3, AppEndsHands DEF Write
  <2> QED
    BY <2>2, <2>3
<1>12. CASE UNCHANGED dnsVars
  BY <1>0, <1>12 DEF dnsVars, StartOK, QueueOK, HandOK, loops, network
<1>13. ASSUME NEW l \in Loop, LookupThrows(l) PROVE StartOK' /\ QueueOK' /\ HandOK'
  BY <1>13, AppEndsHands DEF LookupThrows
<1> QED
  BY <1>1, <1>2, <1>3, <1>4, <1>5, <1>6, <1>7, <1>8, <1>9, <1>10, <1>11, <1>12, <1>13 DEF DnsNext

-------------------------------------------------------------------------------
(***************************************************************************)
(* What goes upstream                                                      *)
(***************************************************************************)
LEMMA HandledMoves ==
  ASSUME DnsTypeOK, NEW l \in Loop, NEW a, Handled(l, a)
  PROVE  /\ \A k \in Loop : phase'[k] \in Busy /\ k # l =>
              /\ phase'[k] = phase[k] /\ packet'[k] = packet[k]
              /\ port'[k] = port[k] /\ reply'[k] = reply[k]
         /\ phase'[l] \in {"write", "ended"} /\ (phase'[l] = "write" => reply'[l] = a)
         /\ phase'[l] = "write" => packet'[l] = packet[l]
<1>0. port' = [port EXCEPT ![l] = None]
  BY DEF Handled
<1>1. CASE l = open
  <2>1. /\ phase' = [phase EXCEPT ![l] = "write"] /\ reply' = [reply EXCEPT ![l] = a]
        /\ packet' = packet
    BY <1>1 DEF Handled, Decides
  <2> QED
    BY <1>0, <2>1 DEF DnsTypeOK
<1>2. CASE l # open
  <2>1. Ends({l})
    BY <1>2 DEF Handled
  <2>2. \A k \in Loop : k # l => /\ phase'[k] = phase[k] /\ packet'[k] = packet[k]
                                /\ reply'[k] = reply[k]
    BY <2>1 DEF Ends
  <2>3. phase'[l] = "ended"
    BY <2>1 DEF Ends
  <2> QED
    BY <1>0, <2>2, <2>3 DEF DnsTypeOK
<1> QED
  BY <1>1, <1>2

LEMMA UpstreamKept ==
  ASSUME UpstreamOK, sent \subseteq sent',
         \A l \in Loop : phase'[l] \in {"wait", "write"} =>
           \/ phase[l] = phase'[l] /\ packet'[l] = packet[l] /\ reply'[l] = reply[l]
           \/ packet'[l] \in sent'
           \/ phase'[l] = "write" /\ reply'[l] \in {"refuse", "back"}
  PROVE  UpstreamOK'
BY DEF UpstreamOK

(* A loop comes to wait by forwarding its query, and has an answer only    *)
(* from there.                                                             *)
LEMMA UpstreamStep == DnsTypeOK /\ UpstreamOK /\ [DnsNext]_dnsVars => UpstreamOK'
<1> SUFFICES ASSUME DnsTypeOK, UpstreamOK, [DnsNext]_dnsVars PROVE UpstreamOK'
  OBVIOUS
<1>1. ASSUME NEW set \in SUBSET Domain, StartVpn(set) PROVE UpstreamOK'
  <2>1. UNCHANGED <<packet, reply, sent>>
        /\ \A k \in Loop : phase'[k] \in {"wait", "write"} => phase'[k] = phase[k]
    BY <1>1 DEF StartVpn, DnsTypeOK, network
  <2> QED
    BY <2>1, UpstreamKept
<1>2. CASE UNCHANGED <<phase, packet, reply, sent>>
  BY <1>2, UpstreamKept
<1>3. ASSUME NEW l \in Loop,
             Read(l) \/ ReadFails(l) \/ Cancelled(l) \/ Lookup(l) \/ LookupThrows(l) \/ Write(l)
      PROVE  UpstreamOK'
  <2>1. CASE Read(l)
    BY <2>1, UpstreamKept DEF Read, DnsTypeOK, network
  <2>2. CASE Cancelled(l) \/ ReadFails(l)
    BY <2>2, UpstreamKept DEF Cancelled, ReadFails, Ends, network
  <2>3. CASE Lookup(l)
    <3>1. /\ UNCHANGED <<packet, sent>>
          /\ \A k \in Loop : k # l => phase'[k] = phase[k] /\ reply'[k] = reply[k]
          /\ phase'[l] # "wait" /\ (phase'[l] = "write" => reply'[l] \in {"refuse", "back"})
      BY <2>3 DEF Lookup, Decides, network, DnsTypeOK
    <3> QED
      BY <3>1, UpstreamKept
  <2>4. CASE Write(l)
    <3>1. sent' = sent /\ \A k \in Loop : phase'[k] \in {"wait", "write"} =>
            phase'[k] = phase[k] /\ packet'[k] = packet[k] /\ reply'[k] = reply[k]
      BY <2>4 DEF Write, AppEnds, DnsTypeOK, network
    <3> QED
      BY <3>1, UpstreamKept
  <2>5. CASE LookupThrows(l)
    BY <2>5, UpstreamKept DEF LookupThrows, AppEnds, network
  <2> QED
    BY <1>3, <2>1, <2>2, <2>3, <2>4, <2>5
<1>4. ASSUME NEW l \in Loop, NEW p \in Port, Send(l, p) PROVE UpstreamOK'
  <2>1. /\ \A k \in Loop : k # l => phase'[k] = phase[k] /\ reply'[k] = reply[k]
        /\ packet' = packet /\ sent' = sent \cup {packet[l]}
    BY <1>4 DEF Send, Decides, DnsTypeOK
  <2> QED
    BY <2>1, UpstreamKept
<1>5. ASSUME NEW l \in Loop, NEW a, Handled(l, a), sent' = sent,
             a = "back" \/ packet[l] \in sent
      PROVE  UpstreamOK'
  BY <1>5, HandledMoves, UpstreamKept DEF Busy
<1>6. ASSUME NEW l \in Loop, NEW q \in Id, Receive(l, q) PROVE UpstreamOK'
  <2>1. packet[l] \in sent
    BY <1>6 DEF Receive, UpstreamOK
  <2> QED
    BY <1>5, <1>6, <2>1 DEF Receive
<1>7. ASSUME NEW l \in Loop, Fail(l) PROVE UpstreamOK'
  BY <1>5, <1>7 DEF Fail, network
<1>8. ASSUME (\E set \in SUBSET Domain : UpdateDomains(set)) \/ StopVpn \/ (\E q \in Id : Ask(q))
             \/ UNCHANGED dnsVars
      PROVE  UNCHANGED <<phase, packet, reply, sent>>
  BY <1>8 DEF UpdateDomains, StopVpn, Ask, dnsVars, loops, network
<1> QED
  BY <1>1, <1>2, <1>3, <1>4, <1>6, <1>7, <1>8 DEF DnsNext

-------------------------------------------------------------------------------
(***************************************************************************)
(* Answers fit                                                             *)
(***************************************************************************)
LEMMA PortKept ==
  ASSUME PortOK, reused' = reused, flight' \subseteq flight,
         \A l \in Loop : phase'[l] = "wait" =>
           phase[l] = "wait" /\ packet'[l] = packet[l] /\ port'[l] = port[l],
         \A l \in Loop \ reused : phase'[l] = "write" =>
           \/ phase[l] = "write" /\ packet'[l] = packet[l] /\ reply'[l] = reply[l]
           \/ reply'[l] \in {packet'[l], "refuse", "back"}
  PROVE  PortOK'
BY DEF PortOK, AnswerFits

LEMMA PortStep == Hands /\ PortOK /\ [DnsNext]_dnsVars => PortOK'
<1> SUFFICES ASSUME Hands, PortOK, [DnsNext]_dnsVars PROVE PortOK'
  OBVIOUS
<1>0. DnsTypeOK /\ HandOK
  BY DEF Hands
<1> HIDE DEF PortOK
<1>1. ASSUME NEW set \in SUBSET Domain, StartVpn(set) PROVE PortOK'
  <2>1. UNCHANGED <<packet, port, reply, flight, reused>>
        /\ \A k \in Loop : phase'[k] \in Busy => phase'[k] = phase[k]
    BY <1>0, <1>1 DEF StartVpn, DnsTypeOK, network, Busy
  <2> QED
    BY <2>1, PortKept DEF Busy
<1>2. CASE UNCHANGED <<phase, packet, port, reply, flight, reused>>
  BY <1>2, PortKept
<1>3. ASSUME NEW l \in Loop, Read(l) PROVE PortOK'
  <2>1. UNCHANGED <<port, reply, flight, reused>>
        /\ \A k \in Loop : phase'[k] \in {"wait", "write"} =>
             phase'[k] = phase[k] /\ packet'[k] = packet[k]
    BY <1>0, <1>3 DEF Read, DnsTypeOK, network
  <2> QED
    BY <2>1, PortKept
<1>4. ASSUME NEW l \in Loop, Cancelled(l) \/ ReadFails(l) PROVE PortOK'
  <2>1. UNCHANGED <<flight, reused>>
        /\ \A k \in Loop : phase'[k] \in {"wait", "write"} =>
             /\ phase'[k] = phase[k] /\ packet'[k] = packet[k]
             /\ port'[k] = port[k] /\ reply'[k] = reply[k]
    BY <1>4 DEF Cancelled, ReadFails, Ends, network
  <2> QED
    BY <2>1, PortKept
<1>5. ASSUME NEW l \in Loop, Lookup(l) PROVE PortOK'
  <2>1. /\ UNCHANGED <<packet, port, flight, reused>>
        /\ \A k \in Loop : k # l => phase'[k] = phase[k] /\ reply'[k] = reply[k]
        /\ phase'[l] # "wait" /\ (phase'[l] = "write" => reply'[l] \in {"refuse", "back"})
    BY <1>0, <1>5 DEF Lookup, Decides, network, DnsTypeOK
  <2> QED
    BY <2>1, PortKept
<1>6. ASSUME NEW l \in Loop, NEW p \in Port, Send(l, p) PROVE PortOK'
  <2>1. /\ \A k \in Loop : k # l => /\ phase'[k] = phase[k] /\ reply'[k] = reply[k]
                                    /\ port'[k] = port[k] /\ port[k] # p
        /\ phase'[l] = "wait" /\ port'[l] = p /\ packet' = packet
        /\ flight' = flight \cup {<<packet[l], p>>}
    BY <1>0, <1>6 DEF Send, Decides, DnsTypeOK
  <2>2. /\ \A k \in Loop : k # l => (k \in reused' <=> k \in reused)
        /\ l \notin reused' => \A q \in Id : <<q, p>> \notin flight
    BY <1>6 DEF Send
  <2>3. \A k \in Loop : phase'[k] = "wait" => port'[k] # None
    BY <2>1, LoopFacts DEF PortOK
  <2>4. \A k \in Loop \ reused' : phase'[k] = "wait" =>
          \A q \in Id : <<q, port'[k]>> \in flight' => q = packet'[k]
    BY <2>1, <2>2 DEF PortOK
  <2>5. AnswerFits'
    BY <2>1, <2>2 DEF PortOK, AnswerFits
  <2> QED
    BY <2>3, <2>4, <2>5 DEF PortOK
<1>7. ASSUME NEW l \in Loop, NEW a, Handled(l, a), UNCHANGED reused, flight' \subseteq flight,
             l \notin reused => a \in {packet[l], "refuse", "back"}
      PROVE  PortOK'
  <2>1. \A k \in Loop : phase'[k] = "wait" =>
          phase[k] = "wait" /\ packet'[k] = packet[k] /\ port'[k] = port[k]
    BY <1>0, <1>7, HandledMoves DEF Busy
  <2>2. \A k \in Loop \ reused : phase'[k] = "write" =>
          \/ phase[k] = "write" /\ packet'[k] = packet[k] /\ reply'[k] = reply[k]
          \/ reply'[k] \in {packet'[k], "refuse", "back"}
    BY <1>0, <1>7, HandledMoves DEF Busy
  <2> QED
    BY <1>7, <2>1, <2>2, PortKept
<1>8. ASSUME NEW l \in Loop, NEW q \in Id, Receive(l, q) PROVE PortOK'
  <2>1. /\ Handled(l, q) /\ UNCHANGED reused /\ flight' \subseteq flight
        /\ phase[l] = "wait" /\ <<q, port[l]>> \in flight
    BY <1>8 DEF Receive
  <2>2. l \notin reused => q = packet[l]
    BY <2>1 DEF PortOK
  <2> QED
    BY <1>7, <2>1, <2>2
<1>9. ASSUME NEW l \in Loop, Fail(l) PROVE PortOK'
  BY <1>7, <1>9 DEF Fail, network
<1>10. ASSUME NEW l \in Loop, Write(l) \/ LookupThrows(l) PROVE PortOK'
  <2>1. UNCHANGED <<flight, reused>>
        /\ \A k \in Loop : phase'[k] \in {"wait", "write"} =>
             /\ phase'[k] = phase[k] /\ packet'[k] = packet[k]
             /\ port'[k] = port[k] /\ reply'[k] = reply[k]
    BY <1>0, <1>10 DEF Write, LookupThrows, AppEnds, DnsTypeOK, network
  <2> QED
    BY <2>1, PortKept
<1>11. ASSUME UpdateDomains(blocked') \/ StopVpn \/ (\E q \in Id : Ask(q)) \/ UNCHANGED dnsVars
       PROVE  UNCHANGED <<phase, packet, port, reply, flight, reused>>
  BY <1>11 DEF UpdateDomains, StopVpn, Ask, dnsVars, loops, network
<1>12. ASSUME NEW set \in SUBSET Domain, UpdateDomains(set) PROVE UpdateDomains(blocked')
  BY <1>12 DEF UpdateDomains
<1> QED
  BY <1>1, <1>2, <1>3, <1>4, <1>5, <1>6, <1>8, <1>9, <1>10, <1>11, <1>12 DEF DnsNext

-------------------------------------------------------------------------------
(***************************************************************************)
(* Theorems                                                                *)
(***************************************************************************)
DnsInv == Hands /\ UpstreamOK /\ PortOK

LEMMA DnsInitOK == DnsInit => DnsInv
<1> SUFFICES ASSUME DnsInit PROVE DnsInv
  OBVIOUS
<1>1. DnsTypeOK
  BY LimitAssumption DEF DnsInit, DnsTypeOK, Statuses, Phases
<1>2. StartOK /\ QueueOK /\ HandOK
  BY DEF DnsInit, StartOK, QueueOK, HandOK, Busy
<1>3. UpstreamOK /\ PortOK
  BY DEF DnsInit, UpstreamOK, PortOK, AnswerFits
<1> QED
  BY <1>1, <1>2, <1>3 DEF DnsInv, Hands

LEMMA DnsInvariance == DnsSpec => []DnsInv
<1>1. DnsInit => DnsInv
  BY DnsInitOK
<1>2. DnsInv /\ [DnsNext]_dnsVars => DnsInv'
  <2> SUFFICES ASSUME DnsInv, [DnsNext]_dnsVars PROVE DnsInv'
    OBVIOUS
  <2>1. DnsTypeOK'
    BY DnsTypeStep DEF DnsInv
  <2>2. StartOK' /\ QueueOK' /\ HandOK'
    BY HandsStep DEF DnsInv
  <2>3. UpstreamOK' /\ PortOK'
    BY UpstreamStep, PortStep DEF DnsInv, Hands
  <2> QED
    BY <2>1, <2>2, <2>3 DEF DnsInv, Hands
<1> QED
  BY <1>1, <1>2, PTL DEF DnsSpec

(* Every variable keeps its type: what is forwarded and answered is always *)
(* a query, never an empty hand.                                           *)
THEOREM DnsTypeCorrect == DnsSpec => []DnsTypeOK
<1>1. DnsInv => DnsTypeOK
  BY DEF DnsInv, Hands
<1> QED
  BY <1>1, DnsInvariance, PTL

(* A loop writes back the answer to its own query, or the refusal, or the  *)
(* query itself, unless the port of its socket had been another query's,   *)
(* however late answers come and however many loops run side by side.      *)
THEOREM AnswerFitsHolds == DnsSpec => []AnswerFits
<1>1. DnsInv => AnswerFits
  BY DEF DnsInv, PortOK
<1> QED
  BY <1>1, DnsInvariance, PTL

-------------------------------------------------------------------------------
(***************************************************************************)
(* The loop implements DnsResolver                                         *)
(***************************************************************************)
(* The fate of a query is unchanged where its loop's verdict is.           *)
LEMMA SameFate ==
  ASSUME UNCHANGED <<status, packet>>, Refusing' = Refusing, Allowed' = Allowed
  PROVE  Fate' = Fate
BY DEF Fate, InHand

LEMMA SameVerdicts ==
  ASSUME reply' = reply,
         \A k \in Loop : phase[k] \in {"send", "wait", "write"}
                           \/ phase'[k] \in {"send", "wait", "write"} => phase'[k] = phase[k]
  PROVE  Refusing' = Refusing /\ Allowed' = Allowed
BY DEF Refusing, Allowed

(* The fate of a query in hand is the verdict of the loop that has it.     *)
LEMMA HeldFate ==
  ASSUME HandOK, NEW l \in Loop, phase[l] \in Busy
  PROVE  /\ packet[l] \in Id /\ packet[l] # None
         /\ Fate[packet[l]] = IF l \in Refusing THEN "refusing"
                              ELSE IF l \in Allowed THEN "allowed" ELSE "asked"
<1>1. packet[l] \in Id /\ status[packet[l]] = "hand" /\ packet[l] # None
  BY LoopFacts DEF HandOK
<1>2. \A set \in SUBSET Loop : packet[l] \in InHand(set) <=> l \in set
  BY <1>1 DEF HandOK, InHand
<1>3. Refusing \in SUBSET Loop /\ Allowed \in SUBSET Loop
  BY DEF Refusing, Allowed
<1> QED
  BY <1>1, <1>2, <1>3 DEF Fate

(* A step of one loop changes the fate of no other loop's query.           *)
LEMMA OtherFates ==
  ASSUME NEW l \in Loop, packet'[l] = packet[l] \/ packet'[l] = None,
         \A k \in Loop \ {l} : /\ packet'[k] = packet[k]
                               /\ phase'[k] = phase[k] /\ reply'[k] = reply[k],
         NEW q \in Id, q # packet[l], status'[q] = status[q]
  PROVE  Fate'[q] = Fate[q]
<1>1. q \in InHand(Refusing)' <=> q \in InHand(Refusing)
  BY LoopFacts DEF InHand, Refusing
<1>2. q \in InHand(Allowed)' <=> q \in InHand(Allowed)
  BY LoopFacts DEF InHand, Refusing, Allowed
<1> QED
  BY <1>1, <1>2 DEF Fate

(* Queries are dropped from the interface and from the hands of loops.     *)
LEMMA DropStep ==
  ASSUME HandOK, UNCHANGED <<blocked, name, sent>>,
         NEW queries \in SUBSET Id, Becomes(queries, "dropped"),
         \A q \in queries : status[q] \in {"queued", "hand"},
         \A k \in Loop : packet[k] \in queries \cup {None} => packet'[k] = None,
         \A k \in Loop : packet[k] \notin queries \cup {None} =>
           packet'[k] = packet[k] /\ phase'[k] = phase[k] /\ reply'[k] = reply[k]
  PROVE  Resolver!Drop(queries)
<1>1. \A q \in queries : Fate[q] \in {"asked", "refusing", "allowed"}
  BY DEF Fate
<1>2. \A q \in Id : status'[q] = IF q \in queries THEN "dropped" ELSE status[q]
  BY DEF Becomes
<1>3. ASSUME NEW q \in queries PROVE Fate'[q] = "dropped"
  <2>1. \A k \in Loop : packet'[k] # q
    BY <1>3, LoopFacts
  <2>2. q \notin InHand(Refusing)' /\ q \notin InHand(Allowed)'
    BY <2>1 DEF InHand, Refusing, Allowed
  <2> QED
    BY <1>2, <1>3, <2>2 DEF Fate
<1>4. ASSUME NEW q \in Id \ queries PROVE Fate'[q] = Fate[q]
  <2>1. \A k \in Loop : packet'[k] = q <=> packet[k] = q
    BY <1>4, LoopFacts
  <2>2. \A k \in Loop : packet[k] = q => phase'[k] = phase[k] /\ reply'[k] = reply[k]
    BY <1>4, LoopFacts
  <2>3. q \in InHand(Refusing)' <=> q \in InHand(Refusing)
    BY <2>1, <2>2 DEF InHand, Refusing
  <2>4. q \in InHand(Allowed)' <=> q \in InHand(Allowed)
    BY <2>1, <2>2 DEF InHand, Refusing, Allowed
  <2> QED
    BY <1>2, <1>4, <2>3, <2>4 DEF Fate
<1>5. Fate' = [q \in Id |-> IF q \in queries THEN "dropped" ELSE Fate[q]]
  BY <1>3, <1>4 DEF Fate
<1> QED
  BY <1>1, <1>5 DEF Resolver!Drop, Resolver!Become

LEMMA EndsDrops ==
  ASSUME HandOK, NEW l \in Loop, Ends({l}), UNCHANGED <<blocked, name, sent>>
  PROVE  \E queries \in SUBSET Id : Resolver!Drop(queries)
<1> DEFINE queries == InHand({l})
<1>1. queries = {q \in Id : packet[l] = q} /\ Becomes(queries, "dropped")
  BY DEF InHand, Ends
<1>2. \A q \in queries : status[q] \in {"queued", "hand"}
  BY <1>1, LoopFacts DEF HandOK
<1>3. \A k \in Loop : packet[k] \in queries \cup {None} => packet'[k] = None
  BY <1>1, LoopFacts DEF Ends, HandOK
<1>4. \A k \in Loop : packet[k] \notin queries \cup {None} =>
        packet'[k] = packet[k] /\ phase'[k] = phase[k] /\ reply'[k] = reply[k]
  BY <1>1, LoopFacts DEF Ends, HandOK, Busy
<1> HIDE DEF queries
<1>5. queries \in SUBSET Id
  BY <1>1
<1> QED
  BY <1>1, <1>2, <1>3, <1>4, <1>5, DropStep

LEMMA AppEndsDrops ==
  ASSUME Hands, AppEnds, UNCHANGED <<blocked, name, sent>>
  PROVE  \E queries \in SUBSET Id : Resolver!Drop(queries)
<1> DEFINE queries == ToSet(queue) \cup InHand(Loop)
<1>0. DnsTypeOK /\ QueueOK /\ HandOK
  BY DEF Hands
<1>1. Becomes(queries, "dropped") /\ \A k \in Loop : packet'[k] = None
  BY DEF AppEnds
<1>2. queries \in SUBSET Id /\ \A q \in queries : status[q] \in {"queued", "hand"}
  BY <1>0, LoopFacts DEF QueueOK, HandOK, InHand, ToSet, DnsTypeOK
<1>3. \A k \in Loop : packet[k] \in queries \cup {None}
  BY <1>0 DEF InHand, DnsTypeOK
<1> HIDE DEF queries
<1> QED
  BY <1>0, <1>1, <1>2, <1>3, DropStep

(* The loop begins as DnsResolver does. *)
LEMMA ResolverInit == DnsInit => Resolver!Init
BY DEF DnsInit, Resolver!Init, Fate, InHand, Refusing, Allowed

(* Looking up a name is the judgement, the send is the forwarding, the     *)
(* write is the refusal or the answer, and whatever goes wrong drops       *)
(* queries.                                                                *)
LEMMA ResolverStep ==
  Hands /\ HandOK' /\ UpstreamOK /\ [DnsNext]_dnsVars => [Resolver!Next]_(Resolver!vars)
<1> SUFFICES ASSUME Hands, HandOK', UpstreamOK, [DnsNext]_dnsVars
             PROVE  [Resolver!Next]_(Resolver!vars)
  OBVIOUS
<1>0. DnsTypeOK /\ StartOK /\ QueueOK /\ HandOK
  BY DEF Hands
<1> DEFINE Stutters == UNCHANGED <<blocked, name, Fate, sent>>
<1>a. Stutters => [Resolver!Next]_(Resolver!vars)
  BY DEF Resolver!vars
<1>b. (\E queries \in SUBSET Id : Resolver!Drop(queries)) => [Resolver!Next]_(Resolver!vars)
  BY DEF Resolver!Next
<1>1. ASSUME NEW set \in SUBSET Domain, StartVpn(set) PROVE Resolver!Update(set)
  <2>1. UNCHANGED <<status, packet, reply, name, sent>> /\ blocked' = set
    BY <1>1 DEF StartVpn, network
  <2>2. starts + 1 \in Loop /\ phase[starts + 1] = "none"
    BY <1>0, <1>1, LimitAssumption DEF StartVpn, StartOK, DnsTypeOK, Loop
  <2>3. Refusing' = Refusing /\ Allowed' = Allowed
    BY <1>0, <1>1, <2>1, <2>2, SameVerdicts DEF StartVpn, DnsTypeOK
  <2> QED
    BY <2>1, <2>3, SameFate DEF Resolver!Update
<1>2. ASSUME NEW set \in SUBSET Domain, UpdateDomains(set) PROVE Resolver!Update(set)
  <2>1. UNCHANGED <<status, packet, phase, reply, name, sent>> /\ blocked' = set
    BY <1>2 DEF UpdateDomains, network, loops
  <2>2. Refusing' = Refusing /\ Allowed' = Allowed
    BY <2>1, SameVerdicts
  <2> QED
    BY <2>1, <2>2, SameFate DEF Resolver!Update
<1>3. ASSUME StopVpn PROVE Resolver!Drop(ToSet(queue))
  <2>1. UNCHANGED <<blocked, name, sent, packet, phase, reply>> /\ Becomes(ToSet(queue), "dropped")
    BY <1>3 DEF StopVpn, loops, network
  <2>2. ToSet(queue) \in SUBSET Id /\ \A q \in ToSet(queue) : status[q] = "queued"
    BY <1>0 DEF QueueOK, ToSet, DnsTypeOK
  <2>3. \A k \in Loop : packet[k] \notin ToSet(queue)
    BY <1>0, <2>2, LoopFacts DEF HandOK
  <2> QED
    BY <1>0, <2>1, <2>2, <2>3, DropStep
<1>4. ASSUME NEW q \in Id, Ask(q) PROVE Resolver!Ask(q)
  <2>1. /\ UNCHANGED <<blocked, name, sent, packet, phase, reply>> /\ status[q] = "new"
        /\ \A r \in Id : status'[r] = IF r = q THEN "queued" ELSE status[r]
    BY <1>4 DEF Ask, loops, network, Becomes
  <2>2. \A k \in Loop : packet[k] # q
    BY <1>0, <2>1, LoopFacts DEF HandOK
  <2>3. Fate[q] = "new" /\ Fate'[q] = "asked"
    BY <2>1, <2>2 DEF Fate, InHand, Refusing, Allowed
  <2>4. \A r \in Id : r # q => Fate'[r] = Fate[r]
    BY <2>1 DEF Fate, InHand, Refusing, Allowed
  <2>5. Fate' = [r \in Id |-> IF r \in {q} THEN "asked" ELSE Fate[r]]
    BY <2>3, <2>4 DEF Fate
  <2> QED
    BY <2>1, <2>3, <2>5 DEF Resolver!Ask, Resolver!Become
<1>5. ASSUME NEW l \in Loop, Read(l) PROVE Stutters
  <2> DEFINE h == Head(queue)
  <2>1. /\ UNCHANGED <<blocked, name, sent, reply>> /\ h \in Id /\ status[h] = "queued"
        /\ \A r \in Id : status'[r] = IF r = h THEN "hand" ELSE status[r]
        /\ \A k \in Loop \ {l} : packet'[k] = packet[k] /\ phase'[k] = phase[k]
        /\ packet'[l] = h /\ phase[l] = "read" /\ phase'[l] = "lookup"
    BY <1>0, <1>5 DEF Read, Becomes, DnsTypeOK, QueueOK, network
  <2> HIDE DEF h
  <2>2. \A k \in Loop : packet[k] # h
    BY <1>0, <2>1, LoopFacts DEF HandOK
  <2>3. Refusing' = Refusing /\ Allowed' = Allowed /\ l \notin Refusing /\ l \notin Allowed
    BY <2>1 DEF Refusing, Allowed
  <2>4. InHand(Refusing)' = InHand(Refusing) /\ InHand(Allowed)' = InHand(Allowed)
    BY <2>1, <2>3 DEF InHand, Refusing, Allowed
  <2>5. Fate' = Fate
    BY <2>1, <2>2, <2>4 DEF Fate
  <2> QED
    BY <2>1, <2>5
<1>6. ASSUME NEW l \in Loop, Cancelled(l) \/ ReadFails(l)
      PROVE  \E queries \in SUBSET Id : Resolver!Drop(queries)
  BY <1>0, <1>6, EndsDrops DEF Cancelled, ReadFails, network
<1>7. ASSUME NEW l \in Loop, Lookup(l) PROVE Resolver!Judge(packet[l]) /\ packet[l] \in Id
  <2>1. /\ UNCHANGED <<blocked, name, sent, status, packet>> /\ phase[l] = "lookup"
        /\ \A k \in Loop \ {l} : phase'[k] = phase[k] /\ reply'[k] = reply[k]
    BY <1>0, <1>7 DEF Lookup, Decides, network, DnsTypeOK
  <2>2. /\ phase'[l] \in {"write", "send"}
        /\ IF Blocks(blocked, name[packet[l]]) THEN phase'[l] = "write" /\ reply'[l] = "refuse"
           ELSE reply'[l] # "refuse"
    BY <1>0, <1>7, NameAssumption DEF Lookup, Decides, Blocks, DnsTypeOK
  <2>3. packet[l] \in Id /\ Fate[packet[l]] = "asked"
    BY <1>0, <2>1, HeldFate DEF Refusing, Allowed, Busy
  <2>4. Resolver!Listed(packet[l]) <=> Blocks(blocked, name[packet[l]])
    BY DEF Resolver!Listed, Blocks
  <2>5. Fate'[packet[l]] = IF Resolver!Listed(packet[l]) THEN "refusing" ELSE "allowed"
    <3>1. \A k \in Loop : packet'[k] = packet[l] <=> k = l
      BY <1>0, <2>1, <2>3, LoopFacts DEF HandOK
    <3>2. CASE Resolver!Listed(packet[l])
      BY <2>2, <2>3, <2>4, <3>1, <3>2 DEF Fate, InHand, Refusing
    <3>3. CASE ~Resolver!Listed(packet[l])
      BY <2>2, <2>3, <2>4, <3>1, <3>3 DEF Fate, InHand, Refusing, Allowed
    <3> QED
      BY <3>2, <3>3
  <2>6. \A q \in Id : q # packet[l] => Fate'[q] = Fate[q]
    BY <2>1, OtherFates
  <2>7. Fate' = [q \in Id |-> IF q \in {packet[l]}
                   THEN IF Resolver!Listed(packet[l]) THEN "refusing" ELSE "allowed" ELSE Fate[q]]
    BY <2>5, <2>6 DEF Fate
  <2> QED
    BY <2>1, <2>3, <2>7 DEF Resolver!Judge, Resolver!Become
<1>8. ASSUME NEW l \in Loop, NEW p \in Port, Send(l, p) PROVE Resolver!Forward(packet[l]) /\ packet[l] \in Id
  <2>1. /\ UNCHANGED <<blocked, name, status, packet>> /\ sent' = sent \cup {packet[l]}
        /\ phase[l] = "send" /\ phase'[l] = "wait"
        /\ \A k \in Loop \ {l} : phase'[k] = phase[k] /\ reply'[k] = reply[k]
    BY <1>0, <1>8 DEF Send, Decides, DnsTypeOK
  <2>2. packet[l] \in Id /\ Fate[packet[l]] = "allowed"
    BY <1>0, <2>1, HeldFate DEF Refusing, Allowed, Busy
  <2>3. Refusing' = Refusing /\ Allowed' = Allowed
    BY <2>1 DEF Refusing, Allowed
  <2> QED
    BY <2>1, <2>2, <2>3, SameFate DEF Resolver!Forward
<1>9. ASSUME NEW l \in Loop, phase[l] \in {"send", "wait"}, NEW a, a # "refuse", Handled(l, a), sent' = sent
      PROVE  Stutters \/ \E queries \in SUBSET Id : Resolver!Drop(queries)
  <2>1. CASE l = open
    <3>1. /\ UNCHANGED <<blocked, name, status, packet>> /\ phase'[l] = "write" /\ reply'[l] = a
          /\ \A k \in Loop \ {l} : phase'[k] = phase[k] /\ reply'[k] = reply[k]
      BY <1>0, <1>9, <2>1 DEF Handled, Decides, DnsTypeOK
    <3>2. Refusing' = Refusing /\ Allowed' = Allowed
      BY <1>9, <3>1 DEF Refusing, Allowed
    <3> QED
      BY <1>9, <3>1, <3>2, SameFate
  <2>2. CASE l # open
    BY <1>0, <1>9, <2>2, EndsDrops DEF Handled
  <2> QED
    BY <2>1, <2>2
<1>10. ASSUME NEW l \in Loop, NEW q \in Id, Receive(l, q)
       PROVE  Stutters \/ \E queries \in SUBSET Id : Resolver!Drop(queries)
  BY <1>9, <1>10, NameAssumption DEF Receive
<1>11. ASSUME NEW l \in Loop, Fail(l)
       PROVE  Stutters \/ \E queries \in SUBSET Id : Resolver!Drop(queries)
  BY <1>9, <1>11 DEF Fail, network
<1>12. ASSUME NEW l \in Loop, Write(l), l = open
       PROVE  /\ packet[l] \in Id
              /\ Resolver!Refuse(packet[l]) \/ Resolver!Answer(packet[l]) \/ Resolver!Drop({packet[l]})
  <2> DEFINE s == CASE reply[l] = "refuse" -> "refused" [] reply[l] = "back" -> "dropped"
                    [] OTHER -> "answered"
  <2>1. /\ UNCHANGED <<blocked, name, sent>> /\ phase[l] = "write" /\ Becomes({packet[l]}, s)
        /\ packet' = [packet EXCEPT ![l] = None] /\ phase' = [phase EXCEPT ![l] = "read"]
        /\ reply' = [reply EXCEPT ![l] = None]
    BY <1>12 DEF Write, network
  <2>2. packet'[l] = None /\ \A k \in Loop \ {l} :
          packet'[k] = packet[k] /\ phase'[k] = phase[k] /\ reply'[k] = reply[k]
    BY <1>0, <2>1 DEF DnsTypeOK
  <2>3. /\ packet[l] \in Id /\ status[packet[l]] = "hand"
        /\ Fate[packet[l]] = IF reply[l] = "refuse" THEN "refusing" ELSE "allowed"
    BY <1>0, <2>1, HeldFate DEF HandOK, Refusing, Allowed, Busy
  <2>4. /\ \A q \in Id : q # packet[l] => status'[q] = status[q]
        /\ status'[packet[l]] = s
    BY <2>1, <2>3 DEF Becomes
  <2>5. \A k \in Loop : packet'[k] # packet[l]
    BY <1>0, <2>2, <2>3, LoopFacts DEF HandOK
  <2>6. Fate'[packet[l]] = s
    <3>1. packet[l] \notin InHand(Refusing)' /\ packet[l] \notin InHand(Allowed)'
      BY <2>5 DEF InHand, Refusing, Allowed
    <3>2. s \notin {"queued", "hand"}
      OBVIOUS
    <3> HIDE DEF s
    <3> QED
      BY <2>3, <2>4, <3>1, <3>2 DEF Fate
  <2> HIDE DEF s
  <2>7. \A q \in Id : q # packet[l] => Fate'[q] = Fate[q]
    BY <2>2, <2>4, OtherFates
  <2>8. Fate' = [q \in Id |-> IF q \in {packet[l]} THEN s ELSE Fate[q]]
    BY <2>6, <2>7 DEF Fate
  <2>9. CASE reply[l] = "refuse"
    <3>1. s = "refused"
      BY <2>9 DEF s
    <3> QED
      BY <2>1, <2>3, <2>8, <2>9, <3>1 DEF Resolver!Refuse, Resolver!Become
  <2>10. CASE reply[l] = "back"
    <3>1. s = "dropped"
      BY <2>10 DEF s
    <3> QED
      BY <2>1, <2>3, <2>8, <2>10, <3>1 DEF Resolver!Drop, Resolver!Become
  <2>11. CASE reply[l] \notin {"refuse", "back"}
    <3>1. s = "answered" /\ packet[l] \in sent
      BY <2>1, <2>11 DEF s, UpstreamOK
    <3> QED
      BY <2>1, <2>3, <2>8, <2>11, <3>1 DEF Resolver!Answer, Resolver!Become
  <2> QED
    BY <2>3, <2>9, <2>10, <2>11
<1>13. ASSUME NEW l \in Loop, (Write(l) /\ l # open) \/ LookupThrows(l)
       PROVE  \E queries \in SUBSET Id : Resolver!Drop(queries)
  BY <1>0, <1>13, AppEndsDrops DEF Write, LookupThrows, network
<1>14. ASSUME UNCHANGED dnsVars PROVE Stutters
  BY <1>14, SameVerdicts, SameFate DEF dnsVars, loops, network
<1> HIDE DEF Stutters
<1>15. ASSUME NEW l \in Loop, Write(l) PROVE [Resolver!Next]_(Resolver!vars)
  BY <1>b, <1>12, <1>13, <1>15 DEF Resolver!Next
<1>16. StopVpn => [Resolver!Next]_(Resolver!vars)
  <2>1. ToSet(queue) \in SUBSET Id
    BY <1>0 DEF ToSet, DnsTypeOK
  <2> QED
    BY <1>3, <2>1 DEF Resolver!Next
<1>17. ASSUME DnsNext PROVE [Resolver!Next]_(Resolver!vars)
  BY <1>17, <1>a, <1>b, <1>1, <1>2, <1>4, <1>5, <1>6, <1>7, <1>8, <1>10, <1>11, <1>13, <1>15, <1>16
  DEF DnsNext, Resolver!Next
<1> QED
  BY <1>a, <1>14, <1>17

(* Each query is judged once, by the list of one instant, and the verdict  *)
(* stands, through changes of the list, late answers, stops and crashes.   *)
THEOREM ResolverImplemented == DnsSpec => ImplementsResolver
<1>1. DnsInv /\ DnsInv' /\ [DnsNext]_dnsVars => [Resolver!Next]_(Resolver!vars)
  BY ResolverStep DEF DnsInv, Hands
<1> QED
  BY <1>1, ResolverInit, DnsInvariance, PTL DEF DnsSpec, ImplementsResolver, Resolver!Spec

-------------------------------------------------------------------------------
(***************************************************************************)
(* The shield                                                              *)
(***************************************************************************)
LEMMA ShieldInitInv == ShieldInit => ShieldTypeOK /\ MarkedIsShielded
BY PackageAssumption DEF ShieldInit, ShieldTypeOK, Packages, MarkedIsShielded

LEMMA ShieldStep ==
  ShieldTypeOK /\ MarkedIsShielded /\ [ShieldNext]_shieldVars => (ShieldTypeOK /\ MarkedIsShielded)'
<1> SUFFICES ASSUME ShieldTypeOK, MarkedIsShielded, [ShieldNext]_shieldVars
             PROVE  (ShieldTypeOK /\ MarkedIsShielded)'
  OBVIOUS
<1> USE PackageAssumption DEF ShieldTypeOK, Packages, MarkedIsShielded, service
<1>1. ASSUME NEW a \in App \cup {Own}, Open(a) PROVE (ShieldTypeOK /\ MarkedIsShielded)'
  BY <1>1 DEF Open
<1>2. CASE GoHome
  BY <1>2 DEF GoHome
<1>3. CASE Report
  BY <1>3 DEF Report
<1>4. CASE ShowShield
  BY <1>4 DEF ShowShield
<1>5. ASSUME NEW set \in SUBSET App, StartBlocking(set) PROVE (ShieldTypeOK /\ MarkedIsShielded)'
  BY <1>5 DEF StartBlocking
<1>6. ASSUME NEW set \in SUBSET App, UpdatePackages(set) PROVE (ShieldTypeOK /\ MarkedIsShielded)'
  BY <1>6 DEF UpdatePackages
<1>7. CASE StopBlocking
  BY <1>7 DEF StopBlocking
<1>8. CASE Destroy
  BY <1>8 DEF Destroy
<1>9. CASE CheckForegroundApp
  <2>1. CASE Checks(lastForegroundPackage, FALSE)
    BY <2>1 DEF Checks
  <2>2. CASE Checks(NoPackage, FALSE)
    BY <2>2 DEF Checks
  <2>3. CASE reported \in blockedPackages /\ Checks(reported, reported # lastForegroundPackage)
    BY <2>3 DEF Checks
  <2> QED
    BY <1>9, <2>1, <2>2, <2>3 DEF CheckForegroundApp
<1>10. CASE UNCHANGED shieldVars
  BY <1>10 DEF shieldVars
<1> QED
  BY <1>1, <1>2, <1>3, <1>4, <1>5, <1>6, <1>7, <1>8, <1>9, <1>10 DEF ShieldNext

(* The variables of the shield keep their types. *)
THEOREM ShieldTypeCorrect == ShieldSpec => []ShieldTypeOK
BY ShieldInitInv, ShieldStep, PTL DEF ShieldSpec

(* The app in front is marked as shielded only if its shield is on its     *)
(* way, or it was marked when it came.                                     *)
THEOREM MarkedIsShieldedHolds == ShieldSpec => []MarkedIsShielded
BY ShieldInitInv, ShieldStep, PTL DEF ShieldSpec
===============================================================================
