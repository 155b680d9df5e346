------------------------------- MODULE IosProofs -------------------------------
(***************************************************************************)
(* IosBlocking: for any domains, apps, commands and windows, the           *)
(* restrictions follow the saved list, domains leave it only by requests   *)
(* that remove, and what is accepted is saved. The proof is about the      *)
(* programs of the main thread: each ends with setting the filter to a     *)
(* list, saving it, and turning the blocking on or off, so that what is    *)
(* left to do tells what the filter and the list will be.                  *)
(***************************************************************************)
EXTENDS IosBlocking, SequenceTheorems, TLAPS

-------------------------------------------------------------------------------
(***************************************************************************)
(* The inductive invariant                                                 *)
(***************************************************************************)
(* A program that applies a list, or clears it, ends with three calls, all *)
(* of one list.                                                            *)
LastList(p) == p[Len(p)].list
Ending(p) ==
  LET n == Len(p) IN
  \/ /\ p[n].call = "enable"
     /\ n >= 2 => p[n-1] = Call("save", LastList(p))
     /\ n >= 3 => p[n-2] = Call("web", LastList(p))
  \/ /\ p[n] = Call("disable", Empty)
     /\ n >= 2 => p[n-1] = Call("save", Empty)
     /\ n >= 3 => p[n-2] = Call("wipe", Empty)

(* What block leaves to do without authorization. *)
Lone(p) == Len(p) = 1 /\ p[1].call = "save" /\ p[1].list.domains = saved.domains

(* The restrictions say what the saved list says. *)
Filtered ==
  /\ enabled /\ saved.domains # {} /\ ~lifted => web = saved.domains
  /\ crashes = 0 => web \subseteq saved.domains

(* The app's process: while it is down it has nothing to do; a task comes  *)
(* from a pick.                                                            *)
AppInv ==
  /\ app = "down" => program = <<>> /\ tasks = <<>> /\ phase = "none" /\ crashes > 0
  /\ phase = "runs" => program # <<>>
  /\ Len(tasks) <= picks

(* While the two processes have never been at work at the same time, what  *)
(* the monitor has still to apply is the list as it is saved.              *)
MonitorInv ==
  /\ ~mixed => program = <<>> \/ monitor = <<>>
  /\ Len(monitor) = 2 => monitor[2].call = "pick"
  /\ ~mixed => \A i \in 1..Len(monitor) :
       /\ monitor[i].call = "web" => monitor[i].list = saved
       /\ monitor[i].call = "wipe" => ~enabled \/ lifted

(* What the main thread has still to do ends with saving a list that it    *)
(* has filtered, whatever has come before; when only that end is left, the *)
(* filter is this list already, and when nothing is left, or nothing       *)
(* without authorization, the filter says what is saved. The request's own *)
(* domains are in the list at the end.                                     *)
ProgramInv ==
  /\ program # <<>> => (Lone(program) /\ ~authorized) \/ Ending(program)
  /\ Len(program) = 1 /\ Ending(program) => saved = LastList(program)
  /\ ~mixed /\ Len(program) \in {1, 2} /\ Ending(program) =>
       web = LastList(program).domains
  /\ app = "up" /\ ~mixed /\ (program = <<>> \/ Lone(program)) => Filtered
  /\ phase = "runs" /\ authorized /\ request.op \in {"block", "sync"} =>
       request.list.domains \subseteq LastList(program).domains

(* Whatever p saves has the domains ds. *)
Saves(p, ds) == \A i \in 1..Len(p) : p[i].call = "save" => p[i].list.domains = ds
(* A request that may remove domains is at work. *)
Removing == phase = "runs" /\ request.op \in {"unblock", "clear", "sync"}
(* What is yet to be saved, in one step or in several, contains what is    *)
(* saved.                                                                  *)
SavesInv ==
  ~tardy /\ ~Removing =>
    \E ds \in SUBSET Domain : saved.domains \subseteq ds /\ Saves(program, ds)

(* The invariant. *)
IInv == TypeOK /\ AppInv /\ MonitorInv /\ ProgramInv /\ SavesInv

(* A program that ends so is at least three calls long when it begins. *)
Whole(p) == p \in Seq(Calls) /\ Len(p) >= 3 /\ Ending(p)

-------------------------------------------------------------------------------
(***************************************************************************)
(* Programs, which are sequences of calls                                  *)
(***************************************************************************)
(* A call has its name and its list. *)
LEMMA CallType ==
  ASSUME NEW l \in List,
         NEW name \in {"apps", "web", "save", "enable", "disable", "wipe", "pick"}
  PROVE  Call(name, l) \in Calls /\ Call(name, l).call = name /\ Call(name, l).list = l
BY DEF Call, Calls

(* The empty list. *)
LEMMA EmptyType == Empty \in List /\ Empty.domains = {}
BY DEF Empty, List

(* A program of four calls. *)
LEMMA FourCalls ==
  ASSUME NEW a \in Calls, NEW b \in Calls, NEW c \in Calls, NEW d \in Calls
  PROVE  LET p == <<a, b, c, d>>
         IN p \in Seq(Calls) /\ Len(p) = 4 /\ p[1] = a /\ p[2] = b /\ p[3] = c /\ p[4] = d
OBVIOUS

(* What applies a list, with authorization, saves that list. *)
LEMMA AppliedWhole ==
  ASSUME NEW l \in List
  PROVE  /\ Whole(Applied(l, TRUE)) /\ Len(Applied(l, TRUE)) = 4
         /\ LastList(Applied(l, TRUE)) = l /\ Saves(Applied(l, TRUE), l.domains)
<1> DEFINE p == Applied(l, TRUE)
<1>1. p = <<Call("apps", l), Call("web", l), Call("save", l), Call("enable", l)>>
  BY DEF Applied
<1>2. /\ Call("apps", l) \in Calls /\ Call("web", l) \in Calls
      /\ Call("save", l) \in Calls /\ Call("enable", l) \in Calls
  BY CallType
<1> HIDE DEF p
<1>3. p \in Seq(Calls) /\ Len(p) = 4
  BY <1>1, <1>2, FourCalls
<1>4. p[1] = Call("apps", l) /\ p[2] = Call("web", l) /\ p[3] = Call("save", l)
      /\ p[4] = Call("enable", l)
  BY <1>1, <1>2, FourCalls
<1>5. Ending(p) /\ LastList(p) = l
  BY <1>3, <1>4, CallType DEF Ending, LastList
<1>6. Saves(p, l.domains)
  BY <1>3, <1>4, CallType DEF Saves
<1>7. Whole(p) /\ Len(p) = 4
  BY <1>3, <1>5 DEF Whole
<1> QED
  BY <1>5, <1>6, <1>7, Zenon DEF p

(* What clears the list saves the empty one. *)
LEMMA ClearWhole ==
  /\ Whole(ClearBlocklist) /\ Len(ClearBlocklist) = 3
  /\ LastList(ClearBlocklist) = Empty /\ Saves(ClearBlocklist, {})
<1> DEFINE p == ClearBlocklist
<1>1. p = <<Call("wipe", Empty), Call("save", Empty), Call("disable", Empty)>>
  BY DEF ClearBlocklist
<1>2. /\ Call("wipe", Empty) \in Calls /\ Call("save", Empty) \in Calls
      /\ Call("disable", Empty) \in Calls
  BY CallType, EmptyType
<1>3. p \in Seq(Calls) /\ Len(p) = 3
  BY <1>1, <1>2
<1>4. p[1] = Call("wipe", Empty) /\ p[2] = Call("save", Empty) /\ p[3] = Call("disable", Empty)
  BY <1>1
<1> HIDE DEF p
<1>5. Ending(p) /\ LastList(p) = Empty
  BY <1>3, <1>4, CallType, EmptyType DEF Ending, LastList
<1>6. Saves(p, {})
  BY <1>3, <1>4, CallType, EmptyType DEF Saves
<1> QED
  BY <1>3, <1>5, <1>6 DEF p, Whole

(* What comes before does not change how a program ends. *)
LEMMA ConcatWhole ==
  ASSUME NEW p \in Seq(Calls), NEW q, Whole(q)
  PROVE  Whole(p \o q) /\ LastList(p \o q) = LastList(q) /\ Len(p \o q) = Len(p) + Len(q)
<1> DEFINE r == p \o q
           m == Len(p)
           n == Len(q)
<1>1. r \in Seq(Calls) /\ Len(r) = m + n /\ m \in Nat /\ n \in Nat /\ n >= 3
      /\ \A i \in 1..(m + n) : r[i] = IF i <= m THEN p[i] ELSE q[i - m]
  BY ConcatProperties, LenProperties DEF Whole
<1> HIDE DEF r
<1>2. ASSUME NEW k \in {0, 1, 2} PROVE r[m + n - k] = q[n - k]
  <2>1. m + n - k \in 1..(m + n) /\ ~(m + n - k <= m) /\ (m + n - k) - m = n - k
    BY <1>1
  <2> QED
    BY <1>1, <2>1
<1>3. Ending(q)
  BY DEF Whole
<1> HIDE DEF m, n
<1>4. r[m + n] = q[n] /\ r[m + n - 1] = q[n - 1] /\ r[m + n - 2] = q[n - 2]
  BY <1>1, <1>2
<1>5. Ending(r) /\ LastList(r) = LastList(q)
  BY <1>1, <1>3, <1>4 DEF Ending, LastList, m, n
<1> QED
  BY <1>1, <1>5 DEF r, m, n, Whole

(* Two programs that save the same domains. *)
LEMMA ConcatSaves ==
  ASSUME NEW p \in Seq(Calls), NEW q \in Seq(Calls), NEW ds, Saves(p, ds), Saves(q, ds)
  PROVE  Saves(p \o q, ds)
<1> DEFINE r == p \o q
           m == Len(p)
           n == Len(q)
<1>1. Len(r) = m + n /\ m \in Nat /\ n \in Nat
      /\ \A i \in 1..(m + n) : r[i] = IF i <= m THEN p[i] ELSE q[i - m]
  BY ConcatProperties, LenProperties
<1> HIDE DEF r
<1>2. ASSUME NEW i \in 1..(m + n), r[i].call = "save" PROVE r[i].list.domains = ds
  <2>1. CASE i <= m
    BY <1>1, <1>2, <2>1 DEF Saves
  <2>2. CASE i > m
    <3>1. i - m \in 1..n /\ r[i] = q[i - m]
      BY <1>1, <2>2
    <3> QED
      BY <1>2, <3>1 DEF Saves
  <2> QED
    BY <1>1, <2>1, <2>2
<1> QED
  BY <1>1, <1>2 DEF Saves, r

(* Without authorization nothing is applied. *)
LEMMA ApplyCases ==
  ASSUME NEW l, NEW allowed
  PROVE  /\ allowed => Applied(l, allowed) = Applied(l, TRUE)
         /\ ~allowed => Applied(l, allowed) = <<>>
BY Zenon DEF Applied

(* What the main thread may be given to do. *)
Fit(p) ==
  /\ p \in Seq(Calls) /\ Len(p) <= 9
  /\ p = <<>> \/ (Lone(p) /\ ~authorized) \/ Whole(p)

(* Nothing to do is fit to be done. *)
LEMMA EmptyFit == Fit(<<>>) /\ \A ds : Saves(<<>>, ds)
<1>1. <<>> \in Seq(Calls) /\ Len(<<>>) = 0
  OBVIOUS
<1> QED
  BY <1>1 DEF Fit, Saves

(* What block is translated to ends with a list that contains its domains, *)
(* and removes none on the way: without authorization it saves the ids of  *)
(* the apps alone.                                                         *)
LEMMA BlockFit ==
  ASSUME TypeOK, NEW l \in List
  PROVE  LET p == BlockProgram(l) IN
         /\ Fit(p) /\ (authorized /\ p # <<>> => l.domains \subseteq LastList(p).domains)
         /\ \E ds \in SUBSET Domain : saved.domains \subseteq ds /\ Saves(p, ds)
<1> DEFINE withDomains == [saved EXCEPT !.domains = @ \cup l.domains]
           base == IF l.domains # {} /\ authorized THEN withDomains ELSE saved
           withApps == [base EXCEPT !.apps = @ \cup l.apps]
           first == IF l.domains = {} THEN <<>> ELSE ApplyBlocklist(withDomains)
           second == IF l.apps = {} THEN <<>>
                     ELSE <<Call("save", withApps)>> \o ApplyBlocklist(withApps)
           p == BlockProgram(l)
           Goal(q) ==
             /\ Fit(q) /\ (authorized /\ q # <<>> => l.domains \subseteq LastList(q).domains)
             /\ \E ds \in SUBSET Domain : saved.domains \subseteq ds /\ Saves(q, ds)
<1>1. p = first \o second
  BY Zenon DEF BlockProgram
<1>2. withDomains \in List /\ withDomains.domains = saved.domains \cup l.domains
  BY DEF TypeOK, List
<1>3. base \in List /\ base.domains = IF authorized THEN saved.domains \cup l.domains
                                      ELSE saved.domains
  BY <1>2 DEF TypeOK, List
<1>4. withApps \in List /\ withApps.domains = base.domains
  BY <1>3 DEF List
<1> DEFINE save == <<Call("save", withApps)>>
<1> HIDE DEF withDomains, base, withApps
<1>5. save \in Seq(Calls) /\ Len(save) = 1 /\ save[1] = Call("save", withApps)
  BY <1>4, CallType
<1>6. Saves(save, withApps.domains) /\ save[1].call = "save" /\ save[1].list = withApps
  BY <1>4, <1>5, CallType DEF Saves
<1> HIDE DEF save
<1>7. CASE authorized
  <2>1. ApplyBlocklist(withDomains) = Applied(withDomains, TRUE)
        /\ ApplyBlocklist(withApps) = Applied(withApps, TRUE)
    BY <1>7, ApplyCases DEF ApplyBlocklist
  <2> DEFINE one == ApplyBlocklist(withDomains)
             two == save \o ApplyBlocklist(withApps)
             ds == saved.domains \cup l.domains
  <2>2. Whole(one) /\ Len(one) = 4 /\ LastList(one) = withDomains /\ Saves(one, ds)
    BY <1>2, <2>1, AppliedWhole
  <2>3. withApps.domains = ds /\ ds \in SUBSET Domain
    BY <1>2, <1>3, <1>4, <1>7 DEF TypeOK, List
  <2>4. Whole(two) /\ Len(two) = 5 /\ LastList(two) = withApps /\ Saves(two, ds)
    <3>1. Whole(ApplyBlocklist(withApps)) /\ Len(ApplyBlocklist(withApps)) = 4
          /\ LastList(ApplyBlocklist(withApps)) = withApps
          /\ Saves(ApplyBlocklist(withApps), ds)
      BY <1>4, <2>1, <2>3, AppliedWhole
    <3>2. Whole(two) /\ Len(two) = 5 /\ LastList(two) = withApps
      <4>1. Whole(two) /\ LastList(two) = withApps
            /\ Len(two) = Len(save) + Len(ApplyBlocklist(withApps))
        BY <3>1, <1>5, ConcatWhole, Zenon
      <4>2. Len(two) = 5
        BY <4>1, <3>1, <1>5
      <4> QED
        BY <4>1, <4>2
    <3>3. Saves(two, ds)
      BY <3>1, <1>5, <1>6, <2>3, ConcatSaves DEF Whole
    <3> QED
      BY <3>2, <3>3
  <2> HIDE DEF one, two, ds
  <2>5. Whole(one \o two) /\ Len(one \o two) = 9 /\ LastList(one \o two) = withApps
        /\ Saves(one \o two, ds)
    <3>1. one \in Seq(Calls) /\ two \in Seq(Calls)
      BY <2>2, <2>4 DEF Whole
    <3>2. Whole(one \o two) /\ LastList(one \o two) = withApps
          /\ Len(one \o two) = Len(one) + Len(two)
      BY <3>1, <2>4, ConcatWhole, Zenon
    <3>3. Saves(one \o two, ds)
      BY <3>1, <2>2, <2>4, ConcatSaves, Zenon
    <3> QED
      BY <3>2, <3>3, <2>2, <2>4
  <2>6. l.domains \subseteq ds /\ saved.domains \subseteq ds /\ withDomains.domains = ds
        /\ withApps.domains = ds /\ ds \in SUBSET Domain
    BY <1>2, <2>3 DEF ds
  <2>7. Goal(one) /\ Goal(two) /\ Goal(one \o two)
    BY <2>2, <2>4, <2>5, <2>6 DEF Fit, Whole
  <2>8. Goal(<<>>)
    BY <2>6, EmptyFit
  <2>9. one \o <<>> = one /\ <<>> \o two = two /\ <<>> \o <<>> = <<>>
    BY <2>2, <2>4, ConcatEmptySeq, EmptySeq DEF Whole
  <2>10. p \in {one, two, one \o two, <<>>}
    BY <1>1, <2>9 DEF one, two, save
  <2> HIDE DEF p, Goal
  <2>11. Goal(p)
    BY <2>7, <2>8, <2>10
  <2> QED
    BY <2>11 DEF Goal, p
<1>8. CASE ~authorized
  <2>1. ApplyBlocklist(withDomains) = <<>> /\ ApplyBlocklist(withApps) = <<>>
    BY <1>8, ApplyCases DEF ApplyBlocklist
  <2>2. save \o <<>> = save /\ <<>> \o save = save /\ <<>> \o <<>> = <<>>
    BY <1>5, ConcatEmptySeq, EmptySeq
  <2>3. p \in {save, <<>>}
    BY <1>1, <2>1, <2>2 DEF save
  <2>4. withApps.domains = saved.domains /\ saved.domains \in SUBSET Domain
    BY <1>3, <1>4, <1>8 DEF TypeOK, List
  <2>5. Goal(save)
    BY <1>5, <1>6, <1>8, <2>4 DEF Fit, Lone
  <2>6. Goal(<<>>)
    BY <2>4, <1>8, EmptyFit
  <2> HIDE DEF p, Goal
  <2>7. Goal(p)
    BY <2>3, <2>5, <2>6
  <2> QED
    BY <2>7 DEF Goal, p
<1> QED
  BY <1>7, <1>8

(* What unblock is translated to. *)
LEMMA UnblockFit ==
  ASSUME TypeOK, NEW l \in List
  PROVE  Fit(UnblockProgram(l))
<1> DEFINE one == [saved EXCEPT !.domains = @ \ l.domains]
           two == Without(saved, l)
<1>1. one \in List /\ two \in List
  BY DEF TypeOK, List, Without
<1>2. UnblockProgram(l) = ApplyBlocklist(one) \o ApplyBlocklist(two)
  BY DEF UnblockProgram
<1> HIDE DEF one, two
<1>3. CASE authorized
  <2> DEFINE p == ApplyBlocklist(one)
             q == ApplyBlocklist(two)
  <2>1. p = Applied(one, TRUE) /\ q = Applied(two, TRUE)
    BY <1>3, ApplyCases DEF ApplyBlocklist
  <2>2. Whole(p) /\ Whole(q) /\ Len(p) = 4 /\ Len(q) = 4
    BY <1>1, <2>1, AppliedWhole
  <2> HIDE DEF p, q
  <2>3. p \in Seq(Calls)
    BY <2>2 DEF Whole
  <2>4. Whole(p \o q) /\ Len(p \o q) = Len(p) + Len(q)
    BY <2>2, <2>3, ConcatWhole, Zenon
  <2>5. Fit(p \o q)
    BY <2>2, <2>4 DEF Fit, Whole
  <2> QED
    BY <1>2, <2>5 DEF p, q
<1>4. CASE ~authorized
  <2>1. UnblockProgram(l) = <<>> \o <<>>
    BY <1>2, <1>4, ApplyCases DEF ApplyBlocklist
  <2>2. <<>> \o <<>> = <<>>
    BY ConcatEmptySeq, EmptySeq
  <2> QED
    BY <2>1, <2>2, EmptyFit
<1> QED
  BY <1>3, <1>4

(* What sync is translated to ends with its own list. *)
LEMMA SyncFit ==
  ASSUME TypeOK, NEW l \in List
  PROVE  /\ Fit(SyncProgram(l))
         /\ authorized => l.domains \subseteq LastList(SyncProgram(l)).domains
<1> DEFINE rest == IF l = Empty THEN <<>> ELSE ApplyBlocklist(l)
           p == SyncProgram(l)
<1>1. p = ClearBlocklist \o rest
  BY DEF SyncProgram
<1>2. CASE rest = <<>>
  <2>1. p = ClearBlocklist
    BY <1>1, <1>2, ClearWhole, ConcatEmptySeq DEF Whole
  <2>2. authorized => l = Empty
    <3>1. ASSUME authorized, l # Empty PROVE FALSE
      <4>1. rest = Applied(l, TRUE)
        BY <3>1, ApplyCases DEF ApplyBlocklist
      <4>2. Len(rest) = 4
        BY <4>1, AppliedWhole
      <4> QED
        BY <1>2, <4>2
    <3> QED
      BY <3>1
  <2> QED
    BY <2>1, <2>2, ClearWhole, EmptyType DEF Fit, Whole
<1>3. CASE rest # <<>>
  <2>1. rest = Applied(l, TRUE)
    BY <1>3, ApplyCases DEF ApplyBlocklist
  <2>2. Whole(rest) /\ Len(rest) = 4 /\ LastList(rest) = l
    BY <2>1, AppliedWhole
  <2> HIDE DEF rest
  <2>3. Whole(p) /\ Len(p) = 7 /\ LastList(p) = l
    <3>1. ClearBlocklist \in Seq(Calls)
      BY ClearWhole DEF Whole
    <3>2. Whole(p) /\ LastList(p) = l /\ Len(p) = Len(ClearBlocklist) + Len(rest)
      BY <3>1, <1>1, <2>2, ConcatWhole, Zenon
    <3> QED
      BY <3>2, <2>2, ClearWhole
  <2> QED
    BY <2>3 DEF Fit, Whole
<1> QED
  BY <1>2, <1>3

(* What any request is translated to. *)
LEMMA ProgramFit ==
  ASSUME TypeOK, NEW r \in Command
  PROVE  LET p == Program(r) IN
         /\ Fit(p)
         /\ authorized /\ r.op \in {"block", "sync"} /\ p # <<>> =>
              r.list.domains \subseteq LastList(p).domains
         /\ r.op \notin {"unblock", "clear", "sync"} =>
              \E ds \in SUBSET Domain : saved.domains \subseteq ds /\ Saves(p, ds)
<1>1. r.list \in List
  BY IosAssumption
<1>2. CASE r.op = "block"
  <2>1. Program(r) = BlockProgram(r.list)
    BY <1>2 DEF Program
  <2> QED
    BY <1>1, <1>2, <2>1, BlockFit
<1>3. CASE r.op = "unblock"
  <2>1. Program(r) = UnblockProgram(r.list)
    BY <1>3 DEF Program
  <2> QED
    BY <1>1, <1>3, <2>1, UnblockFit
<1>4. CASE r.op = "sync"
  <2>1. Program(r) = SyncProgram(r.list)
    BY <1>4 DEF Program
  <2> QED
    BY <1>1, <1>4, <2>1, SyncFit
<1>5. CASE r.op = "clear"
  <2>1. Program(r) = ClearBlocklist
    BY <1>5 DEF Program
  <2>2. Fit(ClearBlocklist)
    BY ClearWhole DEF Fit, Whole
  <2> QED
    BY <1>5, <2>1, <2>2
<1>6. CASE r.op \notin {"block", "unblock", "sync", "clear"}
  <2>1. Program(r) = <<>>
    BY <1>6 DEF Program
  <2>2. saved.domains \in SUBSET Domain
    BY DEF TypeOK, List
  <2> QED
    BY <1>6, <2>1, <2>2, EmptyFit
<1> QED
  BY <1>2, <1>3, <1>4, <1>5, <1>6

(* A list that is applied on its own, by a task or at the launch. *)
LEMMA ApplyFit ==
  ASSUME NEW l \in List, NEW allowed \in BOOLEAN
  PROVE  LET p == Applied(l, allowed) IN
         /\ p \in Seq(Calls) /\ Len(p) <= 9
         /\ p = <<>> \/ Whole(p)
         /\ Saves(p, l.domains) /\ (allowed => p # <<>>)
<1>1. CASE allowed
  <2>1. Applied(l, allowed) = Applied(l, TRUE)
    BY <1>1, ApplyCases
  <2> DEFINE p == Applied(l, allowed)
  <2>2. Whole(p) /\ Len(p) = 4 /\ Saves(p, l.domains)
    BY <2>1, AppliedWhole
  <2> HIDE DEF p
  <2>3. p \in Seq(Calls)
    BY <2>2 DEF Whole
  <2>4. Len(p) = 4
    BY <2>2, Zenon
  <2>5. p # <<>> /\ Len(p) <= 9
    BY <2>3, <2>4
  <2> QED
    BY <2>2, <2>3, <2>5, Zenon DEF p
<1>2. CASE ~allowed
  <2>1. Applied(l, allowed) = <<>>
    BY <1>2, ApplyCases
  <2> QED
    BY <1>2, <2>1, EmptyFit DEF Fit
<1> QED
  BY <1>1, <1>2

(* The first call of a program, and the rest. *)
LEMMA TailFacts ==
  ASSUME NEW p \in Seq(Calls), p # <<>>
  PROVE  /\ Head(p) = p[1] /\ p[1] \in Calls /\ Len(p) \in Nat \ {0}
         /\ Tail(p) \in Seq(Calls) /\ Len(Tail(p)) = Len(p) - 1
         /\ \A i \in 1..Len(Tail(p)) : Tail(p)[i] = p[i + 1]
OBVIOUS

(* What the monitor does when a window opens. *)
MonitorProgram ==
  IF ~enabled THEN <<Call("wipe", Empty)>>
  ELSE (IF saved.domains = {} THEN <<>> ELSE <<Call("web", saved)>>) \o <<Call("pick", Empty)>>

(* It applies the saved list, or removes what a disabled app has left. *)
LEMMA MonitorFit ==
  ASSUME TypeOK
  PROVE  LET m == MonitorProgram IN
         /\ m \in Seq(Calls) /\ Len(m) <= 2 /\ (Len(m) = 2 => m[2].call = "pick")
         /\ \A i \in 1..Len(m) : /\ m[i].call = "web" => m[i].list = saved
                                 /\ m[i].call = "wipe" => ~enabled
<1> DEFINE wipe == Call("wipe", Empty)
           pick == Call("pick", Empty)
           set == Call("web", saved)
           m == MonitorProgram
<1>1. /\ wipe \in Calls /\ wipe.call = "wipe" /\ pick \in Calls /\ pick.call = "pick"
      /\ set \in Calls /\ set.call = "web" /\ set.list = saved
  BY CallType, EmptyType DEF TypeOK
<1>2. CASE ~enabled
  <2>1. m = <<wipe>>
    BY <1>2 DEF MonitorProgram
  <2> HIDE DEF wipe, m
  <2>2. m \in Seq(Calls) /\ Len(m) = 1 /\ m[1] = wipe
    BY <1>1, <2>1
  <2>3. \A i \in 1..Len(m) : m[i] = wipe
    BY <2>2
  <2> QED
    BY <1>1, <1>2, <2>2, <2>3 DEF m
<1>3. CASE enabled /\ saved.domains = {}
  <2>1. m = <<>> \o <<pick>>
    BY <1>3 DEF MonitorProgram
  <2> HIDE DEF pick, m
  <2>2. m \in Seq(Calls) /\ Len(m) = 1 /\ m[1] = pick
    BY <1>1, <2>1
  <2>3. \A i \in 1..Len(m) : m[i] = pick
    BY <2>2
  <2> QED
    BY <1>1, <2>2, <2>3 DEF m
<1>4. CASE enabled /\ saved.domains # {}
  <2>1. m = <<set>> \o <<pick>>
    BY <1>4 DEF MonitorProgram
  <2> DEFINE one == <<set>>
             two == <<pick>>
  <2>2. one \in Seq(Calls) /\ Len(one) = 1 /\ one[1] = set
        /\ two \in Seq(Calls) /\ Len(two) = 1 /\ two[1] = pick
    BY <1>1
  <2>5. m = one \o two
    BY <2>1
  <2> HIDE DEF set, pick, one, two, m
  <2>3. m \in Seq(Calls) /\ Len(m) = 2 /\ m[1] = set /\ m[2] = pick
    BY <2>2, <2>5, ConcatProperties
  <2>4. \A i \in 1..Len(m) : m[i] \in {set, pick}
    BY <2>3
  <2> QED
    BY <1>1, <2>3, <2>4 DEF m
<1> QED
  BY <1>2, <1>3, <1>4

-------------------------------------------------------------------------------
(***************************************************************************)
(* The steps                                                               *)
(***************************************************************************)
(* TypeOK in two parts: the flags, and the rest. *)
BoolOK ==
  /\ enabled \in BOOLEAN /\ approved \in BOOLEAN /\ authorized \in BOOLEAN
  /\ blocking \in BOOLEAN /\ prompt \in BOOLEAN
  /\ tardy \in BOOLEAN /\ lifted \in BOOLEAN /\ mixed \in BOOLEAN
DataOK ==
  /\ saved \in List /\ selection \subseteq App /\ web \subseteq Domain /\ apps \subseteq App
  /\ cached \subseteq App /\ (app = "up" => selection \subseteq cached)
  /\ request \in Command \cup {NoCommand} /\ phase \in {"none", "waits", "runs", "done"}
  /\ (phase = "none") <=> (request = NoCommand)
  /\ tasks \in Seq(List) /\ Len(tasks) <= MaxPicks
  /\ app \in {"up", "down"} /\ program \in Seq(Calls) /\ Len(program) <= 9
  /\ open \subseteq Window /\ monitor \in Seq(Calls) /\ Len(monitor) <= 2
  /\ requests \in 0..MaxRequests /\ picks \in 0..MaxPicks
  /\ crashes \in 0..MaxCrashes /\ windows \in 0..MaxWindows

(* The two parts make the whole. *)
LEMMA TypeParts == TypeOK <=> BoolOK /\ DataOK
BY Zenon DEF TypeOK, BoolOK, DataOK

(* The flags stay flags. *)
LEMMA BoolStep == TypeOK /\ [Next]_vars => BoolOK'
<1> SUFFICES ASSUME TypeOK, [Next]_vars PROVE BoolOK'
  OBVIOUS
<1> USE IosAssumption, IosBounds
    DEF TypeOK, BoolOK, Mixed, Do, stored, restrictions, memory, server, counters, history
<1>1. CASE Main
  BY <1>1, Zenon DEF Main
<1>2. CASE Accept
  BY <1>2, Zenon DEF Accept
<1>3. CASE Begin
  BY <1>3, Zenon DEF Begin
<1>4. CASE Reply
  BY <1>4, Zenon DEF Reply
<1>5. CASE Authorize
  BY <1>5, Zenon DEF Authorize
<1>6. CASE Pick
  BY <1>6, Zenon DEF Pick
<1>7. CASE RunTask
  BY <1>7, Zenon DEF RunTask, ApplyBlocklist
<1>8. CASE Crash
  BY <1>8, Zenon DEF Crash
<1>9. CASE Launch
  BY <1>9, Zenon DEF Launch
<1>10. ASSUME NEW w \in Window, IntervalDidStart(w)
      PROVE  BoolOK'
  BY <1>10, Zenon DEF IntervalDidStart
<1>11. ASSUME NEW w \in Window, IntervalDidEnd(w)
      PROVE  BoolOK'
  BY <1>11, Zenon DEF IntervalDidEnd
<1>12. CASE Monitor
  BY <1>12, Zenon DEF Monitor
<1>13. CASE UNCHANGED vars
  BY <1>13, Zenon DEF vars
<1> QED
  BY <1>1, <1>2, <1>3, <1>4, <1>5, <1>6, <1>7, <1>8, <1>9, <1>10, <1>11, <1>12, <1>13
  DEF Next

(* The other variables keep their types; a request's program has at most   *)
(* nine calls.                                                             *)
LEMMA DataStep == TypeOK /\ AppInv /\ [Next]_vars => DataOK'
<1> SUFFICES ASSUME TypeOK, AppInv, [Next]_vars PROVE DataOK'
  OBVIOUS
<1> USE IosAssumption, IosBounds
    DEF TypeOK, DataOK, AppInv, Do, stored, restrictions, memory, server, counters, history
<1>1. CASE Main
  <2> DEFINE c == Head(program)
  <2>1. /\ c \in Calls /\ program' \in Seq(Calls) /\ Len(program') = Len(program) - 1
        /\ Len(program) \in Nat
    BY <1>1, TailFacts DEF Main
  <2>2. c.list \in List
    BY <2>1 DEF Calls
  <2> HIDE DEF c
  <2>3. Do(c)
    BY <1>1 DEF Main, c
  <2>4. saved' \in List /\ web' \subseteq Domain
    BY <2>2, <2>3 DEF List
  <2>5. apps' \subseteq App
    BY <2>3 DEF Tokens
  <2>6. phase' \in {"none", "waits", "runs", "done"} /\ (phase' = "none" <=> phase = "none")
    BY <1>1 DEF Main
  <2> QED
    BY <1>1, <2>1, <2>4, <2>5, <2>6 DEF Main
<1>2. CASE Accept
  <2>1. request' \in Command /\ request' # NoCommand
    BY <1>2 DEF Accept, NoCommand, Op
  <2> QED
    BY <1>2, <2>1 DEF Accept
<1>3. CASE Begin
  <2>1. request \in Command
    BY <1>3 DEF Begin
  <2>2. program' \in Seq(Calls) /\ Len(program') <= 9
    BY <1>3, <2>1, ProgramFit DEF Begin, Fit
  <2>3. phase' \in {"runs", "done"}
    BY <1>3 DEF Begin
  <2> QED
    BY <1>3, <2>2, <2>3 DEF Begin
<1>4. CASE Reply
  BY <1>4 DEF Reply
<1>5. CASE Authorize
  BY <1>5 DEF Authorize
<1>6. CASE Pick
  BY <1>6 DEF Pick
<1>7. CASE RunTask
  <2>1. Head(tasks) \in List /\ tasks' \in Seq(List) /\ Len(tasks') = Len(tasks) - 1
        /\ Len(tasks) \in Nat
    BY <1>7 DEF RunTask
  <2>2. program' \in Seq(Calls) /\ Len(program') <= 9
    BY <1>7, <2>1, ApplyFit DEF RunTask, ApplyBlocklist
  <2> QED
    BY <1>7, <2>1, <2>2 DEF RunTask
<1>8. CASE Crash
  BY <1>8 DEF Crash
<1>9. CASE Launch
  <2>1. program' \in Seq(Calls) /\ Len(program') <= 9
    <3>1. CASE program' = Applied(saved, approved)
      BY <3>1, ApplyFit
    <3>2. CASE program' = <<>>
      BY <3>2
    <3> QED
      BY <1>9, <3>1, <3>2 DEF Launch
  <2>2. cached' \subseteq App /\ selection' \subseteq cached' /\ app' = "up"
    BY <1>9 DEF Launch
  <2> QED
    BY <1>9, <2>1, <2>2 DEF Launch
<1>10. ASSUME NEW w \in Window, IntervalDidStart(w)
      PROVE  DataOK'
  <2>1. monitor' \in Seq(Calls) /\ Len(monitor') <= 2
    BY <1>10, MonitorFit DEF IntervalDidStart, MonitorProgram
  <2>2. open' \subseteq Window /\ windows' \in 0..MaxWindows
    BY <1>10 DEF IntervalDidStart
  <2> QED
    BY <1>10, <2>1, <2>2 DEF IntervalDidStart
<1>11. ASSUME NEW w \in Window, IntervalDidEnd(w)
      PROVE  DataOK'
  <2>1. monitor' \in Seq(Calls) /\ Len(monitor') = 1
    BY <1>11, CallType, EmptyType DEF IntervalDidEnd
  <2>2. open' \subseteq Window
    BY <1>11 DEF IntervalDidEnd
  <2> QED
    BY <1>11, <2>1, <2>2 DEF IntervalDidEnd
<1>12. CASE Monitor
  <2>1. /\ Head(monitor) \in Calls /\ monitor' \in Seq(Calls)
        /\ Len(monitor') = Len(monitor) - 1 /\ Len(monitor) \in Nat
    BY <1>12, TailFacts DEF Monitor
  <2>2. Head(monitor).list \in List
    BY <2>1 DEF Calls
  <2>3. web' \subseteq Domain
    BY <1>12, <2>2 DEF Monitor, List
  <2>4. apps' \subseteq App
    BY <1>12 DEF Monitor
  <2> QED
    BY <1>12, <2>1, <2>3, <2>4 DEF Monitor
<1>13. CASE UNCHANGED vars
  BY <1>13 DEF vars
<1> QED
  BY <1>1, <1>2, <1>3, <1>4, <1>5, <1>6, <1>7, <1>8, <1>9, <1>10, <1>11, <1>12, <1>13
  DEF Next

(* AppInv is kept by every step. *)
LEMMA AppStep == TypeOK /\ AppInv /\ [Next]_vars => AppInv'
<1> SUFFICES ASSUME TypeOK, AppInv, [Next]_vars PROVE AppInv'
  OBVIOUS
<1> USE IosAssumption, IosBounds
    DEF AppInv, stored, restrictions, memory, server, counters, history
<1>1. CASE Main
  <2>1. Len(program') = Len(program) - 1 /\ Len(program) \in Nat \ {0}
    BY <1>1, TailFacts DEF Main, TypeOK
  <2>2. Len(program) # 1 => program' # <<>>
    BY <2>1
  <2>3. phase' = "runs" => phase = "runs" /\ Len(program) # 1
    BY <1>1 DEF Main
  <2> QED
    BY <1>1, <2>2, <2>3 DEF Main
<1>2. CASE Accept
  BY <1>2 DEF Accept
<1>3. CASE Begin
  BY <1>3 DEF Begin
<1>4. CASE Reply
  BY <1>4 DEF Reply
<1>5. CASE Authorize
  BY <1>5 DEF Authorize
<1>6. CASE Pick
  <2>1. Len(tasks') = Len(tasks) + 1 /\ picks' = picks + 1 /\ Len(tasks) \in Nat
    BY <1>6 DEF Pick, TypeOK
  <2>2. Len(tasks') <= picks'
    BY <2>1 DEF TypeOK
  <2> QED
    BY <1>6, <2>2 DEF Pick
<1>7. CASE RunTask
  <2>1. Len(tasks') = Len(tasks) - 1 /\ Len(tasks) \in Nat
    BY <1>7 DEF RunTask, TypeOK
  <2>2. Len(tasks') <= picks'
    BY <1>7, <2>1 DEF RunTask, TypeOK
  <2>3. app' = "up" /\ phase' # "runs"
    BY <1>7 DEF RunTask
  <2> QED
    BY <2>2, <2>3
<1>8. CASE Crash
  <2>1. crashes' > 0 /\ Len(tasks') = 0 /\ picks' \in Nat
    BY <1>8 DEF Crash, TypeOK
  <2> QED
    BY <1>8, <2>1 DEF Crash
<1>9. CASE Launch
  BY <1>9 DEF Launch
<1>10. ASSUME NEW w \in Window, IntervalDidStart(w)
      PROVE  AppInv'
  BY <1>10 DEF IntervalDidStart
<1>11. ASSUME NEW w \in Window, IntervalDidEnd(w)
      PROVE  AppInv'
  BY <1>11 DEF IntervalDidEnd
<1>12. CASE Monitor
  BY <1>12 DEF Monitor
<1>13. CASE UNCHANGED vars
  BY <1>13 DEF vars
<1> QED
  BY <1>1, <1>2, <1>3, <1>4, <1>5, <1>6, <1>7, <1>8, <1>9, <1>10, <1>11, <1>12, <1>13
  DEF Next

(* MonitorInv is kept: the list is saved anew only while the monitor has   *)
(* nothing to do, or the two are mixed from then on.                       *)
LEMMA MonitorStep == TypeOK /\ MonitorInv /\ [Next]_vars => MonitorInv'
<1> SUFFICES ASSUME TypeOK, MonitorInv, [Next]_vars PROVE MonitorInv'
  OBVIOUS
<1> USE IosAssumption, IosBounds
    DEF MonitorInv, Mixed, stored, restrictions, memory, server, counters, history
<1>1. CASE Main
  <2>1. mixed' \/ monitor = <<>>
    BY <1>1 DEF Main
  <2>2. CASE monitor = <<>>
    <3>1. monitor' = <<>> /\ Len(monitor') = 0
      BY <1>1, <2>2 DEF Main
    <3> QED
      BY <3>1
  <2>3. CASE mixed'
    BY <1>1, <2>3 DEF Main
  <2> QED
    BY <2>1, <2>2, <2>3
<1>2. CASE Accept
  BY <1>2 DEF Accept
<1>3. CASE Begin
  BY <1>3 DEF Begin
<1>4. CASE Reply
  BY <1>4 DEF Reply
<1>5. CASE Authorize
  BY <1>5 DEF Authorize
<1>6. CASE Pick
  BY <1>6 DEF Pick
<1>7. CASE RunTask
  BY <1>7 DEF RunTask, ApplyBlocklist
<1>8. CASE Crash
  BY <1>8 DEF Crash
<1>9. CASE Launch
  BY <1>9 DEF Launch
<1>10. ASSUME NEW w \in Window, IntervalDidStart(w)
      PROVE  MonitorInv'
  <2>1. monitor' = MonitorProgram
    BY <1>10 DEF IntervalDidStart, MonitorProgram
  <2>2. Len(monitor') = 2 => monitor'[2].call = "pick"
    BY <2>1, MonitorFit
  <2>3. \A i \in 1..Len(monitor') : /\ monitor'[i].call = "web" => monitor'[i].list = saved
                                    /\ monitor'[i].call = "wipe" => ~enabled
    BY <2>1, MonitorFit
  <2>4. ~mixed' => program' = <<>> \/ monitor' = <<>>
    BY <1>10 DEF IntervalDidStart
  <2>5. saved' = saved /\ enabled' = enabled
    BY <1>10 DEF IntervalDidStart
  <2> QED
    BY <2>2, <2>3, <2>4, <2>5
<1>11. ASSUME NEW w \in Window, IntervalDidEnd(w)
      PROVE  MonitorInv'
  <2>1. monitor' \in Seq(Calls) /\ Len(monitor') = 1 /\ monitor'[1] = Call("wipe", Empty)
    BY <1>11, CallType, EmptyType DEF IntervalDidEnd
  <2>2. ~mixed' => program' = <<>> \/ monitor' = <<>>
    BY <1>11 DEF IntervalDidEnd
  <2>3. ASSUME NEW i \in 1..Len(monitor') PROVE monitor'[i].call = "wipe"
    BY <2>1, CallType, EmptyType
  <2>4. lifted'
    BY <1>11 DEF IntervalDidEnd
  <2> QED
    BY <2>1, <2>2, <2>3, <2>4
<1>12. CASE Monitor
  <2>1. /\ Len(monitor') = Len(monitor) - 1 /\ Len(monitor) \in 1..2
        /\ \A i \in 1..Len(monitor') : monitor'[i] = monitor[i + 1]
    <3>1. monitor \in Seq(Calls) /\ monitor # <<>> /\ monitor' = Tail(monitor)
          /\ Len(monitor) <= 2
      BY <1>12 DEF Monitor, TypeOK
    <3>2. /\ Len(monitor) \in Nat \ {0} /\ Len(monitor') = Len(monitor) - 1
          /\ \A i \in 1..Len(monitor') : monitor'[i] = monitor[i + 1]
      BY <3>1, TailFacts, Zenon
    <3> QED
      BY <3>1, <3>2
  <2>2. ASSUME NEW i \in 1..Len(monitor') PROVE monitor'[i].call = "pick"
    <3>1. Len(monitor) = 2 /\ i = 1
      BY <2>1
    <3> QED
      BY <2>1, <3>1
  <2>3. ~mixed' => program' = <<>> \/ monitor' = <<>>
    BY <1>12 DEF Monitor
  <2> QED
    BY <2>1, <2>2, <2>3
<1>13. CASE UNCHANGED vars
  BY <1>13 DEF vars
<1> QED
  BY <1>1, <1>2, <1>3, <1>4, <1>5, <1>6, <1>7, <1>8, <1>9, <1>10, <1>11, <1>12, <1>13
  DEF Next

(* Three calls are more than two. *)
LEMMA LongSeq ==
  ASSUME NEW p \in Seq(Calls), Len(p) >= 3
  PROVE  p # <<>> /\ Len(p) # 1 /\ Len(p) # 2
<1>1. Len(p) \in Nat /\ Len(<<>>) = 0
  BY LenProperties
<1>2. ASSUME NEW n \in Nat, n >= 3 PROVE n # 0 /\ n # 1 /\ n # 2
  BY <1>2
<1> QED
  BY <1>1, <1>2, Zenon

(* A whole program is not near its end. *)
LEMMA WholeFacts ==
  ASSUME NEW p, Whole(p)
  PROVE  p # <<>> /\ Ending(p) /\ Len(p) \notin {1, 2} /\ ~Lone(p)
<1>1. p # <<>> /\ Len(p) # 1 /\ Len(p) # 2
  BY LongSeq, Zenon DEF Whole
<1>2. Ending(p)
  BY DEF Whole
<1>3. ~Lone(p)
  BY <1>1, Zenon DEF Lone
<1> QED
  BY <1>1, <1>2, <1>3, Zenon

(* A program that ends so still does after its first call; the call before *)
(* the end is the save, the one before that sets the filter.               *)
LEMMA EndingTail ==
  ASSUME NEW p \in Seq(Calls), Ending(p), Len(p) >= 2
  PROVE  /\ Tail(p) \in Seq(Calls) /\ Len(Tail(p)) = Len(p) - 1 /\ Len(p) \in Nat
         /\ Tail(p) # <<>> /\ Ending(Tail(p)) /\ LastList(Tail(p)) = LastList(p)
         /\ Len(p) = 2 => p[1] = Call("save", LastList(p))
         /\ Len(p) = 3 => \/ p[1] = Call("web", LastList(p))
                          \/ p[1] = Call("wipe", Empty) /\ LastList(p) = Empty
<1> DEFINE n == Len(p)
           t == Tail(p)
<1>1. n \in Nat /\ n >= 2 /\ p # <<>>
  OBVIOUS
<1>2. t \in Seq(Calls) /\ Len(t) = n - 1 /\ \A i \in 1..(n - 1) : t[i] = p[i + 1]
  BY <1>1, TailFacts
<1> HIDE DEF t
<1>3. t[n - 1] = p[n] /\ (n >= 3 => t[n - 2] = p[n - 1]) /\ (n >= 4 => t[n - 3] = p[n - 2])
  <2>1. n - 1 \in 1..(n - 1) /\ (n - 1) + 1 = n
    BY <1>1
  <2>2. n >= 3 => n - 2 \in 1..(n - 1) /\ (n - 2) + 1 = n - 1
    BY <1>1
  <2>3. n >= 4 => n - 3 \in 1..(n - 1) /\ (n - 3) + 1 = n - 2
    BY <1>1
  <2> QED
    BY <1>2, <2>1, <2>2, <2>3
<1>4. LastList(t) = LastList(p)
  BY <1>2, <1>3 DEF LastList
<1>5. Ending(t)
  BY <1>1, <1>2, <1>3, <1>4 DEF Ending
<1>6. t # <<>>
  BY <1>1, <1>2
<1>7. p[n] = Call("disable", Empty) => LastList(p) = Empty
  BY CallType, EmptyType DEF LastList
<1>8. n = 2 => p[1] = Call("save", LastList(p))
  BY <1>7 DEF Ending
<1>9. n = 3 => \/ p[1] = Call("web", LastList(p))
               \/ p[1] = Call("wipe", Empty) /\ LastList(p) = Empty
  BY <1>7 DEF Ending
<1> QED
  BY <1>1, <1>2, <1>4, <1>5, <1>6, <1>8, <1>9 DEF t

(* A new program leaves ProgramInv to what holds before its first call. *)
LEMMA NewProgram ==
  ASSUME program' \in Seq(Calls),
         program' = <<>> \/ (Lone(program)' /\ ~authorized') \/ Whole(program'),
         program' = <<>> \/ Lone(program)' => (app' = "up" /\ ~mixed' => Filtered'),
         phase' = "runs" /\ authorized' /\ request'.op \in {"block", "sync"} =>
           request'.list.domains \subseteq LastList(program').domains
  PROVE  ProgramInv'
<1>1. CASE program' = <<>>
  <2>1. Len(program') = 0
    BY <1>1
  <2> QED
    BY <1>1, <2>1 DEF ProgramInv
<1>2. CASE Lone(program)' /\ ~authorized'
  <2>1. Len(program') = 1 /\ program'[1].call = "save"
    BY <1>2 DEF Lone
  <2>2. ~Ending(program')
    BY <2>1, CallType, EmptyType DEF Ending
  <2> QED
    BY <1>2, <2>2 DEF ProgramInv
<1>3. CASE Whole(program')
  <2>1. program' # <<>> /\ Ending(program') /\ Len(program') \notin {1, 2} /\ Len(program') >= 3
    BY <1>3, WholeFacts DEF Whole
  <2>2. ~Lone(program)'
    BY <2>1 DEF Lone
  <2> QED
    BY <2>1, <2>2 DEF ProgramInv
<1> QED
  BY <1>1, <1>2, <1>3

(* A call of the main thread keeps ProgramInv. *)
LEMMA ProgramMain ==
  ASSUME TypeOK, AppInv, MonitorInv, ProgramInv, Main
  PROVE  ProgramInv'
<1> DEFINE n == Len(program)
           l == LastList(program)
<1>1. /\ program \in Seq(Calls) /\ program # <<>> /\ app = "up" /\ app' = "up"
      /\ Head(program) = program[1] /\ program[1] \in Calls /\ n \in Nat \ {0}
      /\ program' = Tail(program) /\ Len(program') = n - 1 /\ program' \in Seq(Calls)
  BY TailFacts DEF Main, TypeOK
<1>2. /\ Do(program[1]) /\ (n = 1 => phase' # "runs") /\ (phase' = "runs" => phase = "runs")
      /\ UNCHANGED <<authorized, request, crashes>> /\ (~mixed' => ~mixed)
  BY <1>1 DEF Main, Mixed, counters
<1>3. lifted' <=> lifted /\ program[1].call # "web"
  BY <1>1 DEF Main
<1>4. CASE Lone(program) /\ ~authorized
  <2>1. n = 1 /\ program[1].call = "save" /\ program[1].list.domains = saved.domains
    BY <1>4 DEF Lone
  <2>2. program' = <<>>
    BY <1>1, <2>1
  <2>3. /\ saved'.domains = saved.domains /\ web' = web /\ enabled' = enabled
        /\ (lifted' <=> lifted)
    BY <1>2, <1>3, <2>1 DEF Do
  <2>4. ~mixed' => Filtered'
    BY <1>1, <1>2, <1>4, <2>3 DEF ProgramInv, Filtered
  <2> QED
    BY <1>1, <1>2, <2>1, <2>2, <2>4, NewProgram
<1>5. CASE Ending(program) /\ n = 1
  <2>1. program' = <<>>
    BY <1>1, <1>5
  <2>2. saved = l /\ (~mixed => web = l.domains)
    BY <1>1, <1>5 DEF ProgramInv
  <2>3. program[1].call = "enable" \/ (program[1] = Call("disable", Empty) /\ l = Empty)
    <3>1. Len(program) = 1 /\ program[1].list = l
      BY <1>5 DEF LastList
    <3>2. program[1].call = "enable" \/ program[1] = Call("disable", Empty)
      BY <1>5, <3>1 DEF Ending
    <3>3. Call("disable", Empty).list = Empty
      BY CallType, EmptyType
    <3> QED
      BY <3>1, <3>2, <3>3, Zenon
  <2>4. web' = web /\ saved' = saved /\ (l = Empty \/ program[1].call = "enable")
    BY <1>2, <2>3, CallType, EmptyType DEF Do
  <2>5. ~mixed' => web' = saved'.domains
    BY <1>2, <2>2, <2>4
  <2>6. ~mixed' => Filtered'
    BY <2>5 DEF Filtered
  <2> QED
    BY <1>1, <1>2, <1>5, <2>1, <2>6, NewProgram
<1>6. CASE Ending(program) /\ n # 1
  <2>1. n >= 2
    BY <1>1, <1>6
  <2>2. /\ program' # <<>> /\ Ending(program') /\ LastList(program') = l
        /\ n = 2 => program[1] = Call("save", l)
        /\ n = 3 => \/ program[1] = Call("web", l)
                    \/ program[1] = Call("wipe", Empty) /\ l = Empty
    BY <1>1, <1>6, <2>1, EndingTail
  <2>3. l \in List
    <3>1. program[n] \in Calls
      BY <1>1
    <3> QED
      BY <3>1 DEF LastList, Calls
  <2>4. Len(program') = 1 => saved' = l
    <3>1. ASSUME n = 2 PROVE saved' = l
      BY <1>2, <2>2, <2>3, <3>1, CallType DEF Do
    <3> QED
      BY <1>1, <3>1
  <2>5. ~mixed' /\ Len(program') \in {1, 2} => web' = l.domains
    <3>1. ASSUME n = 2, ~mixed' PROVE web' = l.domains
      <4>1. web = l.domains
        BY <1>1, <1>2, <1>6, <3>1 DEF ProgramInv
      <4>2. web' = web
        BY <1>2, <2>2, <2>3, <3>1, CallType DEF Do
      <4> QED
        BY <4>1, <4>2
    <3>2. ASSUME n = 3 PROVE web' = l.domains
      <4>1. CASE program[1] = Call("web", l)
        BY <1>2, <2>3, <4>1, CallType DEF Do
      <4>2. CASE program[1] = Call("wipe", Empty) /\ l = Empty
        BY <1>2, <4>2, CallType, EmptyType DEF Do
      <4> QED
        BY <2>2, <3>2, <4>1, <4>2
    <3>3. Len(program') \in {1, 2} => n \in {2, 3}
      BY <1>1
    <3> QED
      BY <3>1, <3>2, <3>3
  <2>6. ~Lone(program)'
    <3>1. Len(program') = 1 => program'[1].call # "save"
      BY <2>2, CallType, EmptyType DEF Ending
    <3> QED
      BY <3>1 DEF Lone
  <2>7. phase' = "runs" /\ authorized' /\ request'.op \in {"block", "sync"} =>
          request'.list.domains \subseteq l.domains
    BY <1>2 DEF ProgramInv
  <2> HIDE DEF l, n
  <2> QED
    BY <2>2, <2>4, <2>5, <2>6, <2>7 DEF ProgramInv
<1> QED
  BY <1>1, <1>4, <1>5, <1>6 DEF ProgramInv

(* ProgramInv is kept by every step. *)
LEMMA ProgramStep ==
  TypeOK /\ AppInv /\ MonitorInv /\ ProgramInv /\ [Next]_vars => ProgramInv'
<1> SUFFICES ASSUME TypeOK, AppInv, MonitorInv, ProgramInv, [Next]_vars PROVE ProgramInv'
  OBVIOUS
<1> USE DEF stored, restrictions, memory, server, counters, history
<1>1. CASE Main
  BY <1>1, ProgramMain
<1>2. CASE Accept
  BY <1>2 DEF Accept, ProgramInv, Lone, Filtered
<1>3. CASE Begin
  <2>1. request \in Command /\ program = <<>> /\ app = "up" /\ app' = "up"
        /\ program' = Program(request) /\ request' = request
        /\ (request.op # "status" => authorized' = authorized)
        /\ (program' = <<>> => phase' # "runs") /\ (~mixed' => ~mixed)
        /\ UNCHANGED <<saved, web, enabled, lifted, crashes>>
    BY <1>3 DEF Begin, Mixed, TypeOK
  <2>2. Fit(program')
        /\ (authorized /\ request.op \in {"block", "sync"} /\ program' # <<>> =>
              request.list.domains \subseteq LastList(program').domains)
    BY <2>1, ProgramFit
  <2>3. request.op = "status" => program' = <<>>
    BY <2>1 DEF Program
  <2>4. program' = <<>> \/ (Lone(program') /\ ~authorized') \/ Whole(program')
    BY <2>1, <2>2, <2>3 DEF Fit
  <2>5. Lone(program)' <=> Lone(program')
    BY <2>1 DEF Lone
  <2>6. ~mixed' => Filtered'
    BY <2>1 DEF ProgramInv, Filtered
  <2>7. phase' = "runs" /\ authorized' /\ request'.op \in {"block", "sync"} =>
          request'.list.domains \subseteq LastList(program').domains
    BY <2>1, <2>2
  <2>8. program' \in Seq(Calls)
    BY <2>2 DEF Fit
  <2> QED
    BY <2>4, <2>5, <2>6, <2>7, <2>8, NewProgram
<1>4. CASE Reply
  BY <1>4 DEF Reply, ProgramInv, Lone, Filtered
<1>5. CASE Authorize
  <2>1. program' = <<>> /\ phase' # "runs" /\ program = <<>> /\ app = "up"
        /\ UNCHANGED <<saved, web, enabled, lifted, crashes, mixed>>
    BY <1>5 DEF Authorize, AppInv
  <2>2. program' \in Seq(Calls) /\ (~mixed' => Filtered')
    BY <2>1 DEF ProgramInv, Filtered
  <2> QED
    BY <2>1, <2>2, NewProgram
<1>6. CASE Pick
  <2>1. program' = <<>> /\ phase' # "runs" /\ program = <<>> /\ app = "up"
        /\ UNCHANGED <<saved, web, enabled, lifted, crashes, mixed>>
    BY <1>6 DEF Pick, AppInv
  <2>2. program' \in Seq(Calls) /\ (~mixed' => Filtered')
    BY <2>1 DEF ProgramInv, Filtered
  <2> QED
    BY <2>1, <2>2, NewProgram
<1>7. CASE RunTask
  <2>1. /\ program' = Applied(Head(tasks), authorized) /\ Head(tasks) \in List
        /\ authorized \in BOOLEAN /\ phase' # "runs" /\ program = <<>> /\ app = "up"
        /\ UNCHANGED <<saved, web, enabled, lifted, crashes>> /\ (~mixed' => ~mixed)
    BY <1>7 DEF RunTask, ApplyBlocklist, AppInv, TypeOK, Mixed
  <2>2. program' \in Seq(Calls) /\ (program' = <<>> \/ Whole(program'))
    BY <2>1, ApplyFit
  <2>3. ~mixed' => Filtered'
    BY <2>1 DEF ProgramInv, Filtered
  <2> QED
    BY <2>1, <2>2, <2>3, NewProgram
<1>8. CASE Crash
  <2>1. program' = <<>> /\ program' \in Seq(Calls) /\ phase' # "runs" /\ app' # "up"
    BY <1>8 DEF Crash
  <2> QED
    BY <2>1, NewProgram
<1>9. CASE Launch
  <2>1. /\ phase' # "runs" /\ crashes' # 0 /\ approved \in BOOLEAN /\ saved \in List
        /\ UNCHANGED <<saved, web, enabled>>
        /\ (lifted' <=> lifted \/ (enabled /\ ~approved))
    BY <1>9 DEF Launch, AppInv, TypeOK
  <2>2. CASE enabled /\ saved # Empty
    <3>1. program' = Applied(saved, approved)
      BY <1>9, <2>2 DEF Launch
    <3>2. program' \in Seq(Calls) /\ (program' = <<>> \/ Whole(program'))
          /\ (approved => program' # <<>>)
      BY <2>1, <3>1, ApplyFit
    <3>3. program' = <<>> => Filtered'
      BY <2>1, <2>2, <3>2 DEF Filtered
    <3>4. Whole(program') => ~Lone(program)'
      BY WholeFacts DEF Lone
    <3> QED
      BY <2>1, <3>2, <3>3, <3>4, NewProgram
  <2>3. CASE ~(enabled /\ saved # Empty)
    <3>1. program' = <<>> /\ program' \in Seq(Calls)
      BY <1>9, <2>3 DEF Launch
    <3>2. Filtered'
      BY <2>1, <2>3, EmptyType DEF Filtered
    <3> QED
      BY <2>1, <3>1, <3>2, NewProgram
  <2> QED
    BY <2>2, <2>3
<1>10. ASSUME NEW w \in Window, IntervalDidStart(w) PROVE ProgramInv'
  BY <1>10 DEF IntervalDidStart, Mixed, ProgramInv, Lone, Filtered
<1>11. ASSUME NEW w \in Window, IntervalDidEnd(w) PROVE ProgramInv'
  BY <1>11 DEF IntervalDidEnd, Mixed, ProgramInv, Lone, Filtered
<1>12. CASE Monitor
  <2>1. /\ monitor \in Seq(Calls) /\ monitor # <<>> /\ Len(monitor) \in Nat \ {0}
        /\ Head(monitor) = monitor[1] /\ monitor[1] \in Calls
    BY <1>12, TailFacts DEF Monitor, TypeOK
  <2>2. /\ UNCHANGED <<saved, enabled, crashes, program, phase, authorized, request, app>>
        /\ (~mixed' => ~mixed) /\ (lifted' <=> lifted /\ monitor[1].call # "web")
        /\ web' = IF monitor[1].call = "web" THEN monitor[1].list.domains
                  ELSE IF monitor[1].call = "wipe" THEN {} ELSE web
    BY <1>12, <2>1 DEF Monitor, Mixed
  <2>3. ~mixed' => program = <<>>
    BY <2>1, <2>2 DEF MonitorInv
  <2>4. ~mixed => /\ monitor[1].call = "web" => monitor[1].list = saved
                  /\ monitor[1].call = "wipe" => ~enabled \/ lifted
    BY <2>1 DEF MonitorInv
  <2>5. ASSUME app' = "up", ~mixed' PROVE Filtered'
    <3>1. Filtered
      BY <2>2, <2>3, <2>5 DEF ProgramInv
    <3>2. CASE monitor[1].call = "web"
      BY <2>2, <2>4, <2>5, <3>2 DEF Filtered
    <3>3. CASE monitor[1].call = "wipe"
      BY <2>2, <2>4, <2>5, <3>3 DEF Filtered
    <3>4. CASE monitor[1].call \notin {"web", "wipe"}
      BY <2>2, <3>1, <3>4 DEF Filtered
    <3> QED
      BY <3>2, <3>3, <3>4
  <2>6. Len(program) \in {1, 2} => mixed'
    BY <2>3
  <2> QED
    BY <2>2, <2>5, <2>6 DEF ProgramInv, Lone
<1>13. CASE UNCHANGED vars
  BY <1>13 DEF vars, ProgramInv, Lone, Filtered
<1> QED
  BY <1>1, <1>2, <1>3, <1>4, <1>5, <1>6, <1>7, <1>8, <1>9, <1>10, <1>11, <1>12, <1>13
  DEF Next

(* SavesInv is kept by every step: only requests that remove, and the      *)
(* tasks of the picker, save less than there is.                           *)
LEMMA SavesStep == TypeOK /\ AppInv /\ SavesInv /\ [Next]_vars => SavesInv'
<1> SUFFICES ASSUME TypeOK, AppInv, SavesInv, [Next]_vars PROVE SavesInv'
  OBVIOUS
<1> USE DEF SavesInv, Removing, stored, restrictions, memory, server, counters, history
<1>0. saved.domains \in SUBSET Domain
  BY DEF TypeOK, List
<1>1. CASE Main
  <2>1. /\ program \in Seq(Calls) /\ program # <<>> /\ program[1] \in Calls
        /\ Head(program) = program[1] /\ program' = Tail(program)
        /\ Len(program) \in Nat \ {0} /\ Len(program') = Len(program) - 1
        /\ \A i \in 1..Len(program') : program'[i] = program[i + 1]
    BY <1>1, TailFacts DEF Main, TypeOK
  <2>2. /\ saved' = IF program[1].call = "save" THEN program[1].list ELSE saved
        /\ UNCHANGED <<request, tardy>>
        /\ phase' = IF phase = "runs" /\ Len(program) = 1 THEN "done" ELSE phase
    BY <1>1, <2>1 DEF Main, Do
  <2>3. saved'.domains \in SUBSET Domain
    BY <1>0, <2>1, <2>2 DEF Calls, List
  <2>4. CASE Removing /\ ~Removing'
    <3>1. Len(program') = 0
      BY <2>1, <2>2, <2>4
    <3>2. Saves(program', saved'.domains)
      BY <3>1 DEF Saves
    <3> QED
      BY <2>3, <3>2
  <2>5. CASE ~Removing /\ ~tardy
    <3>1. PICK ds \in SUBSET Domain : saved.domains \subseteq ds /\ Saves(program, ds)
      BY <2>5
    <3>2. Saves(program', ds)
      <4>1. ASSUME NEW i \in 1..Len(program'), program'[i].call = "save"
            PROVE  program'[i].list.domains = ds
        <5>1. i + 1 \in 1..Len(program) /\ program'[i] = program[i + 1]
          BY <2>1
        <5> QED
          BY <3>1, <4>1, <5>1 DEF Saves
      <4> QED
        BY <4>1 DEF Saves
    <3>3. saved'.domains \subseteq ds
      <4>1. 1 \in 1..Len(program)
        BY <2>1
      <4> QED
        BY <2>2, <3>1, <4>1 DEF Saves
    <3> QED
      BY <3>2, <3>3
  <2> QED
    BY <2>2, <2>4, <2>5
<1>2. CASE Accept
  BY <1>2 DEF Accept
<1>3. CASE Begin
  <2>1. request \in Command /\ program' = Program(request) /\ request' = request
        /\ saved' = saved /\ (program' # <<>> => phase' = "runs")
    BY <1>3 DEF Begin, TypeOK
  <2>2. CASE program' = <<>>
    BY <1>0, <2>1, <2>2, EmptyFit
  <2>3. CASE program' # <<>>
    BY <2>1, <2>3, ProgramFit
  <2> QED
    BY <2>2, <2>3
<1>4. CASE Reply
  BY <1>4 DEF Reply
<1>5. CASE Authorize
  BY <1>5 DEF Authorize
<1>6. CASE Pick
  <2>1. UNCHANGED <<program, saved, tardy, phase, request>>
    BY <1>6 DEF Pick
  <2> QED
    BY <2>1
<1>7. CASE RunTask
  <2>1. program' = Applied(Head(tasks), authorized) /\ authorized \in BOOLEAN /\ saved \in List
        /\ saved' = saved /\ (tardy' <=> Head(tasks) # saved)
    BY <1>7 DEF RunTask, ApplyBlocklist, TypeOK
  <2>2. ~tardy' => Saves(program', saved.domains)
    BY <2>1, ApplyFit
  <2> QED
    BY <1>0, <2>1, <2>2
<1>8. CASE Crash
  <2>1. program' = <<>> /\ saved' = saved
    BY <1>8 DEF Crash
  <2> QED
    BY <1>0, <2>1, EmptyFit
<1>9. CASE Launch
  <2>1. saved' = saved /\ approved \in BOOLEAN /\ saved \in List
        /\ (program' = Applied(saved, approved) \/ program' = <<>>)
    BY <1>9 DEF Launch, TypeOK
  <2>2. Saves(program', saved.domains)
    BY <2>1, ApplyFit, EmptyFit
  <2> QED
    BY <1>0, <2>1, <2>2
<1>10. ASSUME NEW w \in Window, IntervalDidStart(w) PROVE SavesInv'
  BY <1>10 DEF IntervalDidStart
<1>11. ASSUME NEW w \in Window, IntervalDidEnd(w) PROVE SavesInv'
  BY <1>11 DEF IntervalDidEnd
<1>12. CASE Monitor
  BY <1>12 DEF Monitor
<1>13. CASE UNCHANGED vars
  BY <1>13 DEF vars
<1> QED
  BY <1>1, <1>2, <1>3, <1>4, <1>5, <1>6, <1>7, <1>8, <1>9, <1>10, <1>11, <1>12, <1>13
  DEF Next

(* The first launch satisfies the invariant. *)
LEMMA InvInit == Init => IInv
<1> SUFFICES ASSUME Init PROVE IInv
  OBVIOUS
<1> USE IosAssumption, IosBounds DEF Init
<1>1. BoolOK
  BY Zenon DEF BoolOK
<1>2. DataOK
  BY EmptyType DEF DataOK
<1>3. saved.domains \in SUBSET Domain
  BY EmptyType
<1>4. AppInv /\ MonitorInv
  BY DEF AppInv, MonitorInv
<1>5. ProgramInv
  BY EmptyType DEF ProgramInv, Filtered
<1>6. SavesInv
  BY <1>3, EmptyFit DEF SavesInv
<1> QED
  BY <1>1, <1>2, <1>4, <1>5, <1>6, TypeParts DEF IInv

(* The invariant holds throughout. *)
LEMMA InvCorrect == Spec => []IInv
<1>1. IInv /\ [Next]_vars => IInv'
  <2> SUFFICES ASSUME IInv, [Next]_vars PROVE IInv'
    OBVIOUS
  <2>1. TypeOK /\ AppInv /\ MonitorInv /\ ProgramInv /\ SavesInv
    BY DEF IInv
  <2>2. TypeOK'
    <3>1. BoolOK' /\ DataOK'
      BY <2>1, BoolStep, DataStep
    <3>2. TypeOK' <=> BoolOK' /\ DataOK'
      BY Zenon DEF TypeOK, BoolOK, DataOK
    <3> QED
      BY <3>1, <3>2
  <2> QED
    BY <2>1, <2>2, AppStep, MonitorStep, ProgramStep, SavesStep DEF IInv
<1> QED
  BY <1>1, InvInit, PTL DEF Spec

-------------------------------------------------------------------------------
(* The variables of the iOS library keep their types. *)
THEOREM TypeCorrect == Spec => []TypeOK
BY InvCorrect, PTL DEF IInv

(* What is listed is filtered whenever nobody is at work and blocking is   *)
(* enabled, unless a window has ended, the app was launched without        *)
(* authorization, or the two processes were at work at the same time:      *)
(* through crashes in the middle of a change, and the launch after them    *)
(* (BlockingManager.setup, applyBlocklist).                                *)
THEOREM ListedFiltered == Spec => []ListedIsFiltered
<1>1. IInv => ListedIsFiltered
  BY DEF IInv, ProgramInv, Filtered, ListedIsFiltered, Quiet
<1> QED
  BY <1>1, InvCorrect, PTL

(* Nothing else is filtered, unless a change was cut short by a crash or   *)
(* the two processes were at work at the same time.                        *)
THEOREM UnlistedFree == Spec => []UnlistedIsFree
<1>1. IInv => UnlistedIsFree
  BY DEF IInv, ProgramInv, Filtered, UnlistedIsFree, Quiet
<1> QED
  BY <1>1, InvCorrect, PTL

(* Only the main thread saves a list or ends a request's work. *)
LEMMA OnlyMain ==
  ASSUME IInv, [Next]_vars,
         saved' # saved \/ (phase = "runs" /\ phase' = "done")
  PROVE  Main
<1> USE DEF stored, server, memory
<1>1. ~(Accept \/ Reply \/ Authorize \/ Pick \/ RunTask \/ Crash \/ Launch \/ Monitor)
  BY DEF Accept, Reply, Authorize, Pick, RunTask, Crash, Launch, Monitor
<1>2. ~Begin
  BY DEF Begin
<1>3. ~(\E w \in Window : IntervalDidStart(w) \/ IntervalDidEnd(w))
  BY DEF IntervalDidStart, IntervalDidEnd
<1>4. ~(UNCHANGED vars)
  BY DEF vars
<1> QED
  BY <1>1, <1>2, <1>3, <1>4 DEF Next

(* What a call of the main thread does to the saved list. *)
LEMMA FirstCall ==
  ASSUME IInv, Main
  PROVE  /\ program \in Seq(Calls) /\ Len(program) \in Nat \ {0}
         /\ saved' = IF program[1].call = "save" THEN program[1].list ELSE saved
         /\ phase = "runs" /\ phase' = "done" => Len(program) = 1
<1>1. program \in Seq(Calls) /\ program # <<>>
  BY DEF IInv, TypeOK, Main
<1>2. Head(program) = program[1] /\ Len(program) \in Nat \ {0}
  BY <1>1, TailFacts
<1> QED
  BY <1>1, <1>2 DEF Main, Do

(* A domain leaves the saved list only by a request that removes, or by a  *)
(* task of the picker that applies a list from before the last change      *)
(* (AppPickerManager.applySelection).                                      *)
THEOREM DomainsLeave == Spec => DomainsLeaveByRequest
<1>1. IInv /\ [Next]_vars =>
        [\/ saved.domains \subseteq saved'.domains
         \/ phase = "runs" /\ request.op \in {"unblock", "clear", "sync"}
         \/ tardy]_saved
  <2> SUFFICES ASSUME IInv, [Next]_vars, saved' # saved, ~Removing, ~tardy
               PROVE  saved.domains \subseteq saved'.domains
    BY DEF Removing
  <2>1. Main
    BY OnlyMain
  <2>2. PICK ds \in SUBSET Domain : saved.domains \subseteq ds /\ Saves(program, ds)
    BY DEF IInv, SavesInv
  <2>3. 1 \in 1..Len(program)
    BY <2>1, FirstCall
  <2> QED
    BY <2>1, <2>2, <2>3, FirstCall DEF Saves
<1> QED
  BY <1>1, InvCorrect, PTL DEF Spec, DomainsLeaveByRequest

(* When block or sync is done, with authorization, its domains are saved:  *)
(* the second list that block applies is loaded from what the first has    *)
(* saved.                                                                  *)
THEOREM AcceptedSaved == Spec => AcceptedIsSaved
<1>1. IInv /\ [Next]_vars =>
        [/\ phase = "runs" /\ phase' = "done" /\ authorized
         /\ request.op \in {"block", "sync"}
         => request.list.domains \subseteq saved'.domains]_phase
  <2> SUFFICES ASSUME IInv, [Next]_vars, phase = "runs", phase' = "done", authorized,
                      request.op \in {"block", "sync"}
               PROVE  request.list.domains \subseteq saved'.domains
    OBVIOUS
  <2>1. Main
    BY OnlyMain
  <2>2. /\ Len(program) = 1 /\ Ending(program) /\ saved = LastList(program)
        /\ request.list.domains \subseteq LastList(program).domains
    <3>1. Len(program) = 1 /\ program # <<>>
      BY <2>1, FirstCall DEF Main
    <3> QED
      BY <3>1 DEF IInv, ProgramInv
  <2>3. program[1].call # "save"
    BY <2>2, CallType, EmptyType DEF Ending
  <2> QED
    BY <2>1, <2>2, <2>3, FirstCall
<1> QED
  BY <1>1, InvCorrect, PTL DEF Spec, AcceptedIsSaved
===============================================================================
