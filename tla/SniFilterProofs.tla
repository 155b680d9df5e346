---------------------------- MODULE SniFilterProofs ----------------------------
(***************************************************************************)
(* For every map, packet and bound: the types of SniFilter, that it passes *)
(* no name it should drop, and that it drops only names that a key covers, *)
(* or equals with the byte behind them.                                    *)
(***************************************************************************)
EXTENDS SniFilter, TLAPS

(* What the assumption on packets says of the one in hand. *)
LEMMA PacketType ==
  ASSUME TypeOK
  PROVE  /\ packet.exts \in Seq(Extension)
         /\ packet.readable \in 0..Len(packet.exts)
BY PacketAssumption DEF TypeOK

LEMMA ExtensionType ==
  ASSUME TypeOK, NEW i \in 1..Len(packet.exts)
  PROVE  /\ packet.exts[i] \in Extension
         /\ packet.exts[i].name \in Name /\ packet.exts[i].size \in Nat
<1>1. packet.exts[i] \in Extension
  BY PacketType
<1> QED
  BY <1>1 DEF Extension

LEMMA TypeStep == TypeOK /\ [Next]_vars => TypeOK'
<1> SUFFICES ASSUME TypeOK, [Next]_vars PROVE TypeOK'
  OBVIOUS
<1> USE DEF TypeOK, PC
<1>1. ASSUME NEW k \in Key, AddDomain(k) PROVE TypeOK'
  BY <1>1 DEF AddDomain
<1>2. ASSUME NEW k \in Key, RemoveDomain(k) PROVE TypeOK'
  BY <1>2 DEF RemoveDomain
<1>3. ASSUME NEW p \in Packet, Arrive(p) PROVE TypeOK'
  BY <1>3 DEF Arrive, Name
<1>4. ASSUME NEW w \in {"pass", "shot"}, Answer(w) PROVE TypeOK'
  BY <1>4 DEF Answer
<1>5. ASSUME Header PROVE TypeOK'
  BY <1>5 DEF Header
<1>6. ASSUME Skip PROVE TypeOK'
  <2>1. ext + 1 \in 1..Len(packet.exts)
    BY <1>6, PacketType DEF Skip, Searching
  <2>2. packet.exts[ext + 1].size \in Nat
    BY <2>1, ExtensionType
  <2> QED
    BY <1>6, <2>2 DEF Skip
<1>7. ASSUME ServerName PROVE TypeOK'
  <2>1. ext + 1 \in 1..Len(packet.exts)
    BY <1>7, PacketType DEF ServerName, Searching
  <2>2. packet.exts[ext + 1].name \in Name
    BY <2>1, ExtensionType
  <2> QED
    BY <1>7, <2>2 DEF ServerName
<1>8. ASSUME ExactMiss PROVE TypeOK'
  BY <1>8 DEF ExactMiss
<1>9. ASSUME SuffixMiss PROVE TypeOK'
  BY <1>9 DEF SuffixMiss
<1>10. CASE UNCHANGED vars
  BY <1>10 DEF vars
<1> QED
  BY <1>1, <1>2, <1>3, <1>4, <1>5, <1>6, <1>7, <1>8, <1>9, <1>10
  DEF Next, Classify, NotRecognised, NoServerName, Unusable, ExactHit, SuffixHit,
      NoSuffixLeft

(* The variables of the filter keep their types, whatever the packets. *)
THEOREM TypeCorrect == Spec => []TypeOK
<1>1. Init => TypeOK
  BY DEF Init, TypeOK, PC, Name
<1> QED
  BY <1>1, TypeStep, PTL DEF Spec

-------------------------------------------------------------------------------
(* Where the byte behind does not show, the buffer holds the name. *)
LEMMA BufferUnspoilt ==
  ASSUME NEW i, Unspoilt(i) PROVE Buffer(packet, i) = packet.exts[i].name
BY DEF Unspoilt, Buffer, Extended

-------------------------------------------------------------------------------
LEMMA LookupStep == TypeOK /\ LookupInv /\ [Next]_vars => LookupInv'
<1> SUFFICES ASSUME TypeOK, LookupInv, [Next]_vars PROVE LookupInv'
  OBVIOUS
<1> USE DEF TypeOK
<1>1. ASSUME NEW k \in Key, AddDomain(k) PROVE LookupInv'
  BY <1>1 DEF AddDomain, LookupInv, ListedNeverPasses, Server, Unspoilt
<1>2. ASSUME NEW k \in Key, RemoveDomain(k) PROVE LookupInv'
  BY <1>2 DEF RemoveDomain, LookupInv, ListedNeverPasses, Server, Unspoilt
<1>3. ASSUME NEW p \in Packet, Arrive(p) PROVE LookupInv'
  BY <1>3 DEF Arrive, LookupInv, ListedNeverPasses
<1>4. ASSUME NotRecognised PROVE LookupInv'
  BY <1>4 DEF NotRecognised, Answer, LookupInv, ListedNeverPasses
<1>5. ASSUME Header PROVE LookupInv'
  BY <1>5, PacketType DEF Header, LookupInv, ListedNeverPasses
<1>6. ASSUME NoServerName PROVE LookupInv'
  <2>1. \A i \in 1..Len(packet.exts) : ~Server(i)
    <3> SUFFICES ASSUME NEW i \in 1..Len(packet.exts), Server(i) PROVE FALSE
      OBVIOUS
    <3>1. ~(i \in 1..ext)
      BY <1>6 DEF NoServerName, LookupInv, Server
    <3> QED
      BY <1>6, <3>1, PacketType, BoundAssumption
      DEF NoServerName, LookupInv, Server, Searching
  <2> QED
    BY <1>6, <2>1 DEF NoServerName, Answer, LookupInv, ListedNeverPasses, Server
<1>7. ASSUME Skip PROVE LookupInv'
  <2>1. ext + 1 \in 1..Len(packet.exts)
    BY <1>7, PacketType DEF Skip, Searching
  <2>2. \A j \in 1..(ext + 1) : j \in 1..ext \/ j = ext + 1
    OBVIOUS
  <2> QED
    BY <1>7, <2>1, <2>2 DEF Skip, LookupInv, ListedNeverPasses
<1>8. ASSUME Unusable PROVE LookupInv'
  <2>1. ASSUME NEW i \in 1..Len(packet.exts), Server(i), Unspoilt(i) PROVE FALSE
    <3>1. ext + 1 \in 1..Len(packet.exts) /\ packet.exts[ext + 1].type = "sni"
      BY <1>8, PacketType DEF Unusable, Searching
    <3>2. ~(ext + 1 \in 1..(i - 1)) /\ ~(i \in 1..ext)
      BY <1>8, <2>1, <3>1 DEF Unusable, LookupInv, Server
    <3>3. i = ext + 1
      BY <3>1, <3>2
    <3> QED
      BY <1>8, <2>1, <3>3, ByteAssumption DEF Unusable, Usable, Server, Loads, Unspoilt
  <2> QED
    BY <1>8, <2>1
    DEF Unusable, Answer, LookupInv, ListedNeverPasses, Server, Unspoilt
<1>9. ASSUME ServerName PROVE LookupInv'
  <2>1. ext + 1 \in 1..Len(packet.exts) /\ (ext + 1) - 1 = ext
    BY <1>9, PacketType DEF ServerName, Searching
  <2> QED
    BY <1>9, <2>1 DEF ServerName, Usable, LookupInv, ListedNeverPasses
<1>10. ASSUME ExactHit PROVE LookupInv'
  BY <1>10 DEF ExactHit, Answer, LookupInv, ListedNeverPasses
<1>11. ASSUME ExactMiss PROVE LookupInv'
  <2>1. Unspoilt(ext) => sni \notin held
    BY <1>11, BufferUnspoilt DEF ExactMiss, LookupInv
  <2> QED
    BY <1>11, <2>1 DEF ExactMiss, LookupInv, ListedNeverPasses, Unspoilt
<1>12. ASSUME SuffixHit PROVE LookupInv'
  BY <1>12 DEF SuffixHit, Answer, LookupInv, ListedNeverPasses
<1>13. ASSUME SuffixMiss PROVE LookupInv'
  <2>1. \A d \in 1..(dots + 1) : d \in 1..dots \/ d = dots + 1
    OBVIOUS
  <2> QED
    BY <1>13, <2>1 DEF SuffixMiss, LookupInv, ListedNeverPasses, Unspoilt
<1>14. ASSUME NoSuffixLeft PROVE LookupInv'
  <2>1. /\ pc = "suffix" /\ ext \in 1..Len(packet.exts)
        /\ packet.exts[ext].type = "sni" /\ sni = packet.exts[ext].name
        /\ \A j \in 1..(ext - 1) : packet.exts[j].type # "sni"
    BY <1>14 DEF NoSuffixLeft, LookupInv
  <2>2. \A d \in 1..(Len(sni) - 1) : d <= MaxSuffixes => d \in 1..dots
    <3>1. Len(sni) \in Nat
      BY DEF Name
    <3> QED
      BY <1>14, <3>1, BoundAssumption DEF NoSuffixLeft, Walking
  <2>3. ASSUME NEW i \in 1..Len(packet.exts), Server(i), Unspoilt(i)
        PROVE  /\ packet.exts[i].name \notin held
               /\ \A d \in 1..(Len(packet.exts[i].name) - 1) :
                    d <= MaxSuffixes => Suffix(packet.exts[i].name, d) \notin held
    <3>1. ~(ext \in 1..(i - 1)) /\ ~(i \in 1..(ext - 1))
      BY <2>1, <2>3 DEF Server
    <3>2. i = ext
      BY <2>1, <3>1
    <3> QED
      BY <2>1, <2>2, <2>3, <3>2 DEF LookupInv
  <2> QED
    BY <1>14, <2>3
    DEF NoSuffixLeft, Answer, LookupInv, ListedNeverPasses, Server, Unspoilt
<1>15. CASE UNCHANGED vars
  BY <1>15 DEF vars, LookupInv, ListedNeverPasses, Server, Unspoilt
<1> QED
  BY <1>1, <1>2, <1>3, <1>4, <1>5, <1>6, <1>7, <1>8, <1>9, <1>10, <1>11,
     <1>12, <1>13, <1>14, <1>15 DEF Next, Classify

LEMMA Invariance == Spec => [](TypeOK /\ LookupInv)
<1>1. Init => LookupInv
  BY DEF Init, LookupInv, ListedNeverPasses
<1> QED
  BY <1>1, LookupStep, TypeCorrect, PTL DEF Spec

(* A listed name never passes, however the map changes meanwhile. *)
THEOREM ListedNeverPassesHolds == Spec => []ListedNeverPasses
<1>1. LookupInv => ListedNeverPasses
  BY DEF LookupInv
<1> QED
  BY <1>1, Invariance, PTL

(* No packet is dropped without a key that covers its first server name,   *)
(* or that is this name, of even length, with the byte behind it.          *)
THEOREM ShotOnlyIfListedHolds == Spec => ShotOnlyIfListed
<1> DEFINE Listed == \E i \in 1..Len(packet.exts), k \in blocklist :
                        /\ packet.exts[i].type = "sni"
                        /\ \A j \in 1..(i - 1) : packet.exts[j].type # "sni"
                        /\ \/ Covers(k, packet.exts[i].name)
                           \/ ~Unspoilt(i) /\ Loads(packet, i) /\ k = Buffer(packet, i)
<1>1. TypeOK /\ LookupInv /\ [Next]_vars
        => [verdict' = "shot" /\ verdict # "shot" => Listed]_vars
  <2> SUFFICES ASSUME TypeOK, LookupInv, Next, verdict' = "shot", verdict # "shot"
               PROVE  Listed
    BY DEF vars
  <2>1. CASE ExactHit
    <3>1. /\ ext \in 1..Len(packet.exts) /\ packet.exts[ext].type = "sni"
          /\ \A j \in 1..(ext - 1) : packet.exts[j].type # "sni"
          /\ Loads(packet, ext)
          /\ Buffer(packet, ext) \in blocklist
      BY <2>1 DEF ExactHit, LookupInv
    <3>2. CASE Unspoilt(ext)
      BY <3>1, <3>2, BufferUnspoilt DEF Covers
    <3>3. CASE ~Unspoilt(ext)
      BY <3>1, <3>3
    <3> QED
      BY <3>2, <3>3
  <2>2. CASE SuffixHit
    <3>1. /\ ext \in 1..Len(packet.exts) /\ packet.exts[ext].type = "sni"
          /\ \A j \in 1..(ext - 1) : packet.exts[j].type # "sni"
          /\ sni = packet.exts[ext].name
          /\ Suffix(sni, dots + 1) \in blocklist /\ dots + 1 < Len(sni)
      BY <2>2 DEF SuffixHit, LookupInv, Walking
    <3>2. dots + 1 \in 1..(Len(sni) - 1)
      BY <3>1 DEF TypeOK, Name
    <3> QED
      BY <3>1, <3>2 DEF Covers
  <2>3. ExactHit \/ SuffixHit
    BY DEF Next, Classify, AddDomain, RemoveDomain, Arrive, Answer, NotRecognised, Header,
           NoServerName, Skip, Unusable, ServerName, ExactMiss, SuffixMiss, NoSuffixLeft
  <2> QED
    BY <2>1, <2>2, <2>3
<1> QED
  BY <1>1, Invariance, PTL DEF Spec, ShotOnlyIfListed
===============================================================================
