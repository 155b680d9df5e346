------------------------------ MODULE SniFilter -------------------------------
(***************************************************************************)
(* The TC classifier (antidistractor-ebpf/src/main.rs) on one outgoing     *)
(* packet, step by step: the headers, the TLS extensions up to the first   *)
(* server name, the lookup of the whole name, then of one suffix after the *)
(* other.  Meanwhile the daemon inserts keys into BLOCKLIST and removes    *)
(* them, so that each lookup sees the map as it is then.                   *)
(*                                                                         *)
(* A name is the sequence of its labels.  A suffix key, which the program  *)
(* writes with a leading dot, is a name whose first label is Empty.  All   *)
(* that is not a TCP ClientHello is one case, hello = FALSE.               *)
(***************************************************************************)
EXTENDS Naturals, Sequences

CONSTANTS
  Label,         \* the labels of names
  Empty,         \* the label between two dots, or before the first
  Size,          \* the length of each label
  Byte, Zero,    \* what may stand behind a name in the packet, and the byte 0
  Joined,        \* the labels that a label and the byte behind it spell
  Key,           \* the names that commands block
  Packet,        \* the packets that arrive
  MaxExtensions, \* passes of the extension loop (64)
  MaxExtBytes,   \* and the offset at which it gives up (1024)
  MaxNameBytes,  \* the length at which a name is passed over (128)
  MaxSuffixes    \* passes of the suffix loop (10)

Name == Seq(Label \cup {Empty})

(* type and size are the extension's type and its bytes with the header;   *)
(* first is the first byte of the type.  host says that the first entry of *)
(* a server name extension is a host name, and name is that name.          *)
Extension == [type : {"sni", "other"}, first : Byte, size : Nat,
              host : BOOLEAN, name : Name \ {<<>>}]

ASSUME LabelAssumption ==
  /\ Empty \notin Label
  /\ Size \in [Label \cup {Empty} -> Nat] /\ Size[Empty] = 0
  /\ Joined \in [(Label \cup {Empty}) \X (Byte \ {Zero}) -> Name]
ASSUME ByteAssumption == Zero \in Byte /\ "none" \notin Byte
ASSUME KeyAssumption == Key \subseteq Name
ASSUME BoundAssumption ==
  /\ MaxExtensions \in Nat /\ MaxExtBytes \in Nat
  /\ MaxNameBytes \in Nat /\ MaxSuffixes \in Nat
(* mac is the first half-byte of an Ethernet frame; a packet of a TUN      *)
(* interface has no such header.  The segment holds the first readable     *)
(* extensions, and behind them the byte next, or none.                     *)
ASSUME PacketAssumption ==
  \A p \in Packet :
    /\ p.link \in {"tun", "ethernet"} /\ p.mac \in 0..15
    /\ p.hello \in BOOLEAN
    /\ p.exts \in Seq(Extension)
    /\ p.readable \in 0..Len(p.exts)
    /\ p.next \in Byte \cup {"none"}

VARIABLES
  blocklist,     \* BLOCKLIST
  packet,        \* the packet in hand
  pc,
  ext,           \* passes of the extension loop so far
  at,            \* cur_ext
  sni,           \* the name in NAME_BUF
  dots,          \* passes of the suffix loop so far
  verdict,       \* "none", "pass" (TC_ACT_OK), "shot" (TC_ACT_SHOT)
  held           \* history: the keys that BLOCKLIST held since the packet came

vars == <<blocklist, packet, pc, ext, at, sni, dots, verdict, held>>

PC == {"idle", "header", "extensions", "exact", "suffix", "done"}

TypeOK ==
  /\ blocklist \subseteq Key /\ held \subseteq blocklist
  /\ pc \in PC /\ packet \in Packet
  /\ ext \in Nat /\ at \in Nat /\ dots \in Nat
  /\ sni \in Name
  /\ verdict \in {"none", "pass", "shot"}

Init ==
  /\ blocklist \in SUBSET Key /\ packet \in Packet
  /\ pc = "idle" /\ ext = 0 /\ at = 0 /\ sni = <<>> /\ dots = 0
  /\ verdict = "none" /\ held = {}

-------------------------------------------------------------------------------
(* The length of a name on the wire. *)
Length(n) ==
  LET upTo[i \in 0..Len(n)] == IF i = 0 THEN 0 ELSE upTo[i - 1] + Size[n[i]]
  IN  upTo[Len(n)] + Len(n) - 1

(* What is left of a name from its d-th dot on, dot included. *)
Suffix(n, d) == <<Empty>> \o SubSeq(n, d + 1, Len(n))

(* The byte behind the i-th extension in the segment. *)
Behind(p, i) ==
  IF i = Len(p.exts) THEN p.next
  ELSE IF i < p.readable THEN p.exts[i + 1].first ELSE "none"

Even(n) == Length(n) % 2 = 0

(* The length of what is read is made odd, so that a name of even length   *)
(* brings the byte behind it into NAME_BUF, where it belongs to the name.  *)
Extended(n, b) ==
  IF Even(n) /\ b # Zero
    THEN SubSeq(n, 1, Len(n) - 1) \o Joined[<<n[Len(n)], b>>]
    ELSE n

Buffer(p, i) == Extended(p.exts[i].name, Behind(p, i))

Loads(p, i) == Even(p.exts[i].name) => Behind(p, i) # "none"

-------------------------------------------------------------------------------
(***************************************************************************)
(* The daemon (ebpf.rs)                                                    *)
(***************************************************************************)
AddDomain(k) ==
  /\ blocklist' = blocklist \cup {k}
  /\ UNCHANGED <<packet, pc, ext, at, sni, dots, verdict, held>>

RemoveDomain(k) ==
  /\ blocklist' = blocklist \ {k} /\ held' = held \ {k}
  /\ UNCHANGED <<packet, pc, ext, at, sni, dots, verdict>>

-------------------------------------------------------------------------------
(***************************************************************************)
(* The classifier                                                          *)
(***************************************************************************)
Arrive(p) ==
  /\ pc \in {"idle", "done"} /\ pc' = "header"
  /\ packet' = p
  /\ ext' = 0 /\ at' = 0 /\ sni' = <<>> /\ dots' = 0
  /\ verdict' = "none" /\ held' = blocklist
  /\ UNCHANGED blocklist

Answer(what) ==
  /\ pc' = "done" /\ verdict' = what
  /\ UNCHANGED <<blocklist, packet, ext, at, sni, dots, held>>

(* An Ethernet frame whose first half-byte is 4 or 6 is read as an IP      *)
(* packet without the frame, and then is no ClientHello.                   *)
Recognised(p) == p.hello /\ (p.link = "ethernet" => p.mac \notin {4, 6})

NotRecognised == pc = "header" /\ ~Recognised(packet) /\ Answer("pass")

Header ==
  /\ pc = "header" /\ Recognised(packet) /\ pc' = "extensions"
  /\ UNCHANGED <<blocklist, packet, ext, at, sni, dots, verdict, held>>

(* The loops stop, or the segment ends before the next extension. *)
Searching ==
  /\ ext < MaxExtensions /\ at <= MaxExtBytes
  /\ ext < Len(packet.exts) /\ ext < packet.readable

NoServerName == pc = "extensions" /\ ~Searching /\ Answer("pass")

Skip ==
  /\ pc = "extensions" /\ Searching /\ packet.exts[ext + 1].type # "sni"
  /\ ext' = ext + 1 /\ at' = at + packet.exts[ext + 1].size
  /\ UNCHANGED <<blocklist, packet, pc, sni, dots, verdict, held>>

(* The first server name extension decides: a name that is empty, too long *)
(* or not all in the segment passes.                                       *)
Usable(p, i) ==
  /\ p.exts[i].host
  /\ Length(p.exts[i].name) \in 1..(MaxNameBytes - 1)
  /\ Loads(p, i)

Unusable ==
  /\ pc = "extensions" /\ Searching /\ packet.exts[ext + 1].type = "sni"
  /\ ~Usable(packet, ext + 1)
  /\ Answer("pass")

ServerName ==
  /\ pc = "extensions" /\ Searching /\ packet.exts[ext + 1].type = "sni"
  /\ Usable(packet, ext + 1)
  /\ pc' = "exact" /\ ext' = ext + 1 /\ sni' = packet.exts[ext + 1].name
  /\ UNCHANGED <<blocklist, packet, at, dots, verdict, held>>

(* Mutant of ExactMiss: a missing name is not looked up by its suffixes. *)
ExactMissPasses ==
  /\ pc = "exact" /\ Buffer(packet, ext) \notin blocklist
  /\ Answer("pass")

ExactHit ==
  /\ pc = "exact" /\ Buffer(packet, ext) \in blocklist
  /\ Answer("shot")

ExactMiss ==
  /\ pc = "exact" /\ Buffer(packet, ext) \notin blocklist
  /\ pc' = "suffix"
  /\ UNCHANGED <<blocklist, packet, ext, at, sni, dots, verdict, held>>

(* One pass of the suffix loop finds the next dot. *)
Walking == dots < MaxSuffixes /\ dots + 1 < Len(sni)

(* Mutant of SuffixHit: the key has no leading dot. *)
SuffixHitBare ==
  /\ pc = "suffix" /\ Walking
  /\ SubSeq(sni, dots + 2, Len(sni)) \in blocklist
  /\ Answer("shot")

SuffixHit ==
  /\ pc = "suffix" /\ Walking /\ Suffix(sni, dots + 1) \in blocklist
  /\ Answer("shot")

SuffixMiss ==
  /\ pc = "suffix" /\ Walking /\ Suffix(sni, dots + 1) \notin blocklist
  /\ dots' = dots + 1
  /\ UNCHANGED <<blocklist, packet, pc, ext, at, sni, verdict, held>>

NoSuffixLeft == pc = "suffix" /\ ~Walking /\ Answer("pass")

-------------------------------------------------------------------------------
Classify ==
  \/ NotRecognised \/ Header \/ NoServerName \/ Skip \/ Unusable \/ ServerName
  \/ ExactHit \/ ExactMiss \/ SuffixHit \/ SuffixMiss \/ NoSuffixLeft

Next ==
  \/ \E k \in Key : AddDomain(k) \/ RemoveDomain(k)
  \/ \E p \in Packet : Arrive(p)
  \/ Classify

Spec == Init /\ [][Next]_vars

-------------------------------------------------------------------------------
(***************************************************************************)
(* Properties                                                              *)
(***************************************************************************)
(* A key covers the name itself, or as a suffix key every longer name. *)
Covers(k, n) == k = n \/ \E d \in 1..(Len(n) - 1) : k = Suffix(n, d)

(* The loop comes to a host name of usable length in the i-th extension: it *)
(* is the first server name, within the loop's bounds and the segment.     *)
Server(i) ==
  /\ i \in 1..packet.readable /\ i <= MaxExtensions /\ at <= MaxExtBytes
  /\ packet.exts[i].type = "sni" /\ \A j \in 1..(i - 1) : packet.exts[j].type # "sni"
  /\ packet.exts[i].host /\ Length(packet.exts[i].name) \in 1..(MaxNameBytes - 1)

(* The byte behind the name does not matter or does not show. *)
Unspoilt(i) == Even(packet.exts[i].name) => Behind(packet, i) = Zero

(* A packet is dropped only for its first server name, by a key that stands *)
(* in the map at that moment.  The key covers the name; or the name has    *)
(* even length, the byte behind it was in the segment and is not 0, and    *)
(* the key is the name with that byte: x.bi in front of a z is dropped for *)
(* x.biz.                                                                  *)
ShotOnlyIfListed ==
  [][verdict' = "shot" /\ verdict # "shot"
       => \E i \in 1..Len(packet.exts), k \in blocklist :
            /\ packet.exts[i].type = "sni"
            /\ \A j \in 1..(i - 1) : packet.exts[j].type # "sni"
            /\ \/ Covers(k, packet.exts[i].name)
               \/ ~Unspoilt(i) /\ Loads(packet, i) /\ k = Buffer(packet, i)]_vars

(* The same without the second case, which is what the comment on the     *)
(* lookup says ("exact match").                                            *)
ShotOnlyIfCovered ==
  [][verdict' = "shot" /\ verdict # "shot"
       => \E i \in 1..Len(packet.exts), k \in blocklist :
            packet.exts[i].type = "sni" /\ Covers(k, packet.exts[i].name)]_vars

(* A recognised packet passes only if no key covers its host name, of all  *)
(* that stood in the map while it was looked up; except for suffixes       *)
(* behind the MaxSuffixes-th dot, and where the byte behind a name of even *)
(* length spoils it.                                                       *)
ListedNeverPasses ==
  pc = "done" /\ verdict = "pass" /\ Recognised(packet)
    => \A i \in 1..Len(packet.exts) :
         Server(i) /\ Unspoilt(i)
           => /\ packet.exts[i].name \notin held
              /\ \A d \in 1..(Len(packet.exts[i].name) - 1) :
                   d <= MaxSuffixes => Suffix(packet.exts[i].name, d) \notin held

(* "Step 1: exact match": a host name that is itself a key is dropped. *)
ExactNamesDropped ==
  pc = "done" /\ verdict = "pass" /\ Recognised(packet)
    => \A i \in 1..Len(packet.exts) :
         Server(i) /\ Loads(packet, i) => packet.exts[i].name \notin held

-------------------------------------------------------------------------------
(* Why ListedNeverPasses holds (SniFilterProofs): the extensions passed    *)
(* over are no server names, sni is the first one, and no key held so far  *)
(* is among the names already looked up.                                   *)
LookupInv ==
  /\ pc = "extensions" =>
       /\ ext \in 0..Len(packet.exts) /\ dots = 0
       /\ \A j \in 1..ext : packet.exts[j].type # "sni"
  /\ pc \in {"exact", "suffix"} =>
       /\ ext \in 1..Len(packet.exts)
       /\ packet.exts[ext].type = "sni"
       /\ \A j \in 1..(ext - 1) : packet.exts[j].type # "sni"
       /\ sni = packet.exts[ext].name /\ Loads(packet, ext)
  /\ pc = "exact" => dots = 0
  /\ pc = "suffix" /\ Unspoilt(ext) =>
       sni \notin held /\ \A d \in 1..dots : Suffix(sni, d) \notin held
  /\ pc \in {"idle", "header"} => ext = 0 /\ dots = 0
  /\ ListedNeverPasses
===============================================================================
