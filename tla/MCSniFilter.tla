----------------------------- MODULE MCSniFilter ------------------------------
(* Instances of SniFilter for TLC. *)
EXTENDS SniFilter, SequencesExt

CONSTANTS com, bi, biz, x, y, other, z, dot

(* The byte behind a name: 0, a letter (as in GREASE types), a dot, any     *)
(* other.  The letter z makes another name of one that ends in bi.         *)
Labels == {com, bi, biz, x, y, other}
Sizes == com :> 3 @@ bi :> 2 @@ biz :> 3 @@ x :> 1 @@ y :> 2 @@ other :> 4 @@ Empty :> 0
Behinds == {Zero, z, dot, other}
JoinedLabels ==
  [lb \in (Labels \cup {Empty}) \X (Behinds \ {Zero}) |->
     IF lb[2] = dot THEN <<lb[1], Empty>>
     ELSE IF lb = <<bi, z>> THEN <<biz>>
     ELSE <<other>>]

(* Keys of even and of odd length, with and without the leading dot; in    *)
(* front of the second, names of 12 labels.  The last one is what x.bi     *)
(* becomes in front of a z.                                                *)
Keys == {<<x, com>>, <<y, com>>, <<Empty, y, com>>, <<x, biz>>}
Deep == [i \in 1..10 |-> x] \o <<y, com>>
Deeper == <<x>> \o Deep
Names == {<<x, bi>>, <<x, biz>>, <<x, com>>, <<y, com>>, <<x, y, com>>, <<y, x, com>>, <<x, Empty, y, com>>,
          <<y, com, Empty>>, <<Empty>>, Deep, Deeper, [i \in 1..30 |-> com] \o <<y, com>>}

Server1(n, h) == [type |-> "sni", first |-> Zero, size |-> 9 + Length(n), host |-> h,
                  name |-> n]
Plain(b, n) == [type |-> "other", first |-> b, size |-> n, host |-> FALSE, name |-> <<com>>]

(* The server name first, in the middle, last, twice, not a host name,     *)
(* behind more extensions or more bytes than the loop goes through.        *)
Lists(n) ==
  { <<Server1(n, TRUE)>>, <<Server1(n, FALSE)>>, <<Plain(Zero, 4)>>,
    <<Plain(other, 8), Server1(n, TRUE), Plain(Zero, 4)>>,
    <<Server1(n, TRUE), Plain(other, 4)>>,
    <<Server1(n, TRUE), Plain(z, 4)>>,
    <<Server1(n, TRUE), Server1(<<x, com>>, TRUE)>>,
    <<Plain(Zero, 1024), Server1(n, TRUE)>>,
    <<Plain(Zero, 1025), Server1(n, TRUE)>> }
Long(k) == [i \in 1..k |-> Plain(Zero, 4)] \o <<Server1(<<x, com>>, TRUE)>>

Hello(e, r, b) == [link |-> "tun", mac |-> 0, hello |-> TRUE, exts |-> e,
                   readable |-> r, next |-> b]
Packets ==
  UNION {{Hello(e, Len(e), b) : b \in Behinds \cup {"none"}}
         \cup {Hello(e, Len(e) - 1, "none")} : e \in UNION {Lists(n) : n \in Names}}
  \cup {Hello(Long(k), k + 1, Zero) : k \in {63, 64}}
  \cup {[Hello(<<Server1(<<x, com>>, TRUE)>>, 1, "none")
           EXCEPT !.link = "ethernet", !.mac = m, !.hello = h]
          : m \in {0, 4, 6}, h \in BOOLEAN}
===============================================================================
