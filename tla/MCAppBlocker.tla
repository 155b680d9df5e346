----------------------------- MODULE MCAppBlocker -----------------------------
(* Instances of AppBlocker for TLC. *)
EXTENDS AppBlocker, TLC

CONSTANTS game, notify,                   \* programs
          gameName, notifyName, unknownName,
          star                            \* the pattern "*"

Programs == {game, notify}
AppNames == {gameName, notifyName, unknownName}
Patterns == {star}
Bases == game :> gameName @@ notify :> notifyName @@ Unknown :> unknownName
Matching == star :> AppNames

(* The pattern blocks notify-send along with everything else, the path a   *)
(* program of the user only.                                               *)
Blocks == {game, star}
===============================================================================
