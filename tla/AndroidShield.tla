----------------------------- MODULE AndroidShield -----------------------------
(***************************************************************************)
(* The Android shield: every half second AppBlockerService asks the usage  *)
(* statistics for the app in front, and starts ShieldActivity over it if   *)
(* it is blocked and not the one it has shielded last.  The statistics may *)
(* lag, the activity comes later, the user goes where he likes, and the    *)
(* list and the service change; all of the service is on the main thread.  *)
(*                                                                         *)
(* Wildcards are resolved to the packages they cover.  Left out are the    *)
(* moments in which the statistics name nothing, where the poll returns,   *)
(* and a system that does not let the service start an activity.           *)
(***************************************************************************)
EXTENDS FiniteSets

CONSTANTS
  App,           \* the packages that may be blocked
  Home,          \* the launcher
  Own,           \* packageName: ShieldActivity, MainActivity
  NoPackage      \* the empty name

ASSUME PackageAssumption ==
  Home \notin App /\ Own \notin App /\ Home # Own /\ NoPackage \notin App \cup {Home, Own}

VARIABLES
  front,                  \* the package in front
  reported,               \* the one that the statistics name
  blockedPackages, isRunning,
  lastForegroundPackage,
  shieldPending,          \* startActivity was called, the shield is not there yet
  returned                \* history: the app in front was the last one shielded as it came

service == <<blockedPackages, isRunning, lastForegroundPackage>>
shieldVars == <<front, reported, service, shieldPending, returned>>

Packages == App \cup {Home, Own}

ShieldTypeOK ==
  /\ front \in Packages /\ reported \in Packages
  /\ blockedPackages \in SUBSET App /\ isRunning \in BOOLEAN
  /\ lastForegroundPackage \in App \cup {NoPackage}
  /\ shieldPending \in BOOLEAN /\ returned \in BOOLEAN

ShieldInit ==
  /\ front \in Packages /\ reported \in Packages
  /\ blockedPackages = {} /\ isRunning = FALSE /\ lastForegroundPackage = NoPackage
  /\ shieldPending = FALSE /\ returned = FALSE

-------------------------------------------------------------------------------
(***************************************************************************)
(* The user and the system                                                 *)
(***************************************************************************)
(* An app is opened from the home screen, the recents or a notification. *)
Open(a) ==
  /\ front # a /\ front' = a /\ returned' = (lastForegroundPackage = a)
  /\ UNCHANGED <<reported, service, shieldPending>>

(* The home button, or goHome: of the shield's button and its back key. *)
GoHome ==
  /\ front # Home /\ front' = Home /\ returned' = FALSE
  /\ UNCHANGED <<reported, service, shieldPending>>

Report ==
  /\ reported' = front /\ UNCHANGED <<front, service, shieldPending, returned>>

(* onCreate, onNewIntent: the shield comes in front, whatever is there by  *)
(* then.                                                                   *)
ShowShield ==
  /\ shieldPending /\ shieldPending' = FALSE /\ front' = Own /\ returned' = FALSE
  /\ UNCHANGED <<reported, service>>

-------------------------------------------------------------------------------
(***************************************************************************)
(* The service                                                             *)
(***************************************************************************)
(* The list is loaded anew; what was shielded last is not forgotten. *)
StartBlocking(set) ==
  /\ ~isRunning /\ isRunning' = TRUE /\ blockedPackages' = set
  /\ UNCHANGED <<front, reported, lastForegroundPackage, shieldPending, returned>>

StopBlocking ==
  /\ isRunning /\ isRunning' = FALSE
  /\ UNCHANGED <<front, reported, blockedPackages, lastForegroundPackage, shieldPending, returned>>

(* A broadcast: the receiver stays registered when the service stops. *)
UpdatePackages(set) ==
  /\ blockedPackages' = set
  /\ UNCHANGED <<front, reported, isRunning, lastForegroundPackage, shieldPending, returned>>

(* onDestroy, or the end of the process: the next service is a new one. *)
Destroy ==
  /\ isRunning' = FALSE /\ blockedPackages' = {} /\ lastForegroundPackage' = NoPackage
  /\ UNCHANGED <<front, reported, shieldPending, returned>>

Checks(last, show) ==
  /\ isRunning
  /\ lastForegroundPackage' = last /\ shieldPending' = (shieldPending \/ show)
  /\ UNCHANGED <<front, reported, blockedPackages, isRunning, returned>>

(* Mutant of CheckForegroundApp: the app in front is kept, blocked or not. *)
CheckKeepsAll ==
  IF reported \notin App
    THEN Checks(IF reported = Own THEN lastForegroundPackage ELSE NoPackage, FALSE)
    ELSE Checks(reported, reported \in blockedPackages /\ reported # lastForegroundPackage)

(* Mutant of CheckForegroundApp: one shield until an app that is not       *)
(* blocked is seen.                                                        *)
CheckOnce ==
  \/ reported = Own /\ Checks(lastForegroundPackage, FALSE)
  \/ /\ reported \in blockedPackages /\ lastForegroundPackage = NoPackage /\ Checks(reported, TRUE)
  \/ /\ reported \in blockedPackages /\ lastForegroundPackage # NoPackage
     /\ Checks(lastForegroundPackage, FALSE)
  \/ reported \notin blockedPackages \cup {Own} /\ Checks(NoPackage, FALSE)

CheckForegroundApp ==
  \/ reported = Own /\ Checks(lastForegroundPackage, FALSE)
  \/ /\ reported \in blockedPackages
     /\ Checks(reported, reported # lastForegroundPackage)
  \/ reported \notin blockedPackages \cup {Own} /\ Checks(NoPackage, FALSE)

-------------------------------------------------------------------------------
ShieldNext ==
  \/ \E a \in App \cup {Own} : Open(a)
  \/ GoHome \/ Report \/ ShowShield
  \/ \E set \in SUBSET App : StartBlocking(set) \/ UpdatePackages(set)
  \/ StopBlocking \/ Destroy \/ CheckForegroundApp

ShieldSpec == ShieldInit /\ [][ShieldNext]_shieldVars

(* The handler runs every half second; the statistics catch up, and the    *)
(* activity comes.                                                         *)
ShieldFairSpec ==
  /\ ShieldSpec
  /\ WF_shieldVars(CheckForegroundApp) /\ WF_shieldVars(Report) /\ WF_shieldVars(ShowShield)

-------------------------------------------------------------------------------
(***************************************************************************)
(* Properties                                                              *)
(***************************************************************************)
(* The app in front is the one shielded last only while its shield is on   *)
(* its way, or if it was the one shielded last when it came: only who      *)
(* comes back before the poll has seen another app stays unshielded        *)
(* (AppBlockerService.kt:146).                                             *)
MarkedIsShielded == lastForegroundPackage = front => shieldPending \/ returned

Usable(a) == isRunning /\ front = a /\ a \in blockedPackages

(* While the service runs, a blocked app in front is covered in the end,   *)
(* unless it was the one shielded last when it came.                       *)
NewcomerIsShielded ==
  \A a \in App : Usable(a) /\ ~returned ~> ~Usable(a) \/ returned

(* "Every 500 ms the app in front is looked up; if it is in the list,      *)
(* ShieldActivity is started at once to cover it" (AppBlockerService.kt):  *)
(* a blocked app does not stay in front while the service runs.            *)
BlockedIsShielded == \A a \in App : Usable(a) ~> ~Usable(a)
===============================================================================
