------------------------------ MODULE Updater ------------------------------
(***************************************************************************)
(* The client's self-update on Linux (src/src/common/updater.cpp), started *)
(* in a detached thread each time the program starts: ask for the latest   *)
(* release, compare versions, fetch the asset, let a shell child unpack it *)
(* and copy it over the program, wait at most 120 seconds for the child    *)
(* and execv the program, which starts again and asks again.               *)
(*                                                                         *)
(* A version is the sequence of the numbers between the dots of its tag.   *)
(* The program built for a release reports the release's version.  The     *)
(* child outlives its parent, and the find and the cp it runs outlive the  *)
(* SIGKILL sent to the shell; Slots bounds how many children live at once. *)
(***************************************************************************)
EXTENDS Integers, Sequences

CONSTANTS
  Tags,       \* the versions of the releases that may be published
  First,      \* the version installed at first
  None,       \* no version: not running, nothing unpacked, an unreadable asset
  Broken,     \* a program file that is not whole
  MaxInt,     \* the largest int (bound): std::stoi throws beyond it
  Slots       \* how many children live at once (bound)

ASSUME UpdaterAssumption ==
  /\ Slots # {}
  /\ First \in Tags /\ Tags \subseteq Seq(Nat) \ {<<>>}
  /\ None \notin Tags \cup {Broken} /\ Broken \notin Tags

VARIABLES
  latest,     \* the tag of the latest release
  running,    \* the version of the running process
  pc,         \* where its update thread is
  target,     \* the release it has found newer
  asset,      \* what its asset file holds
  unpacked,   \* what its temporary directory, named by its pid, holds
  disk,       \* the program file
  child,      \* what each child is doing
  from,       \* what each child copies
  old,        \* what its directory held before, from an earlier round
  mine,       \* the child this process waits for
  failed      \* history: whether a download or a command has failed half-way

vars ==
  <<latest, running, pc, target, asset, unpacked, disk, child, from, old, mine, failed>>

(* ------------------------------- versions ------------------------------ *)

Segment(v, k) == IF k <= Len(v) THEN v[k] ELSE 0

\* compareVersion: missing numbers are 0, numbers after the third do not count.
compareVersion(a, b) ==
  LET Differ == {k \in 1 .. 3 : Segment(a, k) # Segment(b, k)}
      k == CHOOSE k \in Differ : \A j \in Differ : k <= j
  IN IF Differ = {} THEN 0 ELSE IF Segment(a, k) < Segment(b, k) THEN -1 ELSE 1

\* std::stoi throws, and nothing catches it in the detached thread.
Throws(v) == \E k \in DOMAIN v : v[k] > MaxInt

(* ------------------------------ the process ---------------------------- *)

Init ==
  /\ latest = First
  /\ running = First
  /\ pc = "check"
  /\ target = None
  /\ asset = None
  /\ unpacked = None
  /\ disk = First
  /\ child = [s \in Slots |-> "none"]
  /\ from = [s \in Slots |-> None]
  /\ old = [s \in Slots |-> None]
  /\ mine = CHOOSE s \in Slots : TRUE
  /\ failed = FALSE

\* A release is published; GitHub's latest is the highest version.
Publish(t) ==
  /\ compareVersion(latest, t) < 0
  /\ latest' = t
  /\ UNCHANGED <<failed, running, pc, target, asset, unpacked, disk, child, from, old, mine>>

\* The update thread goes to l; giving up leaves the process running.
Go(l) == pc' = l
GiveUp == Go("idle")

(* mutant: the same version counts as newer *)
CheckSameToo ==
  /\ pc = "check"
  /\ ~Throws(latest)
  /\ IF compareVersion(running, latest) > 0
     THEN GiveUp /\ UNCHANGED target
     ELSE Go("asset") /\ target' = latest
  /\ UNCHANGED <<failed, latest, running, asset, unpacked, disk, child, from, old, mine>>

\* maybeSelfUpdate up to the comparison, with an answer that parses.
Check ==
  /\ pc = "check"
  /\ ~Throws(latest)
  /\ IF compareVersion(running, latest) >= 0
     THEN GiveUp /\ UNCHANGED target
     ELSE Go("asset") /\ target' = latest
  /\ UNCHANGED <<failed, latest, running, asset, unpacked, disk, child, from, old, mine>>

\* The comparison throws out of the thread: std::terminate.
CheckThrows ==
  /\ pc = "check"
  /\ Throws(latest)
  /\ Go("dead")
  /\ running' = None
  /\ UNCHANGED <<failed, latest, target, asset, unpacked, disk, child, from, old, mine>>

\* No answer, no JSON, no tag, no asset for the platform, no directory, no body, a
\* path with shell characters, no child: log and go on with this version.
Fails ==
  /\ pc \in {"check", "asset", "fork"}
  /\ GiveUp
  /\ failed' = TRUE
  /\ UNCHANGED <<latest, running, target, asset, unpacked, disk, child, from, old, mine>>

\* httpsGet returns whatever body came, without a look at the status, and the
\* write of the file is not checked: the asset may be no archive at all.
Fetch ==
  /\ pc = "asset"
  /\ \/ asset' = target /\ UNCHANGED failed
     \/ asset' = None /\ failed' = TRUE
  /\ Go("fork")
  /\ UNCHANGED <<latest, running, target, unpacked, disk, child, from, old, mine>>

Fork(s) ==
  /\ pc = "fork"
  /\ child[s] = "none"
  /\ child' = [child EXCEPT ![s] = "unpack"]
  /\ from' = [from EXCEPT ![s] = asset]
  /\ old' = [old EXCEPT ![s] = unpacked]
  /\ mine' = s
  /\ Go("wait")
  /\ UNCHANGED <<failed, latest, running, target, asset, unpacked, disk>>

(* ---------------------- the child: ar, tar, find, cp ------------------- *)

\* ar and tar; when they fail, find still runs, over what an earlier round of the
\* same pid has left in the directory.
Unpack(s) ==
  /\ child[s] = "unpack"
  /\ child' = [child EXCEPT ![s] = "copy"]
  /\ \/ /\ from[s] # None
        /\ unpacked' = IF s = mine /\ pc = "wait" THEN from[s] ELSE unpacked
        /\ UNCHANGED <<from, failed>>
     \/ /\ from' = [from EXCEPT ![s] = old[s]]
        /\ failed' = TRUE
        /\ UNCHANGED unpacked
  /\ UNCHANGED <<latest, running, pc, target, asset, disk, old, mine>>

\* cp -f truncates or unlinks the file and then fills it.
CopyBegin(s) ==
  /\ child[s] = "copy"
  /\ from[s] # None
  /\ disk' = Broken
  /\ child' = [child EXCEPT ![s] = "write"]
  /\ UNCHANGED <<failed, latest, running, pc, target, asset, unpacked, from, old, mine>>

CopyEnd(s) ==
  /\ child[s] = "write"
  /\ \/ disk' = from[s] /\ UNCHANGED failed
     \/ disk' = Broken /\ failed' = TRUE
  /\ child' = [child EXCEPT ![s] = "exited"]
  /\ UNCHANGED <<latest, running, pc, target, asset, unpacked, from, old, mine>>

\* Nothing found, or a file that cannot be written: find's exit status is 0 anyway.
CopyNothing(s) ==
  /\ child[s] = "copy"
  /\ child' = [child EXCEPT ![s] = "exited"]
  /\ failed' = TRUE
  /\ UNCHANGED <<latest, running, pc, target, asset, unpacked, disk, from, old, mine>>

\* A child nobody waits for is gone when it has exited.
Orphan(s) == child[s] # "none" /\ ~(pc = "wait" /\ s = mine)

OrphanGone(s) ==
  /\ Orphan(s)
  /\ child[s] = "exited"
  /\ child' = [child EXCEPT ![s] = "none"]
  /\ UNCHANGED <<failed, latest, running, pc, target, asset, unpacked, disk, from, old, mine>>

(* ------------------------- waiting and restarting ---------------------- *)

\* waitpid: the shell has exited with status 0.
Waited ==
  /\ pc = "wait"
  /\ child[mine] = "exited"
  /\ child' = [child EXCEPT ![mine] = "none"]
  /\ Go("exec")
  /\ UNCHANGED <<failed, latest, running, target, asset, unpacked, disk, from, old, mine>>

(* mutant: the signal goes to the whole process group *)
KilledGroup(w) == {"none"}

\* 120 seconds are over.  SIGKILL ends the shell, which starts nothing more; a find it
\* has already started goes on, and so does the cp of that find.
KilledAt(w) ==
  CASE w = "write" -> {"write"}
    [] w = "copy" -> {"copy", "none"}
    [] OTHER -> {"none"}

TimedOut ==
  /\ pc = "wait"
  /\ child[mine] # "exited"
  /\ \E w \in KilledAt(child[mine]) : child' = [child EXCEPT ![mine] = w]
  /\ GiveUp
  /\ UNCHANGED <<failed, latest, running, target, asset, unpacked, disk, from, old, mine>>

(* mutant: the file is taken for whole *)
ExecAnything ==
  /\ pc = "exec"
  /\ running' = disk
  /\ Go("check")
  /\ UNCHANGED <<failed, latest, target, asset, unpacked, disk, child, from, old, mine>>

\* execv: the same pid, hence the same directory.  It fails while the file is being
\* written; a file left half-written may be taken, and dies.
Exec ==
  /\ pc = "exec"
  /\ \/ /\ disk # Broken
        /\ running' = disk
        /\ Go("check")
     \/ /\ disk = Broken
        /\ GiveUp
        /\ UNCHANGED running
     \/ /\ disk = Broken
        /\ \A s \in Slots : child[s] # "write"
        /\ running' = None
        /\ Go("dead")
  /\ UNCHANGED <<failed, latest, target, asset, unpacked, disk, child, from, old, mine>>

\* The user stops the process, at any moment, and starts the program again.
Stop ==
  /\ running # None
  /\ running' = None
  /\ Go("off")
  /\ UNCHANGED <<failed, latest, target, asset, unpacked, disk, child, from, old, mine>>

Start ==
  /\ pc \in {"off", "dead"}
  /\ disk # Broken
  /\ running' = disk
  /\ Go("check")
  /\ unpacked' = None
  /\ asset' = None
  /\ target' = None
  /\ UNCHANGED <<failed, latest, disk, child, from, old, mine>>

ChildStep(s) ==
  Unpack(s) \/ CopyBegin(s) \/ CopyEnd(s) \/ CopyNothing(s) \/ OrphanGone(s)

ProcessStep ==
  \/ Check \/ CheckThrows \/ Fails \/ Fetch \/ Waited \/ TimedOut \/ Exec
  \/ \E s \in Slots : Fork(s)

Next ==
  \/ ProcessStep
  \/ \E s \in Slots : ChildStep(s)
  \/ \E t \in Tags : Publish(t)
  \/ Stop \/ Start

Spec == Init /\ [][Next]_vars

\* The update thread goes on, except that a read over TLS, of the release or of the
\* asset, may never return; a child may hang, and the user and GitHub need do nothing.
FairSpec == Spec /\ WF_vars(pc \notin {"check", "asset"} /\ ProcessStep)

(* ------------------------------ properties ----------------------------- *)

\* The state keeps its types.
TypeOK ==
  /\ latest \in Tags
  /\ running \in Tags \cup {None}
  /\ pc \in {"check", "asset", "fork", "wait", "exec", "idle", "dead", "off"}
  /\ {target, asset, unpacked} \subseteq Tags \cup {None}
  /\ disk \in Tags \cup {Broken}
  /\ child \in [Slots -> {"none", "unpack", "copy", "write", "exited"}]
  /\ {from, old} \subseteq [Slots -> Tags \cup {None}]
  /\ mine \in Slots
  /\ failed \in BOOLEAN
  /\ running = None <=> pc \in {"dead", "off"}

\* The program file is whole whenever no copy is under way, although the process
\* may be stopped and the child killed at any moment (applyUpdateLinux), unless a
\* command has failed half-way.
FileWhole == disk = Broken /\ ~failed => \E s \in Slots : child[s] = "write"

\* The wait for the child ends although the child may hang (applyUpdateLinux).
WaitEnds == pc = "wait" ~> pc # "wait"

\* The program restarts itself a finite number of times only, unless the user goes on
\* restarting it: src/src/common/updater.hpp:10 says that any failure goes to the log
\* and the present version goes on.  The code breaks it when something fails.
NoRestartLoop == <>[](pc # "exec") \/ []<>(pc = "off")

\* When nothing fails the restarts do end: each runs a release that compareVersion
\* puts higher, although releases may differ in the third number, have only two, or
\* appear while the child copies (maybeSelfUpdate).
RestartsEnd == <>failed \/ NoRestartLoop

\* A process that the user has not stopped keeps running, by the same line; the code
\* breaks it with a tag whose number fits no int.
KeepsRunning == pc # "dead"

\* An update comes to an end: the wait for the child does, and so does the series of
\* restarts when nothing fails (applyUpdateLinux, maybeSelfUpdate).
UpdateEnds == RestartsEnd /\ WaitEnds
=============================================================================
