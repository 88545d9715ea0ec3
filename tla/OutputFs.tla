------------------------------ MODULE OutputFs ------------------------------
(* The three file writers of crates/ethernal-core/src/output.rs, run by     *)
(* several processes on one directory: write_new_0600 ("new", keystores),   *)
(* write_atomic ("atomic", transaction artifacts) and FsWriter::write       *)
(* ("deposit", deposit_data).  One system call is one step.  Calls may fail *)
(* (at most MaxFaults of them), a process may be killed between two calls,  *)
(* and power may be lost once, which keeps of the unsynced changes whatever *)
(* it likes.                                                                *)
EXTENDS Naturals, FiniteSets

CONSTANTS
  Procs,      \* the processes; each makes one call
  Targets,    \* final paths
  TmpNames,   \* the names create_unique_tmp may come up with
  Calls,      \* the assignments of a call [op, target] to each process
  None, Old, Empty, Torn,
  MaxFaults, MaxKills

ASSUME BoundsAssumption == MaxFaults \in Nat /\ MaxKills \in Nat
ASSUME CallsAssumption  ==
  Calls \subseteq [Procs -> [op : {"new", "atomic", "deposit"}, target : Targets]]
ASSUME DistinctAssumption ==
  /\ {None, Old, Empty, Torn} \cap (Procs \cup Targets) = {}
  /\ Empty # Torn /\ Old \notin {None, Empty, Torn} /\ None \notin {Empty, Torn}

VARIABLES
  call,      \* call[p]: the call process p makes
  links,     \* the file system supports hard links
  dir,       \* the directory as processes see it: name -> inode
  durDir,    \* the directory a power loss cannot take back
  data,      \* inode -> what reading it returns
  synced,    \* inode -> what of it a power loss cannot take back
  pc,
  tmp,       \* the name of p's temporary file, while p has one
  fd,        \* the inode p's open file writes to
  result,    \* what the call will return
  faults,    \* the calls that failed, <<process, step>>
  kills, powerLost

fsVars   == <<dir, durDir, data, synced>>
procVars == <<pc, tmp, fd, result>>
envVars  == <<call, links, faults, kills, powerLost>>
vars     == <<fsVars, procVars, envVars>>

DepositTmp(t) == <<t, "tmp">>     \* .deposit_data-<ts>.json.tmp
Ino(p)        == <<p, "ino">>     \* the inode p's open call creates
Stub(p)       == <<p, "stub">>    \* the inode of p's reservation of the final name
OldIno(t)     == <<t, "old">>     \* a file that was there before

Names    == Targets \cup TmpNames \cup {DepositTmp(t) : t \in Targets}
Inodes   == {Ino(p) : p \in Procs} \cup {Stub(p) : p \in Procs}
              \cup {OldIno(t) : t \in Targets}
Contents == Procs \cup {Old, Empty, Torn}

ASSUME NamesAssumption ==
  /\ None \notin Inodes
  /\ Targets \cap (TmpNames \cup {DepositTmp(t) : t \in Targets}) = {}

Target(p) == call[p].target
IsNew(p)  == call[p].op = "new"
IsDeposit(p) == call[p].op = "deposit"

Init ==
  /\ call \in Calls
  /\ links \in BOOLEAN
  /\ \E there \in SUBSET Targets :
       dir = [n \in Names |-> IF n \in there THEN OldIno(n) ELSE None]
  /\ durDir = dir
  /\ data = [i \in Inodes |-> IF i \in {OldIno(t) : t \in Targets} THEN Old ELSE Empty]
  /\ synced = data
  /\ pc = [p \in Procs |-> "start"]
  /\ tmp = [p \in Procs |-> None]
  /\ fd = [p \in Procs |-> None]
  /\ result = [p \in Procs |-> "pending"]
  /\ faults = {} /\ kills = 0 /\ powerLost = FALSE

Goto(p, label)  == pc' = [pc EXCEPT ![p] = label]
Answer(p, r)    == result' = [result EXCEPT ![p] = r]

(* The system call of p's present step fails. *)
Fault(p) ==
  /\ Cardinality(faults) < MaxFaults
  /\ faults' = faults \cup {<<p, pc[p]>>}
  /\ UNCHANGED <<call, links, kills, powerLost>>

(* Leaving the call with an error once the temporary file exists: the guard *)
(* (or FsWriter's own code) removes it.                                     *)
GiveUp(p, err) == Goto(p, "cleanup") /\ Answer(p, err) /\ UNCHANGED <<tmp, fd>>

(* FAULTY: the entry stays, leading to no inode. *)
UnlinkDangling(n) == dir' = [dir EXCEPT ![n] = Empty]

Unlink(n) == dir' = [dir EXCEPT ![n] = None]

-----------------------------------------------------------------------------
(* FAULTY: the guard is armed before the exclusive create, so that a name   *)
(* that is taken is removed on the way out.                                 *)
CreateGuardFirst(p) ==
  /\ pc[p] = "start" /\ ~IsDeposit(p)
  /\ \E n \in TmpNames :
       IF dir[n] = None
       THEN /\ dir' = [dir EXCEPT ![n] = Ino(p)]
            /\ tmp' = [tmp EXCEPT ![p] = n]
            /\ fd' = [fd EXCEPT ![p] = Ino(p)]
            /\ Goto(p, IF IsNew(p) THEN "write" ELSE "chmod")
            /\ UNCHANGED <<durDir, data, synced, result, envVars>>
       ELSE /\ tmp' = [tmp EXCEPT ![p] = n]
            /\ Goto(p, "cleanup") /\ Answer(p, "OpenTmp")
            /\ UNCHANGED <<fsVars, fd, envVars>>

(* create_unique_tmp: an exclusive create of a name nobody has.  A name     *)
(* that is taken is skipped by the loop and is no step of its own.          *)
CreateUniqueTmp(p) ==
  /\ pc[p] = "start" /\ ~IsDeposit(p)
  /\ \/ \E n \in TmpNames :
          /\ dir[n] = None
          /\ dir' = [dir EXCEPT ![n] = Ino(p)]
          /\ tmp' = [tmp EXCEPT ![p] = n]
          /\ fd' = [fd EXCEPT ![p] = Ino(p)]
          /\ Goto(p, IF IsNew(p) THEN "write" ELSE "chmod")
          /\ UNCHANGED <<durDir, data, synced, result, envVars>>
     \/ /\ Fault(p)
        /\ Goto(p, "returned") /\ Answer(p, "OpenTmp")
        /\ UNCHANGED <<fsVars, tmp, fd>>

(* FsWriter opens its fixed temporary name with create + truncate: a file   *)
(* that is already there is emptied and shared.                             *)
OpenDepositTmp(p) ==
  LET n == DepositTmp(Target(p)) IN
  /\ pc[p] = "start" /\ IsDeposit(p)
  /\ \/ /\ LET i == IF dir[n] = None THEN Ino(p) ELSE dir[n] IN
             /\ dir' = [dir EXCEPT ![n] = i]
             /\ data' = [data EXCEPT ![i] = Empty]
             /\ fd' = [fd EXCEPT ![p] = i]
        /\ tmp' = [tmp EXCEPT ![p] = n]
        /\ Goto(p, "write")
        /\ UNCHANGED <<durDir, synced, result, envVars>>
     \/ /\ Fault(p)
        /\ Goto(p, "cleanup") /\ Answer(p, "OpenTmp")
        /\ tmp' = [tmp EXCEPT ![p] = n]
        /\ UNCHANGED <<fsVars, fd>>

(* write_atomic sets the requested mode before it writes. *)
Chmod(p) ==
  /\ pc[p] = "chmod"
  /\ \/ Goto(p, "write") /\ UNCHANGED <<fsVars, tmp, fd, result, envVars>>
     \/ Fault(p) /\ GiveUp(p, "OpenTmp") /\ UNCHANGED fsVars

(* write_all through p's own descriptor, from offset 0: over bytes another  *)
(* process has put there the outcome depends on the lengths.                *)
WriteAll(p) ==
  /\ pc[p] = "write"
  /\ \/ /\ data' \in IF data[fd[p]] \in {Empty, p}
                     THEN {[data EXCEPT ![fd[p]] = p]}
                     ELSE {[data EXCEPT ![fd[p]] = c] : c \in {p, Torn}}
        /\ Goto(p, "sync")
        /\ UNCHANGED <<dir, durDir, synced, tmp, fd, result, envVars>>
     \/ /\ Fault(p) /\ GiveUp(p, "WriteTmp")
        /\ data' = [data EXCEPT ![fd[p]] = Torn]
        /\ UNCHANGED <<dir, durDir, synced>>

(* FAULTY: the file is published without being synced. *)
SyncNothing(p) ==
  /\ pc[p] = "sync"
  /\ \/ Goto(p, "publish") /\ UNCHANGED <<fsVars, tmp, fd, result, envVars>>
     \/ Fault(p) /\ GiveUp(p, "SyncTmp") /\ UNCHANGED fsVars

SyncAll(p) ==
  /\ pc[p] = "sync"
  /\ \/ /\ synced' = [synced EXCEPT ![fd[p]] = data[fd[p]]]
        /\ Goto(p, "publish")
        /\ UNCHANGED <<dir, durDir, data, tmp, fd, result, envVars>>
     \/ Fault(p) /\ GiveUp(p, "SyncTmp") /\ UNCHANGED fsVars

-----------------------------------------------------------------------------
(* The primary publish of write_new_0600.  hard_link refuses a taken name;  *)
(* on a file system without links the call goes on to the reservation.      *)
HardLink(p) ==
  /\ pc[p] = "publish" /\ IsNew(p)
  /\ \/ /\ links /\ dir[Target(p)] = None
        /\ dir' = [dir EXCEPT ![Target(p)] = dir[tmp[p]]]
        /\ Goto(p, "unlink")
        /\ UNCHANGED <<durDir, data, synced, tmp, fd, result, envVars>>
     \/ /\ links /\ dir[Target(p)] # None
        /\ GiveUp(p, "AlreadyExists") /\ UNCHANGED <<fsVars, envVars>>
     \/ /\ ~links
        /\ Goto(p, "reserve") /\ UNCHANGED <<fsVars, tmp, fd, result, envVars>>
     \/ Fault(p) /\ GiveUp(p, "Rename") /\ UNCHANGED fsVars

(* drop(tmp) after the link: the inode lives on under the final name. *)
DropTmp(p) ==
  /\ pc[p] = "unlink"
  /\ \/ Unlink(tmp[p]) /\ UNCHANGED envVars
     \/ Fault(p) /\ UNCHANGED dir
  /\ Goto(p, "syncDir")
  /\ UNCHANGED <<durDir, data, synced, tmp, fd, result>>

(* FAULTY: the reservation is an ordinary create. *)
ReserveShared(p) ==
  /\ pc[p] = "reserve"
  /\ dir' = [dir EXCEPT ![Target(p)] = IF @ = None THEN Stub(p) ELSE @]
  /\ Goto(p, "rename")
  /\ UNCHANGED <<durDir, data, synced, tmp, fd, result, envVars>>

(* publish_via_reservation_rename: an exclusive empty file claims the name. *)
Reserve(p) ==
  /\ pc[p] = "reserve"
  /\ \/ /\ dir[Target(p)] = None
        /\ dir' = [dir EXCEPT ![Target(p)] = Stub(p)]
        /\ Goto(p, "rename")
        /\ UNCHANGED <<durDir, data, synced, tmp, fd, result, envVars>>
     \/ /\ dir[Target(p)] # None
        /\ GiveUp(p, "AlreadyExists") /\ UNCHANGED <<fsVars, envVars>>
     \/ Fault(p) /\ GiveUp(p, "OpenTmp") /\ UNCHANGED fsVars

(* rename(tmp, final): it replaces the reservation ("new"), or whatever is  *)
(* there.  A temporary name that somebody else has renamed away is ENOENT.  *)
RenameTmp(p) ==
  /\ IF IsNew(p) THEN pc[p] = "rename" ELSE pc[p] = "publish"
  /\ \/ /\ dir[tmp[p]] # None
        /\ dir' = [dir EXCEPT ![Target(p)] = dir[tmp[p]], ![tmp[p]] = None]
        /\ Goto(p, "syncDir")
        /\ UNCHANGED <<durDir, data, synced, tmp, fd, result, envVars>>
     \/ /\ dir[tmp[p]] = None
        /\ GiveUp(p, "Rename") /\ UNCHANGED <<fsVars, envVars>>
     \/ /\ Fault(p) /\ Answer(p, "Rename")
        /\ Goto(p, IF IsNew(p) THEN "unstub" ELSE "cleanup")
        /\ UNCHANGED <<fsVars, tmp, fd>>

(* A failed rename gives the reservation up. *)
DropReservation(p) ==
  /\ pc[p] = "unstub"
  /\ \/ Unlink(Target(p)) /\ UNCHANGED envVars
     \/ Fault(p) /\ UNCHANGED dir
  /\ Goto(p, "cleanup")
  /\ UNCHANGED <<durDir, data, synced, tmp, fd, result>>

(* FAULTY: success is reported without syncing the directory. *)
SyncNoDir(p) ==
  /\ pc[p] = "syncDir"
  /\ Goto(p, "returned") /\ Answer(p, "Ok")
  /\ UNCHANGED <<fsVars, tmp, fd, envVars>>

(* sync_parent_dir.  The file stays where it is when this fails; FsWriter   *)
(* still removes its temporary name, which is no longer its own.            *)
SyncDir(p) ==
  /\ pc[p] = "syncDir"
  /\ \/ /\ durDir' = dir
        /\ Goto(p, "returned") /\ Answer(p, "Ok")
        /\ UNCHANGED <<dir, data, synced, tmp, fd, envVars>>
     \/ /\ Fault(p) /\ Answer(p, "SyncDir")
        /\ Goto(p, IF IsDeposit(p) THEN "cleanup" ELSE "returned")
        /\ UNCHANGED <<fsVars, tmp, fd>>

(* FAULTY: the guard is disarmed on the error paths too. *)
CleanupForgets(p) ==
  /\ pc[p] = "cleanup"
  /\ Goto(p, "returned")
  /\ UNCHANGED <<fsVars, tmp, fd, result, envVars>>

(* remove_file(tmp), best effort. *)
Cleanup(p) ==
  /\ pc[p] = "cleanup"
  /\ \/ Unlink(tmp[p]) /\ UNCHANGED envVars
     \/ Fault(p) /\ UNCHANGED dir
  /\ Goto(p, "returned")
  /\ UNCHANGED <<durDir, data, synced, tmp, fd, result>>

Step(p) == \/ CreateUniqueTmp(p) \/ OpenDepositTmp(p) \/ Chmod(p) \/ WriteAll(p)
           \/ SyncAll(p) \/ HardLink(p) \/ DropTmp(p) \/ Reserve(p) \/ RenameTmp(p)
           \/ DropReservation(p) \/ SyncDir(p) \/ Cleanup(p)

-----------------------------------------------------------------------------
(* The environment. *)

Running(p) == pc[p] \notin {"start", "returned", "dead"}

(* SIGKILL: nothing is cleaned up. *)
Kill(p) ==
  /\ Running(p) /\ kills < MaxKills
  /\ kills' = kills + 1
  /\ Goto(p, "dead")
  /\ UNCHANGED <<fsVars, tmp, fd, result, call, links, faults, powerLost>>

(* Of every directory entry and every inode that was not synced, either the *)
(* old or the new state survives, of an inode possibly a part.  Processes   *)
(* that had not begun may run after the reboot.                             *)
PowerLoss ==
  /\ ~powerLost /\ \E p \in Procs : pc[p] # "start"
  /\ \E kept \in SUBSET {n \in Names : dir[n] # durDir[n]} :
       dir' = [n \in Names |-> IF n \in kept THEN dir[n] ELSE durDir[n]]
  /\ \E left \in [{i \in Inodes : data[i] # synced[i]} -> {"all", "none", "part"}] :
       data' = [i \in Inodes |->
                  IF i \notin DOMAIN left \/ left[i] = "all" THEN data[i]
                  ELSE IF left[i] = "none" THEN synced[i] ELSE Torn]
  /\ durDir' = dir' /\ synced' = data'
  /\ pc' = [p \in Procs |-> IF Running(p) THEN "dead" ELSE pc[p]]
  /\ powerLost' = TRUE
  /\ UNCHANGED <<tmp, fd, result, call, links, faults, kills>>

Finished == (\A p \in Procs : pc[p] \in {"returned", "dead"}) /\ UNCHANGED vars

Next == (\E p \in Procs : Step(p) \/ Kill(p)) \/ PowerLoss \/ Finished

Spec == Init /\ [][Next]_vars

-----------------------------------------------------------------------------
(* Properties. *)

(* Types; a directory entry always leads to an inode. *)
TypeOK ==
  /\ call \in Calls /\ links \in BOOLEAN
  /\ dir \in [Names -> Inodes \cup {None}] /\ durDir \in [Names -> Inodes \cup {None}]
  /\ data \in [Inodes -> Contents] /\ synced \in [Inodes -> Contents]
  /\ pc \in [Procs -> {"start", "chmod", "write", "sync", "publish", "unlink", "reserve",
                       "rename", "unstub", "syncDir", "cleanup", "returned", "dead"}]
  /\ tmp \in [Procs -> Names \cup {None}] /\ fd \in [Procs -> Inodes \cup {None}]
  /\ result \in [Procs -> {"pending", "Ok", "OpenTmp", "WriteTmp", "SyncTmp", "Rename",
                           "AlreadyExists", "SyncDir"}]
  /\ faults \subseteq (Procs \X {"start", "chmod", "write", "sync", "publish", "unlink",
                                 "reserve", "rename", "unstub", "syncDir", "cleanup"})
  /\ kills \in 0 .. MaxKills /\ powerLost \in BOOLEAN

Whole(i) == data[i] \in Procs \cup {Old}

(* "no partial file is ever visible": what a final name leads to is a whole *)
(* file of one caller, at every step, after a kill and after a power loss.  *)
(* Without hard links write_new_0600's empty reservation may be seen.       *)
NeverPartial ==
  \A t \in Targets : dir[t] # None =>
     Whole(dir[t]) \/ (~links /\ \E p \in Procs : IsNew(p) /\ dir[t] = Stub(p))

(* "reported success => durable entry": a call that returned Ok has put a   *)
(* whole file at its target that even a power loss leaves there; for        *)
(* write_new_0600 it is the caller's own file for good.                     *)
SuccessIsDurable ==
  \A p \in Procs : result[p] = "Ok" =>
     LET i == dir[Target(p)] IN
       i # None /\ IF IsNew(p) THEN data[i] = p ELSE Whole(i) /\ data[i] # Old

(* "cleanup never unlinks a path this call did not create": a step of p     *)
(* removes only names of inodes that p created.                             *)
UnlinksOwnOnly ==
  [][\A n \in Names : (dir[n] # None /\ dir'[n] = None /\ ~powerLost')
       => \E p \in Procs : pc'[p] # pc[p] /\ dir[n] \in {Ino(p), Stub(p)}]_vars

(* "Removes the owned tmp (and any empty final reservation on the fallback  *)
(* path) on failure": a call that has returned leaves nothing behind but    *)
(* its file, unless it was the removal that failed.                         *)
NoLeftovers ==
  ~powerLost =>
    \A p \in Procs : pc[p] = "returned" =>
       /\ (<<p, "unlink">> \notin faults /\ <<p, "cleanup">> \notin faults)
            => \A n \in Names \ Targets : dir[n] # Ino(p)
       /\ <<p, "unstub">> \notin faults => \A n \in Names : dir[n] # Stub(p)

(* What a call has answered is so: a success is there to stay, and whatever *)
(* it was, nothing else is left of it.                                      *)
AnswerHolds == SuccessIsDurable /\ NoLeftovers

(* Calls of write_new_0600 alone keep PublishOnce, so that a keystore is    *)
(* never replaced: a name's content is what its inode holds, an inode still *)
(* empty is a claim of whoever reserved it.                                 *)
Content(i) == IF i = None \/ data[i] = Empty THEN None ELSE data[i]
Claimant(i) == IF \E p \in Procs : i = Stub(p) THEN CHOOSE p \in Procs : i = Stub(p) ELSE None

Told(p) == IF result[p] = "AlreadyExists" THEN "exists"
           ELSE IF result[p] \in {"pending", "Ok"} THEN result[p] ELSE "failed"

AllNew == \A p \in Procs : IsNew(p)

Once == INSTANCE PublishOnce
          WITH target <- [p \in Procs |-> Target(p)],
               file   <- [t \in Targets |-> Content(dir[t])],
               claim  <- [t \in Targets |-> Claimant(dir[t])],
               answer <- [p \in Procs |-> Told(p)]
PublishesOnce == (AllNew => Once!Init) /\ [][AllNew => Once!Next]_(Once!vars)

=============================================================================
