--------------------------- MODULE OutputFsProofs ---------------------------
(* Theorems about OutputFs, for any number of processes, names, faults and  *)
(* kills: types for all three writers, and what keystores rely on for calls *)
(* of write_new_0600.                                                       *)
EXTENDS OutputFs, TLAPS

Labels == {"start", "chmod", "write", "sync", "publish", "unlink", "reserve",
           "rename", "unstub", "syncDir", "cleanup", "returned", "dead"}
Results == {"pending", "Ok", "OpenTmp", "WriteTmp", "SyncTmp", "Rename", "AlreadyExists", "SyncDir"}
Faulty == {"start", "chmod", "write", "sync", "publish", "unlink", "reserve",
           "rename", "unstub", "syncDir", "cleanup"}

(* Where a process has its file open, and its temporary name. *)
Opened == \A p \in Procs :
  /\ pc[p] \in {"chmod", "write", "sync"} => fd[p] \in Inodes
  /\ pc[p] \in Faulty \ {"start"} => tmp[p] \in Names

LEMMA CallTyped ==
  ASSUME TypeOK, NEW p \in Procs
  PROVE  call[p].op \in {"new", "atomic", "deposit"} /\ Target(p) \in Targets /\ Target(p) \in Names
BY CallsAssumption DEF TypeOK, Target, Names

LEMMA InodesOf == \A p \in Procs : Ino(p) \in Inodes /\ Stub(p) \in Inodes
BY DEF Inodes

LEMMA InitTyped == Init => TypeOK /\ Opened
<1> SUFFICES ASSUME Init PROVE TypeOK /\ Opened
  OBVIOUS
<1>1. PICK there \in SUBSET Targets :
        dir = [n \in Names |-> IF n \in there THEN OldIno(n) ELSE None]
  BY DEF Init
<1>2. dir \in [Names -> Inodes \cup {None}]
  BY <1>1 DEF Inodes
<1>3. data \in [Inodes -> Contents]
  BY DEF Init, Contents
<1>4. faults = {} /\ kills \in 0 .. MaxKills
  BY BoundsAssumption DEF Init
<1> QED
  BY <1>2, <1>3, <1>4 DEF Init, TypeOK, Opened, Faulty

LEMMA TypeStep == TypeOK /\ Opened /\ [Next]_vars => TypeOK' /\ Opened'
<1> SUFFICES ASSUME TypeOK, Opened, [Next]_vars PROVE TypeOK' /\ Opened'
  OBVIOUS
<1>1. ASSUME NEW p \in Procs, Step(p) PROVE TypeOK' /\ Opened'
  <2>0. /\ call[p].op \in {"new", "atomic", "deposit"} /\ Target(p) \in Targets /\ Target(p) \in Names
        /\ DepositTmp(Target(p)) \in Names /\ TmpNames \subseteq Names
        /\ Ino(p) \in Inodes /\ Stub(p) \in Inodes
        /\ {p, Empty, Torn} \subseteq Contents
    BY CallTyped, InodesOf DEF Names, Contents
  <2> USE <2>0 DEF TypeOK, Opened, Faulty, Goto, Answer, GiveUp, Fault, fsVars, envVars
  <2>1. CASE CreateUniqueTmp(p)
    BY <2>1 DEF CreateUniqueTmp
  <2>2. CASE OpenDepositTmp(p)
    BY <2>2 DEF OpenDepositTmp
  <2>3. CASE Chmod(p)
    BY <2>3 DEF Chmod
  <2>4. CASE WriteAll(p)
    BY <2>4 DEF WriteAll
  <2>5. CASE SyncAll(p)
    BY <2>5 DEF SyncAll
  <2>6. CASE HardLink(p)
    BY <2>6 DEF HardLink
  <2>7. CASE DropTmp(p)
    BY <2>7 DEF DropTmp, Unlink
  <2>8. CASE Reserve(p)
    BY <2>8 DEF Reserve
  <2>9. CASE RenameTmp(p)
    BY <2>9 DEF RenameTmp
  <2>10. CASE DropReservation(p)
    BY <2>10 DEF DropReservation, Unlink
  <2>11. CASE SyncDir(p)
    BY <2>11 DEF SyncDir
  <2>12. CASE Cleanup(p)
    BY <2>12 DEF Cleanup, Unlink
  <2> QED
    BY <1>1, <2>1, <2>2, <2>3, <2>4, <2>5, <2>6, <2>7, <2>8, <2>9, <2>10, <2>11, <2>12 DEF Step
<1>2. ASSUME NEW p \in Procs, Kill(p) PROVE TypeOK' /\ Opened'
  BY <1>2, BoundsAssumption DEF Kill, Goto, fsVars, TypeOK, Opened, Faulty
<1>3. CASE PowerLoss
  <2>1. dir' \in [Names -> Inodes \cup {None}]
    BY <1>3 DEF PowerLoss, TypeOK
  <2>2. data' \in [Inodes -> Contents]
    BY <1>3 DEF PowerLoss, TypeOK, Contents
  <2>3. pc' \in [Procs -> Labels] /\ \A p \in Procs : pc'[p] \in {"start", "returned", "dead"}
    BY <1>3 DEF PowerLoss, TypeOK, Labels, Running
  <2> QED
    BY <1>3, <2>1, <2>2, <2>3 DEF PowerLoss, TypeOK, Opened, Labels, Faulty
<1>4. CASE UNCHANGED vars
  BY <1>4 DEF vars, fsVars, procVars, envVars, TypeOK, Opened
<1> QED
  BY <1>1, <1>2, <1>3, <1>4 DEF Next, Finished

(* A name always leads to an inode or nowhere, and no writer writes through *)
(* a descriptor it does not have, whichever calls fail.                     *)
THEOREM TypeCorrect == Spec => []TypeOK
BY InitTyped, TypeStep, PTL DEF Spec
-----------------------------------------------------------------------------
(* Calls of write_new_0600 alone. *)

(* Who has a temporary file, and who may have the reservation or the file   *)
(* at the final name.                                                       *)
HasTmp == {"write", "sync", "publish", "unlink", "reserve", "rename", "unstub", "cleanup"}
HasStub == {"rename", "unstub", "cleanup", "returned", "dead"}
HasFile == {"unlink", "syncDir", "returned", "dead"}

(* How far a call is, and what it has by then. *)
Phase(p) ==
  /\ pc[p] # "chmod"
  /\ pc[p] \in HasTmp => tmp[p] \in TmpNames /\ dir[tmp[p]] = Ino(p) /\ fd[p] = Ino(p)
  /\ pc[p] = "start" => \A n \in Names : /\ dir[n] \notin {Ino(p), Stub(p)}
                                         /\ durDir[n] \notin {Ino(p), Stub(p)}
  /\ pc[p] = "start" => data[Ino(p)] = Empty /\ synced[Ino(p)] = Empty
  /\ pc[p] = "write" => data[Ino(p)] = Empty
  /\ pc[p] = "sync" => data[Ino(p)] = p
  /\ pc[p] \in {"publish", "reserve", "rename", "unstub"} => data[Ino(p)] = p /\ synced[Ino(p)] = p
  /\ pc[p] = "reserve" => ~links
  /\ pc[p] \in {"rename", "unstub"} => dir[Target(p)] = Stub(p)
  /\ pc[p] \in {"unlink", "syncDir"} => dir[Target(p)] = Ino(p)
  /\ pc[p] \notin {"unstub", "cleanup", "returned", "dead"} => result[p] = "pending"
  /\ pc[p] = "unstub" => result[p] = "Rename"
  /\ pc[p] = "cleanup" => result[p] \notin {"pending", "Ok"}
  /\ result[p] = "Ok" => /\ pc[p] \in {"returned", "dead"}
                         /\ dir[Target(p)] = Ino(p) /\ durDir[Target(p)] = Ino(p)

(* What may be at a final name: a whole file of one of its callers, which   *)
(* is synced, a reservation, or a file from before; and what a power loss   *)
(* may bring back there.                                                    *)
AtTarget(t) ==
  /\ \A p \in Procs :
       /\ dir[t] = Ino(p) => /\ t = Target(p) /\ pc[p] \in HasFile
                             /\ data[Ino(p)] = p /\ synced[Ino(p)] = p
       /\ dir[t] = Stub(p) => t = Target(p) /\ pc[p] \in HasStub /\ ~links
       /\ durDir[t] = Ino(p) => dir[t] = durDir[t]
       /\ durDir[t] = Stub(p) => t = Target(p) /\ pc[p] \in HasStub \cup {"syncDir"} /\ ~links
  /\ \A u \in Targets : OldIno(u) \in {dir[t], durDir[t]} => dir[t] = durDir[t]

(* What nobody writes. *)
Fixed ==
  /\ \A p \in Procs : data[Stub(p)] = Empty /\ synced[Stub(p)] = Empty
  /\ \A t \in Targets : data[OldIno(t)] = Old /\ synced[OldIno(t)] = Old

(* What is left of a call elsewhere. *)
Leftovers(p) ==
  ~powerLost =>
    /\ \A n \in Names \ Targets :
         /\ dir[n] # Stub(p)
         /\ dir[n] = Ino(p) => \/ pc[p] \in HasTmp /\ n = tmp[p]
                               \/ pc[p] = "dead" \/ <<p, "unlink">> \in faults
                               \/ <<p, "cleanup">> \in faults
    /\ pc[p] \in {"cleanup", "returned"} /\ <<p, "unstub">> \notin faults =>
         \A t \in Targets : dir[t] # Stub(p)

Safe == /\ \A p \in Procs : Phase(p) /\ Leftovers(p)
        /\ \A t \in Targets : AtTarget(t)
        /\ Fixed

(* Inodes of different origin are different. *)
LEMMA InodesDiffer ==
  /\ \A p, q \in Procs : /\ Ino(p) # Stub(q)
                         /\ Ino(p) = Ino(q) => p = q
                         /\ Stub(p) = Stub(q) => p = q
  /\ \A p \in Procs, t \in Targets : OldIno(t) \notin {Ino(p), Stub(p)}
  /\ \A p \in Procs : Ino(p) # None /\ Stub(p) # None
  /\ \A t \in Targets : OldIno(t) # None
<1>1. \A p, q \in Procs : /\ Ino(p) # Stub(q)
                          /\ Ino(p) = Ino(q) => p = q
                          /\ Stub(p) = Stub(q) => p = q
  BY DEF Ino, Stub
<1>2. \A p \in Procs, t \in Targets : OldIno(t) \notin {Ino(p), Stub(p)}
  BY DEF Ino, Stub, OldIno
<1>3. /\ \A p \in Procs : Ino(p) # None /\ Stub(p) # None
      /\ \A t \in Targets : OldIno(t) # None
  BY NamesAssumption DEF Inodes
<1> QED
  BY <1>1, <1>2, <1>3

LEMMA InitSafe == Init /\ AllNew => Safe
<1> SUFFICES ASSUME Init, AllNew PROVE Safe
  OBVIOUS
<1> USE InodesDiffer, InodesOf
<1>1. PICK there \in SUBSET Targets :
        dir = [n \in Names |-> IF n \in there THEN OldIno(n) ELSE None]
  BY DEF Init
<1>2. \A n \in Names : dir[n] = None \/ (\E t \in Targets : dir[n] = OldIno(t))
  BY <1>1
<1>3. \A n \in Names, p \in Procs : dir[n] \notin {Ino(p), Stub(p)}
  BY <1>2
<1>4. /\ \A t \in Targets : OldIno(t) \in Inodes
      /\ \A p \in Procs : data[Ino(p)] = Empty /\ data[Stub(p)] = Empty
      /\ \A t \in Targets : data[OldIno(t)] = Old
  <2>1. \A t \in Targets : OldIno(t) \in Inodes
    BY DEF Inodes
  <2>2. \A p \in Procs : Ino(p) \notin {OldIno(t) : t \in Targets} /\ Stub(p) \notin {OldIno(t) : t \in Targets}
    OBVIOUS
  <2> QED
    BY <2>1, <2>2 DEF Init
<1>5. durDir = dir /\ synced = data /\ Targets \subseteq Names
  BY DEF Init, Names
<1>6. \A p \in Procs : pc[p] = "start" /\ result[p] = "pending"
  BY DEF Init
<1> QED
  BY <1>3, <1>4, <1>5, <1>6 DEF Safe, Phase, AtTarget, Fixed, Leftovers, HasTmp

(* What a step of p leaves alone: everything of the other calls. *)
OwnCall(p) ==
  /\ \A q \in Procs \ {p} : /\ pc'[q] = pc[q] /\ tmp'[q] = tmp[q]
                             /\ fd'[q] = fd[q] /\ result'[q] = result[q]
  /\ call' = call /\ links' = links /\ powerLost' = powerLost

OwnFaults(p) ==
  /\ faults \subseteq faults'
  /\ \A q \in Procs \ {p}, s \in Faulty : <<q, s>> \in faults' => <<q, s>> \in faults

OwnInode(p) ==
  \A i \in Inodes \ {Ino(p)} : data'[i] = data[i] /\ synced'[i] = synced[i]

OwnNames(p) ==
  /\ \A n \in Names : \/ dir'[n] = dir[n]
                       \/ /\ dir[n] \in {None, Ino(p), Stub(p)}
                          /\ dir'[n] \in {None, Ino(p), Stub(p)}
  /\ \/ durDir' = durDir
     \/ durDir' = dir /\ dir' = dir

Footprint(p) == OwnCall(p) /\ OwnFaults(p) /\ OwnInode(p) /\ OwnNames(p)

LEMMA StepFootprint ==
  ASSUME TypeOK, AllNew, Safe, NEW p \in Procs, Step(p)
  PROVE  Footprint(p)
<1> USE CallTyped, InodesDiffer, InodesOf
    DEF Goto, Answer, GiveUp, Fault, fsVars, envVars, IsNew, IsDeposit, Unlink, Faulty
<1>0. /\ call[p].op = "new" /\ Target(p) \in Names /\ Phase(p)
      /\ Targets \subseteq Names /\ TmpNames \subseteq Names
  BY DEF AllNew, Names, Safe
<1> USE <1>0 DEF TypeOK, Phase, HasTmp
<1>1. CASE CreateUniqueTmp(p)
  <2>1. OwnCall(p) /\ OwnFaults(p)
    BY <1>1 DEF CreateUniqueTmp, OwnCall, OwnFaults
  <2>2. OwnInode(p)
    BY <1>1 DEF CreateUniqueTmp, OwnInode
  <2>3. OwnNames(p)
    <3>1. ASSUME NEW n \in Names, dir'[n] # dir[n]
          PROVE  dir[n] \in {None, Ino(p), Stub(p)} /\ dir'[n] \in {None, Ino(p), Stub(p)}
      BY <1>1, <3>1 DEF CreateUniqueTmp
    <3>2. durDir' = durDir
      BY <1>1 DEF CreateUniqueTmp
    <3> QED
      BY <3>1, <3>2 DEF OwnNames
  <2> QED
    BY <2>1, <2>2, <2>3 DEF Footprint
<1>2. CASE OpenDepositTmp(p)
  <2>1. OwnCall(p) /\ OwnFaults(p)
    BY <1>2 DEF OpenDepositTmp, OwnCall, OwnFaults
  <2>2. OwnInode(p)
    BY <1>2 DEF OpenDepositTmp, OwnInode
  <2>3. OwnNames(p)
    BY <1>2 DEF OpenDepositTmp, OwnNames
  <2> QED
    BY <2>1, <2>2, <2>3 DEF Footprint
<1>3. CASE Chmod(p)
  <2>1. OwnCall(p) /\ OwnFaults(p)
    BY <1>3 DEF Chmod, OwnCall, OwnFaults
  <2>2. OwnInode(p)
    BY <1>3 DEF Chmod, OwnInode
  <2>3. OwnNames(p)
    BY <1>3 DEF Chmod, OwnNames
  <2> QED
    BY <2>1, <2>2, <2>3 DEF Footprint
<1>4. CASE WriteAll(p)
  <2>1. OwnCall(p) /\ OwnFaults(p)
    BY <1>4 DEF WriteAll, OwnCall, OwnFaults
  <2>2. OwnInode(p)
    BY <1>4 DEF WriteAll, OwnInode
  <2>3. OwnNames(p)
    BY <1>4 DEF WriteAll, OwnNames
  <2> QED
    BY <2>1, <2>2, <2>3 DEF Footprint
<1>5. CASE SyncAll(p)
  <2>1. OwnCall(p) /\ OwnFaults(p)
    BY <1>5 DEF SyncAll, OwnCall, OwnFaults
  <2>2. OwnInode(p)
    BY <1>5 DEF SyncAll, OwnInode
  <2>3. OwnNames(p)
    BY <1>5 DEF SyncAll, OwnNames
  <2> QED
    BY <2>1, <2>2, <2>3 DEF Footprint
<1>6. CASE HardLink(p)
  <2>1. OwnCall(p) /\ OwnFaults(p)
    BY <1>6 DEF HardLink, OwnCall, OwnFaults
  <2>2. OwnInode(p)
    BY <1>6 DEF HardLink, OwnInode
  <2>3. OwnNames(p)
    <3>1. ASSUME NEW n \in Names, dir'[n] # dir[n]
          PROVE  dir[n] \in {None, Ino(p), Stub(p)} /\ dir'[n] \in {None, Ino(p), Stub(p)}
      BY <1>6, <3>1 DEF HardLink
    <3>2. durDir' = durDir
      BY <1>6 DEF HardLink
    <3> QED
      BY <3>1, <3>2 DEF OwnNames
  <2> QED
    BY <2>1, <2>2, <2>3 DEF Footprint
<1>7. CASE DropTmp(p)
  <2>1. OwnCall(p) /\ OwnFaults(p)
    BY <1>7 DEF DropTmp, OwnCall, OwnFaults
  <2>2. OwnInode(p)
    BY <1>7 DEF DropTmp, OwnInode
  <2>3. OwnNames(p)
    <3>1. ASSUME NEW n \in Names, dir'[n] # dir[n]
          PROVE  dir[n] \in {None, Ino(p), Stub(p)} /\ dir'[n] \in {None, Ino(p), Stub(p)}
      BY <1>7, <3>1 DEF DropTmp
    <3>2. durDir' = durDir
      BY <1>7 DEF DropTmp
    <3> QED
      BY <3>1, <3>2 DEF OwnNames
  <2> QED
    BY <2>1, <2>2, <2>3 DEF Footprint
<1>8. CASE Reserve(p)
  <2>1. OwnCall(p) /\ OwnFaults(p)
    BY <1>8 DEF Reserve, OwnCall, OwnFaults
  <2>2. OwnInode(p)
    BY <1>8 DEF Reserve, OwnInode
  <2>3. OwnNames(p)
    <3>1. ASSUME NEW n \in Names, dir'[n] # dir[n]
          PROVE  dir[n] \in {None, Ino(p), Stub(p)} /\ dir'[n] \in {None, Ino(p), Stub(p)}
      BY <1>8, <3>1 DEF Reserve
    <3>2. durDir' = durDir
      BY <1>8 DEF Reserve
    <3> QED
      BY <3>1, <3>2 DEF OwnNames
  <2> QED
    BY <2>1, <2>2, <2>3 DEF Footprint
<1>9. CASE RenameTmp(p)
  <2>1. OwnCall(p) /\ OwnFaults(p)
    BY <1>9 DEF RenameTmp, OwnCall, OwnFaults
  <2>2. OwnInode(p)
    BY <1>9 DEF RenameTmp, OwnInode
  <2>3. OwnNames(p)
    <3>1. ASSUME NEW n \in Names, dir'[n] # dir[n]
          PROVE  dir[n] \in {None, Ino(p), Stub(p)} /\ dir'[n] \in {None, Ino(p), Stub(p)}
      BY <1>9, <3>1 DEF RenameTmp
    <3>2. durDir' = durDir
      BY <1>9 DEF RenameTmp
    <3> QED
      BY <3>1, <3>2 DEF OwnNames
  <2> QED
    BY <2>1, <2>2, <2>3 DEF Footprint
<1>10. CASE DropReservation(p)
  <2>1. OwnCall(p) /\ OwnFaults(p)
    BY <1>10 DEF DropReservation, OwnCall, OwnFaults
  <2>2. OwnInode(p)
    BY <1>10 DEF DropReservation, OwnInode
  <2>3. OwnNames(p)
    <3>1. ASSUME NEW n \in Names, dir'[n] # dir[n]
          PROVE  dir[n] \in {None, Ino(p), Stub(p)} /\ dir'[n] \in {None, Ino(p), Stub(p)}
      BY <1>10, <3>1 DEF DropReservation
    <3>2. durDir' = durDir
      BY <1>10 DEF DropReservation
    <3> QED
      BY <3>1, <3>2 DEF OwnNames
  <2> QED
    BY <2>1, <2>2, <2>3 DEF Footprint
<1>11. CASE SyncDir(p)
  <2>1. OwnCall(p) /\ OwnFaults(p)
    BY <1>11 DEF SyncDir, OwnCall, OwnFaults
  <2>2. OwnInode(p)
    BY <1>11 DEF SyncDir, OwnInode
  <2>3. OwnNames(p)
    BY <1>11 DEF SyncDir, OwnNames
  <2> QED
    BY <2>1, <2>2, <2>3 DEF Footprint
<1>12. CASE Cleanup(p)
  <2>1. OwnCall(p) /\ OwnFaults(p)
    BY <1>12 DEF Cleanup, OwnCall, OwnFaults
  <2>2. OwnInode(p)
    BY <1>12 DEF Cleanup, OwnInode
  <2>3. OwnNames(p)
    <3>1. ASSUME NEW n \in Names, dir'[n] # dir[n]
          PROVE  dir[n] \in {None, Ino(p), Stub(p)} /\ dir'[n] \in {None, Ino(p), Stub(p)}
      BY <1>12, <3>1 DEF Cleanup
    <3>2. durDir' = durDir
      BY <1>12 DEF Cleanup
    <3> QED
      BY <3>1, <3>2 DEF OwnNames
  <2> QED
    BY <2>1, <2>2, <2>3 DEF Footprint
<1> QED
  BY <1>1, <1>2, <1>3, <1>4, <1>5, <1>6, <1>7, <1>8, <1>9, <1>10, <1>11, <1>12 DEF Step

(* So the other calls stay where they are, with what they have. *)
LEMMA OthersSafe ==
  ASSUME TypeOK, AllNew, Safe, NEW p \in Procs, Footprint(p)
  PROVE  Fixed' /\ \A q \in Procs \ {p} : Phase(q)' /\ Leftovers(q)'
<1> USE CallTyped, InodesDiffer, InodesOf
<1>1. Fixed'
  <2>1. \A t \in Targets : OldIno(t) \in Inodes
    BY DEF Inodes
  <2> QED
    BY <2>1 DEF Footprint, OwnInode, Safe, Fixed
<1>2. ASSUME NEW q \in Procs \ {p} PROVE Phase(q)'
  <2>1. /\ Phase(q) /\ TmpNames \subseteq Names /\ Target(q)' = Target(q) /\ Target(q) \in Names
    BY DEF Safe, Names, Footprint, OwnCall, Target
  <2>2. /\ pc'[q] = pc[q] /\ tmp'[q] = tmp[q] /\ fd'[q] = fd[q] /\ result'[q] = result[q]
        /\ data'[Ino(q)] = data[Ino(q)] /\ synced'[Ino(q)] = synced[Ino(q)] /\ links' = links
    BY DEF Footprint, OwnCall, OwnFaults, OwnInode, OwnNames
  <2>3. \A n \in Names, i \in {Ino(q), Stub(q)} :
          (dir'[n] = i <=> dir[n] = i) /\ (durDir'[n] = i => durDir[n] = i \/ dir[n] = i)
    BY DEF Footprint, OwnCall, OwnFaults, OwnInode, OwnNames
  <2>4. \A n \in Names : durDir[n] = Ino(q) /\ dir[n] = Ino(q) => durDir'[n] = Ino(q)
    BY DEF Footprint, OwnCall, OwnFaults, OwnInode, OwnNames
  <2> QED
    BY <2>1, <2>2, <2>3, <2>4 DEF Phase, HasTmp
<1>3. ASSUME NEW q \in Procs \ {p} PROVE Leftovers(q)'
  <2>1. Leftovers(q) /\ Targets \subseteq Names /\ powerLost' = powerLost /\ pc'[q] = pc[q] /\ tmp'[q] = tmp[q]
    BY DEF Safe, Footprint, OwnCall, Names
  <2>2. \A n \in Names, i \in {Ino(q), Stub(q)} : dir'[n] = i <=> dir[n] = i
    BY DEF Footprint, OwnCall, OwnFaults, OwnInode, OwnNames
  <2>3. \A s \in Faulty : <<q, s>> \in faults' <=> <<q, s>> \in faults
    BY DEF Footprint, OwnCall, OwnFaults, OwnInode, OwnNames
  <2> QED
    BY <2>1, <2>2, <2>3 DEF Leftovers, Faulty
<1> QED
  BY <1>1, <1>2, <1>3

LEMMA NewStep ==
  ASSUME TypeOK, TypeOK', AllNew, Safe, NEW p \in Procs, Step(p)
  PROVE  Safe'
<1>0. /\ call[p].op = "new" /\ Target(p) \in Targets /\ Target(p) \in Names
      /\ Ino(p) \in Inodes /\ Stub(p) \in Inodes /\ Phase(p) /\ Leftovers(p) /\ AtTarget(Target(p))
      /\ TmpNames \subseteq Names \ Targets /\ Targets \subseteq Names
      /\ p # Empty /\ None \notin Inodes
  BY CallTyped, InodesOf, DistinctAssumption, NamesAssumption DEF AllNew, IsNew, Names, Safe
<1>00. Footprint(p) /\ Fixed' /\ \A q \in Procs \ {p} : Phase(q)' /\ Leftovers(q)'
  BY StepFootprint, OthersSafe
<1>000. call' = call /\ links' = links /\ powerLost' = powerLost /\ faults \subseteq faults'
  BY <1>00 DEF Footprint, OwnCall, OwnFaults
<1>0000. \A t \in Targets : AtTarget(t)
  BY DEF Safe
<1> SUFFICES Phase(p)' /\ Leftovers(p)' /\ \A t \in Targets : AtTarget(t)'
  BY <1>00 DEF Safe
<1> USE <1>0, <1>000, InodesDiffer, InodesOf
    DEF Goto, Answer, GiveUp, Fault, fsVars, envVars, IsNew, IsDeposit, Unlink, TypeOK
<1>1. CASE CreateUniqueTmp(p)
  <2>1. Phase(p)'
    BY <1>1 DEF CreateUniqueTmp, Phase, HasTmp, AtTarget, HasFile, HasStub, Target
  <2>2. ASSUME NEW t \in Targets PROVE AtTarget(t)'
    BY <1>1, <1>0000, <2>2 DEF CreateUniqueTmp, Safe, Phase, AtTarget, HasTmp, HasFile, HasStub, Target, AllNew
  <2>3. Leftovers(p)'
    BY <1>1, <1>0000 DEF CreateUniqueTmp, Phase, Leftovers, AtTarget, HasTmp, HasStub
  <2> QED
    BY <2>1, <2>2, <2>3
<1>2. CASE OpenDepositTmp(p)
  <2>1. Phase(p)'
    BY <1>2 DEF OpenDepositTmp, Phase, HasTmp, AtTarget, HasFile, HasStub, Target
  <2>2. ASSUME NEW t \in Targets PROVE AtTarget(t)'
    BY <1>2, <1>0000, <2>2 DEF OpenDepositTmp, Safe, Phase, AtTarget, HasTmp, HasFile, HasStub, Target, AllNew
  <2>3. Leftovers(p)'
    BY <1>2, <1>0000 DEF OpenDepositTmp, Phase, Leftovers, AtTarget, HasTmp, HasStub
  <2> QED
    BY <2>1, <2>2, <2>3
<1>3. CASE Chmod(p)
  <2>1. Phase(p)'
    BY <1>3 DEF Chmod, Phase, HasTmp, AtTarget, HasFile, HasStub, Target
  <2>2. ASSUME NEW t \in Targets PROVE AtTarget(t)'
    BY <1>3, <1>0000, <2>2 DEF Chmod, Safe, Phase, AtTarget, HasTmp, HasFile, HasStub, Target, AllNew
  <2>3. Leftovers(p)'
    BY <1>3, <1>0000 DEF Chmod, Phase, Leftovers, AtTarget, HasTmp, HasStub
  <2> QED
    BY <2>1, <2>2, <2>3
<1>4. CASE WriteAll(p)
  <2>1. Phase(p)'
    BY <1>4 DEF WriteAll, Phase, HasTmp, AtTarget, HasFile, HasStub, Target
  <2>2. ASSUME NEW t \in Targets PROVE AtTarget(t)'
    BY <1>4, <1>0000, <2>2 DEF WriteAll, Safe, Phase, AtTarget, HasTmp, HasFile, HasStub, Target, AllNew
  <2>3. Leftovers(p)'
    BY <1>4, <1>0000 DEF WriteAll, Phase, Leftovers, AtTarget, HasTmp, HasStub
  <2> QED
    BY <2>1, <2>2, <2>3
<1>5. CASE SyncAll(p)
  <2>1. Phase(p)'
    BY <1>5 DEF SyncAll, Phase, HasTmp, AtTarget, HasFile, HasStub, Target
  <2>2. ASSUME NEW t \in Targets PROVE AtTarget(t)'
    BY <1>5, <1>0000, <2>2 DEF SyncAll, Safe, Phase, AtTarget, HasTmp, HasFile, HasStub, Target, AllNew
  <2>3. Leftovers(p)'
    BY <1>5, <1>0000 DEF SyncAll, Phase, Leftovers, AtTarget, HasTmp, HasStub
  <2> QED
    BY <2>1, <2>2, <2>3
<1>6. CASE HardLink(p)
  <2>1. Phase(p)'
    BY <1>6 DEF HardLink, Phase, HasTmp, AtTarget, HasFile, HasStub, Target
  <2>2. ASSUME NEW t \in Targets PROVE AtTarget(t)'
    <3>1. /\ pc[p] = "publish" /\ Target(p)' = Target(p) /\ data' = data /\ synced' = synced /\ durDir' = durDir
          /\ data[Ino(p)] = p /\ synced[Ino(p)] = p
          /\ \A u \in Targets : dir[u] \notin {Ino(p), Stub(p)} /\ durDir[u] \notin {Ino(p), Stub(p)}
      BY <1>6, <1>0000 DEF HardLink, Phase, AtTarget, HasFile, HasStub, Target
    <3>2. /\ \A q \in Procs \ {p} : pc'[q] = pc[q] /\ Target(q)' = Target(q)
          /\ AtTarget(t)
      BY <1>00, <2>2, <1>0000 DEF Footprint, OwnCall, Target
    <3>3. CASE dir' = dir
      BY <3>1, <3>2, <3>3, <2>2 DEF AtTarget, HasFile, HasStub
    <3>4. CASE /\ dir[Target(p)] = None /\ dir' = [dir EXCEPT ![Target(p)] = Ino(p)]
               /\ pc'[p] = "unlink"
      BY <3>1, <3>2, <3>4, <2>2 DEF AtTarget, HasFile, HasStub
    <3> QED
      BY <1>6, <3>3, <3>4 DEF HardLink, Phase, HasTmp
  <2>3. Leftovers(p)'
    BY <1>6, <1>0000 DEF HardLink, Phase, Leftovers, AtTarget, HasTmp, HasStub
  <2> QED
    BY <2>1, <2>2, <2>3
<1>7. CASE DropTmp(p)
  <2>1. Phase(p)'
    BY <1>7 DEF DropTmp, Phase, HasTmp, AtTarget, HasFile, HasStub, Target
  <2>2. ASSUME NEW t \in Targets PROVE AtTarget(t)'
    BY <1>7, <1>0000, <2>2 DEF DropTmp, Safe, Phase, AtTarget, HasTmp, HasFile, HasStub, Target, AllNew
  <2>3. Leftovers(p)'
    BY <1>7, <1>0000 DEF DropTmp, Phase, Leftovers, AtTarget, HasTmp, HasStub
  <2> QED
    BY <2>1, <2>2, <2>3
<1>8. CASE Reserve(p)
  <2>1. Phase(p)'
    BY <1>8 DEF Reserve, Phase, HasTmp, AtTarget, HasFile, HasStub, Target
  <2>2. ASSUME NEW t \in Targets PROVE AtTarget(t)'
    BY <1>8, <1>0000, <2>2 DEF Reserve, Safe, Phase, AtTarget, HasTmp, HasFile, HasStub, Target, AllNew
  <2>3. Leftovers(p)'
    BY <1>8, <1>0000 DEF Reserve, Phase, Leftovers, AtTarget, HasTmp, HasStub
  <2> QED
    BY <2>1, <2>2, <2>3
<1>9. CASE RenameTmp(p)
  <2>1. Phase(p)'
    BY <1>9 DEF RenameTmp, Phase, HasTmp, AtTarget, HasFile, HasStub, Target
  <2>2. ASSUME NEW t \in Targets PROVE AtTarget(t)'
    BY <1>9, <1>0000, <2>2 DEF RenameTmp, Safe, Phase, AtTarget, HasTmp, HasFile, HasStub, Target, AllNew
  <2>3. Leftovers(p)'
    BY <1>9, <1>0000 DEF RenameTmp, Phase, Leftovers, AtTarget, HasTmp, HasStub
  <2> QED
    BY <2>1, <2>2, <2>3
<1>10. CASE DropReservation(p)
  <2>1. Phase(p)'
    BY <1>10 DEF DropReservation, Phase, HasTmp, AtTarget, HasFile, HasStub, Target
  <2>2. ASSUME NEW t \in Targets PROVE AtTarget(t)'
    BY <1>10, <1>0000, <2>2 DEF DropReservation, Safe, Phase, AtTarget, HasTmp, HasFile, HasStub, Target, AllNew
  <2>3. Leftovers(p)'
    <3>1. /\ pc[p] = "unstub" /\ pc' = [pc EXCEPT ![p] = "cleanup"] /\ tmp' = tmp
          /\ tmp[p] \in TmpNames /\ dir[tmp[p]] = Ino(p)
          /\ \A n \in Names \ {Target(p)} : dir'[n] = dir[n]
          /\ dir'[Target(p)] = None \/ <<p, "unstub">> \in faults'
      BY <1>10 DEF DropReservation, Phase, HasTmp
    <3>2. \A t \in Targets \ {Target(p)} : dir'[t] # Stub(p)
      BY <3>1, <1>0000 DEF AtTarget
    <3> QED
      BY <3>1, <3>2 DEF Leftovers, HasTmp
  <2> QED
    BY <2>1, <2>2, <2>3
<1>11. CASE SyncDir(p)
  <2>1. Phase(p)'
    BY <1>11 DEF SyncDir, Phase, HasTmp, AtTarget, HasFile, HasStub, Target
  <2>2. ASSUME NEW t \in Targets PROVE AtTarget(t)'
    BY <1>11, <1>0000, <2>2 DEF SyncDir, Safe, Phase, AtTarget, HasTmp, HasFile, HasStub, Target, AllNew
  <2>3. Leftovers(p)'
    BY <1>11, <1>0000 DEF SyncDir, Phase, Leftovers, AtTarget, HasTmp, HasStub
  <2> QED
    BY <2>1, <2>2, <2>3
<1>12. CASE Cleanup(p)
  <2>1. Phase(p)'
    BY <1>12 DEF Cleanup, Phase, HasTmp, AtTarget, HasFile, HasStub, Target
  <2>2. ASSUME NEW t \in Targets PROVE AtTarget(t)'
    BY <1>12, <1>0000, <2>2 DEF Cleanup, Safe, Phase, AtTarget, HasTmp, HasFile, HasStub, Target, AllNew
  <2>3. Leftovers(p)'
    BY <1>12, <1>0000 DEF Cleanup, Phase, Leftovers, AtTarget, HasTmp, HasStub
  <2> QED
    BY <2>1, <2>2, <2>3
<1> QED
  BY <1>1, <1>2, <1>3, <1>4, <1>5, <1>6, <1>7, <1>8, <1>9, <1>10, <1>11, <1>12 DEF Step

(* A kill or a power loss ends calls and may take back what is not synced:  *)
(* never what was published.                                                *)
LEMMA KillSafe ==
  ASSUME TypeOK, AllNew, Safe, NEW p \in Procs, Kill(p)
  PROVE  Safe'
<1> USE DEF Kill, Goto, fsVars, Running
<1>1. /\ \A q \in Procs : pc'[q] = IF q = p THEN "dead" ELSE pc[q]
      /\ pc[p] \notin {"start", "returned", "dead"}
  BY DEF TypeOK
<1>2. ASSUME NEW q \in Procs PROVE Phase(q)' /\ Leftovers(q)'
  <2>1. Phase(q) /\ Leftovers(q)
    BY DEF Safe
  <2>2. Phase(q)'
    BY <1>1, <2>1 DEF Phase, HasTmp, Target
  <2>3. Leftovers(q)'
    BY <1>1, <2>1 DEF Leftovers, HasTmp
  <2> QED
    BY <2>2, <2>3
<1>3. ASSUME NEW t \in Targets PROVE AtTarget(t)'
  BY <1>1 DEF Safe, AtTarget, HasFile, HasStub, Target
<1>4. Fixed'
  BY DEF Safe, Fixed
<1> QED
  BY <1>2, <1>3, <1>4 DEF Safe

LEMMA PowerLossSafe ==
  ASSUME TypeOK, AllNew, Safe, PowerLoss
  PROVE  Safe'
<1> USE InodesDiffer, InodesOf
<1>1. /\ \A n \in Names : dir'[n] = dir[n] \/ dir'[n] = durDir[n]
      /\ \A i \in Inodes : data[i] = synced[i] => data'[i] = data[i]
      /\ durDir' = dir' /\ synced' = data'
  BY DEF PowerLoss, TypeOK
<1>2. /\ \A q \in Procs : pc'[q] = IF Running(q) THEN "dead" ELSE pc[q]
      /\ call' = call /\ links' = links /\ result' = result /\ powerLost'
      /\ Targets \subseteq Names /\ \A q \in Procs : Target(q) \in Targets
  BY CallTyped DEF PowerLoss, Names
<1>3. Fixed'
  <2>1. \A t \in Targets : OldIno(t) \in Inodes
    BY DEF Inodes
  <2> QED
    BY <1>1, <2>1 DEF Safe, Fixed
<1>4. ASSUME NEW q \in Procs PROVE Phase(q)' /\ Leftovers(q)'
  <2>1. Phase(q) /\ AtTarget(Target(q)) /\ Target(q)' = Target(q) /\ pc'[q] \in {"start", "returned", "dead"}
    BY <1>2 DEF Safe, Target, Running
  <2>2. CASE pc[q] = "start"
    <3>1. pc'[q] = "start" /\ data'[Ino(q)] = Empty
      BY <1>1, <1>2, <2>1, <2>2 DEF Running, Phase
    <3> QED
      BY <1>1, <1>2, <2>1, <2>2, <3>1 DEF Phase, Leftovers, HasTmp
  <2>3. CASE pc[q] # "start"
    BY <1>1, <1>2, <2>1, <2>3 DEF Phase, Leftovers, HasTmp, Running
  <2> QED
    BY <2>2, <2>3
<1>5. ASSUME NEW t \in Targets PROVE AtTarget(t)'
  <2>1. AtTarget(t) /\ t \in Names
    BY <1>2 DEF Safe
  <2> QED
    BY <1>1, <1>2, <2>1 DEF AtTarget, HasFile, HasStub, Target, Running
<1> QED
  BY <1>3, <1>4, <1>5 DEF Safe

(* The call of a process never changes. *)
LEMMA CallsKept == [Next]_vars => call' = call
BY DEF Next, Step, CreateUniqueTmp, OpenDepositTmp, Chmod, WriteAll, SyncAll, HardLink, DropTmp,
   Reserve, RenameTmp, DropReservation, SyncDir, Cleanup, Fault, GiveUp, Kill, PowerLoss, Finished,
   vars, envVars

IInv == TypeOK /\ Opened /\ (AllNew => Safe)

LEMMA IInvStep == IInv /\ [Next]_vars => IInv'
<1> SUFFICES ASSUME IInv, [Next]_vars PROVE IInv'
  OBVIOUS
<1>1. TypeOK /\ TypeOK' /\ Opened'
  BY TypeStep DEF IInv
<1>2. AllNew' <=> AllNew
  BY CallsKept DEF AllNew, IsNew
<1>3. ASSUME AllNew PROVE Safe'
  <2>1. Safe
    BY <1>3 DEF IInv
  <2>2. CASE \E p \in Procs : Step(p)
    BY <1>1, <1>3, <2>1, <2>2, NewStep
  <2>3. CASE \E p \in Procs : Kill(p)
    BY <1>1, <1>3, <2>1, <2>3, KillSafe
  <2>4. CASE PowerLoss
    BY <1>1, <1>3, <2>1, <2>4, PowerLossSafe
  <2>5. CASE UNCHANGED vars
    BY <2>1, <2>5 DEF vars, fsVars, procVars, envVars, Safe, Phase, AtTarget, Fixed, Leftovers, Target
  <2> QED
    BY <2>2, <2>3, <2>4, <2>5 DEF Next, Finished
<1> QED
  BY <1>1, <1>2, <1>3 DEF IInv

LEMMA Invariant == Spec => []IInv
<1>1. Init => IInv
  BY InitTyped, InitSafe DEF IInv
<1> QED
  BY <1>1, IInvStep, PTL DEF Spec

(* No partial keystore is ever visible at its final name, through any kills *)
(* and a power loss, whoever else writes keystores there.                   *)
THEOREM KeystoresWhole == Spec => [](AllNew => NeverPartial)
<1>1. IInv => (AllNew => NeverPartial)
  <2> SUFFICES ASSUME IInv, AllNew, NEW t \in Targets, dir[t] # None
               PROVE  Whole(dir[t]) \/ (~links /\ \E p \in Procs : IsNew(p) /\ dir[t] = Stub(p))
    BY DEF NeverPartial
  <2>1. dir[t] \in Inodes /\ AtTarget(t) /\ Fixed
    BY DEF IInv, Safe, TypeOK, Names
  <2>2. CASE \E p \in Procs : dir[t] = Ino(p)
    BY <2>1, <2>2 DEF AtTarget, Whole
  <2>3. CASE \E p \in Procs : dir[t] = Stub(p)
    BY <2>1, <2>3 DEF AtTarget, AllNew
  <2>4. CASE \E u \in Targets : dir[t] = OldIno(u)
    BY <2>1, <2>4 DEF Fixed, Whole
  <2> QED
    BY <2>1, <2>2, <2>3, <2>4 DEF Inodes
<1> QED
  BY <1>1, Invariant, PTL

(* A keystore reported as written is there for good, and a call that has    *)
(* returned leaves nothing else behind unless a removal failed.             *)
THEOREM KeystoreAnswersHold == Spec => [](AllNew => AnswerHolds)
<1>1. IInv => (AllNew => AnswerHolds)
  <2> SUFFICES ASSUME IInv, AllNew PROVE AnswerHolds
    OBVIOUS
  <2>1. Safe /\ TypeOK /\ Targets \subseteq Names /\ \A p \in Procs : Target(p) \in Targets
    BY CallTyped DEF IInv, Names
  <2>2. SuccessIsDurable
    BY <2>1, InodesDiffer DEF SuccessIsDurable, Safe, Phase, AtTarget, AllNew
  <2>3. NoLeftovers
    BY <2>1 DEF NoLeftovers, Safe, Leftovers, HasTmp
  <2> QED
    BY <2>2, <2>3 DEF AnswerHolds
<1> QED
  BY <1>1, Invariant, PTL
(* Every step of a call moves it on. *)
LEMMA StepMoves ==
  ASSUME TypeOK, NEW p \in Procs, Step(p)
  PROVE  pc'[p] # pc[p]
<1> USE DEF TypeOK, Goto, GiveUp, IsNew
<1>1. CASE CreateUniqueTmp(p)
  BY <1>1 DEF CreateUniqueTmp
<1>2. CASE OpenDepositTmp(p)
  BY <1>2 DEF OpenDepositTmp
<1>3. CASE Chmod(p)
  BY <1>3 DEF Chmod
<1>4. CASE WriteAll(p)
  BY <1>4 DEF WriteAll
<1>5. CASE SyncAll(p)
  BY <1>5 DEF SyncAll
<1>6. CASE HardLink(p)
  BY <1>6 DEF HardLink
<1>7. CASE DropTmp(p)
  BY <1>7 DEF DropTmp
<1>8. CASE Reserve(p)
  BY <1>8 DEF Reserve
<1>9. CASE RenameTmp(p)
  BY <1>9 DEF RenameTmp
<1>10. CASE DropReservation(p)
  BY <1>10 DEF DropReservation
<1>11. CASE SyncDir(p)
  BY <1>11 DEF SyncDir
<1>12. CASE Cleanup(p)
  BY <1>12 DEF Cleanup
<1> QED
  BY <1>1, <1>2, <1>3, <1>4, <1>5, <1>6, <1>7, <1>8, <1>9, <1>10, <1>11, <1>12 DEF Step

(* A call removes no name but of an inode it created. *)
THEOREM KeystoresUnlinkOwn == Spec /\ []AllNew => UnlinksOwnOnly
<1> DEFINE Own == \A n \in Names : (dir[n] # None /\ dir'[n] = None /\ ~powerLost')
                    => \E p \in Procs : pc'[p] # pc[p] /\ dir[n] \in {Ino(p), Stub(p)}
<1>1. IInv /\ AllNew /\ [Next]_vars => [Own]_vars
  <2> SUFFICES ASSUME IInv, AllNew, Next PROVE Own
    OBVIOUS
  <2>1. TypeOK /\ Safe
    BY DEF IInv
  <2>2. CASE \E p \in Procs : Step(p)
    <3>1. PICK p \in Procs : Step(p)
      BY <2>2
    <3>2. Footprint(p) /\ pc'[p] # pc[p]
      BY <2>1, <3>1, StepFootprint, StepMoves
    <3> QED
      BY <3>2 DEF Footprint, OwnNames
  <2>3. CASE \E p \in Procs : Kill(p)
    BY <2>3 DEF Kill, fsVars
  <2>4. CASE PowerLoss
    BY <2>4 DEF PowerLoss
  <2>5. CASE Finished
    BY <2>5 DEF Finished, vars, fsVars
  <2> QED
    BY <2>2, <2>3, <2>4, <2>5 DEF Next
<1> QED
  BY <1>1, Invariant, PTL DEF Spec, UnlinksOwnOnly
-----------------------------------------------------------------------------
(* The refinement of PublishOnce. *)

(* What PublishOnce sees of a final name. *)
Seen(t) ==
  /\ dir[t] \in Inodes \cup {None}
  /\ dir[t] = None => Content(dir[t]) = None /\ Claimant(dir[t]) = None
  /\ \A q \in Procs : /\ dir[t] = Ino(q) => Content(dir[t]) = q /\ Claimant(dir[t]) = None
                      /\ dir[t] = Stub(q) => Content(dir[t]) = None /\ Claimant(dir[t]) = q
  /\ \A u \in Targets : dir[t] = OldIno(u) => Content(dir[t]) = Old /\ Claimant(dir[t]) = None

SInv == IInv /\ (AllNew => \A t \in Targets : Seen(t))

LEMMA ClaimantOf ==
  /\ \A q \in Procs : Claimant(Stub(q)) = q
  /\ \A i : (\A q \in Procs : i # Stub(q)) => Claimant(i) = None
BY InodesDiffer DEF Claimant

LEMMA SeenSo == IInv => SInv
<1> SUFFICES ASSUME IInv, AllNew, NEW t \in Targets PROVE Seen(t)
  BY DEF SInv
<1>1. dir[t] \in Inodes \cup {None} /\ AtTarget(t) /\ Fixed
  BY DEF IInv, Safe, TypeOK, Names
<1>2. Old # Empty /\ \A q \in Procs : q # Empty
  BY DistinctAssumption
<1>3. dir[t] = None => Content(dir[t]) = None /\ Claimant(dir[t]) = None
  BY ClaimantOf, InodesDiffer DEF Content
<1>4. ASSUME NEW q \in Procs, dir[t] = Ino(q) PROVE Content(dir[t]) = q /\ Claimant(dir[t]) = None
  <2>1. Claimant(Ino(q)) = None
    BY ClaimantOf, InodesDiffer
  <2> QED
    BY <1>1, <1>2, <1>4, <2>1, InodesDiffer DEF Content, AtTarget
<1>5. ASSUME NEW q \in Procs, dir[t] = Stub(q) PROVE Content(dir[t]) = None /\ Claimant(dir[t]) = q
  BY <1>1, <1>5, ClaimantOf DEF Content, Fixed
<1>6. ASSUME NEW u \in Targets, dir[t] = OldIno(u) PROVE Content(dir[t]) = Old /\ Claimant(dir[t]) = None
  <2>1. Claimant(OldIno(u)) = None
    BY ClaimantOf, InodesDiffer
  <2>2. dir[t] # None /\ data[dir[t]] = Old /\ Old # Empty
    BY <1>1, <1>2, <1>6, InodesDiffer DEF Fixed
  <2> QED
    BY <1>6, <2>1, <2>2 DEF Content
<1> QED
  BY <1>1, <1>3, <1>4, <1>5, <1>6 DEF Seen

(* What a step of p shows of it: nothing, or one of these. *)
Shows(p) ==
  LET t == Target(p)
      same == result'[p] = result[p]
  IN  \/ dir'[t] = dir[t] /\ same
      \/ /\ dir[t] = None /\ dir'[t] \in {Stub(p), Ino(p)} /\ same /\ result[p] = "pending"
      \/ /\ dir[t] = Stub(p) /\ dir'[t] \in {None, Ino(p)} /\ same
         /\ \/ result[p] = "pending"
            \/ dir'[t] = None /\ result[p] \notin {"pending", "Ok", "AlreadyExists"}
      \/ /\ dir'[t] = dir[t] /\ result[p] = "pending"
         /\ \/ result'[p] = "Ok" /\ dir[t] = Ino(p)
            \/ result'[p] = "AlreadyExists" /\ dir[t] \notin {None, Ino(p), Stub(p)}
            \/ result'[p] \in {"OpenTmp", "WriteTmp", "SyncTmp", "Rename", "SyncDir"}

LEMMA StepShows ==
  ASSUME TypeOK, AllNew, Safe, NEW p \in Procs, Step(p)
  PROVE  Shows(p)
<1>1. /\ Target(p) \in Targets /\ Target(p) \in Names /\ call[p].op = "new"
      /\ Phase(p) /\ AtTarget(Target(p)) /\ TmpNames \subseteq Names \ Targets
  BY CallTyped, NamesAssumption DEF AllNew, IsNew, Safe, Names
<1> USE <1>1, InodesDiffer
    DEF TypeOK, Phase, HasTmp, Goto, Answer, GiveUp, Fault, fsVars, envVars, IsNew, IsDeposit, Unlink
<1>2. CASE CreateUniqueTmp(p)
  BY <1>2 DEF CreateUniqueTmp, Shows
<1>3. CASE OpenDepositTmp(p)
  BY <1>3 DEF OpenDepositTmp, Shows
<1>4. CASE Chmod(p)
  BY <1>4 DEF Chmod, Shows
<1>5. CASE WriteAll(p)
  BY <1>5 DEF WriteAll, Shows
<1>6. CASE SyncAll(p)
  BY <1>6 DEF SyncAll, Shows
<1>7. CASE HardLink(p)
  BY <1>7 DEF HardLink, Shows, AtTarget, HasFile, HasStub
<1>8. CASE DropTmp(p)
  BY <1>8 DEF DropTmp, Shows
<1>9. CASE Reserve(p)
  BY <1>9 DEF Reserve, Shows, AtTarget, HasFile, HasStub
<1>10. CASE RenameTmp(p)
  BY <1>10 DEF RenameTmp, Shows
<1>11. CASE DropReservation(p)
  BY <1>11 DEF DropReservation, Shows
<1>12. CASE SyncDir(p)
  BY <1>12 DEF SyncDir, Shows
<1>13. CASE Cleanup(p)
  BY <1>13 DEF Cleanup, Shows
<1> QED
  BY <1>2, <1>3, <1>4, <1>5, <1>6, <1>7, <1>8, <1>9, <1>10, <1>11, <1>12, <1>13 DEF Step

LEMMA SeenSame ==
  ASSUME NEW t \in Targets, Seen(t), Seen(t)', dir'[t] = dir[t]
  PROVE  Content(dir[t])' = Content(dir[t]) /\ Claimant(dir[t])' = Claimant(dir[t])
BY DEF Seen, Inodes

(* What a step of p shows is an action of PublishOnce, or nothing. *)
LEMMA StepRefines ==
  ASSUME SInv, SInv', AllNew, NEW p \in Procs, Step(p)
  PROVE  [Once!Next]_(Once!vars)
<1> DEFINE t == Target(p)
<1>1. /\ TypeOK /\ Safe /\ t \in Targets /\ Footprint(p) /\ Shows(p)
      /\ \A q \in Procs : Target(q) \in Targets
      /\ \A u \in Targets : Seen(u) /\ AtTarget(u)
  BY CallTyped, StepFootprint, StepShows DEF SInv, IInv, Safe
<1>2. \A u \in Targets : Seen(u)' /\ AtTarget(u)'
  <2>1. call' = call
    BY <1>1 DEF Footprint, OwnCall
  <2> QED
    BY <2>1 DEF SInv, IInv, Safe, AllNew, IsNew
<1>3. [q \in Procs |-> Target(q)]' = [q \in Procs |-> Target(q)] /\ t' = t
  BY <1>1 DEF Footprint, OwnCall, Target
<1>4. \A q \in Procs \ {p} : Told(q)' = Told(q)
  BY <1>1 DEF Footprint, OwnCall, Told
<1>0. \A u \in Targets : dir'[u] = dir[u] =>
        Content(dir[u])' = Content(dir[u]) /\ Claimant(dir[u])' = Claimant(dir[u])
  BY <1>1, <1>2, SeenSame
<1>5. \A u \in Targets \ {t} : /\ Content(dir[u])' = Content(dir[u])
                               /\ Claimant(dir[u])' = Claimant(dir[u])
  <2> SUFFICES ASSUME NEW u \in Targets \ {t}
               PROVE  Content(dir[u])' = Content(dir[u]) /\ Claimant(dir[u])' = Claimant(dir[u])
    OBVIOUS
  <2>1. dir'[u] = dir[u] \/ (dir[u] = None /\ dir'[u] = None)
    BY <1>1, <1>2, <1>3 DEF Footprint, OwnNames, AtTarget, Names
  <2> QED
    BY <1>0, <1>1, <1>2, <2>1 DEF Seen
<1>6. p # None /\ p # Old /\ Old # None
  BY DistinctAssumption
<1>7. CASE dir'[t] = dir[t] /\ result'[p] = result[p]
  <2>1. Told(p)' = Told(p)
    BY <1>7 DEF Told
  <2>2. Content(dir[t])' = Content(dir[t]) /\ Claimant(dir[t])' = Claimant(dir[t])
    BY <1>0, <1>1, <1>3, <1>7
  <2>3. UNCHANGED Once!vars
    BY <1>3, <1>4, <1>5, <2>1, <2>2 DEF Once!vars
  <2> QED
    BY <2>3
<1>8. CASE dir[t] = None /\ dir'[t] = Stub(p) /\ result'[p] = result[p] /\ result[p] = "pending"
  <2>1. Told(p)' = Told(p) /\ Told(p) = "pending"
    BY <1>8 DEF Told
  <2>2. /\ Content(dir[t]) = None /\ Claimant(dir[t]) = None
        /\ Content(dir[t])' = None /\ Claimant(dir[t])' = p
    BY <1>1, <1>2, <1>3, <1>8 DEF Seen
  <2>3. Once!Claim(p)
    BY <1>1, <1>3, <1>4, <1>5, <2>1, <2>2 DEF Once!Claim
  <2> QED
    BY <2>3 DEF Once!Next
<1>9. CASE dir[t] \in {None, Stub(p)} /\ dir'[t] = Ino(p) /\ result'[p] = result[p] /\ result[p] = "pending"
  <2>1. Told(p)' = Told(p) /\ Told(p) = "pending"
    BY <1>9 DEF Told
  <2>2. /\ Content(dir[t]) = None /\ Claimant(dir[t]) \in {None, p}
        /\ Content(dir[t])' = p /\ Claimant(dir[t])' = None
    BY <1>1, <1>2, <1>3, <1>9 DEF Seen
  <2>3. Once!Publish(p)
    BY <1>1, <1>3, <1>4, <1>5, <2>1, <2>2 DEF Once!Publish
  <2> QED
    BY <2>3 DEF Once!Next
<1>10. CASE /\ dir[t] = Stub(p) /\ dir'[t] = None /\ result'[p] = result[p]
            /\ result[p] = "pending" \/ result[p] \notin {"pending", "Ok", "AlreadyExists"}
  <2>1. Told(p)' = Told(p) /\ Told(p) \in {"pending", "failed"}
    BY <1>10 DEF Told
  <2>2. /\ Content(dir[t]) = None /\ Claimant(dir[t]) = p
        /\ Content(dir[t])' = None /\ Claimant(dir[t])' = None
    BY <1>1, <1>2, <1>3, <1>10 DEF Seen
  <2>3. Once!GiveBack(p)
    BY <1>1, <1>3, <1>4, <1>5, <2>1, <2>2 DEF Once!GiveBack
  <2> QED
    BY <2>3 DEF Once!Next
<1>11. CASE /\ dir'[t] = dir[t] /\ result[p] = "pending"
            /\ \/ result'[p] = "Ok" /\ dir[t] = Ino(p)
               \/ result'[p] = "AlreadyExists" /\ dir[t] \notin {None, Ino(p), Stub(p)}
               \/ result'[p] \in {"OpenTmp", "WriteTmp", "SyncTmp", "Rename", "SyncDir"}
  <2>1. Told(p) = "pending" /\ Told(p)' \in {"Ok", "exists", "failed"}
        /\ (Told(p)' = "Ok" => result'[p] = "Ok") /\ (Told(p)' = "exists" => result'[p] = "AlreadyExists")
    BY <1>11 DEF Told
  <2>2. Content(dir[t])' = Content(dir[t]) /\ Claimant(dir[t])' = Claimant(dir[t])
    BY <1>0, <1>1, <1>3, <1>11
  <2>3. /\ Told(p)' = "Ok" => Content(dir[t]) = p
        /\ Told(p)' = "exists" =>
             Content(dir[t]) \notin {None, p} \/ Claimant(dir[t]) \notin {None, p}
    BY <1>1, <1>6, <1>11, <2>1, DistinctAssumption DEF Seen, Inodes
  <2>4. Once!Tell(p, Told(p)')
    BY <1>1, <1>3, <1>4, <1>5, <2>1, <2>2, <2>3 DEF Once!Tell
  <2> QED
    BY <2>1, <2>4 DEF Once!Next
<1> QED
  BY <1>1, <1>7, <1>8, <1>9, <1>10, <1>11 DEF Shows

(* Killing a process shows nothing of it; a power loss takes back only what *)
(* nobody was told is there.                                                *)
LEMMA PowerLossRefines ==
  ASSUME SInv, SInv', AllNew, PowerLoss
  PROVE  Once!Lose
<1>1. /\ TypeOK /\ Safe /\ call' = call /\ result' = result /\ Targets \subseteq Names
      /\ \A q \in Procs : Target(q) \in Targets /\ Phase(q)
      /\ \A n \in Names : dir'[n] = dir[n] \/ dir'[n] = durDir[n]
  BY CallTyped DEF SInv, IInv, Safe, PowerLoss, Names
<1>2. \A u \in Targets : Seen(u) /\ AtTarget(u) /\ Seen(u)'
  BY <1>1 DEF SInv, IInv, Safe, AllNew, IsNew
<1>3. /\ [q \in Procs |-> Target(q)]' = [q \in Procs |-> Target(q)]
      /\ [q \in Procs |-> Told(q)]' = [q \in Procs |-> Told(q)]
  BY <1>1 DEF Target, Told
<1>4. ASSUME NEW u \in Targets
      PROVE  /\ Content(dir[u])' \in Procs \cup {None, Old} /\ Claimant(dir[u])' \in Procs \cup {None}
             /\ Content(dir[u])' # None => Claimant(dir[u])' = None
             /\ \/ Content(dir[u])' = Content(dir[u])
                \/ /\ Content(dir[u]) \in Procs /\ Told(Content(dir[u])) # "Ok"
                   /\ Content(dir[u])' = None
  <2>1. Seen(u) /\ Seen(u)' /\ AtTarget(u)
    BY <1>2
  <2>2. /\ Content(dir[u])' \in Procs \cup {None, Old} /\ Claimant(dir[u])' \in Procs \cup {None}
        /\ Content(dir[u])' # None => Claimant(dir[u])' = None
    BY <2>1, DistinctAssumption DEF Seen, Inodes
  <2>3. CASE dir'[u] = dir[u]
    BY <2>1, <2>2, <2>3, SeenSame
  <2>4. CASE dir'[u] # dir[u]
    <3>1. dir'[u] = durDir[u] /\ durDir[u] # dir[u] /\ durDir[u] \in Inodes \cup {None}
      BY <1>1, <2>4 DEF TypeOK
    <3>2. durDir[u] = None \/ \E q \in Procs : durDir[u] = Stub(q)
      BY <2>1, <3>1 DEF AtTarget, Inodes
    <3>3. Content(dir[u])' = None
      BY <2>1, <3>1, <3>2 DEF Seen
    <3>4. \A w \in Targets : dir[u] # OldIno(w)
      BY <2>1, <3>1 DEF AtTarget
    <3>5. CASE \E q \in Procs : dir[u] = Ino(q)
      <4>1. PICK q \in Procs : dir[u] = Ino(q)
        BY <3>5
      <4>2. Content(dir[u]) = q /\ u = Target(q)
        BY <2>1, <4>1 DEF Seen, AtTarget
      <4>3. result[q] # "Ok"
        BY <1>1, <3>1, <4>1, <4>2 DEF Phase
      <4> QED
        BY <2>2, <3>3, <4>2, <4>3 DEF Told
    <3>6. CASE ~\E q \in Procs : dir[u] = Ino(q)
      BY <2>1, <2>2, <3>3, <3>4, <3>6 DEF Seen, Inodes
    <3> QED
      BY <3>5, <3>6
  <2> QED
    BY <2>3, <2>4
<1>5. [u \in Targets |-> Content(dir[u])]' \in [Targets -> Procs \cup {None, Old}]
  BY <1>4
<1>6. [u \in Targets |-> Claimant(dir[u])]' \in [Targets -> Procs \cup {None}]
  BY <1>4
<1>7. \A u \in Targets :
        \/ Content(dir[u])' = Content(dir[u])
        \/ /\ Content(dir[u]) \in Procs /\ [q \in Procs |-> Told(q)][Content(dir[u])] # "Ok"
           /\ Content(dir[u])' = None
  BY <1>4
<1> QED
  BY <1>3, <1>4, <1>5, <1>6, <1>7 DEF Once!Lose

LEMMA NextRefines ==
  SInv /\ SInv' /\ [Next]_vars => [AllNew => Once!Next]_(Once!vars)
<1> SUFFICES ASSUME SInv, SInv', [Next]_vars, AllNew PROVE [Once!Next]_(Once!vars)
  OBVIOUS
<1>1. CASE \E p \in Procs : Step(p)
  BY <1>1, StepRefines
<1>2. CASE PowerLoss
  BY <1>2, PowerLossRefines DEF Once!Next
<1>3. ASSUME UNCHANGED <<call, dir, data, result>> PROVE UNCHANGED Once!vars
  BY <1>3 DEF Once!vars, Target, Told, Content, Claimant
<1>4. CASE \E p \in Procs : Kill(p)
  BY <1>3, <1>4 DEF Kill, fsVars
<1>5. CASE UNCHANGED vars
  BY <1>3, <1>5 DEF vars, fsVars, procVars, envVars
<1> QED
  BY <1>1, <1>2, <1>4, <1>5 DEF Next, Finished

LEMMA InitRefines == Init /\ AllNew => Once!Init
<1> SUFFICES ASSUME Init, AllNew PROVE Once!Init
  OBVIOUS
<1>1. SInv /\ \A t \in Targets : dir[t] = None \/ \E u \in Targets : dir[t] = OldIno(u)
  <2>1. IInv
    BY InitTyped, InitSafe DEF IInv
  <2>2. PICK there \in SUBSET Targets :
          dir = [n \in Names |-> IF n \in there THEN OldIno(n) ELSE None]
    BY DEF Init
  <2> QED
    BY <2>1, <2>2, SeenSo DEF Names
<1>2. \A t \in Targets : Content(dir[t]) \in {None, Old} /\ Claimant(dir[t]) = None
  BY <1>1 DEF SInv, Seen
<1>3. \A p \in Procs : Target(p) \in Targets /\ Told(p) = "pending"
  BY <1>1, CallTyped DEF SInv, IInv, Init, Told
<1> QED
  BY <1>2, <1>3 DEF Once!Init

(* Calls of write_new_0600 alone implement PublishOnce: a keystore's name   *)
(* gets one caller's file and keeps it, whatever calls fail.                *)
THEOREM KeystoresOnce == Spec => PublishesOnce
<1>1. Init => (AllNew => Once!Init)
  BY InitRefines
<1>2. Spec => []SInv
  BY Invariant, SeenSo, PTL
<1> QED
  BY <1>1, <1>2, NextRefines, PTL DEF Spec, PublishesOnce
=============================================================================
