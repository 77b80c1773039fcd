------------------------------ MODULE HookProofs ------------------------------
(***************************************************************************)
(* Proofs about the hook inside the traced application: the rings of one   *)
(* recording (RingFamily), and what it keeps of the application's command  *)
(* buffers (MetalHook).                                                    *)
(***************************************************************************)
EXTENDS RingFamily, MetalHook, FiniteSetTheorems, SequenceTheorems, TLAPS

Images == {"none", "starting", "opened", "refused", "naming", "writing", "forked", "inert",
           "exited"}
Stages == {"running", "waiting", "detached", "unlinking", "over"}
SomeFile == Files \cup {NoFile}

FamilyTypeOK ==
    /\ image \in [Pids -> Images]
    /\ writes \in [Pids -> SomeFile] /\ tmp \in [Pids -> SomeFile]
    /\ name \in [Names -> SomeFile]
    /\ holders \in [Files -> SUBSET Pids]
    /\ files \in Files
    /\ written \in [Files -> Nat] /\ drained \in [Files -> Nat]
    /\ DOMAIN opened \subseteq Names /\ Main \in DOMAIN opened
    /\ \A n \in DOMAIN opened : opened[n] \in Files
    /\ passes \in 0 .. ScanEvery - 1
    /\ stage \in Stages /\ waited \in Nat
    /\ age \in [Files -> Nat] /\ due \in [Files -> Nat]
    /\ maker \in [Files -> Pids]

\* The count of passes starts again with each look.
LEMMA PassesWrap ==
  ASSUME NEW n \in 0 .. ScanEvery - 1
  PROVE  (n + 1) % ScanEvery = IF n + 1 = ScanEvery THEN 0 ELSE n + 1
BY FamilyAssumption

\* The steps of the processes.
LEMMA ProcessTyped ==
  ASSUME FamilyTypeOK, ProcessStep
  PROVE  FamilyTypeOK'
<1> USE FamilyAssumption DEF FamilyTypeOK, probeVars, recordVars, ProcessStep, Becomes, Images, SomeFile
<1> SUFFICES ASSUME NEW p \in Pids,
                    \/ OpenMain(p) \/ Claim(p) \/ MakeSibling(p) \/ NameSibling(p)
                    \/ WriteFrame(p) \/ Exec(p) \/ ExitProcess(p)
                    \/ \E c \in Pids : ForkProcess(p, c) \/ SpawnProcess(p, c)
             PROVE  FamilyTypeOK'
  OBVIOUS
<1>1. CASE OpenMain(p)
  BY <1>1 DEF OpenMain
<1>2. CASE Claim(p)
  <2>1. 0 \in Files
    BY DEF Files
  <2>2. writes' \in [Pids -> SomeFile] /\ image' \in [Pids -> Images]
    BY <1>2, <2>1 DEF Claim
  <2>3. holders' \in [Files -> SUBSET Pids]
    BY <1>2, <2>1 DEF Claim
  <2> QED
    BY <1>2, <2>2, <2>3 DEF Claim
<1>3. CASE MakeSibling(p)
  <2>1. files' \in Files
    BY <1>3 DEF MakeSibling, Files
  <2>2. tmp' \in [Pids -> SomeFile] /\ image' \in [Pids -> Images]
    BY <1>3, <2>1 DEF MakeSibling
  <2>3. holders' \in [Files -> SUBSET Pids] /\ maker' \in [Files -> Pids]
    BY <1>3, <2>1 DEF MakeSibling
  <2> QED
    BY <1>3, <2>1, <2>2, <2>3 DEF MakeSibling
<1>4. CASE NameSibling(p)
  BY <1>4 DEF NameSibling, Names
<1>5. CASE WriteFrame(p)
  <2>1. written' \in [Files -> Nat]
    <3>1. \A f \in Files : written[f] + 1 \in Nat
      OBVIOUS
    <3>2. written' = [written EXCEPT ![writes[p]] = written[writes[p]] + 1]
      BY <1>5 DEF WriteFrame
    <3>3. \A f \in Files : written'[f] \in {written[f], written[f] + 1}
      BY <3>2
    <3>4. written' = [f \in Files |-> written'[f]]
      BY <3>2
    <3> QED
      BY ONLY <3>1, <3>3, <3>4, FamilyTypeOK DEF FamilyTypeOK
  <2> QED
    BY <1>5, <2>1 DEF WriteFrame
<1>6. CASE Exec(p) \/ ExitProcess(p)
  BY <1>6 DEF Exec, ExitProcess, Leaves
<1>7. ASSUME NEW c \in Pids, ForkProcess(p, c) \/ SpawnProcess(p, c)
      PROVE  FamilyTypeOK'
  BY <1>7 DEF ForkProcess, SpawnProcess
<1> QED
  BY <1>1, <1>2, <1>3, <1>4, <1>5, <1>6, <1>7

\* A pass of the probe, and the steps of record.
LEMMA FamilyTyped ==
  ASSUME FamilyTypeOK, [FamilyNext]_familyVars
  PROVE  FamilyTypeOK'
<1> USE FamilyAssumption DEF FamilyTypeOK, probeVars, recordVars, SomeFile
<1>1. CASE UNCHANGED familyVars
  BY <1>1 DEF familyVars
<1>2. CASE Pass
  <2>1. passes' \in 0 .. ScanEvery - 1
    BY <1>2, PassesWrap DEF Pass
  <2>2. /\ DOMAIN opened' \subseteq Names /\ Main \in DOMAIN opened'
        /\ \A n \in DOMAIN opened' : opened'[n] \in Files
    BY <1>2 DEF Pass, Look, Family
  <2>3. drained' \in [Files -> Nat]
    BY <1>2 DEF Pass
  <2>4. age' \in [Files -> Nat]
    <3>1. \A f \in Files : Aged(f) \in Nat
      BY DEF Aged
    <3>2. age' = [f \in Files |-> Aged(f)]
      BY <1>2 DEF Pass
    <3> QED
      BY <3>1, <3>2
  <2> QED
    BY <1>2, <2>1, <2>2, <2>3, <2>4 DEF Pass
<1>3. CASE CommandOver \/ Detach
  BY <1>3 DEF CommandOver, Detach, Stages
<1>4. CASE UnlinkMain \/ UnlinkSiblings
  BY <1>4 DEF UnlinkMain, UnlinkSiblings, Stages
<1> QED
  BY <1>1, <1>2, <1>3, <1>4, ProcessTyped DEF FamilyNext

-----------------------------------------------------------------------------
(* One writer per ring.                                                    *)

\* Who writes a ring holds its lock, and writes it alone.
WritersHold ==
    /\ \A p \in Pids : writes[p] # NoFile =>
          /\ image[p] = "writing" /\ p \in holders[writes[p]] /\ writes[p] <= files
    /\ \A p, q \in Pids : writes[p] # NoFile /\ writes[p] = writes[q] => p = q

\* A file without its name yet is its maker's: nobody writes it.
TmpIsFresh ==
    \A p \in Pids : tmp[p] # NoFile =>
        /\ image[p] \in {"naming", "exited"}
        /\ tmp[p] \in 1 .. files /\ maker[tmp[p]] = p
        /\ image[p] = "naming" => p \in holders[tmp[p]]
        /\ \A q \in Pids : writes[q] # tmp[p]

\* A name of a sibling leads to a file its process made, before the one it makes.
NamesAreOwn ==
    /\ name[Main] \in {0, NoFile}
    /\ \A p \in Pids : name[p] # NoFile =>
          /\ name[p] \in 1 .. files /\ maker[name[p]] = p
          /\ tmp[p] # NoFile => name[p] < tmp[p]

WritersInv == WritersHold /\ TmpIsFresh /\ NamesAreOwn

\* Whatever a process does, nobody comes to write a ring that has a writer.
LEMMA ProcessesKeepWriters ==
  ASSUME FamilyTypeOK, WritersInv, ProcessStep
  PROVE  WritersInv'
<1> USE FamilyAssumption
        DEF FamilyTypeOK, WritersInv, WritersHold, TmpIsFresh, NamesAreOwn, Becomes, SomeFile,
            NoFile, Names
<1> SUFFICES ASSUME NEW p \in Pids,
                    \/ OpenMain(p) \/ Claim(p) \/ MakeSibling(p) \/ NameSibling(p)
                    \/ WriteFrame(p) \/ Exec(p) \/ ExitProcess(p)
                    \/ \E c \in Pids : ForkProcess(p, c) \/ SpawnProcess(p, c)
             PROVE  WritersInv'
  BY DEF ProcessStep
<1>1. CASE OpenMain(p)
  BY <1>1 DEF OpenMain
<1>2. CASE Claim(p)
  <2>1. 0 \in Files /\ files >= 0
    BY DEF Files
  <2>2. CASE holders[0] = {}
    <3>1. /\ \A q \in Pids : writes[q] # 0
          /\ writes' = [writes EXCEPT ![p] = 0] /\ holders' = [holders EXCEPT ![0] = {p}]
          /\ image' = [image EXCEPT ![p] = "writing"] /\ image[p] = "opened"
      BY <1>2, <2>2 DEF Claim
    <3>2. WritersHold'
      BY <1>2, <2>1, <3>1 DEF Claim
    <3>3. TmpIsFresh' /\ NamesAreOwn'
      BY <1>2, <3>1 DEF Claim
    <3> QED
      BY <3>2, <3>3
  <2>3. CASE holders[0] # {}
    BY <1>2, <2>3 DEF Claim
  <2> QED
    BY <2>2, <2>3
<1>3. CASE MakeSibling(p)
  <2>0. PICK f : f = files'
    OBVIOUS
  <2>1. /\ f = files + 1 /\ f \in Files /\ f >= 1 /\ files' = f
        /\ tmp' = [tmp EXCEPT ![p] = f]
        /\ holders' = [holders EXCEPT ![f] = {p}]
        /\ maker' = [maker EXCEPT ![f] = p]
        /\ image' = [image EXCEPT ![p] = "naming"] /\ image[p] = "refused"
        /\ writes' = writes /\ name' = name
    BY <1>3, <2>0 DEF MakeSibling, Files
  <2>2. \A q \in Pids : /\ writes[q] # f
                        /\ tmp[q] # NoFile => tmp[q] # f
                        /\ name[q] # NoFile => name[q] # f
    BY <2>1
  <2>3. WritersHold'
    <3>1. ASSUME NEW q \in Pids, writes'[q] # NoFile
          PROVE  image'[q] = "writing" /\ q \in holders'[writes'[q]] /\ writes'[q] <= files'
      <4>1. writes[q] \in Files /\ writes[q] # f /\ image[q] = "writing" /\ q # p
            /\ q \in holders[writes[q]] /\ writes[q] <= files
        BY <2>1, <2>2, <3>1
      <4> QED
        BY ONLY <2>1, <4>1, FamilyTypeOK DEF FamilyTypeOK, Files
    <3> QED
      BY <2>1, <3>1
  <2>4. TmpIsFresh'
    <3>1. ASSUME NEW q \in Pids, q # p, tmp[q] # NoFile
          PROVE  /\ image'[q] \in {"naming", "exited"} /\ image'[q] = image[q]
                 /\ tmp[q] \in 1 .. files' /\ maker'[tmp[q]] = q
                 /\ holders'[tmp[q]] = holders[tmp[q]]
      <4>1. tmp[q] \in 1 .. files /\ tmp[q] # f /\ maker[tmp[q]] = q /\ tmp[q] \in Files
        BY <2>2, <3>1
      <4> QED
        BY <2>1, <3>1, <4>1 DEF Files
    <3>2. p \in holders'[f] /\ maker'[f] = p /\ f \in 1 .. files' /\ image'[p] = "naming"
      BY <2>1
    <3> QED
      BY <2>1, <2>2, <3>1, <3>2
  <2>5. NamesAreOwn'
    <3>1. ASSUME NEW q \in Pids, name[q] # NoFile
          PROVE  /\ name[q] \in 1 .. files' /\ maker'[name[q]] = q
                 /\ tmp'[q] # NoFile => name[q] < tmp'[q]
      <4>1. /\ name[q] \in 1 .. files /\ name[q] # f /\ maker[name[q]] = q /\ name[q] \in Files
            /\ tmp[q] # NoFile => name[q] < tmp[q]
        BY <2>2, <3>1
      <4>2. name[q] \in 1 .. files' /\ maker'[name[q]] = q
        BY ONLY <2>1, <4>1, FamilyTypeOK DEF FamilyTypeOK, Files
      <4>3. tmp'[q] # NoFile => name[q] < tmp'[q]
        BY ONLY <2>1, <4>1, FamilyTypeOK DEF FamilyTypeOK, Files
      <4> QED
        BY ONLY <4>2, <4>3
    <3> QED
      BY <2>1, <3>1
  <2> QED
    BY <2>3, <2>4, <2>5
<1>4. CASE NameSibling(p)
  <2>1. CASE tmp[p] = NoFile
    BY <1>4, <2>1 DEF NameSibling
  <2>2. CASE tmp[p] # NoFile
    <3>1. /\ image' = [image EXCEPT ![p] = "writing"] /\ image[p] = "naming"
          /\ name' = [name EXCEPT ![p] = tmp[p]]
          /\ writes' = [writes EXCEPT ![p] = tmp[p]]
          /\ tmp' = [tmp EXCEPT ![p] = NoFile]
          /\ UNCHANGED <<holders, files, maker>>
      BY <1>4, <2>2 DEF NameSibling
    <3>2. WritersHold'
      BY <2>2, <3>1
    <3>3. TmpIsFresh'
      BY <2>2, <3>1
    <3>4. NamesAreOwn'
      BY <2>2, <3>1
    <3> QED
      BY <3>2, <3>3, <3>4
  <2> QED
    BY <2>1, <2>2
<1>5. CASE WriteFrame(p)
  BY <1>5 DEF WriteFrame
<1>6. CASE Exec(p) \/ ExitProcess(p)
  BY <1>6 DEF Exec, ExitProcess, Leaves, Settled, Exists
<1>7. ASSUME NEW c \in Pids, ForkProcess(p, c) \/ SpawnProcess(p, c)
      PROVE  WritersInv'
  BY <1>7, SMTT(30) DEF ForkProcess, SpawnProcess
<1> QED
  BY <1>1, <1>2, <1>3, <1>4, <1>5, <1>6, <1>7

\* The probe and record write no ring; record takes names away.
LEMMA WritersKept ==
  ASSUME FamilyTypeOK, WritersInv, [FamilyNext]_familyVars
  PROVE  WritersInv'
<1> USE FamilyAssumption
        DEF FamilyTypeOK, WritersInv, WritersHold, TmpIsFresh, NamesAreOwn, SomeFile,
            NoFile, Names, Files
<1>1. CASE UNCHANGED familyVars \/ Pass \/ CommandOver \/ Detach
  <2>1. UNCHANGED <<image, writes, name, tmp, holders, files, maker>>
    BY <1>1 DEF familyVars, Pass, CommandOver, Detach
  <2> QED
    BY <2>1
<1>2. CASE UnlinkMain
  BY <1>2 DEF UnlinkMain
<1>3. CASE UnlinkSiblings
  BY <1>3 DEF UnlinkSiblings
<1> QED
  BY <1>1, <1>2, <1>3, ProcessesKeepWriters DEF FamilyNext

-----------------------------------------------------------------------------
(* What the probe has opened, and drained.                                 *)

Found(f) == \E n \in DOMAIN opened : opened[n] = f

\* Under a name the probe has opened a file of that name's process, no later
\* than the one the name leads to now.
OpenedIsOwn ==
    /\ opened[Main] = 0
    /\ \A n \in Pids : n \in DOMAIN opened =>
          /\ opened[n] \in 1 .. files /\ maker[opened[n]] = n
          /\ name[n] # NoFile => opened[n] <= name[n]
          /\ tmp[n] # NoFile => opened[n] < tmp[n]

\* A file without its name has no age; one the probe did not find, and could
\* have, has lost its name or waits for the next look.
AgeIsSound ==
    /\ \A f \in Files : f > files => age[f] = 0
    /\ \A p \in Pids : tmp[p] # NoFile => age[tmp[p]] = 0
    /\ \A f \in 1 .. files : FirstOfItsName(f) /\ ~Found(f) =>
          /\ age[f] < ScanEvery
          /\ (passes # 0 /\ \E n \in Pids : name[n] = f) => age[f] < passes

\* A pass made after the command was over has taken all that was due.
DrainIsSound ==
    /\ \A f \in Files : due[f] \in Nat /\ due[f] <= written[f]
    /\ stage = "running" => waited = 0
    /\ (stage \in {"waiting", "detached"} /\ waited > 0) =>
          \A n \in DOMAIN opened : drained[opened[n]] >= due[opened[n]]
    /\ stage = "detached" => waited >= DrainWait

FamilyInv == FamilyTypeOK /\ WritersInv /\ OpenedIsOwn /\ AgeIsSound /\ DrainIsSound

\* What a step of a process may do, as the probe sees it: files and frames are
\* added, and a file gets its name.
LEMMA WhatProcessesDo ==
  ASSUME FamilyTypeOK, WritersInv, ProcessStep
  PROVE  /\ UNCHANGED <<drained, opened, passes, waited, seen, age, stage, due>>
         /\ \A f \in Files : written[f] <= written'[f]
         /\ files' \in {files, files + 1}
         /\ \A f \in 1 .. files : maker'[f] = maker[f]
         /\ \A n \in Pids : \/ name'[n] = name[n]
                            \/ name'[n] = tmp[n] /\ tmp[n] # NoFile /\ tmp'[n] = NoFile
         /\ \A n \in Pids : \/ tmp'[n] = tmp[n] \/ tmp'[n] = NoFile
                            \/ tmp'[n] = files + 1 /\ files' = files + 1
<1> USE DEF FamilyTypeOK, SomeFile, NoFile, Names, Files
<1>1. UNCHANGED <<drained, opened, passes, waited, seen, age, stage, due>>
  BY DEF ProcessStep, probeVars, recordVars
<1> SUFFICES ASSUME NEW p \in Pids,
                    \/ OpenMain(p) \/ Claim(p) \/ MakeSibling(p) \/ NameSibling(p)
                    \/ WriteFrame(p) \/ Exec(p) \/ ExitProcess(p)
                    \/ \E c \in Pids : ForkProcess(p, c) \/ SpawnProcess(p, c)
             PROVE  /\ \A f \in Files : written[f] <= written'[f]
                    /\ files' \in {files, files + 1}
                    /\ \A f \in 1 .. files : maker'[f] = maker[f]
                    /\ \A n \in Pids : \/ name'[n] = name[n]
                                       \/ name'[n] = tmp[n] /\ tmp[n] # NoFile /\ tmp'[n] = NoFile
                    /\ \A n \in Pids : \/ tmp'[n] = tmp[n] \/ tmp'[n] = NoFile
                                       \/ tmp'[n] = files + 1 /\ files' = files + 1
  BY <1>1 DEF ProcessStep
<1>0. /\ files \in Nat /\ \A f \in Files : written[f] \in Nat
      /\ tmp \in [Pids -> SomeFile] /\ name \in [Names -> SomeFile]
      /\ maker \in [Files -> Pids]
  BY ONLY FamilyTypeOK DEF FamilyTypeOK, Files
<1>2. CASE \/ OpenMain(p) \/ Claim(p) \/ Exec(p) \/ ExitProcess(p)
           \/ \E c \in Pids : ForkProcess(p, c) \/ SpawnProcess(p, c)
  <2>1. written' = written /\ files' = files /\ maker' = maker /\ name' = name /\ tmp' = tmp
    BY <1>2 DEF OpenMain, Claim, Exec, ExitProcess, Leaves, ForkProcess, SpawnProcess
  <2> QED
    BY ONLY <1>0, <2>1
<1>3. CASE MakeSibling(p)
  <2>1. /\ files' = files + 1 /\ written' = written /\ name' = name
        /\ tmp' = [tmp EXCEPT ![p] = files + 1] /\ maker' = [maker EXCEPT ![files + 1] = p]
    BY <1>3 DEF MakeSibling
  <2> QED
    BY ONLY <1>0, <2>1
<1>4. CASE NameSibling(p)
  <2>1. /\ written' = written /\ files' = files /\ maker' = maker
        /\ tmp' = [tmp EXCEPT ![p] = NoFile]
        /\ name' = name \/ (tmp[p] # NoFile /\ name' = [name EXCEPT ![p] = tmp[p]])
    BY <1>4 DEF NameSibling
  <2> QED
    BY ONLY <1>0, <2>1 DEF Names
<1>5. CASE WriteFrame(p)
  <2>1. /\ UNCHANGED <<files, maker, name, tmp>>
        /\ written' = [written EXCEPT ![writes[p]] = written[writes[p]] + 1]
    BY <1>5 DEF WriteFrame
  <2>2. \A f \in Files : written'[f] \in {written[f], written[f] + 1}
    BY ONLY <2>1, FamilyTypeOK DEF FamilyTypeOK
  <2> QED
    BY ONLY <1>0, <2>1, <2>2
<1> QED
  BY <1>2, <1>3, <1>4, <1>5

\* The steps of the processes keep what the probe knows of its rings true.
LEMMA ProcessesKeepDrain ==
  ASSUME FamilyInv, ProcessStep
  PROVE  OpenedIsOwn' /\ AgeIsSound' /\ DrainIsSound'
<1>0. FamilyTypeOK /\ WritersInv /\ OpenedIsOwn /\ AgeIsSound /\ DrainIsSound
  BY DEF FamilyInv
<1>1. /\ UNCHANGED <<drained, opened, passes, waited, seen, age, stage, due>>
      /\ \A f \in Files : written[f] <= written'[f]
      /\ files' \in {files, files + 1}
      /\ \A f \in 1 .. files : maker'[f] = maker[f]
      /\ \A n \in Pids : \/ name'[n] = name[n]
                         \/ name'[n] = tmp[n] /\ tmp[n] # NoFile /\ tmp'[n] = NoFile
      /\ \A n \in Pids : \/ tmp'[n] = tmp[n] \/ tmp'[n] = NoFile
                         \/ tmp'[n] = files + 1 /\ files' = files + 1
  BY <1>0, WhatProcessesDo
<1>2. /\ files \in Nat
      /\ \A n \in Pids : /\ name[n] \in SomeFile /\ tmp[n] \in SomeFile
                         /\ name[n] # NoFile => name[n] \in 1 .. files
                         /\ tmp[n] # NoFile => tmp[n] \in 1 .. files
                         /\ (tmp[n] # NoFile /\ name[n] # NoFile) => name[n] < tmp[n]
  BY <1>0 DEF FamilyTypeOK, WritersInv, NamesAreOwn, TmpIsFresh, Names, Files
<1>3. OpenedIsOwn'
  <2>1. opened'[Main] = 0
    BY <1>0, <1>1 DEF OpenedIsOwn
  <2>2. ASSUME NEW n \in Pids, n \in DOMAIN opened
        PROVE  /\ opened[n] \in 1 .. files' /\ maker'[opened[n]] = n
               /\ name'[n] # NoFile => opened[n] <= name'[n]
               /\ tmp'[n] # NoFile => opened[n] < tmp'[n]
    <3>1. /\ opened[n] \in 1 .. files /\ maker[opened[n]] = n
          /\ name[n] # NoFile => opened[n] <= name[n]
          /\ tmp[n] # NoFile => opened[n] < tmp[n]
      BY <1>0, <2>2 DEF OpenedIsOwn
    <3>2. opened[n] \in 1 .. files' /\ maker'[opened[n]] = n
      BY <1>1, <1>2, <3>1
    <3>3. name'[n] # NoFile => opened[n] <= name'[n]
      BY <1>1, <1>2, <3>1
    <3>4. tmp'[n] # NoFile => opened[n] < tmp'[n]
      BY <1>1, <1>2, <3>1
    <3> QED
      BY <3>2, <3>3, <3>4
  <2> QED
    BY <1>1, <2>1, <2>2 DEF OpenedIsOwn
<1>4. AgeIsSound'
  <2>1. \A f \in Files : f > files' => age[f] = 0
    BY <1>0, <1>1, <1>2 DEF AgeIsSound, Files
  <2>2. \A p \in Pids : tmp'[p] # NoFile => age[tmp'[p]] = 0
    <3> SUFFICES ASSUME NEW p \in Pids, tmp'[p] # NoFile
                 PROVE  age[tmp'[p]] = 0
      OBVIOUS
    <3>1. CASE tmp'[p] = tmp[p]
      BY <1>0, <3>1 DEF AgeIsSound
    <3>2. CASE tmp'[p] = files + 1 /\ files' = files + 1
      <4>1. files + 1 \in Files /\ files + 1 > files
        BY <1>0, <1>2, <3>2, FamilyTyped DEF FamilyTypeOK, FamilyNext, Files
      <4> QED
        BY <1>0, <3>2, <4>1 DEF AgeIsSound
    <3> QED
      BY <1>1, <3>1, <3>2
  <2>3. ASSUME NEW f \in 1 .. files', FirstOfItsName(f)', ~Found(f)'
        PROVE  /\ age[f] < ScanEvery
               /\ (passes # 0 /\ \E n \in Pids : name'[n] = f) => age[f] < passes
    <3>0. passes \in Nat /\ ScanEvery \in Nat \ {0} /\ f \in Files
      <4>1. FamilyTypeOK'
        BY <1>0, FamilyTyped DEF FamilyNext
      <4> QED
        BY <1>0, <4>1, FamilyAssumption DEF FamilyTypeOK, Files
    <3>1. CASE f > files
      BY <1>0, <3>0, <3>1 DEF AgeIsSound
    <3>2. CASE f \in 1 .. files
      <4>1. FirstOfItsName(f) /\ ~Found(f)
        BY <1>1, <1>2, <2>3, <3>2 DEF FirstOfItsName, Found
      <4>2. /\ age[f] < ScanEvery
            /\ (passes # 0 /\ \E n \in Pids : name[n] = f) => age[f] < passes
        BY <1>0, <3>2, <4>1 DEF AgeIsSound
      <4>3. ASSUME NEW n \in Pids, name'[n] = f, passes # 0
            PROVE  age[f] < passes
        <5>1. CASE name'[n] = name[n]
          BY <4>2, <4>3, <5>1
        <5>2. CASE name'[n] = tmp[n] /\ tmp[n] # NoFile
          <6>1. age[f] = 0
            BY <1>0, <4>3, <5>2 DEF AgeIsSound
          <6> QED
            BY <3>0, <4>3, <6>1
        <5> QED
          BY <1>1, <5>1, <5>2
      <4> QED
        BY <4>2, <4>3
    <3> QED
      BY <1>2, <1>1, <3>1, <3>2
  <2> QED
    BY <1>1, <2>1, <2>2, <2>3 DEF AgeIsSound
<1>5. DrainIsSound'
  <2>1. \A f \in Files : written[f] \in Nat /\ written'[f] \in Nat
    <3>1. FamilyTypeOK'
      BY <1>0, FamilyTyped DEF FamilyNext
    <3> QED
      BY <1>0, <3>1 DEF FamilyTypeOK
  <2> QED
    BY <1>0, <1>1, <2>1 DEF DrainIsSound
<1> QED
  BY <1>3, <1>4, <1>5

\* A pass of the probe finds every ring that has its name, and takes all there is.
LEMMA PassKeepsDrain ==
  ASSUME FamilyInv, Pass
  PROVE  OpenedIsOwn' /\ AgeIsSound' /\ DrainIsSound'
<1>0. FamilyTypeOK /\ WritersInv /\ OpenedIsOwn /\ AgeIsSound /\ DrainIsSound
  BY DEF FamilyInv
<1>1. /\ UNCHANGED <<files, maker, name, tmp, written, stage, due>>
      /\ stage \in {"running", "waiting"}
      /\ passes' = (passes + 1) % ScanEvery
      /\ IF passes = 0 THEN opened' = Look ELSE opened' = opened
      /\ drained' = [f \in Files |-> IF \E n \in DOMAIN opened' : opened'[n] = f
                                     THEN written[f] ELSE drained[f]]
      /\ age' = [f \in Files |-> Aged(f)]
      /\ waited' = IF stage = "waiting" /\ waited < DrainWait THEN waited + 1 ELSE waited
  BY DEF Pass, recordVars
<1>2. /\ files \in Nat /\ passes \in 0 .. ScanEvery - 1 /\ ScanEvery \in Nat \ {0}
      /\ Main \notin Pids /\ waited \in Nat /\ DrainWait \in Nat
      /\ \A f \in Files : age[f] \in Nat /\ written[f] \in Nat
      /\ \A n \in Pids : /\ name[n] # NoFile => name[n] \in 1 .. files /\ maker[name[n]] = n
                         /\ tmp[n] # NoFile => tmp[n] \in 1 .. files /\ maker[tmp[n]] = n
                         /\ (tmp[n] # NoFile /\ name[n] # NoFile) => name[n] < tmp[n]
      /\ name[Main] \in {0, NoFile} /\ Main \in DOMAIN opened
      /\ DOMAIN opened \subseteq Names
  <2>1. /\ files \in Nat /\ passes \in 0 .. ScanEvery - 1 /\ waited \in Nat
        /\ \A f \in Files : age[f] \in Nat /\ written[f] \in Nat
        /\ Main \in DOMAIN opened /\ DOMAIN opened \subseteq Names
    BY <1>0 DEF FamilyTypeOK, Files
  <2>2. \A n \in Pids : /\ name[n] # NoFile => name[n] \in 1 .. files /\ maker[name[n]] = n
                        /\ tmp[n] # NoFile => tmp[n] \in 1 .. files /\ maker[tmp[n]] = n
                        /\ (tmp[n] # NoFile /\ name[n] # NoFile) => name[n] < tmp[n]
    BY <1>0 DEF WritersInv, NamesAreOwn, TmpIsFresh
  <2> QED
    BY <1>0, <2>1, <2>2, FamilyAssumption DEF WritersInv, NamesAreOwn
<1>3. OpenedIsOwn'
  <2>1. CASE passes # 0
    BY <1>0, <1>1, <2>1 DEF OpenedIsOwn
  <2>2. CASE passes = 0
    <3>1. opened' = Look
      BY <1>1, <2>2
    <3>2. opened'[Main] = 0
      BY <1>0, <1>2, <3>1 DEF OpenedIsOwn, Look
    <3>3. ASSUME NEW n \in Pids, n \in DOMAIN opened'
          PROVE  /\ opened'[n] \in 1 .. files /\ maker[opened'[n]] = n
                 /\ name[n] # NoFile => opened'[n] <= name[n]
                 /\ tmp[n] # NoFile => opened'[n] < tmp[n]
      <4>1. CASE n \in DOMAIN opened
        BY <1>0, <3>1, <4>1 DEF OpenedIsOwn, Look
      <4>2. CASE n \notin DOMAIN opened
        <5>1. opened'[n] = name[n] /\ name[n] # NoFile
          BY <3>1, <3>3, <4>2 DEF Look, Family
        <5> QED
          BY <1>2, <5>1
      <4> QED
        BY <4>1, <4>2
    <3> QED
      BY <1>1, <3>2, <3>3 DEF OpenedIsOwn
  <2> QED
    BY <2>1, <2>2
<1>4. AgeIsSound'
  <2>1. \A f \in Files : age'[f] = age[f] \/ ((\E n \in Names : name[n] = f) /\ age'[f] = age[f] + 1)
    BY <1>1 DEF Aged
  <2>2. \A f \in Files : f > files => age'[f] = 0
    BY <1>0, <1>2, <2>1 DEF AgeIsSound, Files, NoFile, Names
  <2>3. \A p \in Pids : tmp[p] # NoFile => age'[tmp[p]] = 0
    <3> SUFFICES ASSUME NEW p \in Pids, tmp[p] # NoFile
                 PROVE  age'[tmp[p]] = 0
      OBVIOUS
    <3>1. age[tmp[p]] = 0 /\ tmp[p] \in Files
      <4>1. tmp[p] \in 1 .. files /\ 1 .. files \subseteq Files
        BY <1>0, <1>2, FamilyAssumption DEF FamilyTypeOK, Files
      <4> QED
        BY <1>0, <4>1 DEF AgeIsSound
    <3>2. \A n \in Names : name[n] # tmp[p]
      BY <1>2 DEF Names, NoFile
    <3> QED
      BY <2>1, <3>1, <3>2
  <2>4. ASSUME NEW f \in 1 .. files, FirstOfItsName(f)', ~Found(f)'
        PROVE  /\ age'[f] < ScanEvery
               /\ (passes' # 0 /\ \E n \in Pids : name[n] = f) => age'[f] < passes'
    <3>0. f \in Files /\ FirstOfItsName(f)
      <4>1. f \in Files
        BY <1>0, FamilyAssumption DEF FamilyTypeOK, Files
      <4>2. FirstOfItsName(f)
        BY <1>1, <2>4 DEF FirstOfItsName
      <4> QED
        BY <4>1, <4>2
    <3>1. ~Found(f)
      <4> SUFFICES ASSUME NEW n \in DOMAIN opened, opened[n] = f
                   PROVE  Found(f)'
        BY <2>4 DEF Found
      <4>1. n \in DOMAIN opened' /\ opened'[n] = opened[n]
        BY <1>1 DEF Look
      <4> QED
        BY <4>1 DEF Found
    <3>2. /\ age[f] < ScanEvery
          /\ (passes # 0 /\ \E n \in Pids : name[n] = f) => age[f] < passes
      BY <1>0, <3>0, <3>1 DEF AgeIsSound
    <3>3. CASE \A n \in Names : name[n] # f
      BY <1>2, <2>1, <3>0, <3>2, <3>3 DEF Names
    <3>4. ASSUME NEW n \in Names, name[n] = f
          PROVE  age[f] < passes /\ passes # 0
      <4>1. n \in Pids /\ maker[f] = n
        BY <1>2, <3>4 DEF Names, NoFile
      <4>2. passes # 0
        <5> SUFFICES ASSUME passes = 0
                     PROVE  Found(f)'
          BY <2>4
        <5>1. opened' = Look /\ n \in DOMAIN opened' /\ f # NoFile
          BY <1>1, <3>4 DEF Look, Family, NoFile
        <5>2. CASE n \in DOMAIN opened
          <6>1. opened[n] \in 1 .. files /\ maker[opened[n]] = n /\ opened[n] <= f
            BY <1>0, <3>4, <4>1, <5>1, <5>2 DEF OpenedIsOwn
          <6>2. opened[n] = f
            BY <1>2, <3>0, <4>1, <6>1 DEF FirstOfItsName
          <6> QED
            BY <5>1, <5>2, <6>2 DEF Found, Look
        <5>3. CASE n \notin DOMAIN opened
          BY <3>4, <5>1, <5>3 DEF Found, Look
        <5> QED
          BY <5>2, <5>3
      <4> QED
        BY <3>2, <3>4, <4>1, <4>2
    <3>5. CASE age[f] < passes /\ passes # 0
      <4>1. passes' = IF passes + 1 = ScanEvery THEN 0 ELSE passes + 1
        BY <1>1, <1>2, PassesWrap
      <4>2. age'[f] = age[f] \/ age'[f] = age[f] + 1
        BY <2>1, <3>0
      <4>3. age[f] \in Nat
        BY <1>2, <3>0
      <4> QED
        BY ONLY <1>2, <3>5, <4>1, <4>2, <4>3
    <3> QED
      BY <3>3, <3>4, <3>5
  <2> QED
    BY <1>1, <2>2, <2>3, <2>4 DEF AgeIsSound
<1>5. DrainIsSound'
  <2>1. \A n \in DOMAIN opened' : opened'[n] \in Files
    <3>1. FamilyTypeOK'
      BY <1>0, FamilyTyped DEF FamilyNext
    <3> QED
      BY <3>1 DEF FamilyTypeOK
  <2>2. \A n \in DOMAIN opened' : drained'[opened'[n]] = written[opened'[n]]
    BY <1>1, <2>1
  <2>3. \A n \in DOMAIN opened' : drained'[opened'[n]] >= due[opened'[n]]
    BY <1>0, <1>2, <2>1, <2>2 DEF DrainIsSound
  <2>4. stage = "running" => waited' = 0
    BY <1>0, <1>1 DEF DrainIsSound
  <2> QED
    BY <1>0, <1>1, <2>3, <2>4 DEF DrainIsSound
<1> QED
  BY <1>3, <1>4, <1>5

\* The steps of record: what is due is counted before the wait.
LEMMA RecordKeepsDrain ==
  ASSUME FamilyInv, CommandOver \/ Detach \/ UnlinkMain \/ UnlinkSiblings
  PROVE  OpenedIsOwn' /\ AgeIsSound' /\ DrainIsSound'
<1>0. FamilyTypeOK /\ WritersInv /\ OpenedIsOwn /\ AgeIsSound /\ DrainIsSound
  BY DEF FamilyInv
<1>1. /\ UNCHANGED <<files, maker, written, drained, opened, passes, waited, age>>
      /\ \A n \in Pids : name'[n] \in {name[n], NoFile} /\ tmp'[n] \in {tmp[n], NoFile}
  <2>1. CASE CommandOver \/ Detach
    BY <2>1 DEF CommandOver, Detach, probeVars
  <2>2. CASE UnlinkMain
    BY <1>0, <2>2, FamilyAssumption DEF FamilyTypeOK, UnlinkMain, probeVars, Names
  <2>3. CASE UnlinkSiblings
    BY <1>0, <2>3 DEF FamilyTypeOK, UnlinkSiblings, probeVars, Names
  <2> QED
    BY <2>1, <2>2, <2>3
<1>2. OpenedIsOwn'
  BY <1>0, <1>1 DEF OpenedIsOwn
<1>3. AgeIsSound'
  <2>1. /\ \A f \in Files : f > files' => age'[f] = 0
        /\ \A p \in Pids : tmp'[p] # NoFile => age'[tmp'[p]] = 0
    BY <1>0, <1>1 DEF AgeIsSound
  <2>2. ASSUME NEW f \in 1 .. files, FirstOfItsName(f)', ~Found(f)'
        PROVE  /\ age[f] < ScanEvery
               /\ (passes # 0 /\ \E n \in Pids : name'[n] = f) => age[f] < passes
    <3>1. FirstOfItsName(f) /\ ~Found(f) /\ f # NoFile
      BY <1>1, <2>2 DEF FirstOfItsName, Found, NoFile
    <3> QED
      BY <1>0, <1>1, <3>1 DEF AgeIsSound
  <2> QED
    BY <1>1, <2>1, <2>2 DEF AgeIsSound
<1>4. DrainIsSound'
  <2>1. \A f \in Files : written[f] \in Nat
    BY <1>0 DEF FamilyTypeOK
  <2>2. CASE CommandOver
    BY <1>0, <1>1, <2>1, <2>2 DEF DrainIsSound, CommandOver
  <2>3. CASE Detach
    BY <1>0, <1>1, <2>3 DEF DrainIsSound, Detach
  <2>4. CASE UnlinkMain \/ UnlinkSiblings
    BY <1>0, <1>1, <2>4 DEF DrainIsSound, UnlinkMain, UnlinkSiblings
  <2> QED
    BY <2>2, <2>3, <2>4
<1> QED
  BY <1>2, <1>3, <1>4

\* At the start nobody writes, and record's ring is open.
LEMMA FamilyInvInit ==
  ASSUME FamilyInit
  PROVE  FamilyInv
<1> USE FamilyAssumption DEF FamilyInit
<1>0. 0 \in Files /\ opened = [n \in {Main} |-> 0]
  BY DEF Files
<1>1. FamilyTypeOK
  BY <1>0 DEF FamilyTypeOK, Images, SomeFile, Names, Stages
<1>2. WritersInv
  BY DEF WritersInv, WritersHold, TmpIsFresh, NamesAreOwn, Names, NoFile
<1>3. OpenedIsOwn
  BY <1>0 DEF OpenedIsOwn
<1>4. AgeIsSound
  BY <1>0 DEF AgeIsSound, NoFile, Files
<1>5. DrainIsSound
  BY <1>0 DEF DrainIsSound
<1> QED
  BY <1>1, <1>2, <1>3, <1>4, <1>5 DEF FamilyInv

\* Every step keeps the invariant.
LEMMA FamilyInvStep ==
  ASSUME FamilyInv, [FamilyNext]_familyVars
  PROVE  FamilyInv'
<1>0. FamilyTypeOK /\ WritersInv /\ OpenedIsOwn /\ AgeIsSound /\ DrainIsSound
  BY DEF FamilyInv
<1>1. FamilyTypeOK' /\ WritersInv'
  BY <1>0, FamilyTyped, WritersKept
<1>2. CASE UNCHANGED familyVars
  BY <1>0, <1>1, <1>2 DEF FamilyInv, familyVars, OpenedIsOwn, AgeIsSound, DrainIsSound,
                          FirstOfItsName, Found
<1> QED
  BY <1>1, <1>2, ProcessesKeepDrain, PassKeepsDrain, RecordKeepsDrain DEF FamilyNext, FamilyInv

\* The invariant says what the two properties of a recording's rings ask: a
\* found ring is drained, and one that had its name for a look's time is found.
LEMMA FamilyInvIsEnough ==
  ASSUME FamilyInv
  PROVE  FamilyIsSound
<1>0. FamilyTypeOK /\ WritersInv /\ OpenedIsOwn /\ AgeIsSound /\ DrainIsSound
  BY DEF FamilyInv
<1>1. OneWriterPerRing
  BY <1>0 DEF WritersInv, WritersHold, OneWriterPerRing
<1>2. ASSUME stage = "detached", NEW f \in Files,
             f = 0 \/ (age[f] >= ScanEvery /\ FirstOfItsName(f))
      PROVE  drained[f] >= due[f]
  <2>1. \A n \in DOMAIN opened : drained[opened[n]] >= due[opened[n]]
    BY <1>0, <1>2, FamilyAssumption DEF DrainIsSound, FamilyTypeOK
  <2>2. Found(f)
    <3>1. CASE f = 0
      BY <1>0, <3>1 DEF OpenedIsOwn, Found, FamilyTypeOK
    <3>2. CASE f # 0 /\ age[f] >= ScanEvery /\ FirstOfItsName(f)
      <4>1. f \in 1 .. files
        BY <1>0, <3>2, FamilyAssumption DEF AgeIsSound, Files, FamilyTypeOK
      <4>2. age[f] \in Nat /\ ScanEvery \in Nat
        BY <1>0, FamilyAssumption DEF FamilyTypeOK
      <4> QED
        BY <1>0, <3>2, <4>1, <4>2 DEF AgeIsSound
    <3> QED
      BY <1>2, <3>1, <3>2
  <2> QED
    BY <2>1, <2>2 DEF Found
<1> QED
  BY <1>1, <1>2 DEF FamilyIsSound, FamilyIsDrained

\* Of all the processes below a recorded command one writes a ring at a time;
\* and when record detaches the probe, what was written before its command was
\* over is in the session: of record's own ring, and of each sibling that had
\* its name for the time between two looks and is the first of that name.
THEOREM FamilyIsSoundAlways == FamilySpec => []FamilyIsSound
<1>1. FamilyInit => FamilyInv
  BY FamilyInvInit
<1>2. FamilyInv /\ [FamilyNext]_familyVars => FamilyInv'
  BY FamilyInvStep
<1>3. FamilyInv => FamilyIsSound
  BY FamilyInvIsEnough
<1> QED
  BY <1>1, <1>2, <1>3, PTL DEF FamilySpec

-----------------------------------------------------------------------------
(* The hook's account of an application's command buffers.                 *)

Encoding == {"encoding", "asking", "rearming", "enabling", "choosing", "acquiring", "short",
             "failing", "disabling", "scheduling"}
Places == {"none"} \cup Encoding \cup {"supplied", "encoded", "claimed", "boxless", "boxed",
           "recorded", "called"} \cup Committed

AtOK == at \in [Buffers -> Places]

\* A step of one buffer, with all the places it may leave and reach.
LEMMA PlacesKept ==
  ASSUME AtOK, [HookNext]_hookVars
  PROVE  AtOK'
<1> USE DEF AtOK, Moves, Places, Encoding, Committed
<1>1. CASE UNCHANGED hookVars \/ RetryComesDue \/ RunTask
  BY <1>1 DEF hookVars, RetryComesDue, RunTask
<1>2. ASSUME NEW c \in Buffers,
             \/ NewBuffer(c) \/ AskEnabled(c) \/ AskRetry(c) \/ ForgetFailures(c)
             \/ Enable(c) \/ Choose(c) \/ Supplied(c)
      PROVE  AtOK'
  BY <1>2 DEF NewBuffer, AskEnabled, AskRetry, ForgetFailures, Enable, Choose, Supplied
<1>3. ASSUME NEW c \in Buffers, Acquire(c)
      PROVE  AtOK'
  BY <1>3 DEF Acquire
<1>4. ASSUME NEW c \in Buffers,
             CountFailure(c) \/ ReadEnabled(c) \/ Disable(c) \/ ScheduleRetry(c) \/ Dealloc(c)
      PROVE  AtOK'
  BY <1>4 DEF CountFailure, ReadEnabled, Disable, ScheduleRetry, Dealloc
<1>5. ASSUME NEW c \in Buffers, \E o \in 1 .. Layers : Intercept(c, o)
      PROVE  AtOK'
  BY <1>5 DEF Intercept
<1>6. ASSUME NEW c \in Buffers,
             \/ LookBox(c) \/ MakeBox(c) \/ Record(c) \/ Watch(c) \/ Submit(c)
             \/ Complete(c) \/ ReleaseSlot(c) \/ CountDown(c) \/ Unwatch(c) \/ Warn(c)
      PROVE  AtOK'
  BY <1>6 DEF LookBox, MakeBox, Record, Watch, Submit, Complete, ReleaseSlot, CountDown,
              Unwatch, Warn
<1> QED
  BY <1>1, <1>2, <1>3, <1>4, <1>5, <1>6 DEF HookNext

-----------------------------------------------------------------------------
(* A commit is recorded once.                                              *)

\* The innermost layer is marked from the first call on, whichever it was.
MarksInv ==
    /\ marked \in [Buffers -> SUBSET (1 .. Layers)] /\ records \in [Buffers -> {0, 1}]
    /\ \A c \in Buffers :
        /\ at[c] \in Encoding \cup {"supplied", "encoded"} => marked[c] = {} /\ records[c] = 0
        /\ at[c] \in {"claimed", "boxless", "boxed"} => Layers \in marked[c] /\ records[c] = 0
        /\ at[c] \in {"recorded", "called"} \cup Committed => Layers \in marked[c] /\ records[c] = 1

\* The first call that sees a buffer marks its innermost layer, and records it.
LEMMA MarksKept ==
  ASSUME AtOK, MarksInv, [HookNext]_hookVars
  PROVE  MarksInv'
<1> USE MetalHookAssumption DEF AtOK, MarksInv, Moves, Places, Encoding, Committed, cbVars
<1>1. CASE UNCHANGED hookVars \/ RetryComesDue \/ RunTask
  BY <1>1 DEF hookVars, RetryComesDue, RunTask
<1>2. ASSUME NEW c \in Buffers,
             \/ AskEnabled(c) \/ AskRetry(c) \/ ForgetFailures(c)
             \/ Enable(c) \/ Choose(c) \/ Supplied(c)
      PROVE  MarksInv'
  BY <1>2 DEF AskEnabled, AskRetry, ForgetFailures, Enable, Choose, Supplied
<1>3. ASSUME NEW c \in Buffers, Acquire(c)
      PROVE  MarksInv'
  <2>1. /\ at[c] = "acquiring" /\ UNCHANGED <<marked, records>>
        /\ \E l \in {"short", "supplied"} : at' = [at EXCEPT ![c] = l]
    BY <1>3 DEF Acquire
  <2> QED
    BY <2>1
<1>4. ASSUME NEW c \in Buffers,
             CountFailure(c) \/ ReadEnabled(c) \/ Disable(c) \/ ScheduleRetry(c) \/ Dealloc(c)
      PROVE  MarksInv'
  BY <1>4 DEF CountFailure, ReadEnabled, Disable, ScheduleRetry, Dealloc
<1>5. ASSUME NEW c \in Buffers, NEW o \in 1 .. Layers, Intercept(c, o)
      PROVE  MarksInv'
  <2>1. Layers \in o .. Layers /\ o .. Layers \subseteq 1 .. Layers
    OBVIOUS
  <2>2. CASE at[c] = "encoded"
    <3>1. Claims(c, o)
      BY <2>2 DEF Claims
    <3>2. /\ at' = [at EXCEPT ![c] = "claimed"] /\ records' = records
          /\ marked' = [marked EXCEPT ![c] = marked[c] \cup o .. Layers]
      BY <1>5, <3>1 DEF Intercept
    <3> QED
      BY <2>1, <2>2, <3>2
  <2>3. CASE at[c] = "called"
    <3>1. ~Claims(c, o)
      BY <2>1, <2>3 DEF Claims
    <3>2. /\ at' = [at EXCEPT ![c] = "called"] /\ records' = records
          /\ marked' = [marked EXCEPT ![c] = marked[c] \cup {o}]
      BY <1>5, <3>1 DEF Intercept
    <3> QED
      BY <2>3, <3>2
  <2> QED
    BY <1>5, <2>2, <2>3 DEF Intercept
<1>6. ASSUME NEW c \in Buffers,
             \/ LookBox(c) \/ MakeBox(c) \/ Watch(c) \/ Submit(c)
             \/ Complete(c) \/ ReleaseSlot(c) \/ CountDown(c) \/ Unwatch(c) \/ Warn(c)
      PROVE  MarksInv'
  BY <1>6 DEF LookBox, MakeBox, Watch, Submit, Complete, ReleaseSlot, CountDown, Unwatch, Warn
<1>7. ASSUME NEW c \in Buffers, Record(c)
      PROVE  MarksInv'
  <2>1. /\ at[c] = "boxed" /\ at' = [at EXCEPT ![c] = "recorded"] /\ marked' = marked
        /\ records' = [records EXCEPT ![c] = records[c] + 1]
    BY <1>7 DEF Record
  <2>2. records[c] = 0
    BY <2>1
  <2>3. records' = [records EXCEPT ![c] = 1]
    BY <2>1, <2>2
  <2> QED
    BY <2>1, <2>3
<1>8. ASSUME NEW c \in Buffers, NewBuffer(c)
      PROVE  MarksInv'
  BY <1>8 DEF NewBuffer
<1> QED
  BY <1>1, <1>2, <1>3, <1>4, <1>5, <1>6, <1>7, <1>8 DEF HookNext

-----------------------------------------------------------------------------
(* The depth.                                                              *)

\* One box is made, and every thread counts in it.
DepthInv ==
    /\ box \in {0, 1} /\ boxes = box /\ mine \in [Buffers -> {0, 1}]
    /\ depth \in [1 .. Cardinality(Buffers) -> Int]
    /\ \A c \in Buffers :
        at[c] \in {"boxed", "recorded", "called"} \cup Committed => box = 1 /\ mine[c] = 1
    /\ box = 1 => Buffers # {}
    /\ Buffers # {} => depth[1] = Cardinality(Outstanding)

\* There is a counter for the one box as soon as there is a buffer.
LEMMA OneBoxFits == \A c \in Buffers : 1 \in 1 .. Cardinality(Buffers)
<1> SUFFICES ASSUME NEW c \in Buffers
             PROVE  1 \in 1 .. Cardinality(Buffers)
  OBVIOUS
<1>1. Cardinality(Buffers) \in Nat /\ IsFiniteSet(Buffers \ {c})
  BY FS_CardinalityType, FS_RemoveElement, MetalHookAssumption
<1>2. Cardinality(Buffers \ {c}) \in Nat /\ Cardinality(Buffers \ {c}) = Cardinality(Buffers) - 1
  BY <1>1, FS_CardinalityType, FS_RemoveElement, MetalHookAssumption
<1> QED
  BY <1>1, <1>2

\* The depth goes up with a record and down with a completion, in one box.
LEMMA DepthKept ==
  ASSUME AtOK, MarksInv, DepthInv, [HookNext]_hookVars
  PROVE  DepthInv'
<1> USE DEF AtOK, DepthInv, Moves, Places, Encoding, Committed, depthVars, NoBox
<1>0. /\ \A c \in Buffers : 1 \in 1 .. Cardinality(Buffers)
      /\ MarksInv' /\ AtOK'
      /\ Outstanding \subseteq Buffers /\ IsFiniteSet(Outstanding)
      /\ Cardinality(Outstanding) \in Nat
  <2>1. Outstanding \subseteq Buffers
    BY DEF Outstanding
  <2> QED
    BY <2>1, OneBoxFits, MarksKept, PlacesKept, FS_Subset, FS_CardinalityType, MetalHookAssumption
<1>a. ASSUME UNCHANGED <<records, box, boxes, mine, depth>>, NEW c \in Buffers,
             NEW from \in Places, NEW to \in Places, from = at[c], at' = [at EXCEPT ![c] = to],
             to \in {"boxed", "recorded", "called"} \cup Committed
                => from \in {"boxed", "recorded", "called"} \cup Committed,
             to \in {"recorded", "called", "running", "completing", "resolved"}
                <=> from \in {"recorded", "called", "running", "completing", "resolved"}
      PROVE  DepthInv'
  <2>1. Outstanding' = Outstanding
    BY <1>a DEF Outstanding
  <2> QED
    BY <1>a, <2>1
<1>1. CASE UNCHANGED hookVars \/ RetryComesDue \/ RunTask \/ (\E c \in Buffers : Warn(c))
  <2>1. UNCHANGED <<at, records, box, boxes, mine, depth>>
    BY <1>1 DEF hookVars, RetryComesDue, RunTask, Warn, cbVars
  <2>2. Outstanding' = Outstanding
    BY <2>1 DEF Outstanding
  <2> QED
    BY <2>1, <2>2
<1>2. ASSUME NEW c \in Buffers,
             \/ AskEnabled(c) \/ AskRetry(c) \/ ForgetFailures(c)
             \/ Enable(c) \/ Choose(c) \/ Supplied(c) \/ CountFailure(c)
             \/ ReadEnabled(c) \/ Disable(c) \/ ScheduleRetry(c)
      PROVE  DepthInv'
  <2>1. PICK to \in Encoding \cup {"encoded"} :
             at[c] \in Encoding \cup {"supplied"} /\ at' = [at EXCEPT ![c] = to]
    BY <1>2 DEF AskEnabled, AskRetry, ForgetFailures, Enable, Choose, Supplied,
              CountFailure, ReadEnabled, Disable, ScheduleRetry
  <2>2. UNCHANGED <<records, box, boxes, mine, depth>>
    BY <1>2 DEF AskEnabled, AskRetry, ForgetFailures, Enable, Choose, Supplied,
              CountFailure, ReadEnabled, Disable, ScheduleRetry, cbVars
  <2> QED
    BY <1>a, <2>1, <2>2, ZenonT(40)
<1>3. ASSUME NEW c \in Buffers, Acquire(c)
      PROVE  DepthInv'
  <2>1. /\ at[c] = "acquiring" /\ UNCHANGED <<records, box, boxes, mine, depth>>
        /\ \E l \in {"short", "supplied"} : at' = [at EXCEPT ![c] = l]
    BY <1>3 DEF Acquire, cbVars
  <2>2. PICK to \in {"short", "supplied"} : at' = [at EXCEPT ![c] = to]
    BY <2>1
  <2> QED
    BY <1>a, <2>1, <2>2
<1>4. ASSUME NEW c \in Buffers,
             \/ Submit(c) \/ Complete(c) \/ ReleaseSlot(c)
             \/ Unwatch(c) \/ Dealloc(c) \/ Watch(c)
      PROVE  DepthInv'
  <2>1. UNCHANGED <<records, box, boxes, mine, depth>>
    BY <1>4 DEF Submit, Complete, ReleaseSlot, Unwatch, Dealloc, Watch, cbVars
  <2>2. \/ at[c] = "called" /\ at' = [at EXCEPT ![c] = "running"]
        \/ at[c] = "running" /\ at' = [at EXCEPT ![c] = "completing"]
        \/ at[c] = "completing" /\ at' = [at EXCEPT ![c] = "resolved"]
        \/ at[c] = "counted" /\ at' = [at EXCEPT ![c] = "done"]
        \/ at[c] \in {"done", "encoded"} /\ at' = [at EXCEPT ![c] = "none"]
        \/ at[c] = "recorded" /\ at' = [at EXCEPT ![c] = "called"]
    BY <1>4 DEF Submit, Complete, ReleaseSlot, Unwatch, Dealloc, Watch
  <2> QED
    BY <1>a, <2>1, <2>2, SMTT(30)
<1>5. ASSUME NEW c \in Buffers, NEW o \in 1 .. Layers, Intercept(c, o)
      PROVE  DepthInv'
  <2>1. UNCHANGED <<records, box, boxes, mine, depth>>
    BY <1>5 DEF Intercept
  <2>2. CASE at[c] = "encoded"
    <3>1. at'[c] = "claimed" /\ at' = [at EXCEPT ![c] = "claimed"]
      BY <1>5, <2>2 DEF Intercept, MarksInv, Claims
    <3> QED
      BY <1>a, <2>1, <2>2, <3>1
  <2>3. CASE at[c] = "called"
    <3>1. ~Claims(c, o)
      BY <2>3, MetalHookAssumption DEF Claims, MarksInv
    <3>2. at' = [at EXCEPT ![c] = "called"]
      BY <1>5, <3>1 DEF Intercept
    <3> QED
      BY <1>a, <2>1, <2>3, <3>2
  <2> QED
    BY <1>5, <2>2, <2>3 DEF Intercept
<1>6. ASSUME NEW c \in Buffers, LookBox(c) \/ MakeBox(c)
      PROVE  DepthInv'
  <2>1. /\ at[c] \in {"claimed", "boxless"} /\ UNCHANGED <<records, depth>>
        /\ \E to \in {"boxless", "boxed"} :
              /\ at' = [at EXCEPT ![c] = to]
              /\ to = "boxed" => box' = 1 /\ mine' = [mine EXCEPT ![c] = 1]
        /\ box' \in {0, 1} /\ boxes' = box' /\ box' >= box
        /\ mine' \in [Buffers -> {0, 1}] /\ \A d \in Buffers : d # c => mine'[d] = mine[d]
    BY <1>6 DEF LookBox, MakeBox, cbVars
  <2>2. Outstanding' = Outstanding
    BY <2>1 DEF Outstanding
  <2>3. ASSUME NEW d \in Buffers,
               at'[d] \in {"boxed", "recorded", "called"} \cup Committed
        PROVE  box' = 1 /\ mine'[d] = 1
    <3>1. CASE d = c
      BY <2>1, <2>3, <3>1
    <3>2. CASE d # c
      <4>1. at'[d] = at[d] /\ mine'[d] = mine[d]
        BY <2>1, <3>2
      <4>2. box = 1 /\ mine[d] = 1
        BY <2>3, <4>1
      <4> QED
        BY <2>1, <4>1, <4>2
    <3> QED
      BY <3>1, <3>2
  <2> QED
    BY <2>1, <2>2, <2>3
<1>7. ASSUME NEW c \in Buffers, Record(c)
      PROVE  DepthInv'
  <2>1. /\ at[c] = "boxed" /\ at' = [at EXCEPT ![c] = "recorded"]
        /\ records' = [records EXCEPT ![c] = records[c] + 1]
        /\ mine[c] = 1 /\ depth' = [depth EXCEPT ![1] = depth[1] + 1]
        /\ UNCHANGED <<box, boxes, mine>>
    BY <1>7 DEF Record
  <2>2. records[c] = 0
    BY <2>1 DEF MarksInv
  <2>3. Outstanding' = Outstanding \cup {c} /\ c \notin Outstanding
    BY <2>1, <2>2 DEF Outstanding, MarksInv
  <2>4. Cardinality(Outstanding') = Cardinality(Outstanding) + 1
    BY <1>0, <2>3, FS_AddElement
  <2>5. depth'[1] = Cardinality(Outstanding') /\ depth' \in [1 .. Cardinality(Buffers) -> Int]
    BY <1>0, <2>1, <2>4
  <2> QED
    BY <2>1, <2>5
<1>8. ASSUME NEW c \in Buffers, CountDown(c)
      PROVE  DepthInv'
  <2>1. /\ at[c] = "resolved" /\ at' = [at EXCEPT ![c] = "counted"]
        /\ box = 1 /\ depth' = [depth EXCEPT ![1] = depth[1] - 1]
        /\ UNCHANGED <<box, boxes, mine, records>>
    BY <1>8 DEF CountDown, cbVars
  <2>2. Outstanding' = Outstanding \ {c} /\ c \in Outstanding
    BY <2>1 DEF Outstanding, MarksInv
  <2>3. Cardinality(Outstanding') = Cardinality(Outstanding) - 1
    BY <1>0, <2>2, FS_RemoveElement
  <2>4. depth'[1] = Cardinality(Outstanding') /\ depth' \in [1 .. Cardinality(Buffers) -> Int]
    BY <1>0, <2>1, <2>3
  <2> QED
    BY <2>1, <2>4
<1>9. ASSUME NEW c \in Buffers, NewBuffer(c)
      PROVE  DepthInv'
  <2>1. /\ at[c] = "none" /\ at' = [at EXCEPT ![c] = "encoding"]
        /\ UNCHANGED <<box, boxes, mine, depth>>
        /\ records' = [records EXCEPT ![c] = 0]
    BY <1>9 DEF NewBuffer
  <2>2. Outstanding' = Outstanding
    BY <2>1 DEF Outstanding, MarksInv
  <2> QED
    BY <2>1, <2>2
<1> QED
  BY <1>1, <1>2, <1>3, <1>4, <1>5, <1>6, <1>7, <1>8, <1>9 DEF HookNext

-----------------------------------------------------------------------------
(* The sampling.                                                           *)

\* On its attempt to sample, which began when the sampling was on.
Critical == {"acquiring", "short", "failing", "disabling"}

\* A thread that finds the sampling off within its attempt, or read it off
\* there, follows another that disabled it and has its retry to set or set; and
\* the retry does not come due before the attempt is over.
Coming == retry = "set" \/ \E d \in Buffers : at[d] = "scheduling"
SamplingInv ==
    /\ sampling \in BOOLEAN /\ retry \in {"none", "set", "due"} /\ was \in [Buffers -> BOOLEAN]
    /\ SamplingComesBack
    /\ \A c \in Buffers :
        /\ at[c] \in Critical /\ ~sampling => Coming
        /\ at[c] = "disabling" /\ ~was[c] => Coming

\* Every step leaves the sampling on, or a retry to come.
LEMMA SamplingKept ==
  ASSUME AtOK, SamplingInv, [HookNext]_hookVars
  PROVE  SamplingInv'
<1> USE DEF AtOK, SamplingInv, Moves, Places, Encoding, Committed, samplingVars, Critical
<1>a. ASSUME UNCHANGED <<sampling, retry, was>>, NEW c \in Buffers,
             NEW to \in Places, at' = [at EXCEPT ![c] = to],
             at[c] \notin {"rearming", "enabling", "scheduling"}, to # "disabling",
             to \in Critical => at[c] \in Critical \/ sampling
      PROVE  SamplingInv'
  <2>1. Coming => Coming'
    BY <1>a DEF Coming
  <2>2. SamplingComesBack'
    BY <1>a DEF SamplingComesBack
  <2>3. ASSUME NEW d \in Buffers
        PROVE  /\ at'[d] \in Critical /\ ~sampling => Coming'
               /\ at'[d] = "disabling" /\ ~was[d] => Coming'
    <3>1. CASE d = c
      BY <1>a, <2>1, <3>1
    <3>2. CASE d # c
      BY <1>a, <2>1, <3>2
    <3> QED
      BY <3>1, <3>2
  <2> QED
    BY <1>a, <2>2, <2>3
<1>1. CASE UNCHANGED hookVars \/ RunTask \/ (\E c \in Buffers : Warn(c))
  <2>1. UNCHANGED <<at, sampling, retry, was>>
    BY <1>1 DEF hookVars, RunTask, Warn
  <2> QED
    BY <2>1 DEF SamplingComesBack, Coming
<1>2. CASE RetryComesDue
  <2>1. /\ UNCHANGED <<at, sampling, was>> /\ retry' = "due"
        /\ \A c \in Buffers : at[c] \notin Critical
    BY <1>2 DEF RetryComesDue
  <2> QED
    BY <2>1 DEF SamplingComesBack
<1>3. ASSUME NEW c \in Buffers,
             \/ NewBuffer(c) \/ AskEnabled(c) \/ Choose(c) \/ Supplied(c) \/ CountFailure(c)
             \/ LookBox(c) \/ MakeBox(c) \/ Record(c) \/ Watch(c) \/ Submit(c)
             \/ Complete(c) \/ ReleaseSlot(c) \/ CountDown(c) \/ Unwatch(c) \/ Dealloc(c)
      PROVE  SamplingInv'
  <2>1. UNCHANGED <<sampling, retry, was>>
    BY <1>3 DEF NewBuffer, AskEnabled, Choose, Supplied, CountFailure, LookBox, MakeBox, Record,
              Watch, Submit, Complete, ReleaseSlot, CountDown, Unwatch, Dealloc
  <2>2. \E to \in Places :
            /\ at' = [at EXCEPT ![c] = to]
            /\ at[c] \notin {"rearming", "enabling", "scheduling"} /\ to # "disabling"
            /\ to \in Critical => at[c] \in Critical \/ sampling
    BY <1>3 DEF NewBuffer, AskEnabled, Choose, Supplied, CountFailure, LookBox, MakeBox, Record,
              Watch, Submit, Complete, ReleaseSlot, CountDown, Unwatch, Dealloc
  <2> QED
    BY <1>a, <2>1, <2>2
<1>4. ASSUME NEW c \in Buffers, Acquire(c)
      PROVE  SamplingInv'
  <2>1. /\ at[c] = "acquiring" /\ UNCHANGED <<sampling, retry, was>>
        /\ \E l \in {"short", "supplied"} : at' = [at EXCEPT ![c] = l]
    BY <1>4 DEF Acquire
  <2>2. PICK to \in {"short", "supplied"} : at' = [at EXCEPT ![c] = to]
    BY <2>1
  <2> QED
    BY <1>a, <2>1, <2>2
<1>5. ASSUME NEW c \in Buffers, NEW o \in 1 .. Layers, Intercept(c, o)
      PROVE  SamplingInv'
  <2>1. /\ at[c] \in {"encoded", "called"} /\ UNCHANGED <<sampling, retry, was>>
        /\ \E l \in {"claimed", "called"} : at' = [at EXCEPT ![c] = l]
    BY <1>5 DEF Intercept
  <2>2. PICK to \in {"claimed", "called"} : at' = [at EXCEPT ![c] = to]
    BY <2>1
  <2> QED
    BY <1>a, <2>1, <2>2
<1>6. ASSUME NEW c \in Buffers, AskRetry(c)
      PROVE  SamplingInv'
  <2>1. CASE retry = "due"
    <3>1. /\ at[c] = "asking" /\ at' = [at EXCEPT ![c] = "rearming"] /\ retry' = "none"
          /\ UNCHANGED <<sampling, was>>
      BY <1>6, <2>1 DEF AskRetry
    <3>2. Coming => Coming'
      BY <2>1, <3>1 DEF Coming
    <3>3. SamplingComesBack'
      BY <3>1 DEF SamplingComesBack
    <3>4. \A d \in Buffers : at'[d] \in Critical => at'[d] = at[d]
      BY <3>1
    <3> QED
      BY <3>1, <3>2, <3>3, <3>4
  <2>2. CASE retry # "due"
    <3>1. /\ at[c] = "asking" /\ at' = [at EXCEPT ![c] = "choosing"]
          /\ UNCHANGED <<sampling, retry, was>>
      BY <1>6, <2>2 DEF AskRetry
    <3> QED
      BY <1>a, <3>1
  <2> QED
    BY <2>1, <2>2
<1>7. ASSUME NEW c \in Buffers, ForgetFailures(c)
      PROVE  SamplingInv'
  <2>1. /\ at[c] = "rearming" /\ at' = [at EXCEPT ![c] = "enabling"]
        /\ UNCHANGED <<sampling, retry, was>>
    BY <1>7 DEF ForgetFailures
  <2>2. (Coming => Coming') /\ SamplingComesBack'
    BY <2>1 DEF Coming, SamplingComesBack
  <2>3. \A d \in Buffers : at'[d] \in Critical => at'[d] = at[d]
    BY <2>1
  <2> QED
    BY <2>1, <2>2, <2>3
<1>8. ASSUME NEW c \in Buffers, Enable(c)
      PROVE  SamplingInv'
  <2>1. /\ at[c] = "enabling" /\ at' = [at EXCEPT ![c] = "choosing"]
        /\ sampling' = TRUE /\ UNCHANGED <<retry, was>>
    BY <1>8 DEF Enable
  <2>2. (Coming => Coming') /\ SamplingComesBack'
    BY <2>1 DEF Coming, SamplingComesBack
  <2>3. \A d \in Buffers : at'[d] \in Critical => at'[d] = at[d]
    BY <2>1
  <2> QED
    BY <2>1, <2>2, <2>3
<1>9. ASSUME NEW c \in Buffers, ReadEnabled(c)
      PROVE  SamplingInv'
  <2>1. /\ at[c] = "failing" /\ at' = [at EXCEPT ![c] = "disabling"]
        /\ was' = [was EXCEPT ![c] = sampling] /\ UNCHANGED <<sampling, retry>>
    BY <1>9 DEF ReadEnabled
  <2>2. (Coming => Coming') /\ SamplingComesBack'
    BY <2>1 DEF Coming, SamplingComesBack
  <2>3. ASSUME NEW d \in Buffers
        PROVE  /\ at'[d] \in Critical /\ ~sampling => Coming'
               /\ at'[d] = "disabling" /\ ~was'[d] => Coming'
    <3>1. CASE d = c
      BY <2>1, <2>2, <3>1
    <3>2. CASE d # c
      BY <2>1, <2>2, <3>2
    <3> QED
      BY <3>1, <3>2
  <2> QED
    BY <2>1, <2>2, <2>3
<1>10. ASSUME NEW c \in Buffers, Disable(c)
       PROVE  SamplingInv'
  <2>1. /\ at[c] = "disabling"
        /\ at' = [at EXCEPT ![c] = IF was[c] THEN "scheduling" ELSE "encoded"]
        /\ sampling' = FALSE /\ UNCHANGED <<retry, was>>
    BY <1>10 DEF Disable
  <2>2. Coming'
    <3>1. CASE was[c]
      BY <2>1, <3>1 DEF Coming
    <3>2. CASE ~was[c]
      BY <2>1, <3>2 DEF Coming
    <3> QED
      BY <3>1, <3>2
  <2>3. SamplingComesBack'
    BY <2>2 DEF Coming, SamplingComesBack
  <2> QED
    BY <2>1, <2>2, <2>3
<1>11. ASSUME NEW c \in Buffers, ScheduleRetry(c)
       PROVE  SamplingInv'
  <2>1. retry' = "set" /\ UNCHANGED <<sampling, was>>
    BY <1>11 DEF ScheduleRetry
  <2> QED
    BY <2>1 DEF Coming, SamplingComesBack
<1> QED
  BY <1>1, <1>2, <1>3, <1>4, <1>5, <1>6, <1>7, <1>8, <1>9, <1>10, <1>11 DEF HookNext

-----------------------------------------------------------------------------
(* The table of buffers in flight.                                         *)

InTable(c) ==
    records[c] = 1 /\ at[c] \in {"called", "running", "completing", "resolved", "counted"}
LastOf(c, i) == tasks[i][2] = c /\ \A j \in i + 1 .. Len(tasks) : tasks[j][2] # c
NoneOf(c) == \A i \in 1 .. Len(tasks) : tasks[i][2] # c
Tasks == {"add", "remove"} \X Buffers

\* The last task of a buffer that waits in the queue, or with none the table,
\* says whether the buffer is in flight.
TableInv ==
    /\ inflight \in [Buffers -> {"absent", "armed", "warned"}] /\ tasks \in Seq(Tasks)
    /\ \A c \in Buffers :
        \/ \E i \in 1 .. Len(tasks) : LastOf(c, i) /\ (tasks[i][1] = "add" <=> InTable(c))
        \/ NoneOf(c) /\ (inflight[c] # "absent" <=> InTable(c))

\* A task appended is the last of its buffer.
LEMMA TaskAppended ==
  ASSUME TableInv, NEW c \in Buffers, NEW what \in {"add", "remove"},
         tasks' = Append(tasks, <<what, c>>), inflight' = inflight,
         what = "add" <=> InTable(c)',
         \A d \in Buffers : d # c => (InTable(d)' <=> InTable(d))
  PROVE  TableInv'
<1> USE DEF TableInv, Tasks
<1>1. /\ Len(tasks) \in Nat /\ Len(tasks') = Len(tasks) + 1 /\ tasks' \in Seq(Tasks)
      /\ tasks'[Len(tasks) + 1] = <<what, c>>
      /\ \A i \in 1 .. Len(tasks) : tasks'[i] = tasks[i]
  OBVIOUS
<1>2. \E i \in 1 .. Len(tasks') : LastOf(c, i)' /\ (tasks'[i][1] = "add" <=> InTable(c)')
  <2> DEFINE last == Len(tasks) + 1
  <2>1. /\ last \in 1 .. Len(tasks') /\ Len(tasks') = last /\ last \in Nat
        /\ tasks'[last] = <<what, c>>
    BY <1>1
  <2>2. tasks'[last][1] = what /\ tasks'[last][2] = c
    BY <2>1
  <2>3. \A j \in last + 1 .. Len(tasks') : tasks'[j][2] # c
    BY <2>1
  <2> HIDE DEF last
  <2> QED
    BY <2>1, <2>2, <2>3 DEF LastOf
<1>3. ASSUME NEW d \in Buffers, d # c
      PROVE  \/ \E i \in 1 .. Len(tasks') : LastOf(d, i)' /\ (tasks'[i][1] = "add" <=> InTable(d)')
             \/ NoneOf(d)' /\ (inflight'[d] # "absent" <=> InTable(d)')
  <2>1. CASE \E i \in 1 .. Len(tasks) : LastOf(d, i) /\ (tasks[i][1] = "add" <=> InTable(d))
    <3>1. PICK i \in 1 .. Len(tasks) : LastOf(d, i) /\ (tasks[i][1] = "add" <=> InTable(d))
      BY <2>1
    <3>2. LastOf(d, i)'
      <4>1. tasks'[i][2] = d
        BY <1>1, <3>1 DEF LastOf
      <4>2. ASSUME NEW j \in i + 1 .. Len(tasks')
            PROVE  tasks'[j][2] # d
        <5>1. CASE j = Len(tasks) + 1
          BY <1>1, <1>3, <5>1
        <5>2. CASE j \in i + 1 .. Len(tasks)
          BY <1>1, <3>1, <5>2 DEF LastOf
        <5> QED
          BY <1>1, <5>1, <5>2
      <4> QED
        BY <4>1, <4>2 DEF LastOf
    <3> QED
      BY <1>1, <1>3, <3>1, <3>2
  <2>2. CASE NoneOf(d) /\ (inflight[d] # "absent" <=> InTable(d))
    <3>1. NoneOf(d)'
      BY <1>1, <1>3, <2>2 DEF NoneOf
    <3> QED
      BY <1>3, <2>2, <3>1
  <2> QED
    BY <2>1, <2>2
<1> QED
  BY <1>1, <1>2, <1>3

\* The first task of the queue is run: the last of its buffer, or another waits.
LEMMA TaskRun ==
  ASSUME TableInv, RunTask, \A d \in Buffers : InTable(d)' <=> InTable(d)
  PROVE  TableInv'
<1> USE DEF TableInv, Tasks
<1> DEFINE what == tasks[1][1]
           c == tasks[1][2]
<1>0. Len(tasks) \in Nat /\ Len(tasks) >= 1 /\ Head(tasks) = tasks[1]
  BY DEF RunTask
<1>1. /\ what \in {"add", "remove"} /\ c \in Buffers
      /\ inflight' = [inflight EXCEPT ![c] = IF what = "add" THEN "armed" ELSE "absent"]
      /\ tasks' = Tail(tasks)
  <2>1. tasks[1] \in Tasks
    BY <1>0
  <2>2. what \in {"add", "remove"} /\ c \in Buffers
    BY <2>1
  <2>3. /\ inflight' = [inflight EXCEPT ![c] = IF what = "add" THEN "armed" ELSE "absent"]
        /\ tasks' = Tail(tasks)
    BY <1>0 DEF RunTask
  <2> QED
    BY <2>2, <2>3
<1>2. /\ tasks' \in Seq(Tasks) /\ Len(tasks') = Len(tasks) - 1
      /\ \A i \in 1 .. Len(tasks') : tasks'[i] = tasks[i + 1]
  BY <1>0, <1>1
<1> HIDE DEF what, c
<1>3. ASSUME NEW d \in Buffers
      PROVE  \/ \E i \in 1 .. Len(tasks') : LastOf(d, i)' /\ (tasks'[i][1] = "add" <=> InTable(d)')
             \/ NoneOf(d)' /\ (inflight'[d] # "absent" <=> InTable(d)')
  <2>1. CASE \E i \in 1 .. Len(tasks) : LastOf(d, i) /\ (tasks[i][1] = "add" <=> InTable(d))
    <3>1. PICK i \in 1 .. Len(tasks) : LastOf(d, i) /\ (tasks[i][1] = "add" <=> InTable(d))
      BY <2>1
    <3>2. CASE i = 1
      <4>1. NoneOf(d)'
        BY <1>0, <1>2, <3>1, <3>2 DEF LastOf, NoneOf
      <4>2. d = c /\ (what = "add" <=> InTable(d))
        BY <3>1, <3>2 DEF LastOf, what, c
      <4>3. inflight'[d] # "absent" <=> InTable(d)'
        BY <1>1, <4>2
      <4> QED
        BY <4>1, <4>3
    <3>3. CASE i # 1
      <4>1. i - 1 \in 1 .. Len(tasks') /\ tasks'[i - 1] = tasks[i]
        BY <1>0, <1>2, <3>3
      <4>2. LastOf(d, i - 1)'
        BY <1>0, <1>2, <3>1, <4>1 DEF LastOf
      <4> QED
        BY <3>1, <4>1, <4>2
    <3> QED
      BY <3>2, <3>3
  <2>2. CASE NoneOf(d) /\ (inflight[d] # "absent" <=> InTable(d))
    <3>1. d # c
      BY <1>0, <2>2 DEF NoneOf, c
    <3>2. NoneOf(d)'
      BY ONLY <1>0, <1>2, <2>2 DEF NoneOf
    <3> QED
      BY <1>1, <2>2, <3>1, <3>2
  <2> QED
    BY <2>1, <2>2
<1>4. inflight' \in [Buffers -> {"absent", "armed", "warned"}]
  BY <1>1
<1> QED
  BY <1>2, <1>3, <1>4

\* Every step keeps the table, with the tasks that wait, true to the buffers.
LEMMA TableKept ==
  ASSUME AtOK, MarksInv, TableInv, [HookNext]_hookVars
  PROVE  TableInv'
<1> USE DEF AtOK, Moves, Places, Encoding, Committed, tableVars
<1>0. MarksInv' /\ AtOK'
  BY MarksKept, PlacesKept
<1>a. ASSUME UNCHANGED <<inflight, tasks>>, \A d \in Buffers : InTable(d)' <=> InTable(d)
      PROVE  TableInv'
  BY <1>a DEF TableInv, LastOf, NoneOf
<1>b. ASSUME NEW c \in Buffers, NEW to \in Places, at' = [at EXCEPT ![c] = to],
             to \in {"called", "running", "completing", "resolved", "counted"}
                <=> at[c] \in {"called", "running", "completing", "resolved", "counted"}
      PROVE  \A d \in Buffers : InTable(d)' <=> InTable(d)
  BY <1>0, <1>b DEF InTable, MarksInv
<1>1. CASE UNCHANGED hookVars \/ RetryComesDue
  <2>1. UNCHANGED <<at, records, inflight, tasks>>
    BY <1>1 DEF hookVars, RetryComesDue, cbVars
  <2> QED
    BY <1>a, <2>1 DEF InTable
<1>2. CASE RunTask
  BY <1>2, TaskRun DEF InTable, RunTask, cbVars
<1>3. ASSUME NEW c \in Buffers, Warn(c)
      PROVE  TableInv'
  <2>1. /\ UNCHANGED <<at, records, tasks>> /\ inflight[c] = "armed"
        /\ inflight' = [inflight EXCEPT ![c] = "warned"]
    BY <1>3 DEF Warn, cbVars
  <2>2. /\ inflight' \in [Buffers -> {"absent", "armed", "warned"}]
        /\ \A d \in Buffers : inflight'[d] # "absent" <=> inflight[d] # "absent"
    BY <2>1 DEF TableInv
  <2>3. \A d \in Buffers : InTable(d)' <=> InTable(d)
    BY <2>1 DEF InTable
  <2> QED
    BY <2>1, <2>2, <2>3 DEF TableInv, LastOf, NoneOf
<1>4. ASSUME NEW c \in Buffers,
             \/ NewBuffer(c) \/ AskEnabled(c) \/ AskRetry(c) \/ ForgetFailures(c)
             \/ Enable(c) \/ Choose(c) \/ Supplied(c) \/ CountFailure(c) \/ ReadEnabled(c)
             \/ Disable(c) \/ ScheduleRetry(c)
             \/ LookBox(c) \/ MakeBox(c) \/ Record(c) \/ Submit(c)
             \/ Complete(c) \/ ReleaseSlot(c) \/ CountDown(c) \/ Dealloc(c)
      PROVE  TableInv'
  <2>1. UNCHANGED <<inflight, tasks>>
    BY <1>4 DEF NewBuffer, AskEnabled, AskRetry, ForgetFailures, Enable, Choose, Supplied,
              CountFailure, ReadEnabled, Disable, ScheduleRetry, LookBox, MakeBox, Record,
              Submit, Complete, ReleaseSlot, CountDown, Dealloc
  <2>2. \E to \in Places :
            /\ at' = [at EXCEPT ![c] = to]
            /\ to \in {"called", "running", "completing", "resolved", "counted"}
                <=> at[c] \in {"called", "running", "completing", "resolved", "counted"}
    BY <1>4 DEF NewBuffer, AskEnabled, AskRetry, ForgetFailures, Enable, Choose, Supplied,
              CountFailure, ReadEnabled, Disable, ScheduleRetry, LookBox, MakeBox, Record,
              Submit, Complete, ReleaseSlot, CountDown, Dealloc
  <2> QED
    BY <1>a, <1>b, <2>1, <2>2
<1>5. ASSUME NEW c \in Buffers, Acquire(c)
      PROVE  TableInv'
  <2>1. /\ at[c] = "acquiring" /\ UNCHANGED <<inflight, tasks>>
        /\ \E l \in {"short", "supplied"} : at' = [at EXCEPT ![c] = l]
    BY <1>5 DEF Acquire
  <2>2. PICK to \in {"short", "supplied"} : at' = [at EXCEPT ![c] = to]
    BY <2>1
  <2> QED
    BY <1>a, <1>b, <2>1, <2>2
<1>6. ASSUME NEW c \in Buffers, NEW o \in 1 .. Layers, Intercept(c, o)
      PROVE  TableInv'
  <2>1. UNCHANGED <<inflight, tasks>>
    BY <1>6 DEF Intercept
  <2>2. CASE at[c] = "encoded"
    <3>1. at' = [at EXCEPT ![c] = "claimed"]
      BY <1>6, <2>2 DEF Intercept, MarksInv, Claims
    <3> QED
      BY <1>a, <1>b, <2>1, <2>2, <3>1
  <2>3. CASE at[c] = "called"
    <3>1. ~Claims(c, o)
      BY <2>3, MetalHookAssumption DEF Claims, MarksInv
    <3>2. at' = [at EXCEPT ![c] = "called"]
      BY <1>6, <3>1 DEF Intercept
    <3> QED
      BY <1>a, <1>b, <2>1, <2>3, <3>2
  <2> QED
    BY <1>6, <2>2, <2>3 DEF Intercept
<1>7. ASSUME NEW c \in Buffers, Watch(c)
      PROVE  TableInv'
  <2>1. /\ at[c] = "recorded" /\ at' = [at EXCEPT ![c] = "called"] /\ records' = records
        /\ tasks' = Append(tasks, <<"add", c>>) /\ inflight' = inflight
    BY <1>7 DEF Watch, cbVars
  <2>2. InTable(c)' /\ \A d \in Buffers : d # c => (InTable(d)' <=> InTable(d))
    BY <2>1 DEF InTable, MarksInv
  <2> QED
    BY <2>1, <2>2, TaskAppended
<1>8. ASSUME NEW c \in Buffers, Unwatch(c)
      PROVE  TableInv'
  <2>1. /\ at[c] = "counted" /\ at' = [at EXCEPT ![c] = "done"] /\ records' = records
        /\ tasks' = Append(tasks, <<"remove", c>>) /\ inflight' = inflight
    BY <1>8 DEF Unwatch, cbVars
  <2>2. ~InTable(c)' /\ \A d \in Buffers : d # c => (InTable(d)' <=> InTable(d))
    BY <2>1 DEF InTable
  <2> QED
    BY <2>1, <2>2, TaskAppended
<1> QED
  BY <1>1, <1>2, <1>3, <1>4, <1>5, <1>6, <1>7, <1>8 DEF HookNext

-----------------------------------------------------------------------------
(* The pool of sample slots.                                               *)

SlotsOf(n) == (1 .. n) \X (1 .. Pairs)
AreDistinct(s) == \A i, j \in 1 .. Len(s) : s[i] = s[j] => i = j
Unslotted == {"none"} \cup Encoding

\* A buffer has its slot from the step that takes it out of the pool on.
SlotsInv ==
    /\ pools \in Nat /\ free \in Seq(SlotsOf(pools)) /\ given \in [Buffers -> BOOLEAN]
    /\ slot \in [Buffers -> SlotsOf(pools) \cup {NoSlot}]
    /\ AreDistinct(free)
    /\ \A c, d \in Held : slot[c] = slot[d] => c = d
    /\ \A i \in 1 .. Len(free) : \A c \in Held : free[i] # slot[c]
    /\ Len(free) + Cardinality(Held) = pools * Pairs
    /\ \A c \in Buffers : at[c] \in Unslotted => slot[c] = NoSlot

\* No slot is one pair of a pool buffer.
LEMMA NoSlotIsNone == \A n \in Nat : NoSlot \notin SlotsOf(n)
BY DEF NoSlot, SlotsOf

\* The buffers that hold a slot can be counted.
LEMMA HeldFinite == IsFiniteSet(Held) /\ Cardinality(Held) \in Nat /\ Held \subseteq Buffers
<1>1. Held \subseteq Buffers
  BY DEF Held
<1> QED
  BY <1>1, FS_Subset, FS_CardinalityType, MetalHookAssumption

\* One more pool buffer: as many slots as it has pairs, none of them known.
LEMMA NewStock ==
  ASSUME NEW n \in Nat, NEW s, s = [i \in 1 .. Pairs |-> <<n + 1, Pairs - i + 1>>]
  PROVE  /\ s \in Seq(SlotsOf(n + 1)) /\ Len(s) = Pairs /\ AreDistinct(s)
         /\ \A i \in 1 .. Len(s) : s[i] \notin SlotsOf(n)
<1> USE MetalHookAssumption
<1>1. \A i \in 1 .. Pairs : <<n + 1, Pairs - i + 1>> \in SlotsOf(n + 1)
  BY DEF SlotsOf
<1>2. s \in Seq(SlotsOf(n + 1)) /\ Len(s) = Pairs
  <2>1. s \in [1 .. Pairs -> SlotsOf(n + 1)] /\ Pairs \in Nat
    BY <1>1
  <2>2. s \in Seq(SlotsOf(n + 1))
    BY <2>1, SeqDef, ZenonT(40)
  <2>3. Len(s) \in Nat /\ 1 .. Len(s) = 1 .. Pairs
    BY <2>1, <2>2, LenProperties
  <2>4. Pairs \in 1 .. Pairs /\ Len(s) + 1 \notin 1 .. Len(s)
    BY <2>3
  <2>5. Len(s) = Pairs
    BY ONLY <2>1, <2>3, <2>4, MetalHookAssumption
  <2> QED
    BY <2>2, <2>5
<1>3. \A i \in 1 .. Len(s) : s[i] = <<n + 1, Pairs - i + 1>>
  BY <1>2
<1>4. AreDistinct(s)
  BY <1>2, <1>3 DEF AreDistinct
<1>5. \A i \in 1 .. Len(s) : s[i] \notin SlotsOf(n)
  BY <1>2, <1>3 DEF SlotsOf
<1> QED
  BY <1>2, <1>4, <1>5

\* A slot goes from the pool, grown first if it is empty, to one encoder.
LEMMA AcquireKeepsSlots ==
  ASSUME AtOK, SlotsInv, NEW c \in Buffers, Acquire(c)
  PROVE  SlotsInv'
<1> USE MetalHookAssumption
<1>0. /\ pools \in Nat /\ free \in Seq(SlotsOf(pools)) /\ given \in [Buffers -> BOOLEAN]
      /\ slot \in [Buffers -> SlotsOf(pools) \cup {NoSlot}]
      /\ AreDistinct(free) /\ at[c] = "acquiring" /\ slot[c] = NoSlot /\ c \notin Held
      /\ \A d, e \in Held : slot[d] = slot[e] => d = e
      /\ \A i \in 1 .. Len(free) : \A d \in Held : free[i] # slot[d]
      /\ Len(free) + Cardinality(Held) = pools * Pairs
      /\ \A d \in Buffers : at[d] \in Unslotted => slot[d] = NoSlot
      /\ Len(free) \in Nat
  <2>1. at[c] = "acquiring"
    BY DEF Acquire, Moves
  <2>2. slot[c] = NoSlot
    BY <2>1 DEF SlotsInv, Unslotted, Encoding
  <2>3. c \notin Held
    BY <2>2 DEF Held
  <2>4. Len(free) \in Nat
    BY LenProperties DEF SlotsInv
  <2> QED
    BY <2>1, <2>2, <2>3, <2>4 DEF SlotsInv
<1>1. PICK refused \in BOOLEAN :
         LET grows == free = <<>> /\ pools < Pools /\ ~refused
             stock == IF grows THEN [i \in 1 .. Pairs |-> <<pools + 1, Pairs - i + 1>>]
                      ELSE free
         IN /\ IF stock = <<>>
               THEN Moves(c, "acquiring", "short") /\ UNCHANGED <<slot, given>>
               ELSE /\ Moves(c, "acquiring", "supplied")
                    /\ slot' = [slot EXCEPT ![c] = Last(stock)]
                    /\ given' = [given EXCEPT ![c] = FALSE]
            /\ free' = IF stock = <<>> THEN <<>> ELSE Front(stock)
            /\ pools' = IF grows THEN pools + 1 ELSE pools
  BY DEF Acquire
<1> DEFINE grows == free = <<>> /\ pools < Pools /\ ~refused
<1>b. PICK stock : stock = IF grows THEN [i \in 1 .. Pairs |-> <<pools + 1, Pairs - i + 1>>]
                           ELSE free
  OBVIOUS
<1>2. /\ pools' \in Nat /\ stock \in Seq(SlotsOf(pools')) /\ AreDistinct(stock)
      /\ \A i \in 1 .. Len(stock) : \A d \in Held : stock[i] # slot[d]
      /\ Len(stock) + Cardinality(Held) = pools' * Pairs
      /\ SlotsOf(pools) \subseteq SlotsOf(pools')
  <2>1. CASE grows
    <3>1. pools' = pools + 1 /\ Len(free) = 0
      BY <1>1, <2>1, EmptySeq
    <3>2. /\ stock \in Seq(SlotsOf(pools + 1)) /\ Len(stock) = Pairs /\ AreDistinct(stock)
          /\ \A i \in 1 .. Len(stock) : stock[i] \notin SlotsOf(pools)
      <4>1. stock = [i \in 1 .. Pairs |-> <<pools + 1, Pairs - i + 1>>]
        BY <1>b, <2>1
      <4> QED
        BY ONLY <1>0, <4>1, NewStock
    <3>3. \A d \in Held : slot[d] \in SlotsOf(pools)
      BY <1>0 DEF Held
    <3>4. (pools + 1) * Pairs = pools * Pairs + Pairs /\ pools * Pairs \in Nat
      BY <1>0
    <3>5. Len(stock) + Cardinality(Held) = pools' * Pairs
      <4>1. Cardinality(Held) = pools * Pairs /\ Cardinality(Held) \in Nat
        BY <1>0, <3>1, HeldFinite
      <4> QED
        BY ONLY <3>1, <3>2, <3>4, <4>1, MetalHookAssumption
    <3>6. SlotsOf(pools) \subseteq SlotsOf(pools + 1)
      BY <1>0 DEF SlotsOf
    <3>7. \A i \in 1 .. Len(stock) : \A d \in Held : stock[i] # slot[d]
      BY ONLY <3>2, <3>3
    <3> QED
      BY ONLY <1>0, <3>1, <3>2, <3>5, <3>6, <3>7
  <2>2. CASE ~grows
    <3>1. pools' = pools /\ stock = free
      BY <1>1, <1>b, <2>2
    <3> QED
      BY <1>0, <3>1
  <2> QED
    BY <2>1, <2>2
<1>3. /\ IF stock = <<>>
         THEN Moves(c, "acquiring", "short") /\ UNCHANGED <<slot, given>>
         ELSE /\ Moves(c, "acquiring", "supplied")
              /\ slot' = [slot EXCEPT ![c] = Last(stock)]
              /\ given' = [given EXCEPT ![c] = FALSE]
      /\ free' = IF stock = <<>> THEN <<>> ELSE Front(stock)
  BY <1>1, <1>b
<1>4. CASE stock = <<>>
  <2>1. /\ free' = stock /\ slot' = slot /\ given' = given
        /\ at' = [at EXCEPT ![c] = "short"]
    BY <1>3, <1>4 DEF Moves
  <2>2. Held' = Held
    BY <2>1 DEF Held
  <2>3. slot' \in [Buffers -> SlotsOf(pools') \cup {NoSlot}]
    BY <1>0, <1>2, <2>1
  <2>4. \A d \in Buffers : at'[d] \in Unslotted => slot'[d] = NoSlot
    BY <1>0, <2>1 DEF AtOK
  <2> QED
    BY <1>0, <1>2, <2>1, <2>2, <2>3, <2>4 DEF SlotsInv
<1>5. CASE stock # <<>>
  <2>0. Len(stock) \in Nat /\ Len(stock) >= 1
    BY <1>2, <1>5
  <2>1. /\ free' = SubSeq(stock, 1, Len(stock) - 1) /\ slot' = [slot EXCEPT ![c] = stock[Len(stock)]]
        /\ given' = [given EXCEPT ![c] = FALSE] /\ at' = [at EXCEPT ![c] = "supplied"]
    BY <1>3, <1>5 DEF Moves, Front, Last
  <2>2. /\ free' \in Seq(SlotsOf(pools')) /\ Len(free') = Len(stock) - 1
        /\ \A i \in 1 .. Len(free') : free'[i] = stock[i]
    <3>1. \A i \in 1 .. Len(stock) - 1 : stock[i] \in SlotsOf(pools')
      BY <1>2, <2>0, LenProperties
    <3>2. PICK n \in Int : n = Len(stock) - 1 /\ n \in Nat
      BY <2>0
    <3>3. \A i \in 1 .. n : stock[i] \in SlotsOf(pools')
      BY <3>1, <3>2
    <3>4. /\ SubSeq(stock, 1, n) \in Seq(SlotsOf(pools'))
          /\ Len(SubSeq(stock, 1, n)) = IF 1 <= n THEN n - 1 + 1 ELSE 0
          /\ \A i \in 1 .. n - 1 + 1 : SubSeq(stock, 1, n)[i] = stock[1 + i - 1]
      BY ONLY <3>2, <3>3, SubSeqProperties
    <3>5. Len(free') = n /\ \A i \in 1 .. n : free'[i] = stock[i]
      BY ONLY <2>1, <3>2, <3>4
    <3> QED
      BY ONLY <2>1, <3>2, <3>4, <3>5
  <2>3. stock[Len(stock)] \in SlotsOf(pools') /\ stock[Len(stock)] # NoSlot
    BY <1>2, <2>0, NoSlotIsNone
  <2>4. Held' = Held \cup {c} /\ \A d \in Held : slot'[d] = slot[d]
    BY <1>0, <2>1, <2>3 DEF Held
  <2>5. slot' \in [Buffers -> SlotsOf(pools') \cup {NoSlot}] /\ given' \in [Buffers -> BOOLEAN]
    BY <1>0, <1>2, <2>1, <2>3
  <2>6. slot'[c] = stock[Len(stock)]
    BY <1>0, <2>1
  <2>7. AreDistinct(free')
    BY ONLY <1>2, <2>0, <2>2 DEF AreDistinct
  <2>8. \A d, e \in Held' : slot'[d] = slot'[e] => d = e
    <3>1. \A d \in Held : slot'[d] # slot'[c]
      BY ONLY <1>2, <2>0, <2>4, <2>6
    <3>2. \A d, e \in Held : slot'[d] = slot'[e] => d = e
      BY ONLY <1>0, <2>4
    <3> QED
      BY ONLY <2>4, <3>1, <3>2
  <2>9. \A i \in 1 .. Len(free') : \A d \in Held' : free'[i] # slot'[d]
    <3>1. ASSUME NEW i \in 1 .. Len(free')
          PROVE  free'[i] # slot'[c]
      BY ONLY <1>2, <2>0, <2>2, <2>6, <3>1 DEF AreDistinct
    <3>2. ASSUME NEW i \in 1 .. Len(free'), NEW d \in Held
          PROVE  free'[i] # slot'[d]
      BY ONLY <1>2, <2>0, <2>2, <2>4, <3>2
    <3> QED
      BY ONLY <2>4, <3>1, <3>2
  <2>10. Len(free') + Cardinality(Held') = pools' * Pairs
    <3>1. Cardinality(Held') = Cardinality(Held) + 1 /\ Cardinality(Held) \in Nat
      BY <1>0, <2>4, HeldFinite, FS_AddElement
    <3> QED
      BY <1>2, <2>0, <2>2, <3>1
  <2>11. \A d \in Buffers : at'[d] \in Unslotted => slot'[d] = NoSlot
    BY <1>0, <2>1 DEF AtOK, Unslotted, Encoding
  <2> QED
    BY <1>2, <2>2, <2>5, <2>7, <2>8, <2>9, <2>10, <2>11 DEF SlotsInv
<1> QED
  BY <1>4, <1>5

\* A slot goes back once.
LEMMA GiveBackKeepsSlots ==
  ASSUME AtOK, SlotsInv, NEW c \in Buffers, GiveBack(c), pools' = pools,
         slot' = slot \/ slot' = [slot EXCEPT ![c] = NoSlot],
         \A d \in Buffers : at'[d] \in Unslotted => at[d] \in Unslotted \/ slot'[d] = NoSlot
  PROVE  SlotsInv'
<1>0. /\ pools \in Nat /\ free \in Seq(SlotsOf(pools)) /\ given \in [Buffers -> BOOLEAN]
      /\ slot \in [Buffers -> SlotsOf(pools) \cup {NoSlot}]
      /\ AreDistinct(free)
      /\ \A d, e \in Held : slot[d] = slot[e] => d = e
      /\ \A i \in 1 .. Len(free) : \A d \in Held : free[i] # slot[d]
      /\ Len(free) + Cardinality(Held) = pools * Pairs
      /\ \A d \in Buffers : at[d] \in Unslotted => slot[d] = NoSlot
      /\ Len(free) \in Nat
  BY DEF SlotsInv
<1>1. /\ given' = [given EXCEPT ![c] = TRUE]
      /\ free' = IF c \in Held THEN Append(free, slot[c]) ELSE free
  BY DEF GiveBack, Held
<1>2. Held' = Held \ {c} /\ \A d \in Held' : slot'[d] = slot[d]
  BY <1>0, <1>1 DEF Held
<1>3. slot' \in [Buffers -> SlotsOf(pools) \cup {NoSlot}] /\ given' \in [Buffers -> BOOLEAN]
  BY <1>0, <1>1
<1>4. \A d \in Buffers : at'[d] \in Unslotted => slot'[d] = NoSlot
  BY <1>0
<1>5. CASE c \notin Held
  <2>1. free' = free /\ Held' = Held
    BY <1>1, <1>2, <1>5
  <2>2. pools' = pools /\ slot' \in [Buffers -> SlotsOf(pools') \cup {NoSlot}]
    BY <1>3
  <2>3. \A d, e \in Held' : slot'[d] = slot'[e] => d = e
    BY <1>0, <1>2
  <2>4. \A i \in 1 .. Len(free') : \A d \in Held' : free'[i] # slot'[d]
    BY <1>0, <1>2, <2>1
  <2> QED
    BY <1>0, <1>3, <1>4, <2>1, <2>2, <2>3, <2>4 DEF SlotsInv
<1>6. CASE c \in Held
  <2>1. slot[c] \in SlotsOf(pools) /\ free' = Append(free, slot[c])
    BY <1>0, <1>1, <1>6 DEF Held
  <2>2. /\ free' \in Seq(SlotsOf(pools)) /\ Len(free') = Len(free) + 1
        /\ \A i \in 1 .. Len(free) : free'[i] = free[i]
        /\ free'[Len(free) + 1] = slot[c]
    BY <1>0, <2>1
  <2>3. AreDistinct(free')
    BY <1>0, <1>6, <2>2 DEF AreDistinct
  <2>4. \A d, e \in Held' : slot'[d] = slot'[e] => d = e
    BY <1>0, <1>2
  <2>5. ASSUME NEW i \in 1 .. Len(free'), NEW d \in Held'
        PROVE  free'[i] # slot'[d]
    <3>1. d \in Held /\ d # c /\ slot'[d] = slot[d]
      BY <1>2, <2>5
    <3>2. CASE i = Len(free) + 1
      BY <1>0, <1>6, <2>2, <3>1, <3>2
    <3>3. CASE i \in 1 .. Len(free)
      BY <1>0, <2>2, <3>1, <3>3
    <3> QED
      BY <1>0, <2>2, <3>2, <3>3
  <2>6. Len(free') + Cardinality(Held') = pools * Pairs
    <3>1. Cardinality(Held') = Cardinality(Held) - 1 /\ Cardinality(Held) \in Nat
      BY <1>2, <1>6, HeldFinite, FS_RemoveElement
    <3> QED
      BY <1>0, <2>2, <3>1
  <2> QED
    BY <1>0, <1>3, <1>4, <2>2, <2>3, <2>4, <2>5, <2>6 DEF SlotsInv
<1> QED
  BY <1>5, <1>6

\* Every step keeps each slot in one place.
LEMMA SlotsKept ==
  ASSUME AtOK, SlotsInv, [HookNext]_hookVars
  PROVE  SlotsInv'
<1> USE DEF AtOK, Moves, Places, Encoding, Committed, slotVars, Unslotted
<1>a. ASSUME UNCHANGED <<pools, free, slot, given>>,
             \A d \in Buffers : at'[d] \in Unslotted => at[d] \in Unslotted
      PROVE  SlotsInv'
  <2>1. Held' = Held
    BY <1>a DEF Held
  <2> QED
    BY <1>a, <2>1 DEF SlotsInv
<1>1. CASE UNCHANGED hookVars \/ RetryComesDue \/ RunTask \/ (\E c \in Buffers : Warn(c))
  <2>1. UNCHANGED <<at, pools, free, slot, given>>
    BY <1>1 DEF hookVars, RetryComesDue, RunTask, Warn
  <2> QED
    BY <1>a, <2>1
<1>2. ASSUME NEW c \in Buffers,
             \/ NewBuffer(c) \/ AskEnabled(c) \/ AskRetry(c) \/ ForgetFailures(c)
             \/ Enable(c) \/ Choose(c) \/ Supplied(c) \/ CountFailure(c) \/ ReadEnabled(c)
             \/ Disable(c) \/ ScheduleRetry(c)
             \/ LookBox(c) \/ MakeBox(c) \/ Record(c) \/ Watch(c) \/ Submit(c)
             \/ Complete(c) \/ CountDown(c) \/ Unwatch(c)
      PROVE  SlotsInv'
  <2>1. UNCHANGED <<pools, free, slot, given>>
    BY <1>2 DEF NewBuffer, AskEnabled, AskRetry, ForgetFailures, Enable, Choose, Supplied,
              CountFailure, ReadEnabled, Disable, ScheduleRetry, LookBox, MakeBox, Record,
              Watch, Submit, Complete, CountDown, Unwatch
  <2>2. \E to \in Places : /\ at' = [at EXCEPT ![c] = to]
                           /\ to \in Unslotted => at[c] \in Unslotted
    BY <1>2 DEF NewBuffer, AskEnabled, AskRetry, ForgetFailures, Enable, Choose, Supplied,
              CountFailure, ReadEnabled, Disable, ScheduleRetry, LookBox, MakeBox, Record,
              Watch, Submit, Complete, CountDown, Unwatch
  <2>3. \A d \in Buffers : at'[d] \in Unslotted => at[d] \in Unslotted
    BY <2>2
  <2> QED
    BY <1>a, <2>1, <2>3
<1>3. ASSUME NEW c \in Buffers, NEW o \in 1 .. Layers, Intercept(c, o)
      PROVE  SlotsInv'
  <2>1. \E l \in {"claimed", "called"} : at' = [at EXCEPT ![c] = l]
    BY <1>3 DEF Intercept
  <2>2. \A d \in Buffers : at'[d] \in Unslotted => at[d] \in Unslotted
    BY <2>1
  <2> QED
    BY <1>3, <1>a, <2>2 DEF Intercept
<1>4. ASSUME NEW c \in Buffers, Acquire(c)
      PROVE  SlotsInv'
  BY <1>4, AcquireKeepsSlots
<1>5. ASSUME NEW c \in Buffers, ReleaseSlot(c)
      PROVE  SlotsInv'
  <2>1. /\ GiveBack(c) /\ pools' = pools /\ slot' = slot
        /\ at' = [at EXCEPT ![c] = "resolved"]
    BY <1>5 DEF ReleaseSlot
  <2>2. \A d \in Buffers : at'[d] \in Unslotted => at[d] \in Unslotted
    BY <2>1
  <2> QED
    BY <2>1, <2>2, GiveBackKeepsSlots
<1>6. ASSUME NEW c \in Buffers, Dealloc(c)
      PROVE  SlotsInv'
  <2>1. /\ GiveBack(c) /\ pools' = pools /\ slot' = [slot EXCEPT ![c] = NoSlot]
        /\ at' = [at EXCEPT ![c] = "none"]
    BY <1>6 DEF Dealloc
  <2>2. \A d \in Buffers : at'[d] \in Unslotted => at[d] \in Unslotted \/ slot'[d] = NoSlot
    BY <2>1 DEF SlotsInv
  <2> QED
    BY <2>1, <2>2, GiveBackKeepsSlots
<1> QED
  BY <1>1, <1>2, <1>3, <1>4, <1>5, <1>6 DEF HookNext

-----------------------------------------------------------------------------
(* All of it.                                                              *)

HookInv == AtOK /\ MarksInv /\ DepthInv /\ SamplingInv /\ TableInv /\ SlotsInv

\* At the start nothing is under way, and no pool buffer is there.
LEMMA HookInvInit ==
  ASSUME HookInit
  PROVE  HookInv
<1> USE MetalHookAssumption DEF HookInit
<1>1. AtOK /\ MarksInv
  BY DEF AtOK, Places, MarksInv, Encoding, Committed
<1>2. DepthInv
  <2>1. Outstanding = {}
    BY DEF Outstanding
  <2>2. Cardinality(Outstanding) = 0
    BY <2>1, FS_EmptySet
  <2>3. Buffers # {} => depth[1] = 0
    BY OneBoxFits
  <2>4. depth \in [1 .. Cardinality(Buffers) -> Int]
    OBVIOUS
  <2> QED
    BY <2>2, <2>3, <2>4 DEF DepthInv, NoBox, Committed
<1>3. SamplingInv
  BY DEF SamplingInv, SamplingComesBack, Critical
<1>4. TableInv
  BY DEF TableInv, NoneOf, InTable, Tasks
<1>5. SlotsInv
  <2>1. Held = {}
    BY DEF Held
  <2>2. Cardinality(Held) = 0
    BY <2>1, FS_EmptySet
  <2> QED
    BY <2>1, <2>2 DEF SlotsInv, AreDistinct, Unslotted
<1> QED
  BY <1>1, <1>2, <1>3, <1>4, <1>5 DEF HookInv

\* Every step keeps the invariant.
LEMMA HookInvStep ==
  ASSUME HookInv, [HookNext]_hookVars
  PROVE  HookInv'
BY PlacesKept, MarksKept, DepthKept, SamplingKept, TableKept, SlotsKept DEF HookInv

\* The invariant says all that the five properties ask.
LEMMA HookInvIsEnough ==
  ASSUME HookInv
  PROVE  HookIsExact
<1>1. RecordedOnce
  BY DEF HookInv, MarksInv, RecordedOnce, AtOK, Places, Committed, Encoding
<1>2. DepthIsExact
  <2> SUFFICES ASSUME box # NoBox
               PROVE  depth[box] = Cardinality(Outstanding)
    BY DEF DepthIsExact
  <2>1. box = 1
    BY DEF HookInv, DepthInv, NoBox
  <2> QED
    BY <2>1 DEF HookInv, DepthInv
<1>3. SlotsAreExclusive
  <2>1. ToSet(free) \cap {slot[c] : c \in Held} = {}
    BY DEF HookInv, SlotsInv, ToSet
  <2> QED
    BY <2>1 DEF HookInv, SlotsInv, SlotsAreExclusive
<1>4. SamplingComesBack
  BY DEF HookInv, SamplingInv
<1>5. TableIsExact
  BY DEF HookInv, TableInv, TableIsExact, NoneOf, InTable
<1> QED
  BY <1>1, <1>2, <1>3, <1>4, <1>5 DEF HookIsExact

\* However many threads make, encode, commit and drop command buffers at once,
\* and whichever layers the swizzles see: a commit is recorded once; the depth
\* is the number recorded and not completed; each sample slot is in one place;
\* a sampling that is off is on its way back; the table holds what is in flight.
THEOREM HookIsExactAlways == HookSpec => []HookIsExact
<1>1. HookInit => HookInv
  BY HookInvInit
<1>2. HookInv /\ [HookNext]_hookVars => HookInv'
  BY HookInvStep
<1>3. HookInv => HookIsExact
  BY HookInvIsEnough
<1> QED
  BY <1>1, <1>2, <1>3, PTL DEF HookSpec
=============================================================================
