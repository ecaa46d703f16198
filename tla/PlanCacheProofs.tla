-------------------------- MODULE PlanCacheProofs --------------------------
(***************************************************************************)
(* Proofs about the plan cache, for any number of processes, plans, cross  *)
(* references, blocks and columns.                                         *)
(***************************************************************************)
EXTENDS PlanCache, TLAPS

----------------------------------------------------------------------------
(* Types, and facts about files *)

LEMMA ConstantTypes ==
  /\ NumBlocks \in Nat /\ NumBlocks >= 1
  /\ NumNodes \in Nat /\ NumNodes >= 1
  /\ NoProc \notin Proc
  /\ NumFields \in Nat /\ NumFields >= 1
  /\ MaxQueries \in Nat /\ MaxCrashes \in Nat
BY PlanCacheAssumption DEF NumNodes

LEMMA FileFacts ==
  /\ NoFile \notin SUBSET Block
  /\ NoFile # Block
  /\ {} \in FileState /\ NoFile \in FileState /\ Block \in FileState
<1>1. 0 \notin Block
  BY ConstantTypes DEF Block
<1>2. 1 \in Block
  BY ConstantTypes DEF Block
<1>3. NoFile \notin SUBSET Block
  BY <1>1, Zenon DEF NoFile
<1>4. NoFile # Block
  BY <1>1, <1>2, Zenon DEF NoFile
<1>5. {} \in FileState /\ NoFile \in FileState /\ Block \in FileState
  BY Zenon DEF FileState
<1>6. QED
  BY <1>3, <1>4, <1>5, Zenon

\* A block written to an existing file
LEMMA AddBlock ==
  ASSUME NEW c \in FileState, c # NoFile, NEW b \in Block
  PROVE  c \cup {b} \in FileState /\ c \cup {b} # NoFile
<1>1. c \cup {b} \in SUBSET Block
  BY Zenon DEF FileState
<1>2. QED
  BY <1>1, FileFacts, Zenon DEF FileState

LEMMA Columns == ASSUME NEW n \in 0 .. NumNodes PROVE (n + NumFields - 1) \div NumFields \in Nat
BY ConstantTypes

----------------------------------------------------------------------------
(* What holds of every behaviour, whatever times out or dies *)

\* A process has a file open exactly while it writes one, and that file
\* still has the name fd says.
FdOK == \A p \in Proc :
  /\ pc[p] = "write" <=> fd[p] # "none"
  /\ fd[p] = "tmp" => tmpFile[plan[p]] # NoFile
  /\ fd[p] = "plan" => planFile[plan[p]] # NoFile
  /\ fd[p] = "xref" =>
       /\ xi[p] \in 1 .. Len(XrefSeq[plan[p]])
       /\ xrefFile[XrefSeq[plan[p]][xi[p]]] # NoFile

\* Progress within a file and within the metadata; what a process has set
\* stays set.
PosOK == \A p \in Proc :
  /\ pc[p] = "write" => pos[p] \in 1 .. NumBlocks + 1
  /\ pc[p] = "meta" =>
       /\ pos[p] \in 0 .. NumNodes
       /\ pos[p] > 0 => plan[p] \in keySet /\ nodes[plan[p]] >= pos[p] - 1

Base == TypeOK /\ FdOK /\ PosOK

LEMMA TypeOKStep ==
  ASSUME Base, [Next]_vars
  PROVE  TypeOK'
<1> USE ConstantTypes DEF Base
<1>1. ASSUME NEW p \in Proc, StartQuery(p) PROVE TypeOK'
  BY <1>1 DEF StartQuery, TypeOK, PC, FdState, Kind, Goto, AfterCache, AfterRun, AfterDescription, files, metadata, caller
<1>2. ASSUME NEW p \in Proc, Access(p) PROVE TypeOK'
  BY <1>2, Zenon DEF Access, TypeOK, PC, FdState, Kind, Goto, AfterCache, AfterRun, AfterDescription, files, metadata, caller
<1>3. ASSUME NEW p \in Proc, Lock(p) PROVE TypeOK'
  BY <1>3, Zenon DEF Lock, TypeOK, PC, FdState, Kind, Goto, AfterCache, AfterRun, AfterDescription, files, metadata, caller
<1>4. ASSUME NEW p \in Proc, LockTimeout(p) PROVE TypeOK'
  BY <1>4, Zenon DEF LockTimeout, TypeOK, PC, FdState, Kind, Goto, AfterCache, AfterRun, AfterDescription, files, metadata, caller
<1>5. ASSUME NEW p \in Proc, Recheck(p) PROVE TypeOK'
  BY <1>5 DEF Recheck, TypeOK, PC, FdState, Kind, Goto, AfterCache, AfterRun, AfterDescription, files, metadata, caller
<1>6. ASSUME NEW p \in Proc, EmitRejected(p) PROVE TypeOK'
  BY <1>6, Zenon DEF EmitRejected, TypeOK, PC, FdState, Kind, Goto, AfterCache, AfterRun, AfterDescription, files, metadata, caller, Release
<1>7. ASSUME NEW p \in Proc, OpenXref(p) PROVE TypeOK'
  <2>1. xrefFile' \in [Xref -> FileState]
    BY ZenonT(40), <1>7, FileFacts DEF OpenXref, TypeOK
  <2>2. xrefText' \in [Xref -> [Block -> Plan \cup {NoPlan}]]
    <3>1. [b \in Block |-> NoPlan] \in [Block -> Plan \cup {NoPlan}]
      BY Zenon
    <3>2. xrefText' = [xrefText EXCEPT ![XrefSeq[plan[p]][xi[p]]] = [b \in Block |-> NoPlan]]
      BY <1>7, Zenon DEF OpenXref
    <3>3. QED
      BY <3>1, <3>2, Zenon DEF TypeOK
  <2>3. QED
    BY <1>7, <2>1, <2>2, Zenon DEF OpenXref, TypeOK, PC, FdState, Goto, metadata, caller
<1>8. ASSUME NEW p \in Proc, OpenTmp(p) PROVE TypeOK'
  BY <1>8, FileFacts, ZenonT(60) DEF OpenTmp, TypeOK, PC, FdState, Kind, Goto, AfterCache, AfterRun, AfterDescription, files, metadata, caller
<1>9. ASSUME NEW p \in Proc, WriteBlock(p) PROVE TypeOK'
  <2>0. pos[p] \in Block
    BY <1>9, SMTT(60) DEF WriteBlock, Block, PosOK
  <2>1. \A c \in FileState : c # NoFile => c \cup {pos[p]} \in FileState
    BY <2>0, AddBlock, Zenon
  <2>2. planFile' \in [Plan -> FileState]
    <3>1. CASE fd[p] = "plan"
      <4>1. planFile[plan[p]] \in FileState /\ planFile[plan[p]] # NoFile
        BY <3>1, Zenon DEF TypeOK, FdOK
      <4>2. planFile[plan[p]] \cup {pos[p]} \in FileState
        BY <2>1, <4>1, Zenon
      <4>3. planFile' = [planFile EXCEPT ![plan[p]] = planFile[plan[p]] \cup {pos[p]}]
        BY <1>9, <3>1, Zenon DEF WriteBlock
      <4>4. QED
        BY <4>2, <4>3, Zenon DEF TypeOK
    <3>2. CASE fd[p] # "plan"
      BY <1>9, <3>2, Zenon DEF WriteBlock, TypeOK
    <3>3. QED
      BY <3>1, <3>2, Zenon
  <2>3. tmpFile' \in [Plan -> FileState]
    <3>1. CASE fd[p] = "tmp"
      <4>1. tmpFile[plan[p]] \in FileState /\ tmpFile[plan[p]] # NoFile
        BY <3>1, Zenon DEF TypeOK, FdOK
      <4>2. tmpFile[plan[p]] \cup {pos[p]} \in FileState
        BY <2>1, <4>1, Zenon
      <4>3. tmpFile' = [tmpFile EXCEPT ![plan[p]] = tmpFile[plan[p]] \cup {pos[p]}]
        BY <1>9, <3>1, Zenon DEF WriteBlock
      <4>4. QED
        BY <4>2, <4>3, Zenon DEF TypeOK
    <3>2. CASE fd[p] # "tmp"
      BY <1>9, <3>2, Zenon DEF WriteBlock, TypeOK
    <3>3. QED
      BY <3>1, <3>2, Zenon
  <2>4. xrefFile' \in [Xref -> FileState]
    <3>1. CASE fd[p] = "xref"
      <4>1. xrefFile[XrefSeq[plan[p]][xi[p]]] \in FileState /\ xrefFile[XrefSeq[plan[p]][xi[p]]] # NoFile
        BY <3>1, PlanCacheAssumption, SMTT(60) DEF TypeOK, FdOK
      <4>2. xrefFile[XrefSeq[plan[p]][xi[p]]] \cup {pos[p]} \in FileState
        BY <2>1, <4>1, Zenon
      <4>3. xrefFile' = [xrefFile EXCEPT ![XrefSeq[plan[p]][xi[p]]] = xrefFile[XrefSeq[plan[p]][xi[p]]] \cup {pos[p]}]
        BY <1>9, <3>1, Zenon DEF WriteBlock
      <4>4. QED
        BY ZenonT(40), <4>2, <4>3 DEF TypeOK
    <3>2. CASE fd[p] # "xref"
      BY <1>9, <3>2, Zenon DEF WriteBlock, TypeOK
    <3>3. QED
      BY <3>1, <3>2, Zenon
  <2>5. xrefText' \in [Xref -> [Block -> Plan \cup {NoPlan}]]
    <3>1. CASE fd[p] = "xref"
      <4>1. PICK x \in Xref : x = XrefSeq[plan[p]][xi[p]]
        BY <3>1, PlanCacheAssumption, SMTT(60) DEF TypeOK, FdOK
      <4>2. [xrefText[x] EXCEPT ![pos[p]] = plan[p]] \in [Block -> Plan \cup {NoPlan}]
        BY <2>0, <4>1, Zenon DEF TypeOK
      <4>3. xrefText' = [xrefText EXCEPT ![x] = [xrefText[x] EXCEPT ![pos[p]] = plan[p]]]
        BY <1>9, <3>1, <4>1, Zenon DEF WriteBlock
      <4>4. QED
        BY <4>2, <4>3, Zenon DEF TypeOK
    <3>2. CASE fd[p] # "xref"
      BY <1>9, <3>2, Zenon DEF WriteBlock, TypeOK
    <3>3. QED
      BY <3>1, <3>2, Zenon
  <2>6. QED
    BY <1>9, <2>2, <2>3, <2>4, <2>5, SMTT(60) DEF WriteBlock, TypeOK, metadata, caller
<1>10. ASSUME NEW p \in Proc, CloseXref(p) PROVE TypeOK'
  BY <1>10 DEF CloseXref, TypeOK, PC, FdState, Kind, Goto, AfterCache, AfterRun, AfterDescription, files, metadata, caller
<1>11. ASSUME NEW p \in Proc, RenamePlan(p) PROVE TypeOK'
  <2>1. planFile' \in [Plan -> FileState] /\ tmpFile' \in [Plan -> FileState]
    BY <1>11, FileFacts, SMTT(60) DEF RenamePlan, TypeOK, files
  <2>2. fd' \in [Proc -> FdState]
    <3>1. \A q \in Proc : FdAfterRename(q, p, plan[p]) \in FdState
      BY ZenonT(60) DEF FdAfterRename, FdState, TypeOK
    <3>2. QED
      BY <1>11, <3>1, SMTT(60) DEF RenamePlan, TypeOK, FdState
  <2>3. QED
    BY <1>11, <2>1, <2>2, Zenon DEF RenamePlan, TypeOK, PC, Goto, files, metadata, caller
<1>12. ASSUME NEW p \in Proc, SetMetadata(p) PROVE TypeOK'
  <2>1. nodes' \in [Plan -> 0 .. NumNodes] /\ keySet' \subseteq Plan
    <3>1. nodes \in [Plan -> 0 .. NumNodes] /\ keySet \subseteq Plan /\ plan[p] \in Plan
      BY Zenon DEF TypeOK
    <3>2. pos[p] \in 0 .. NumNodes
      BY <1>12, Zenon DEF SetMetadata, PosOK
    <3>3. QED
      BY <1>12, <3>1, <3>2, SMTT(60) DEF SetMetadata
  <2>2. QED
    BY <1>12, <2>1, SMTT(60) DEF SetMetadata, TypeOK, PC, FdState, Kind, Goto, AfterCache, AfterRun, AfterDescription, files, metadata, caller
<1>13. ASSUME NEW p \in Proc, Unlock(p) PROVE TypeOK'
  BY <1>13, Zenon DEF Unlock, TypeOK, PC, FdState, Kind, Goto, AfterCache, AfterRun, AfterDescription, files, metadata, caller, Release
<1>14. ASSUME NEW p \in Proc, RunPlan(p) PROVE TypeOK'
  <2>1. XrefsOf(plan[p]) \subseteq Xref
    BY PlanCacheAssumption, SMTT(60) DEF XrefsOf, TypeOK
  <2>2. xrefDone' \subseteq Xref
    BY <1>14, <2>1, Zenon DEF RunPlan, TypeOK
  <2>3. pc' \in [Proc -> PC]
    <3>1. AfterRun(kind[p]) \in PC /\ "fatal" \in PC
      BY Zenon DEF AfterRun, PC
    <3>2. QED
      BY <1>14, <3>1, Zenon DEF RunPlan, TypeOK, Goto
  <2>4. UNCHANGED <<planFile, tmpFile, xrefFile, xrefText, keySet, nodes, lock, caller, fd, xi, pos, seen, crashes>>
    BY <1>14, Zenon DEF RunPlan, files, metadata
  <2>5. QED
    BY <2>2, <2>3, <2>4, Zenon DEF TypeOK, caller
<1>15. ASSUME NEW p \in Proc, CountColumns(p) PROVE TypeOK'
  <2>1. VisibleColumns(plan[p]) \in Nat
    <3>1. nodes[plan[p]] \in 0 .. NumNodes
      BY Zenon DEF TypeOK
    <3>2. QED
      BY <3>1, Columns, Zenon DEF VisibleColumns
  <2>2. QED
    BY <1>15, <2>1, Zenon DEF CountColumns, TypeOK, PC, FdState, Kind, Goto, AfterCache, AfterRun, AfterDescription, files, metadata, caller
<1>16. ASSUME NEW p \in Proc, ReadColumn(p) PROVE TypeOK'
  BY <1>16, SMTT(60) DEF ReadColumn, TypeOK, PC, FdState, Kind, Goto, AfterCache, AfterRun, AfterDescription, files, metadata, caller
<1>17. ASSUME NEW p \in Proc, DescriptionDone(p) PROVE TypeOK'
  BY <1>17, Zenon DEF DescriptionDone, TypeOK, PC, FdState, Kind, Goto, AfterCache, AfterRun, AfterDescription, files, metadata, caller
<1>18. ASSUME NEW p \in Proc, ReadOutputKey(p) PROVE TypeOK'
  BY <1>18, Zenon DEF ReadOutputKey, TypeOK, PC, FdState, Kind, Goto, AfterCache, AfterRun, AfterDescription, files, metadata, caller
<1>19. ASSUME NEW p \in Proc, Crash(p) PROVE TypeOK'
  BY <1>19 DEF Crash, TypeOK, PC, FdState, Kind, Goto, AfterCache, AfterRun, AfterDescription, files, metadata, caller, Release
<1>20. ASSUME NEW p \in Proc, Restart(p) PROVE TypeOK'
  BY <1>20, Zenon DEF Restart, TypeOK, PC, FdState, Kind, Goto, AfterCache, AfterRun, AfterDescription, files, metadata, caller
<1>21. CASE UNCHANGED vars
  BY <1>21, Zenon DEF vars, TypeOK, PC, FdState, Kind, Goto, AfterCache, AfterRun, AfterDescription, files, metadata, caller
<1>22. QED
  BY <1>1, <1>2, <1>3, <1>4, <1>5, <1>6, <1>7, <1>8, <1>9, <1>10, <1>11, <1>12, <1>13, <1>14, <1>15, <1>16, <1>17, <1>18, <1>19, <1>20, <1>21, Zenon DEF Next, Step

LEMMA FdOKStep ==
  ASSUME Base, [Next]_vars
  PROVE  FdOK'
<1> USE ConstantTypes DEF Base
<1>1. ASSUME NEW p \in Proc, StartQuery(p) PROVE FdOK'
  BY <1>1, ZenonT(60) DEF StartQuery, FdOK, TypeOK, Goto, AfterCache, AfterRun, AfterDescription, files, metadata, caller
<1>2. ASSUME NEW p \in Proc, Access(p) PROVE FdOK'
  BY <1>2, Zenon DEF Access, FdOK, TypeOK, Goto, AfterCache, AfterRun, AfterDescription, files, metadata, caller
<1>3. ASSUME NEW p \in Proc, Lock(p) PROVE FdOK'
  BY <1>3, Zenon DEF Lock, FdOK, TypeOK, Goto, AfterCache, AfterRun, AfterDescription, files, metadata, caller
<1>4. ASSUME NEW p \in Proc, LockTimeout(p) PROVE FdOK'
  BY <1>4, Zenon DEF LockTimeout, FdOK, TypeOK, Goto, AfterCache, AfterRun, AfterDescription, files, metadata, caller
<1>5. ASSUME NEW p \in Proc, Recheck(p) PROVE FdOK'
  BY <1>5, Zenon DEF Recheck, FdOK, TypeOK, Goto, AfterCache, AfterRun, AfterDescription, files, metadata, caller
<1>6. ASSUME NEW p \in Proc, EmitRejected(p) PROVE FdOK'
  BY <1>6, Zenon DEF EmitRejected, FdOK, TypeOK, Goto, AfterCache, AfterRun, AfterDescription, files, metadata, caller, Release
<1>7. ASSUME NEW p \in Proc, OpenXref(p) PROVE FdOK'
  <2>1. {} # NoFile
    BY FileFacts, Zenon
  <2>2. XrefSeq[plan[p]][xi[p]] \in Xref /\ xi[p] \in 1 .. Len(XrefSeq[plan[p]])
    BY <1>7, PlanCacheAssumption, SMTT(60) DEF OpenXref, TypeOK
  <2>3. /\ pc'[p] = "write" /\ fd'[p] = "xref" /\ UNCHANGED <<planFile, tmpFile, plan, xi>>
        /\ \A q \in Proc \ {p} : pc'[q] = pc[q] /\ fd'[q] = fd[q]
    BY <1>7, Zenon DEF OpenXref, TypeOK, Goto, caller
  <2>4. xrefFile'[XrefSeq[plan[p]][xi[p]]] # NoFile
    BY <1>7, <2>1, <2>2, Zenon DEF OpenXref, TypeOK
  <2>5. \A x \in Xref : xrefFile[x] # NoFile => xrefFile'[x] # NoFile
    BY <1>7, <2>1, Zenon DEF OpenXref, TypeOK
  <2>6. \A q \in Proc : fd[q] = "xref" => XrefSeq[plan[q]][xi[q]] \in Xref
    BY PlanCacheAssumption, SMTT(60) DEF FdOK, TypeOK
  <2>7. FdOK!(p)'
    BY <2>2, <2>3, <2>4, Zenon
  <2>8. ASSUME NEW q \in Proc, q # p PROVE FdOK!(q)'
    BY <2>3, <2>5, <2>6, <2>8, Zenon DEF FdOK
  <2>9. QED
    BY <2>7, <2>8, Zenon DEF FdOK
<1>8. ASSUME NEW p \in Proc, OpenTmp(p) PROVE FdOK'
  <2>1. {} # NoFile
    BY FileFacts, Zenon
  <2>2. QED
    BY <1>8, <2>1, Zenon DEF OpenTmp, FdOK, TypeOK, Goto, AfterCache, AfterRun, AfterDescription, files, metadata, caller
<1>9. ASSUME NEW p \in Proc, WriteBlock(p) PROVE FdOK'
  <2>0. pos[p] \in Block
    BY <1>9 DEF WriteBlock, Block, PosOK
  <2>1. \A c \in FileState : c # NoFile => c \cup {pos[p]} # NoFile
    BY <2>0, AddBlock, Zenon
  <2>2. \A f \in Plan : planFile[f] # NoFile => planFile'[f] # NoFile
    BY <1>9, <2>1, Zenon DEF WriteBlock, TypeOK
  <2>3. \A f \in Plan : tmpFile[f] # NoFile => tmpFile'[f] # NoFile
    BY <1>9, <2>1, Zenon DEF WriteBlock, TypeOK
  <2>4. \A x \in Xref : xrefFile[x] # NoFile => xrefFile'[x] # NoFile
    BY <1>9, <2>1, Zenon DEF WriteBlock, TypeOK
  <2>5. \A q \in Proc : xi[q] \in 1 .. Len(XrefSeq[plan[q]]) => XrefSeq[plan[q]][xi[q]] \in Xref
    BY PlanCacheAssumption, SMTT(60) DEF TypeOK
  <2>6. QED
    BY ZenonT(40), <1>9, <2>2, <2>3, <2>4, <2>5 DEF WriteBlock, FdOK, TypeOK, caller
<1>10. ASSUME NEW p \in Proc, CloseXref(p) PROVE FdOK'
  BY <1>10, Zenon DEF CloseXref, FdOK, TypeOK, Goto, AfterCache, AfterRun, AfterDescription, files, metadata, caller
<1>11. ASSUME NEW p \in Proc, RenamePlan(p) PROVE FdOK'
  <2>1. CASE tmpFile[plan[p]] = NoFile
    BY <1>11, <2>1, ZenonT(60) DEF RenamePlan, FdOK, TypeOK, Goto, files, caller
  <2>2. CASE tmpFile[plan[p]] # NoFile
    <3>1. \A q \in Proc : fd'[q] = FdAfterRename(q, p, plan[p])
      BY <1>11, <2>2, Zenon DEF RenamePlan
    <3>2. ASSUME NEW q \in Proc, q # p PROVE FdOK!(q)'
      <4>1. CASE plan[q] = plan[p] /\ fd[q] = "tmp"
        <5>1. fd'[q] = "plan"
          BY <3>1, <3>2, <4>1, Zenon DEF FdAfterRename
        <5>2. QED
          BY <1>11, <2>2, <3>2, <4>1, <5>1, ZenonT(60) DEF RenamePlan, FdOK, TypeOK, Goto, caller
      <4>2. CASE plan[q] = plan[p] /\ fd[q] = "plan"
        <5>1. fd'[q] = "gone"
          BY <3>1, <3>2, <4>2, Zenon DEF FdAfterRename
        <5>2. QED
          BY <1>11, <2>2, <3>2, <4>2, <5>1, Zenon DEF RenamePlan, FdOK, TypeOK, Goto, caller
      <4>3. CASE ~(plan[q] = plan[p] /\ fd[q] \in {"tmp", "plan"})
        <5>1. fd'[q] = fd[q]
          BY <3>1, <3>2, <4>3, Zenon DEF FdAfterRename
        <5>2. pc'[q] = pc[q] /\ UNCHANGED <<plan, xi, xrefFile>>
          BY <1>11, <2>2, <3>2, Zenon DEF RenamePlan, TypeOK, Goto, caller
        <5>3. /\ fd[q] = "tmp" => tmpFile'[plan[q]] = tmpFile[plan[q]]
              /\ fd[q] = "plan" => planFile'[plan[q]] = planFile[plan[q]]
          BY <1>11, <2>2, <4>3, SMTT(60) DEF RenamePlan, TypeOK
        <5>4. QED
          BY <5>1, <5>2, <5>3, Zenon DEF FdOK
      <4>4. QED
        BY <4>1, <4>2, <4>3, Zenon
    <3>3. FdOK!(p)'
      BY <1>11, <2>2, <3>1, Zenon DEF RenamePlan, FdOK, TypeOK, Goto, FdAfterRename, caller
    <3>4. QED
      BY <3>2, <3>3, Zenon DEF FdOK
  <2>3. QED
    BY <2>1, <2>2, Zenon
<1>12. ASSUME NEW p \in Proc, SetMetadata(p) PROVE FdOK'
  BY <1>12, Zenon DEF SetMetadata, FdOK, TypeOK, Goto, AfterCache, AfterRun, AfterDescription, files, metadata, caller
<1>13. ASSUME NEW p \in Proc, Unlock(p) PROVE FdOK'
  BY <1>13, Zenon DEF Unlock, FdOK, TypeOK, Goto, AfterCache, AfterRun, AfterDescription, files, metadata, caller, Release
<1>14. ASSUME NEW p \in Proc, RunPlan(p) PROVE FdOK'
  BY <1>14, ZenonT(60) DEF RunPlan, FdOK, TypeOK, Goto, AfterCache, AfterRun, AfterDescription, files, metadata, caller
<1>15. ASSUME NEW p \in Proc, CountColumns(p) PROVE FdOK'
  BY <1>15, Zenon DEF CountColumns, FdOK, TypeOK, Goto, AfterCache, AfterRun, AfterDescription, files, metadata, caller
<1>16. ASSUME NEW p \in Proc, ReadColumn(p) PROVE FdOK'
  BY <1>16, Zenon DEF ReadColumn, FdOK, TypeOK, Goto, AfterCache, AfterRun, AfterDescription, files, metadata, caller
<1>17. ASSUME NEW p \in Proc, DescriptionDone(p) PROVE FdOK'
  BY <1>17, Zenon DEF DescriptionDone, FdOK, TypeOK, Goto, AfterCache, AfterRun, AfterDescription, files, metadata, caller
<1>18. ASSUME NEW p \in Proc, ReadOutputKey(p) PROVE FdOK'
  BY <1>18, Zenon DEF ReadOutputKey, FdOK, TypeOK, Goto, AfterCache, AfterRun, AfterDescription, files, metadata, caller
<1>19. ASSUME NEW p \in Proc, Crash(p) PROVE FdOK'
  BY <1>19, Zenon DEF Crash, FdOK, TypeOK, Goto, AfterCache, AfterRun, AfterDescription, files, metadata, caller, Release
<1>20. ASSUME NEW p \in Proc, Restart(p) PROVE FdOK'
  BY <1>20, Zenon DEF Restart, FdOK, TypeOK, Goto, AfterCache, AfterRun, AfterDescription, files, metadata, caller
<1>21. CASE UNCHANGED vars
  BY <1>21, Zenon DEF vars, FdOK, TypeOK, Goto, AfterCache, AfterRun, AfterDescription, files, metadata, caller
<1>22. QED
  BY <1>1, <1>2, <1>3, <1>4, <1>5, <1>6, <1>7, <1>8, <1>9, <1>10, <1>11, <1>12, <1>13, <1>14, <1>15, <1>16, <1>17, <1>18, <1>19, <1>20, <1>21, Zenon DEF Next, Step

LEMMA PosOKStep ==
  ASSUME Base, [Next]_vars
  PROVE  PosOK'
<1> USE ConstantTypes DEF Base
<1>1. ASSUME NEW p \in Proc, StartQuery(p) PROVE PosOK'
  BY <1>1, Zenon DEF StartQuery, PosOK, TypeOK, Goto, AfterCache, AfterRun, AfterDescription, files, metadata, caller
<1>2. ASSUME NEW p \in Proc, Access(p) PROVE PosOK'
  BY <1>2, Zenon DEF Access, PosOK, TypeOK, Goto, AfterCache, AfterRun, AfterDescription, files, metadata, caller
<1>3. ASSUME NEW p \in Proc, Lock(p) PROVE PosOK'
  BY <1>3, Zenon DEF Lock, PosOK, TypeOK, Goto, AfterCache, AfterRun, AfterDescription, files, metadata, caller
<1>4. ASSUME NEW p \in Proc, LockTimeout(p) PROVE PosOK'
  BY <1>4, Zenon DEF LockTimeout, PosOK, TypeOK, Goto, AfterCache, AfterRun, AfterDescription, files, metadata, caller
<1>5. ASSUME NEW p \in Proc, Recheck(p) PROVE PosOK'
  BY <1>5, Zenon DEF Recheck, PosOK, TypeOK, Goto, AfterCache, AfterRun, AfterDescription, files, metadata, caller
<1>6. ASSUME NEW p \in Proc, EmitRejected(p) PROVE PosOK'
  BY <1>6, Zenon DEF EmitRejected, PosOK, TypeOK, Goto, AfterCache, AfterRun, AfterDescription, files, metadata, caller, Release
<1>7. ASSUME NEW p \in Proc, OpenXref(p) PROVE PosOK'
  BY <1>7, SMTT(60) DEF OpenXref, PosOK, TypeOK, Goto, AfterCache, AfterRun, AfterDescription, files, metadata, caller
<1>8. ASSUME NEW p \in Proc, OpenTmp(p) PROVE PosOK'
  BY <1>8, SMTT(60) DEF OpenTmp, PosOK, TypeOK, Goto, AfterCache, AfterRun, AfterDescription, files, metadata, caller
<1>9. ASSUME NEW p \in Proc, WriteBlock(p) PROVE PosOK'
  BY <1>9, SMTT(60) DEF WriteBlock, PosOK, TypeOK, Goto, AfterCache, AfterRun, AfterDescription, files, metadata, caller
<1>10. ASSUME NEW p \in Proc, CloseXref(p) PROVE PosOK'
  BY <1>10, Zenon DEF CloseXref, PosOK, TypeOK, Goto, AfterCache, AfterRun, AfterDescription, files, metadata, caller
<1>11. ASSUME NEW p \in Proc, RenamePlan(p) PROVE PosOK'
  BY <1>11, SMTT(60) DEF RenamePlan, PosOK, TypeOK, Goto, AfterCache, AfterRun, AfterDescription, files, metadata, caller, FdAfterRename
<1>12. ASSUME NEW p \in Proc, SetMetadata(p) PROVE PosOK'
  BY <1>12, SMTT(60) DEF SetMetadata, PosOK, TypeOK, Goto, AfterCache, AfterRun, AfterDescription, files, metadata, caller
<1>13. ASSUME NEW p \in Proc, Unlock(p) PROVE PosOK'
  BY <1>13, Zenon DEF Unlock, PosOK, TypeOK, Goto, AfterCache, AfterRun, AfterDescription, files, metadata, caller, Release
<1>14. ASSUME NEW p \in Proc, RunPlan(p) PROVE PosOK'
  BY <1>14, ZenonT(60) DEF RunPlan, PosOK, TypeOK, Goto, AfterCache, AfterRun, AfterDescription, files, metadata, caller
<1>15. ASSUME NEW p \in Proc, CountColumns(p) PROVE PosOK'
  BY <1>15, Zenon DEF CountColumns, PosOK, TypeOK, Goto, AfterCache, AfterRun, AfterDescription, files, metadata, caller
<1>16. ASSUME NEW p \in Proc, ReadColumn(p) PROVE PosOK'
  BY <1>16, ZenonT(60) DEF ReadColumn, PosOK, TypeOK, Goto, AfterCache, AfterRun, AfterDescription, files, metadata, caller
<1>17. ASSUME NEW p \in Proc, DescriptionDone(p) PROVE PosOK'
  BY <1>17, Zenon DEF DescriptionDone, PosOK, TypeOK, Goto, AfterCache, AfterRun, AfterDescription, files, metadata, caller
<1>18. ASSUME NEW p \in Proc, ReadOutputKey(p) PROVE PosOK'
  BY <1>18, Zenon DEF ReadOutputKey, PosOK, TypeOK, Goto, AfterCache, AfterRun, AfterDescription, files, metadata, caller
<1>19. ASSUME NEW p \in Proc, Crash(p) PROVE PosOK'
  BY <1>19, Zenon DEF Crash, PosOK, TypeOK, Goto, AfterCache, AfterRun, AfterDescription, files, metadata, caller, Release
<1>20. ASSUME NEW p \in Proc, Restart(p) PROVE PosOK'
  BY <1>20, Zenon DEF Restart, PosOK, TypeOK, Goto, AfterCache, AfterRun, AfterDescription, files, metadata, caller
<1>21. CASE UNCHANGED vars
  BY <1>21, Zenon DEF vars, PosOK, TypeOK, Goto, AfterCache, AfterRun, AfterDescription, files, metadata, caller
<1>22. QED
  BY <1>1, <1>2, <1>3, <1>4, <1>5, <1>6, <1>7, <1>8, <1>9, <1>10, <1>11, <1>12, <1>13, <1>14, <1>15, <1>16, <1>17, <1>18, <1>19, <1>20, <1>21, Zenon DEF Next, Step

LEMMA BaseInit == Init => Base
BY ConstantTypes, FileFacts DEF Init, Base, TypeOK, FdOK, PosOK, PC, FdState

\* The three parts of Base hold of every behaviour.
LEMMA BaseInvariant == Spec => []Base
<1>1. Base /\ [Next]_vars => Base'
  BY TypeOKStep, FdOKStep, PosOKStep, Zenon DEF Base
<1>2. QED
  BY BaseInit, <1>1, PTL DEF Spec

\* Type correctness of the plan cache: in particular no metadata node beyond
\* the last column is ever set and no block is written to a missing file.
THEOREM TypeCorrect == Spec => []TypeOK
BY BaseInvariant, PTL DEF Base

----------------------------------------------------------------------------
(* While no wait for a file lock runs out the lock excludes, so a visible  *)
(* plan file is whole and never changes.                                   *)

\* From the lock to its release the process holds it.
LockInv == \A p \in Proc : Emitting(p) => lock[plan[p]] = p

\* Until its own rename, a generating process has seen no plan file.
NotYetVisible ==
  \A p \in Proc : pc[p] \in {"emit", "write"} => planFile[plan[p]] = NoFile

\* The temporary file holds what its writer has written so far.
TmpPrefix == \A p \in Proc :
  /\ fd[p] \in {"none", "xref", "tmp"}
  /\ fd[p] = "tmp" => tmpFile[plan[p]] = 1 .. pos[p] - 1

Excl == LockInv /\ NotYetVisible /\ TmpPrefix /\ PlanFileComplete

LEMMA ExclStep ==
  ASSUME LockExpires = FALSE, Base, Excl, [Next]_vars
  PROVE  Excl'
<1> USE ConstantTypes DEF Base
<1>1. ASSUME NEW p \in Proc, StartQuery(p) PROVE Excl'
  BY <1>1, ZenonT(60) DEF StartQuery, Excl, LockInv, NotYetVisible, TmpPrefix, PlanFileComplete, Emitting, FdOK, TypeOK, Goto, AfterCache, AfterRun, AfterDescription, files, metadata, caller
<1>2. ASSUME NEW p \in Proc, Access(p) PROVE Excl'
  BY <1>2, Zenon DEF Access, Excl, LockInv, NotYetVisible, TmpPrefix, PlanFileComplete, Emitting, FdOK, TypeOK, Goto, AfterCache, AfterRun, AfterDescription, files, metadata, caller
<1>3. ASSUME NEW p \in Proc, Lock(p) PROVE Excl'
  BY <1>3, SMTT(60) DEF Lock, Excl, LockInv, NotYetVisible, TmpPrefix, PlanFileComplete, Emitting, FdOK, TypeOK, Goto, AfterCache, AfterRun, AfterDescription, files, metadata, caller
<1>4. ASSUME NEW p \in Proc, LockTimeout(p) PROVE Excl'
  BY <1>4, Zenon DEF LockTimeout, Excl, LockInv, NotYetVisible, TmpPrefix, PlanFileComplete, Emitting, FdOK, TypeOK, Goto, AfterCache, AfterRun, AfterDescription, files, metadata, caller
<1>5. ASSUME NEW p \in Proc, Recheck(p) PROVE Excl'
  BY <1>5, Zenon DEF Recheck, Excl, LockInv, NotYetVisible, TmpPrefix, PlanFileComplete, Emitting, FdOK, TypeOK, Goto, AfterCache, AfterRun, AfterDescription, files, metadata, caller
<1>6. ASSUME NEW p \in Proc, EmitRejected(p) PROVE Excl'
  BY <1>6 DEF EmitRejected, Excl, LockInv, NotYetVisible, TmpPrefix, PlanFileComplete, Emitting, FdOK, TypeOK, Goto, AfterCache, AfterRun, AfterDescription, files, metadata, caller, Release
<1>7. ASSUME NEW p \in Proc, OpenXref(p) PROVE Excl'
  BY <1>7, ZenonT(60) DEF OpenXref, Excl, LockInv, NotYetVisible, TmpPrefix, PlanFileComplete, Emitting, FdOK, TypeOK, Goto, AfterCache, AfterRun, AfterDescription, files, metadata, caller
<1>8. ASSUME NEW p \in Proc, OpenTmp(p) PROVE Excl'
  BY <1>8, SMTT(60) DEF OpenTmp, Excl, LockInv, NotYetVisible, TmpPrefix, PlanFileComplete, Emitting, FdOK, TypeOK, Goto, AfterCache, AfterRun, AfterDescription, files, metadata, caller
<1>9. ASSUME NEW p \in Proc, WriteBlock(p) PROVE Excl'
  <2>1. UNCHANGED planFile
    BY <1>9, Zenon DEF WriteBlock, Excl, TmpPrefix
  <2>2. LockInv' /\ NotYetVisible' /\ PlanFileComplete'
    BY <1>9, <2>1, Zenon DEF WriteBlock, Excl, LockInv, NotYetVisible, PlanFileComplete, Emitting, caller
  <2>3. ASSUME NEW q \in Proc PROVE TmpPrefix!(q)'
    <3>1. CASE q = p
      <4>1. CASE fd[p] = "tmp"
        <5>1. tmpFile'[plan[p]] = (1 .. pos[p] - 1) \cup {pos[p]}
          BY <1>9, <4>1, ZenonT(60) DEF WriteBlock, Excl, TmpPrefix, TypeOK
        <5>2. pos'[p] = pos[p] + 1 /\ pos[p] \in Nat /\ pos[p] >= 1
          BY <1>9 DEF WriteBlock, TypeOK, PosOK
        <5>3. (1 .. pos[p] - 1) \cup {pos[p]} = 1 .. (pos[p] + 1) - 1
          BY <5>2
        <5>4. QED
          BY ZenonT(40), <1>9, <3>1, <5>1, <5>2, <5>3 DEF WriteBlock, Excl, TmpPrefix, caller
      <4>2. CASE fd[p] # "tmp"
        BY <1>9, <3>1, <4>2, Zenon DEF WriteBlock, Excl, TmpPrefix, caller
      <4>3. QED
        BY <4>1, <4>2, Zenon
    <3>2. CASE q # p
      <4>1. fd[q] = "tmp" => plan[q] # plan[p]
        BY <1>9, <3>2, SMTT(60) DEF WriteBlock, FdOK, Excl, LockInv, Emitting
      <4>2. pos'[q] = pos[q] /\ UNCHANGED <<fd, plan>>
        BY <1>9, <3>2, Zenon DEF WriteBlock, TypeOK, caller
      <4>3. fd[q] = "tmp" => tmpFile'[plan[q]] = tmpFile[plan[q]]
        BY <1>9, <4>1, Zenon DEF WriteBlock, TypeOK
      <4>4. QED
        BY <4>2, <4>3, ZenonT(60) DEF Excl, TmpPrefix
    <3>3. QED
      BY <3>1, <3>2, Zenon
  <2>4. TmpPrefix'
    BY <2>3, Zenon DEF TmpPrefix
  <2>5. QED
    BY <2>2, <2>4, Zenon DEF Excl
<1>10. ASSUME NEW p \in Proc, CloseXref(p) PROVE Excl'
  BY <1>10, ZenonT(60) DEF CloseXref, Excl, LockInv, NotYetVisible, TmpPrefix, PlanFileComplete, Emitting, FdOK, TypeOK, Goto, AfterCache, AfterRun, AfterDescription, files, metadata, caller
<1>11. ASSUME NEW p \in Proc, RenamePlan(p) PROVE Excl'
  <2>1. fd[p] = "tmp"
    BY <1>11, Zenon DEF RenamePlan, Excl, TmpPrefix
  <2>2. tmpFile[plan[p]] = Block
    <3>1. pos[p] - 1 = NumBlocks
      BY <1>11 DEF RenamePlan, PosOK
    <3>2. QED
      BY <2>1, <3>1, Zenon DEF Excl, TmpPrefix, Block
  <2>3. \A q \in Proc : q # p /\ Emitting(q) => plan[q] # plan[p]
    BY <1>11, Zenon DEF RenamePlan, Excl, LockInv, Emitting
  <2>4. /\ planFile' = [planFile EXCEPT ![plan[p]] = Block]
        /\ tmpFile' = [tmpFile EXCEPT ![plan[p]] = NoFile]
        /\ \A q \in Proc : fd'[q] = FdAfterRename(q, p, plan[p])
    BY <1>11, <2>2, FileFacts, Zenon DEF RenamePlan
  <2>5. \A q \in Proc : q # p => fd'[q] = fd[q]
    BY <2>3, <2>4, Zenon DEF FdOK, FdAfterRename, Emitting
  <2>6. fd'[p] = "none"
    BY <2>4, Zenon DEF FdAfterRename
  <2>7. LockInv'
    BY <1>11, Zenon DEF RenamePlan, Excl, LockInv, Emitting, Goto, TypeOK, caller
  <2>8. NotYetVisible'
    BY <1>11, <2>3, <2>4, Zenon DEF RenamePlan, Excl, NotYetVisible, Emitting, Goto, TypeOK, caller
  <2>9. TmpPrefix'
    <3>1. ASSUME NEW q \in Proc, q # p, fd[q] = "tmp"
          PROVE tmpFile'[plan[q]] = tmpFile[plan[q]] /\ pos'[q] = pos[q]
      BY <1>11, <2>3, <2>4, <3>1, Zenon DEF RenamePlan, FdOK, TypeOK, Emitting
    <3>2. QED
      BY <1>11, <2>5, <2>6, <3>1, ZenonT(60) DEF RenamePlan, Excl, TmpPrefix, caller
  <2>10. PlanFileComplete'
    BY <2>4, Zenon DEF Excl, PlanFileComplete, TypeOK
  <2>11. QED
    BY <2>7, <2>8, <2>9, <2>10, Zenon DEF Excl
<1>12. ASSUME NEW p \in Proc, SetMetadata(p) PROVE Excl'
  BY <1>12, ZenonT(60) DEF SetMetadata, Excl, LockInv, NotYetVisible, TmpPrefix, PlanFileComplete, Emitting, FdOK, TypeOK, Goto, AfterCache, AfterRun, AfterDescription, files, metadata, caller
<1>13. ASSUME NEW p \in Proc, Unlock(p) PROVE Excl'
  BY <1>13, SMTT(60) DEF Unlock, Excl, LockInv, NotYetVisible, TmpPrefix, PlanFileComplete, Emitting, FdOK, TypeOK, Goto, AfterCache, AfterRun, AfterDescription, files, metadata, caller, Release
<1>14. ASSUME NEW p \in Proc, RunPlan(p) PROVE Excl'
  BY <1>14, SMTT(60) DEF RunPlan, Excl, LockInv, NotYetVisible, TmpPrefix, PlanFileComplete, Emitting, FdOK, TypeOK, Goto, AfterCache, AfterRun, AfterDescription, files, metadata, caller
<1>15. ASSUME NEW p \in Proc, CountColumns(p) PROVE Excl'
  BY <1>15, Zenon DEF CountColumns, Excl, LockInv, NotYetVisible, TmpPrefix, PlanFileComplete, Emitting, FdOK, TypeOK, Goto, AfterCache, AfterRun, AfterDescription, files, metadata, caller
<1>16. ASSUME NEW p \in Proc, ReadColumn(p) PROVE Excl'
  <2>1. /\ pc[p] = "read" /\ (pc' = pc \/ Goto(p, "fatal"))
        /\ UNCHANGED <<planFile, tmpFile, xrefFile, keySet, nodes, xrefDone, lock, plan, kind, fd, xi>>
    BY <1>16, Zenon DEF ReadColumn, files, metadata, caller
  <2>2. pos' = [pos EXCEPT ![p] = @ + 1]
    BY <1>16, Zenon DEF ReadColumn
  <2>3. QED
    BY <2>1, <2>2, ZenonT(60) DEF Excl, LockInv, NotYetVisible, TmpPrefix, PlanFileComplete, Emitting, FdOK, TypeOK, Goto
<1>17. ASSUME NEW p \in Proc, DescriptionDone(p) PROVE Excl'
  BY <1>17, Zenon DEF DescriptionDone, Excl, LockInv, NotYetVisible, TmpPrefix, PlanFileComplete, Emitting, FdOK, TypeOK, Goto, AfterCache, AfterRun, AfterDescription, files, metadata, caller
<1>18. ASSUME NEW p \in Proc, ReadOutputKey(p) PROVE Excl'
  BY <1>18, Zenon DEF ReadOutputKey, Excl, LockInv, NotYetVisible, TmpPrefix, PlanFileComplete, Emitting, FdOK, TypeOK, Goto, AfterCache, AfterRun, AfterDescription, files, metadata, caller
<1>19. ASSUME NEW p \in Proc, Crash(p) PROVE Excl'
  <2>1. UNCHANGED <<files, plan, pos>> /\ \A q \in Proc : q # p => pc'[q] = pc[q] /\ fd'[q] = fd[q]
    BY <1>19, Zenon DEF Crash, Goto, TypeOK, caller
  <2>2. pc'[p] = "fatal" /\ fd'[p] = "none"
    BY <1>19, Zenon DEF Crash, Goto, TypeOK
  <2>3. ASSUME NEW q \in Proc, Emitting(q)' PROVE lock'[plan'[q]] = q
    <3>1. q # p /\ Emitting(q)
      BY <2>1, <2>2, <2>3, Zenon DEF Emitting
    <3>2. lock[plan[q]] = q
      BY <3>1, Zenon DEF Excl, LockInv
    <3>3. lock'[plan[q]] = lock[plan[q]]
      BY <1>19, <3>1, <3>2, Zenon DEF Crash, Release, TypeOK
    <3>4. QED
      BY <2>1, <3>2, <3>3, Zenon
  <2>4. LockInv'
    BY <2>3, Zenon DEF LockInv
  <2>5. NotYetVisible' /\ PlanFileComplete'
    BY <2>1, <2>2, Zenon DEF Excl, NotYetVisible, PlanFileComplete, files
  <2>6. TmpPrefix'
    BY <2>1, <2>2, Zenon DEF Excl, TmpPrefix, files
  <2>7. QED
    BY <2>4, <2>5, <2>6, Zenon DEF Excl
<1>20. ASSUME NEW p \in Proc, Restart(p) PROVE Excl'
  BY <1>20, Zenon DEF Restart, Excl, LockInv, NotYetVisible, TmpPrefix, PlanFileComplete, Emitting, FdOK, TypeOK, Goto, AfterCache, AfterRun, AfterDescription, files, metadata, caller
<1>21. CASE UNCHANGED vars
  BY <1>21, Zenon DEF vars, Excl, LockInv, NotYetVisible, TmpPrefix, PlanFileComplete, Emitting, FdOK, TypeOK, Goto, AfterCache, AfterRun, AfterDescription, files, metadata, caller
<1>22. QED
  BY <1>1, <1>2, <1>3, <1>4, <1>5, <1>6, <1>7, <1>8, <1>9, <1>10, <1>11, <1>12, <1>13, <1>14, <1>15, <1>16, <1>17, <1>18, <1>19, <1>20, <1>21, Zenon DEF Next, Step

LEMMA ExclInvariant ==
  ASSUME LockExpires = FALSE
  PROVE  Spec => []Excl
<1>1. Init => Excl
  BY ZenonT(60) DEF Init, Excl, LockInv, NotYetVisible, TmpPrefix, PlanFileComplete, Emitting
<1>2. Base /\ Excl /\ [Next]_vars => Excl'
  BY ZenonT(40), ExclStep
<1>3. QED
  BY <1>1, <1>2, BaseInvariant, PTL DEF Spec

\* A visible plan file is whole, for any number of processes and deaths, as
\* long as no wait for the file lock runs out.
THEOREM PlanFilesWhole ==
  ASSUME LockExpires = FALSE
  PROVE  Spec => []PlanFileComplete
BY ExclInvariant, PTL DEF Excl

\* A visible plan file is never modified, replaced or generated again, for
\* any number of processes and deaths, as long as no wait for the file lock
\* runs out.
THEOREM PlanFilesImmutable ==
  ASSUME LockExpires = FALSE
  PROVE  Spec => PlanFileImmutable
<1> DEFINE Kept == \A f \in Plan : planFile[f] # NoFile =>
                     planFile'[f] = planFile[f] /\ tmpFile'[f] = tmpFile[f]
<1>1. ASSUME Base, Excl, NEW p \in Proc, WriteBlock(p) PROVE Kept
  <2>1. planFile[plan[p]] = NoFile /\ UNCHANGED planFile
    BY <1>1, Zenon DEF WriteBlock, Excl, NotYetVisible, TmpPrefix
  <2>2. \A f \in Plan : f # plan[p] => tmpFile'[f] = tmpFile[f]
    BY <1>1, Zenon DEF WriteBlock, Base, TypeOK
  <2>3. QED
    BY <2>1, <2>2, Zenon
<1>2. ASSUME Base, Excl, NEW p \in Proc, RenamePlan(p) PROVE Kept
  BY <1>2, Zenon DEF RenamePlan, Base, TypeOK, Excl, NotYetVisible, files
<1>3. ASSUME Base, Excl, NEW p \in Proc, OpenTmp(p) PROVE Kept
  BY <1>3, Zenon DEF OpenTmp, Base, TypeOK, Excl, NotYetVisible
<1>4. ASSUME NEW p \in Proc, StartQuery(p) \/ Step(p) \/ Crash(p) \/ Restart(p),
             ~WriteBlock(p), ~RenamePlan(p), ~OpenTmp(p)
      PROVE  UNCHANGED <<planFile, tmpFile>>
  BY ZenonT(40), <1>4 DEF Step, files, StartQuery, Access, Lock, LockTimeout, Recheck,
     EmitRejected, OpenXref, CloseXref, SetMetadata, Unlock, RunPlan,
     CountColumns, ReadColumn, DescriptionDone, ReadOutputKey, Crash, Restart
<1>5. Base /\ Excl /\ [Next]_vars => [Kept]_<<planFile, tmpFile>>
  BY <1>1, <1>2, <1>3, <1>4, Zenon DEF Next, vars, files
<1>6. QED
  BY <1>5, BaseInvariant, ExclInvariant, PTL DEF Spec, PlanFileImmutable

----------------------------------------------------------------------------
(* While no process dies, lock waits running out or not, what is missing   *)
(* from a file or from its metadata has a live writer.                     *)

\* PlanFileHealed for the temporary name, which the next rename needs.
TmpFileHealed ==
  \A f \in Plan : tmpFile[f] # NoFile =>
    \A b \in Block \ tmpFile[f] : \E p \in Proc : WillWritePlan(p, "tmp", f, b)

\* A block missing from a cross reference routine has a live writer, whichever
\* plan's text that process writes.
XrefBlocksHealed ==
  \A x \in Xref : xrefFile[x] # NoFile =>
    \A b \in Block \ xrefFile[x] : \E p \in Proc : WillWriteXref(p, x, b)

Heal == PlanFileHealed /\ TmpFileHealed /\ XrefBlocksHealed

\* p goes on writing the file it was writing
SameWriter(p) ==
  /\ pc'[p] = pc[p] /\ plan'[p] = plan[p] /\ fd'[p] = fd[p]
  /\ pos'[p] = pos[p] /\ xi'[p] = xi[p]

\* Whoever was going to write a block of a file still is
PlanWritersStay(n) ==
  \A q \in Proc, f \in Plan, b \in Block :
    WillWritePlan(q, n, f, b) => WillWritePlan(q, n, f, b)'
XrefWritersStay ==
  \A q \in Proc, x \in Xref, b \in Block :
    WillWriteXref(q, x, b) => WillWriteXref(q, x, b)'

LEMMA PlanHealedKept ==
  ASSUME PlanFileHealed, planFile' = planFile, PlanWritersStay("plan")
  PROVE  PlanFileHealed'
BY Zenon DEF PlanFileHealed, PlanWritersStay

LEMMA TmpHealedKept ==
  ASSUME TmpFileHealed, tmpFile' = tmpFile, PlanWritersStay("tmp")
  PROVE  TmpFileHealed'
BY Zenon DEF TmpFileHealed, PlanWritersStay

LEMMA XrefHealedKept ==
  ASSUME XrefBlocksHealed, xrefFile' = xrefFile, XrefWritersStay
  PROVE  XrefBlocksHealed'
BY Zenon DEF XrefBlocksHealed, XrefWritersStay

\* A process past its last block is not going to write any.
LEMMA NothingLeft ==
  ASSUME Base, NEW q \in Proc, pos[q] > NumBlocks, NEW b \in Block
  PROVE  /\ \A n, f : ~WillWritePlan(q, n, f, b)
         /\ \A x : ~WillWriteXref(q, x, b)
<1>1. ~(pos[q] <= b)
  BY ConstantTypes DEF Base, TypeOK, Block
<1>2. QED
  BY <1>1, Zenon DEF WillWritePlan, WillWriteXref

LEMMA WritersStay ==
  ASSUME Base, \A q \in Proc : pc[q] = "write" => SameWriter(q) \/ pos[q] > NumBlocks
  PROVE  PlanWritersStay("plan") /\ PlanWritersStay("tmp") /\ XrefWritersStay
<1>1. ASSUME NEW q \in Proc, NEW n, NEW f \in Plan, NEW b \in Block,
             WillWritePlan(q, n, f, b)
      PROVE  WillWritePlan(q, n, f, b)'
  <2>1. pc[q] = "write" /\ ~(pos[q] > NumBlocks)
    BY <1>1, NothingLeft, Zenon DEF WillWritePlan
  <2>2. SameWriter(q)
    BY <2>1, Zenon
  <2>3. QED
    BY <1>1, <2>2, Zenon DEF WillWritePlan, SameWriter
<1>2. ASSUME NEW q \in Proc, NEW x \in Xref, NEW b \in Block, WillWriteXref(q, x, b)
      PROVE  WillWriteXref(q, x, b)'
  <2>1. pc[q] = "write" /\ ~(pos[q] > NumBlocks)
    BY <1>2, NothingLeft, Zenon DEF WillWriteXref
  <2>2. SameWriter(q)
    BY <2>1, Zenon
  <2>3. QED
    BY <1>2, <2>2, Zenon DEF WillWriteXref, SameWriter
<1>3. QED
  BY <1>1, <1>2, Zenon DEF PlanWritersStay, XrefWritersStay

LEMMA HealQuiet ==
  ASSUME Base, Heal, UNCHANGED files,
         \A q \in Proc : pc[q] = "write" => SameWriter(q) \/ pos[q] > NumBlocks
  PROVE  Heal'
BY WritersStay, PlanHealedKept, TmpHealedKept, XrefHealedKept, Zenon DEF Heal, files

LEMMA HealOpenXref ==
  ASSUME Base, Heal, NEW p \in Proc, OpenXref(p)
  PROVE  Heal'
<1> DEFINE y == XrefSeq[plan[p]][xi[p]]
<1>1. \A q \in Proc : pc[q] = "write" => SameWriter(q)
  BY Zenon DEF OpenXref, SameWriter, Goto, Base, TypeOK, caller
<1>2. XrefWritersStay /\ PlanWritersStay("plan") /\ PlanWritersStay("tmp")
  BY <1>1, WritersStay, Zenon
<1>3. planFile' = planFile /\ tmpFile' = tmpFile
  BY Zenon DEF OpenXref
<1>4. ASSUME NEW x \in Xref, xrefFile'[x] # NoFile, NEW b \in Block \ xrefFile'[x]
      PROVE  \E q \in Proc : WillWriteXref(q, x, b)'
  <2>1. CASE x = y
    <3>1. WillWriteXref(p, x, b)'
      BY <2>1, ConstantTypes DEF OpenXref, WillWriteXref, Goto, Base, TypeOK, Block, caller
    <3>2. QED
      BY <3>1, Zenon
  <2>2. CASE x # y
    <3>1. xrefFile'[x] = xrefFile[x]
      BY <2>2, Zenon DEF OpenXref, Base, TypeOK
    <3>2. QED
      BY <1>2, <1>4, <3>1, Zenon DEF Heal, XrefBlocksHealed, XrefWritersStay
  <2>3. QED
    BY <2>1, <2>2, Zenon
<1>5. XrefBlocksHealed'
  BY <1>4, Zenon DEF XrefBlocksHealed
<1>6. QED
  BY <1>2, <1>3, <1>5, PlanHealedKept, TmpHealedKept, Zenon DEF Heal

LEMMA HealOpenTmp ==
  ASSUME Base, Heal, NEW p \in Proc, OpenTmp(p)
  PROVE  Heal'
<1>1. \A q \in Proc : pc[q] = "write" => SameWriter(q)
  BY Zenon DEF OpenTmp, SameWriter, Goto, Base, TypeOK, caller
<1>2. XrefWritersStay /\ PlanWritersStay("plan") /\ PlanWritersStay("tmp")
  BY <1>1, WritersStay, Zenon
<1>3. planFile' = planFile /\ xrefFile' = xrefFile
  BY Zenon DEF OpenTmp
<1>4. ASSUME NEW f \in Plan, tmpFile'[f] # NoFile, NEW b \in Block \ tmpFile'[f]
      PROVE  \E q \in Proc : WillWritePlan(q, "tmp", f, b)'
  <2>1. CASE f = plan[p]
    <3>1. WillWritePlan(p, "tmp", f, b)'
      BY <2>1, ConstantTypes DEF OpenTmp, WillWritePlan, Goto, Base, TypeOK, Block, caller
    <3>2. QED
      BY <3>1, Zenon
  <2>2. CASE f # plan[p]
    <3>1. tmpFile'[f] = tmpFile[f]
      BY <2>2, Zenon DEF OpenTmp, Base, TypeOK
    <3>2. QED
      BY <1>2, <1>4, <3>1, Zenon DEF Heal, TmpFileHealed, PlanWritersStay
  <2>3. QED
    BY <2>1, <2>2, Zenon
<1>5. TmpFileHealed'
  BY <1>4, Zenon DEF TmpFileHealed
<1>6. QED
  BY <1>2, <1>3, <1>5, PlanHealedKept, XrefHealedKept, Zenon DEF Heal

\* A block still ahead of a writer, other than the next one, is ahead of it
\* when it has written the next one.
LEMMA NextBlock ==
  ASSUME NEW n \in Nat, NEW b \in Block, n <= b, b # n
  PROVE  n + 1 <= b
  BY PlanCacheAssumption DEF Block

LEMMA HealWriteBlock ==
  ASSUME Base, Heal, NEW p \in Proc, WriteBlock(p)
  PROVE  Heal'
<1>1. \A q \in Proc : q # p => SameWriter(q)
  BY Zenon DEF WriteBlock, SameWriter, Base, TypeOK, caller
<1>2. /\ pc'[p] = "write" /\ plan'[p] = plan[p] /\ fd'[p] = fd[p] /\ xi'[p] = xi[p]
      /\ pos[p] \in Nat /\ pos'[p] = pos[p] + 1
  BY Zenon DEF WriteBlock, Base, TypeOK, caller
<1>3. \A q \in Proc, n \in FdState, f \in Plan, b \in Block :
        WillWritePlan(q, n, f, b) =>
          WillWritePlan(q, n, f, b)' \/ (q = p /\ f = plan[p] /\ n = fd[p] /\ b = pos[p])
  <2>1. ASSUME NEW n \in FdState, NEW f \in Plan, NEW b \in Block, WillWritePlan(p, n, f, b), b # pos[p]
        PROVE  WillWritePlan(p, n, f, b)'
    <3>1. pos'[p] <= b
      BY <1>2, <2>1, NextBlock, Zenon DEF WillWritePlan
    <3>2. QED
      BY <1>2, <2>1, <3>1, Zenon DEF WillWritePlan
  <2>2. ASSUME NEW q \in Proc, q # p, NEW n \in FdState, NEW f \in Plan, NEW b \in Block,
               WillWritePlan(q, n, f, b)
        PROVE  WillWritePlan(q, n, f, b)'
    BY <1>1, <2>2, Zenon DEF WillWritePlan, SameWriter
  <2>3. \A n \in FdState, f \in Plan, b \in Block :
          WillWritePlan(p, n, f, b) => f = plan[p] /\ n = fd[p]
    BY Zenon DEF WillWritePlan
  <2>4. QED
    BY <2>1, <2>2, <2>3, Zenon
<1>4. \A q \in Proc, x \in Xref, b \in Block :
        WillWriteXref(q, x, b) =>
          \/ WillWriteXref(q, x, b)'
          \/ q = p /\ fd[p] = "xref" /\ x = XrefSeq[plan[p]][xi[p]] /\ b = pos[p]
  <2>1. ASSUME NEW x \in Xref, NEW b \in Block, WillWriteXref(p, x, b), b # pos[p]
        PROVE  WillWriteXref(p, x, b)'
    <3>1. pos'[p] <= b
      BY <1>2, <2>1, NextBlock, Zenon DEF WillWriteXref
    <3>2. QED
      BY <1>2, <2>1, <3>1, Zenon DEF WillWriteXref
  <2>2. ASSUME NEW q \in Proc, q # p, NEW x \in Xref, NEW b \in Block, WillWriteXref(q, x, b)
        PROVE  WillWriteXref(q, x, b)'
    BY <1>1, <2>2, Zenon DEF WillWriteXref, SameWriter
  <2>3. \A x \in Xref, b \in Block :
          WillWriteXref(p, x, b) => fd[p] = "xref" /\ x = XrefSeq[plan[p]][xi[p]]
    BY Zenon DEF WillWriteXref
  <2>4. QED
    BY <2>1, <2>2, <2>3, Zenon
<1>5. PlanFileHealed'
  <2>1. ASSUME NEW f \in Plan, planFile'[f] # NoFile, NEW b \in Block \ planFile'[f]
        PROVE  \E q \in Proc : WillWritePlan(q, "plan", f, b)'
    <3>1. planFile[f] # NoFile /\ b \notin planFile[f]
      BY <2>1, Zenon DEF WriteBlock, Base, TypeOK, FdOK
    <3>2. PICK q \in Proc : WillWritePlan(q, "plan", f, b)
      BY <3>1, <2>1, Zenon DEF Heal, PlanFileHealed
    <3>3. ~(f = plan[p] /\ fd[p] = "plan" /\ b = pos[p])
      BY <2>1, Zenon DEF WriteBlock, Base, TypeOK
    <3>4. QED
      BY <1>3, <3>2, <3>3, Zenon DEF FdState
  <2>2. QED
    BY <2>1, Zenon DEF PlanFileHealed
<1>6. TmpFileHealed'
  <2>1. ASSUME NEW f \in Plan, tmpFile'[f] # NoFile, NEW b \in Block \ tmpFile'[f]
        PROVE  \E q \in Proc : WillWritePlan(q, "tmp", f, b)'
    <3>1. tmpFile[f] # NoFile /\ b \notin tmpFile[f]
      BY <2>1, Zenon DEF WriteBlock, Base, TypeOK, FdOK
    <3>2. PICK q \in Proc : WillWritePlan(q, "tmp", f, b)
      BY <3>1, <2>1, Zenon DEF Heal, TmpFileHealed
    <3>3. ~(f = plan[p] /\ fd[p] = "tmp" /\ b = pos[p])
      BY <2>1, Zenon DEF WriteBlock, Base, TypeOK
    <3>4. QED
      BY <1>3, <3>2, <3>3, Zenon DEF FdState
  <2>2. QED
    BY <2>1, Zenon DEF TmpFileHealed
<1>7. XrefBlocksHealed'
  <2>1. ASSUME NEW x \in Xref, xrefFile'[x] # NoFile, NEW b \in Block \ xrefFile'[x]
        PROVE  \E q \in Proc : WillWriteXref(q, x, b)'
    <3>1. xrefFile[x] # NoFile /\ b \notin xrefFile[x]
      BY <2>1, Zenon DEF WriteBlock, Base, TypeOK, FdOK
    <3>2. PICK q \in Proc : WillWriteXref(q, x, b)
      BY <3>1, <2>1, Zenon DEF Heal, XrefBlocksHealed
    <3>3. ~(fd[p] = "xref" /\ x = XrefSeq[plan[p]][xi[p]] /\ b = pos[p])
      BY <2>1, Zenon DEF WriteBlock, Base, TypeOK
    <3>4. QED
      BY <1>4, <3>2, <3>3, Zenon
  <2>2. QED
    BY <2>1, Zenon DEF XrefBlocksHealed
<1>8. QED
  BY <1>5, <1>6, <1>7, Zenon DEF Heal

LEMMA HealCloseXref ==
  ASSUME Base, Heal, NEW p \in Proc, CloseXref(p)
  PROVE  Heal'
<1>1. \A q \in Proc : q # p => SameWriter(q)
  BY Zenon DEF CloseXref, SameWriter, Goto, Base, TypeOK, caller
<1>2. UNCHANGED files /\ pos[p] > NumBlocks
  BY Zenon DEF CloseXref
<1>3. QED
  BY <1>1, <1>2, HealQuiet, Zenon

\* Another process's open file after a rename that succeeds
LEMMA RenameOthers ==
  ASSUME Base, NEW p \in Proc, RenamePlan(p), tmpFile[plan[p]] # NoFile,
         NEW q \in Proc, q # p
  PROVE  /\ pc'[q] = pc[q] /\ plan'[q] = plan[q] /\ pos'[q] = pos[q] /\ xi'[q] = xi[q]
         /\ plan[q] = plan[p] /\ fd[q] = "tmp" => fd'[q] = "plan"
         /\ plan[q] = plan[p] /\ fd[q] = "plan" => fd'[q] = "gone"
         /\ ~(plan[q] = plan[p] /\ fd[q] \in {"tmp", "plan"}) => fd'[q] = fd[q]
<1>1. fd'[q] = FdAfterRename(q, p, plan[p])
  BY Zenon DEF RenamePlan
<1>2. /\ plan[q] = plan[p] /\ fd[q] = "tmp" => fd'[q] = "plan"
      /\ plan[q] = plan[p] /\ fd[q] = "plan" => fd'[q] = "gone"
      /\ ~(plan[q] = plan[p] /\ fd[q] \in {"tmp", "plan"}) => fd'[q] = fd[q]
  <2>1. CASE plan[q] = plan[p] /\ fd[q] = "tmp"
    BY <1>1, <2>1, Zenon DEF FdAfterRename
  <2>2. CASE plan[q] = plan[p] /\ fd[q] = "plan"
    BY <1>1, <2>2, Zenon DEF FdAfterRename
  <2>3. CASE ~(plan[q] = plan[p] /\ fd[q] \in {"tmp", "plan"})
    BY <1>1, <2>3, Zenon DEF FdAfterRename
  <2>4. QED
    BY <2>1, <2>2, <2>3, Zenon
<1>3. QED
  BY <1>2, Zenon DEF RenamePlan, Goto, Base, TypeOK, caller

LEMMA HealRenamePlan ==
  ASSUME Base, Heal, NEW p \in Proc, RenamePlan(p)
  PROVE  Heal'
<1>1. pos[p] > NumBlocks
  BY Zenon DEF RenamePlan
<1>2. CASE tmpFile[plan[p]] = NoFile
  <2>1. UNCHANGED files
    BY <1>2, Zenon DEF RenamePlan
  <2>2. \A q \in Proc : q # p => SameWriter(q)
    BY <1>2, Zenon DEF RenamePlan, SameWriter, Goto, Base, TypeOK, caller
  <2>3. QED
    BY <1>1, <2>1, <2>2, HealQuiet, Zenon
<1>3. CASE tmpFile[plan[p]] # NoFile
  <2>1. /\ planFile' = [planFile EXCEPT ![plan[p]] = tmpFile[plan[p]]]
        /\ tmpFile' = [tmpFile EXCEPT ![plan[p]] = NoFile]
        /\ xrefFile' = xrefFile
    BY <1>3, Zenon DEF RenamePlan
  <2>2. /\ planFile'[plan[p]] = tmpFile[plan[p]]
        /\ tmpFile'[plan[p]] = NoFile
        /\ \A f \in Plan : f # plan[p] => planFile'[f] = planFile[f] /\ tmpFile'[f] = tmpFile[f]
    BY <2>1, Zenon DEF Base, TypeOK
  \* Writers of the temporary file of plan[p] become writers of the plan file
  <2>3. ASSUME NEW q \in Proc, NEW f \in Plan, NEW b \in Block,
               f = plan[p], WillWritePlan(q, "tmp", f, b)
        PROVE  WillWritePlan(q, "plan", f, b)'
    <3>1. q # p
      BY <1>1, <2>3, NothingLeft, Zenon
    <3>2. plan[q] = plan[p] /\ fd[q] = "tmp" /\ pc[q] = "write" /\ pos[q] <= b
      BY <2>3, Zenon DEF WillWritePlan
    <3>3. /\ pc'[q] = pc[q] /\ plan'[q] = plan[q] /\ pos'[q] = pos[q]
          /\ fd'[q] = "plan"
      BY <1>3, <3>1, <3>2, RenameOthers, Zenon
    <3>4. plan'[q] = f /\ fd'[q] = "plan" /\ pc'[q] = "write" /\ pos'[q] <= b
      BY <2>3, <3>2, <3>3, Zenon
    <3>5. QED
      BY <3>4, Zenon DEF WillWritePlan
  \* Writers of other files go on
  <2>4. ASSUME NEW q \in Proc, NEW n, NEW f \in Plan, NEW b \in Block,
               f # plan[p], WillWritePlan(q, n, f, b)
        PROVE  WillWritePlan(q, n, f, b)'
    <3>1. q # p
      BY <1>1, <2>4, NothingLeft, Zenon
    <3>2. plan[q] # plan[p]
      BY <2>4, Zenon DEF WillWritePlan
    <3>3. SameWriter(q)
      BY <1>3, <3>1, <3>2, RenameOthers, Zenon DEF SameWriter
    <3>4. QED
      BY <2>4, <3>3, Zenon DEF WillWritePlan, SameWriter
  <2>5. XrefWritersStay
    <3>1. ASSUME NEW q \in Proc, NEW x \in Xref, NEW b \in Block, WillWriteXref(q, x, b)
          PROVE  WillWriteXref(q, x, b)'
      <4>1. q # p
        BY <1>1, <3>1, NothingLeft, Zenon
      <4>2. fd[q] = "xref"
        BY <3>1, Zenon DEF WillWriteXref
      <4>3. SameWriter(q)
        BY <1>3, <4>1, <4>2, RenameOthers, ZenonT(60) DEF SameWriter
      <4>4. QED
        BY <3>1, <4>3, Zenon DEF WillWriteXref, SameWriter
    <3>2. QED
      BY <3>1, Zenon DEF XrefWritersStay
  <2>6. ASSUME NEW f \in Plan, planFile'[f] # NoFile, NEW b \in Block \ planFile'[f]
        PROVE  \E q \in Proc : WillWritePlan(q, "plan", f, b)'
    <3>1. CASE f = plan[p]
      <4>1. PICK q \in Proc : WillWritePlan(q, "tmp", f, b)
        BY <1>3, <2>2, <2>6, <3>1, Zenon DEF Heal, TmpFileHealed
      <4>2. QED
        BY <2>3, <3>1, <4>1, Zenon
    <3>2. CASE f # plan[p]
      <4>1. PICK q \in Proc : WillWritePlan(q, "plan", f, b)
        BY <2>2, <2>6, <3>2, Zenon DEF Heal, PlanFileHealed
      <4>2. QED
        BY <2>4, <3>2, <4>1, Zenon
    <3>3. QED
      BY <3>1, <3>2, Zenon
  <2>7. ASSUME NEW f \in Plan, tmpFile'[f] # NoFile, NEW b \in Block \ tmpFile'[f]
        PROVE  \E q \in Proc : WillWritePlan(q, "tmp", f, b)'
    <3>1. f # plan[p]
      BY <2>2, <2>7, Zenon
    <3>2. PICK q \in Proc : WillWritePlan(q, "tmp", f, b)
      BY <2>2, <2>7, <3>1, Zenon DEF Heal, TmpFileHealed
    <3>3. QED
      BY <2>4, <3>1, <3>2, Zenon
  <2>8. PlanFileHealed' /\ TmpFileHealed'
    BY <2>6, <2>7, Zenon DEF PlanFileHealed, TmpFileHealed
  <2>9. QED
    BY <2>1, <2>5, <2>8, XrefHealedKept, Zenon DEF Heal
<1>4. QED
  BY <1>2, <1>3, Zenon

LEMMA HealStep ==
  ASSUME MaxCrashes = 0, Base, Heal, [Next]_vars
  PROVE  Heal'
<1>1. CASE UNCHANGED vars
  BY <1>1, HealQuiet, Zenon DEF vars, caller, SameWriter
<1>2. ASSUME NEW p \in Proc, Crash(p) PROVE FALSE
  BY <1>2 DEF Crash, Base, TypeOK
<1>3. ASSUME NEW p \in Proc, StartQuery(p) PROVE Heal'
  BY <1>3, HealQuiet, Zenon DEF StartQuery, SameWriter, Goto, Base, TypeOK
<1>4. ASSUME NEW p \in Proc,
             \/ Access(p) \/ Lock(p) \/ LockTimeout(p) \/ Recheck(p) \/ EmitRejected(p)
             \/ SetMetadata(p) \/ Unlock(p) \/ RunPlan(p) \/ CountColumns(p)
             \/ ReadColumn(p) \/ DescriptionDone(p) \/ ReadOutputKey(p) \/ Restart(p)
      PROVE  Heal'
  <2>1. UNCHANGED files
    BY <1>4, Zenon DEF Access, Lock, LockTimeout, Recheck, EmitRejected, SetMetadata, Unlock,
       RunPlan, CountColumns, ReadColumn, DescriptionDone, ReadOutputKey, Restart
  <2>2. \A q \in Proc : pc[q] = "write" => SameWriter(q)
    BY <1>4, ZenonT(60) DEF Access, Lock, LockTimeout, Recheck, EmitRejected, SetMetadata, Unlock,
       RunPlan, CountColumns, ReadColumn, DescriptionDone, ReadOutputKey, Restart,
       SameWriter, Goto, Base, TypeOK, caller
  <2>3. QED
    BY <2>1, <2>2, HealQuiet, Zenon
<1>5. QED
  BY <1>1, <1>2, <1>3, <1>4, HealOpenXref, HealOpenTmp, HealWriteBlock,
     HealCloseXref, HealRenamePlan, Zenon DEF Next, Step

LEMMA HealInvariant ==
  ASSUME MaxCrashes = 0
  PROVE  Spec => []Heal
<1>1. Init => Heal
  BY DEF Init, Heal, PlanFileHealed, TmpFileHealed, XrefBlocksHealed
<1>2. Base /\ Heal /\ [Next]_vars => Heal'
  BY HealStep, Zenon
<1> QED
  BY <1>1, <1>2, BaseInvariant, PTL DEF Spec

\* As long as no process dies, every block missing from a visible plan routine has
\* a live writer, also when lock waits run out and any number of processes
\* truncate, write and rename the same file.
THEOREM PlanFilesHealed ==
  ASSUME MaxCrashes = 0
  PROVE  Spec => []PlanFileHealed
<1>1. Heal => PlanFileHealed
  BY Zenon DEF Heal
<1> QED
  BY <1>1, HealInvariant, PTL

\* As long as no process dies, a cross reference routine that holds and is being
\* given the text of one plan only gets all of that text: every missing block has a
\* live writer that generates this plan, although each such process truncates the
\* routine under its final name.  (When two plans write it, their texts may mix.)
THEOREM XrefFilesHealed ==
  ASSUME MaxCrashes = 0
  PROVE  Spec => []XrefFileHealed
<1>1. Heal => XrefFileHealed
  <2> SUFFICES ASSUME Heal, NEW x \in Xref, NEW f \in Plan, xrefFile[x] # NoFile, OnlyOf(x, f),
                      NEW b \in Block \ xrefFile[x]
               PROVE  \E p \in Proc : plan[p] = f /\ WillWriteXref(p, x, b)
    BY Zenon DEF XrefFileHealed
  <2>1. PICK p \in Proc : WillWriteXref(p, x, b)
    BY Zenon DEF Heal, XrefBlocksHealed
  <2>2. plan[p] = f
    BY <2>1, Zenon DEF OnlyOf, WillWriteXref
  <2> QED
    BY <2>1, <2>2, Zenon
<1> QED
  BY <1>1, HealInvariant, PTL

----------------------------------------------------------------------------
(* While no process dies: the metadata of a visible plan is on its way *)

LEMMA MetadataStep ==
  ASSUME MaxCrashes = 0, Base, MetadataPending, [Next]_vars
  PROVE  MetadataPending'
<1> DEFINE Stored(f) == f \in keySet /\ nodes[f] = NumNodes
           Writing(q, f) == pc[q] = "meta" /\ plan[q] = f
<1>1. CASE UNCHANGED vars
  BY <1>1, Zenon DEF MetadataPending, vars, files, metadata, caller
<1>2. ASSUME NEW p \in Proc, Crash(p) PROVE FALSE
  BY <1>2 DEF Crash, Base, TypeOK
<1>3. ASSUME NEW p \in Proc, RenamePlan(p) PROVE MetadataPending'
  <2>1. pc'[p] = "meta" /\ plan'[p] = plan[p]
    BY <1>3, Zenon DEF RenamePlan, Goto, Base, TypeOK, caller
  <2>2. ASSUME NEW f \in Plan, f # plan[p], planFile'[f] # NoFile
        PROVE  Stored(f)' \/ \E q \in Proc : Writing(q, f)'
    <3>1. planFile[f] # NoFile
      BY <1>3, <2>2, Zenon DEF RenamePlan, Base, TypeOK, files
    <3>2. CASE Stored(f)
      BY <1>3, <3>2, Zenon DEF RenamePlan, metadata
    <3>3. ASSUME NEW q \in Proc, Writing(q, f) PROVE Writing(q, f)'
      BY <1>3, <2>2, <3>3, Zenon DEF RenamePlan, Goto, Base, TypeOK, caller
    <3>4. QED
      BY <3>1, <3>2, <3>3, Zenon DEF MetadataPending
  <2>3. QED
    BY <2>1, <2>2, Zenon DEF MetadataPending
<1>4. ASSUME NEW p \in Proc, SetMetadata(p) PROVE MetadataPending'
  <2>1. ASSUME NEW f \in Plan, planFile'[f] # NoFile
        PROVE  Stored(f)' \/ \E q \in Proc : Writing(q, f)'
    <3>1. planFile[f] # NoFile
      BY <1>4, <2>1, Zenon DEF SetMetadata, files
    <3>2. CASE Stored(f)
      <4>1. f \in keySet'
        BY <1>4, <3>2, Zenon DEF SetMetadata
      <4>2. pos[p] <= NumNodes /\ pos[p] \in Nat /\ NumNodes \in Nat
        BY <1>4, ConstantTypes DEF SetMetadata, Base, TypeOK, PosOK
      <4>3. ~(pos[p] > nodes[f])
        BY <3>2, <4>2
      <4>4. nodes'[f] = nodes[f]
        BY <1>4, <4>3, Zenon DEF SetMetadata, Base, TypeOK
      <4>5. QED
        BY <3>2, <4>1, <4>4, Zenon
    <3>3. ASSUME NEW q \in Proc, Writing(q, f), q # p PROVE Writing(q, f)'
      BY <1>4, <3>3, Zenon DEF SetMetadata, Goto, Base, TypeOK, caller
    <3>4. ASSUME Writing(p, f), pos[p] # NumNodes PROVE Writing(p, f)'
      BY <1>4, <3>4, Zenon DEF SetMetadata, Goto, Base, TypeOK, caller
    <3>5. ASSUME Writing(p, f), pos[p] = NumNodes PROVE Stored(f)'
      BY <1>4, <3>5, ConstantTypes DEF SetMetadata, Base, TypeOK, PosOK
    <3>6. QED
      BY <3>1, <3>2, <3>3, <3>4, <3>5, Zenon DEF MetadataPending
  <2>2. QED
    BY <2>1, Zenon DEF MetadataPending
<1>5. ASSUME NEW p \in Proc, WriteBlock(p) PROVE MetadataPending'
  <2>1. \A f \in Plan : planFile'[f] # NoFile => planFile[f] # NoFile
    <3>1. CASE fd[p] = "plan"
      BY <1>5, <3>1, Zenon DEF WriteBlock, Base, TypeOK, FdOK
    <3>2. CASE fd[p] # "plan"
      BY <1>5, <3>2, Zenon DEF WriteBlock
    <3>3. QED
      BY <3>1, <3>2, Zenon
  <2>2. UNCHANGED <<keySet, nodes, pc, plan>>
    BY <1>5, Zenon DEF WriteBlock, metadata, caller
  <2>3. QED
    BY <2>1, <2>2, Zenon DEF MetadataPending
<1>6. ASSUME NEW p \in Proc,
             \/ StartQuery(p) \/ Access(p) \/ Lock(p) \/ LockTimeout(p) \/ Recheck(p)
             \/ EmitRejected(p) \/ OpenXref(p) \/ OpenTmp(p) \/ CloseXref(p)
             \/ Unlock(p) \/ RunPlan(p) \/ CountColumns(p) \/ ReadColumn(p)
             \/ DescriptionDone(p) \/ ReadOutputKey(p) \/ Restart(p)
      PROVE  MetadataPending'
  <2>1. UNCHANGED <<planFile, keySet, nodes>>
    BY ZenonT(40), <1>6 DEF files, metadata, StartQuery, Access, Lock, LockTimeout, Recheck,
       EmitRejected, OpenXref, OpenTmp, CloseXref, Unlock, RunPlan, CountColumns,
       ReadColumn, DescriptionDone, ReadOutputKey, Restart
  <2>2. \A q \in Proc : pc[q] = "meta" => pc'[q] = "meta" /\ plan'[q] = plan[q]
    BY ZenonT(40), <1>6 DEF Base, TypeOK, Goto, caller, StartQuery, Access, Lock, LockTimeout,
       Recheck, EmitRejected, OpenXref, OpenTmp, CloseXref, Unlock, RunPlan,
       CountColumns, ReadColumn, DescriptionDone, ReadOutputKey, Restart
  <2>3. QED
    BY <2>1, <2>2, ZenonT(60) DEF MetadataPending
<1>7. QED
  BY <1>1, <1>2, <1>3, <1>4, <1>5, <1>6, Zenon DEF Next, Step

\* As long as no process dies, a visible plan file has its output key and all
\* its column metadata, or a live process that is storing them.
THEOREM MetadataOnItsWay ==
  ASSUME MaxCrashes = 0
  PROVE  Spec => []MetadataPending
<1>1. Init => MetadataPending
  BY DEF Init, MetadataPending
<1>2. Base /\ MetadataPending /\ [Next]_vars => MetadataPending'
  BY MetadataStep, Zenon
<1>3. QED
  BY <1>1, <1>2, BaseInvariant, PTL DEF Spec

----------------------------------------------------------------------------
(* The plan cache implements RoutineStore while no wait for a file lock     *)
(* runs out.                                                                *)

\* Only a plan that lp_verify_structure accepted is being written.
Accepted == \A p \in Proc : pc[p] = "write" => plan[p] \notin BadPlans

LEMMA AcceptedStep ==
  ASSUME Base, Accepted, [Next]_vars
  PROVE  Accepted'
<1>1. ASSUME NEW p \in Proc, StartQuery(p) \/ Step(p) \/ Crash(p) \/ Restart(p)
      PROVE  Accepted'
  <2>1. \A q \in Proc : q # p => pc'[q] = pc[q] /\ plan'[q] = plan[q]
    BY Zenon, <1>1 DEF Base, TypeOK, Step, Goto, caller, StartQuery, Access, Lock,
       LockTimeout, Recheck, EmitRejected, OpenXref, OpenTmp, WriteBlock, CloseXref,
       RenamePlan, SetMetadata, Unlock, RunPlan, CountColumns, ReadColumn,
       DescriptionDone, ReadOutputKey, Crash, Restart
  <2>2. pc'[p] = "write" => plan'[p] \notin BadPlans
    <3>1. CASE OpenXref(p) \/ OpenTmp(p)
      BY <3>1, Zenon DEF OpenXref, OpenTmp, Base, TypeOK, caller
    <3>2. CASE WriteBlock(p)
      BY <3>2, Zenon DEF WriteBlock, Accepted, caller
    <3>3. CASE StartQuery(p) \/ Access(p) \/ Lock(p) \/ LockTimeout(p) \/ Recheck(p)
               \/ EmitRejected(p) \/ CloseXref(p) \/ RenamePlan(p) \/ Crash(p) \/ Restart(p)
      BY <3>3, Zenon DEF StartQuery, Access, Lock, LockTimeout, Recheck, EmitRejected, CloseXref,
         RenamePlan, Crash, Restart, Goto, AfterCache, Base, TypeOK
    <3>4. CASE SetMetadata(p) \/ Unlock(p) \/ RunPlan(p) \/ CountColumns(p)
               \/ ReadColumn(p) \/ DescriptionDone(p) \/ ReadOutputKey(p)
      BY <3>4, Zenon DEF SetMetadata, Unlock, RunPlan, CountColumns, ReadColumn, DescriptionDone,
         ReadOutputKey, Goto, AfterCache, AfterRun, AfterDescription, Base, TypeOK
    <3>5. QED
      BY <1>1, <3>1, <3>2, <3>3, <3>4, Zenon DEF Step
  <2>3. QED
    BY <2>1, <2>2, Zenon DEF Accepted
<1>2. CASE UNCHANGED vars
  BY <1>2, Zenon DEF vars, caller, Accepted
<1>3. QED
  BY <1>1, <1>2, Zenon DEF Next

----------------------------------------------------------------------------
(* The views, one process and one plan at a time *)

LEMMA StoreViews ==
  ASSUME PlanFileComplete, NEW f \in Plan
  PROVE  /\ planFile[f] = NoFile => StoreView[f] = "absent"
         /\ planFile[f] # NoFile => StoreView[f] = "whole"
BY FileFacts, Zenon DEF StoreView, PlanFileComplete

LEMMA ClientViews ==
  ASSUME NEW p \in Proc
  PROVE  /\ pc[p] = "idle" => ClientView[p] = "idle"
         /\ pc[p] = "fatal" => ClientView[p] = "dead"
         /\ pc[p] \in {"access", "lock", "recheck", "emit", "write"} => ClientView[p] = "asking"
         /\ pc[p] \in {"meta", "unlock", "run", "count", "read", "key"} => ClientView[p] = "using"
BY Zenon DEF ClientView

\* A step of p that leaves the plan files alone shows only in p's own view.
LEMMA OwnView ==
  ASSUME NEW p \in Proc, NEW label, TypeOK, Goto(p, label)
  PROVE  ClientView' = [ClientView EXCEPT ![p] = ClientView'[p]]
<1>1. \A q \in Proc : q # p => ClientView'[q] = ClientView[q]
  BY Zenon DEF Goto, TypeOK, ClientView
<1>2. ClientView = [q \in Proc |-> ClientView[q]] /\ ClientView' = [q \in Proc |-> ClientView'[q]]
  BY Zenon DEF ClientView
<1>3. QED
  BY <1>1, <1>2, Zenon

LEMMA StoreKept ==
  ASSUME UNCHANGED planFile
  PROVE  UNCHANGED StoreView
BY DEF StoreView

\* p takes a step that does not show.
LEMMA Hidden ==
  ASSUME NEW p \in Proc, NEW label, TypeOK, Goto(p, label), UNCHANGED <<planFile, plan>>,
         ClientView'[p] = ClientView[p]
  PROVE  UNCHANGED RS!vars
<1>1. ClientView' = [ClientView EXCEPT ![p] = ClientView[p]]
  BY OwnView, Zenon
<1>2. ClientView = [q \in Proc |-> ClientView[q]]
  BY Zenon DEF ClientView
<1>3. ClientView' = ClientView
  BY <1>1, <1>2, Zenon
<1>4. QED
  BY <1>3, StoreKept, Zenon DEF RS!vars

\* p's view changes to a given one and the store stays.
LEMMA Shown ==
  ASSUME NEW p \in Proc, NEW label, TypeOK, Goto(p, label), UNCHANGED <<planFile, plan>>,
         NEW v, ClientView'[p] = v
  PROVE  /\ ClientView' = [ClientView EXCEPT ![p] = v]
         /\ UNCHANGED <<StoreView, plan>>
BY OwnView, StoreKept, Zenon

----------------------------------------------------------------------------
(* The rename makes the routine *)

LEMMA RenameMakes ==
  ASSUME Base, Excl, Excl', Accepted, NEW p \in Proc, RenamePlan(p)
  PROVE  RS!Make(p)
<1>1. /\ fd[p] = "tmp" /\ planFile[plan[p]] = NoFile /\ plan[p] \in Plan
      /\ plan[p] \notin BadPlans /\ pc[p] = "write" /\ Goto(p, "meta") /\ TypeOK
  BY Zenon DEF RenamePlan, Excl, TmpPrefix, NotYetVisible, Base, TypeOK, Accepted
<1>2. tmpFile[plan[p]] # NoFile
  BY <1>1, Zenon DEF Base, FdOK
<1>3. planFile' = [planFile EXCEPT ![plan[p]] = tmpFile[plan[p]]] /\ UNCHANGED plan
  BY <1>2, Zenon DEF RenamePlan, caller
<1>4. planFile'[plan[p]] # NoFile /\ \A f \in Plan : f # plan[p] => planFile'[f] = planFile[f]
  BY <1>1, <1>2, <1>3, Zenon DEF Base, TypeOK
<1>5. StoreView[plan[p]] = "absent"
  BY <1>1, StoreViews, Zenon DEF Excl
<1>6. StoreView'[plan[p]] = "whole"
  BY <1>1, <1>4, FileFacts, Zenon DEF StoreView, Excl, PlanFileComplete
<1>7. \A f \in Plan : f # plan[p] => StoreView'[f] = StoreView[f]
  BY <1>4 DEF StoreView
<1>8. StoreView' = [StoreView EXCEPT ![plan[p]] = "whole"]
  <2>1. StoreView = [f \in Plan |-> StoreView[f]] /\ StoreView' = [f \in Plan |-> StoreView'[f]]
    BY DEF StoreView
  <2>2. QED
    BY <1>6, <1>7, <2>1, Zenon
<1>9. ClientView[p] = "asking"
  BY <1>1, ClientViews, Zenon
<1>10. ClientView'[p] = "using"
  <2>1. pc'[p] = "meta"
    BY <1>1, Zenon DEF Goto, TypeOK
  <2>2. QED
    BY <2>1, Zenon DEF ClientView
<1>11. ClientView' = [ClientView EXCEPT ![p] = "using"]
  BY <1>1, <1>10, OwnView, Zenon
<1>12. QED
  BY <1>1, <1>3, <1>5, <1>8, <1>9, <1>11, Zenon DEF RS!Make

----------------------------------------------------------------------------
(* Every other step is hidden or a step of its client *)

LEMMA PrimedViews ==
  ASSUME NEW p \in Proc, NEW label, TypeOK, Goto(p, label)
  PROVE  /\ label = "idle" => ClientView'[p] = "idle"
         /\ label = "fatal" => ClientView'[p] = "dead"
         /\ label \in {"access", "lock", "recheck", "emit", "write"} => ClientView'[p] = "asking"
         /\ label \in {"meta", "unlock", "run", "count", "read", "key"} => ClientView'[p] = "using"
<1>1. pc'[p] = label
  BY Zenon DEF Goto, TypeOK
<1>2. QED
  BY <1>1, Zenon DEF ClientView

\* A look at the file system finds the routine, or goes on asking.
LEMMA LookSimulated ==
  ASSUME Base, Excl, NEW p \in Proc, NEW label,
         pc[p] \in {"access", "recheck"}, Goto(p, label), UNCHANGED <<planFile, plan>>,
         \/ planFile[plan[p]] = NoFile /\ label \in {"lock", "emit"}
         \/ planFile[plan[p]] # NoFile /\ label \in {"unlock", "run", "count"}
  PROVE  RS!Find(p) \/ UNCHANGED RS!vars
<1>1. TypeOK /\ plan[p] \in Plan /\ ClientView[p] = "asking"
  BY ClientViews, Zenon DEF Base, TypeOK
<1>2. CASE planFile[plan[p]] = NoFile /\ label \in {"lock", "emit"}
  <2>1. ClientView'[p] = "asking"
    BY <1>1, <1>2, PrimedViews, Zenon
  <2>2. QED
    BY <1>1, <2>1, Hidden, Zenon
<1>3. CASE planFile[plan[p]] # NoFile /\ label \in {"unlock", "run", "count"}
  <2>1. ClientView'[p] = "using"
    BY <1>1, <1>3, PrimedViews, Zenon
  <2>2. ClientView' = [ClientView EXCEPT ![p] = "using"] /\ UNCHANGED <<StoreView, plan>>
    BY <1>1, <2>1, Shown, Zenon
  <2>3. StoreView[plan[p]] = "whole"
    BY <1>1, <1>3, StoreViews, Zenon DEF Excl
  <2>4. QED
    BY <1>1, <2>2, <2>3, Zenon DEF RS!Find
<1>4. QED
  BY <1>2, <1>3, Zenon

\* Using the plan goes on, ends or is FATAL.
LEMMA UseSimulated ==
  ASSUME Base, NEW p \in Proc, NEW label,
         pc[p] \in {"meta", "unlock", "run", "count", "read", "key"},
         label \in {"meta", "unlock", "run", "count", "read", "key", "idle", "fatal"},
         Goto(p, label), UNCHANGED <<planFile, plan>>
  PROVE  RS!Done(p) \/ RS!Die(p) \/ UNCHANGED RS!vars
<1>1. TypeOK /\ ClientView[p] = "using"
  BY ClientViews, Zenon DEF Base
<1>2. CASE label \in {"meta", "unlock", "run", "count", "read", "key"}
  <2>1. ClientView'[p] = "using"
    BY <1>1, <1>2, PrimedViews, Zenon
  <2>2. QED
    BY <1>1, <2>1, Hidden, Zenon
<1>3. CASE label = "idle"
  <2>1. ClientView'[p] = "idle"
    BY <1>1, <1>3, PrimedViews, Zenon
  <2>2. ClientView' = [ClientView EXCEPT ![p] = "idle"] /\ UNCHANGED <<StoreView, plan>>
    BY <1>1, <2>1, Shown, Zenon
  <2>3. QED
    BY <1>1, <2>2, Zenon DEF RS!Done
<1>4. CASE label = "fatal"
  <2>1. ClientView'[p] = "dead"
    BY <1>1, <1>4, PrimedViews, Zenon
  <2>2. ClientView' = [ClientView EXCEPT ![p] = "dead"] /\ UNCHANGED <<StoreView, plan>>
    BY <1>1, <2>1, Shown, Zenon
  <2>3. QED
    BY <1>1, <2>2, Zenon DEF RS!Die
<1>5. QED
  BY <1>2, <1>3, <1>4, Zenon

\* Waiting for the lock and generating routines do not show.
LEMMA WorkSimulated ==
  ASSUME Base, NEW p \in Proc, NEW label,
         pc[p] \in {"lock", "emit", "write"}, label \in {"recheck", "emit", "write"},
         Goto(p, label), UNCHANGED <<planFile, plan>>
  PROVE  UNCHANGED RS!vars
<1>1. TypeOK /\ ClientView[p] = "asking"
  BY ClientViews, Zenon DEF Base
<1>2. ClientView'[p] = "asking"
  BY <1>1, PrimedViews, Zenon
<1>3. QED
  BY <1>1, <1>2, Hidden, Zenon

LEMMA StepSimulated ==
  ASSUME LockExpires = FALSE, Base, Excl, Excl', Accepted, [Next]_vars
  PROVE  [RS!Next]_(RS!vars)
<1>1. ASSUME NEW p \in Proc, StartQuery(p) PROVE RS!Ask(p)
  <2>1. TypeOK /\ ClientView[p] = "idle" /\ Goto(p, "access") /\ UNCHANGED planFile
    BY <1>1, ClientViews, Zenon DEF StartQuery, Base, files
  <2>2. ClientView'[p] = "asking"
    BY <2>1, PrimedViews, Zenon
  <2>3. ClientView' = [ClientView EXCEPT ![p] = "asking"]
    BY <2>1, <2>2, OwnView, Zenon
  <2>4. \E r \in Plan : plan' = [plan EXCEPT ![p] = r]
    BY <1>1, ZenonT(60) DEF StartQuery
  <2>5. QED
    BY <2>1, <2>3, <2>4, StoreKept, Zenon DEF RS!Ask
<1>2. ASSUME NEW p \in Proc, Access(p) PROVE RS!Find(p) \/ UNCHANGED RS!vars
  <2>1. pc[p] \in {"access", "recheck"} /\ planFile' = planFile /\ plan' = plan
    BY <1>2, Zenon DEF Access, files, caller
  <2>2. PICK label :
          /\ Goto(p, label)
          /\ \/ planFile[plan[p]] = NoFile /\ label \in {"lock", "emit"}
             \/ planFile[plan[p]] # NoFile /\ label \in {"unlock", "run", "count"}
    BY <1>2, Zenon DEF Access, AfterCache
  <2>3. QED
    BY <2>1, <2>2, LookSimulated
<1>3. ASSUME NEW p \in Proc, Recheck(p) PROVE RS!Find(p) \/ UNCHANGED RS!vars
  <2>1. pc[p] \in {"access", "recheck"} /\ planFile' = planFile /\ plan' = plan
    BY <1>3, Zenon DEF Recheck, files, caller
  <2>2. PICK label :
          /\ Goto(p, label)
          /\ \/ planFile[plan[p]] = NoFile /\ label \in {"lock", "emit"}
             \/ planFile[plan[p]] # NoFile /\ label \in {"unlock", "run", "count"}
    BY <1>3, Zenon DEF Recheck
  <2>3. QED
    BY <2>1, <2>2, LookSimulated
<1>4. ASSUME NEW p \in Proc, Lock(p) \/ LockTimeout(p) \/ OpenXref(p) \/ OpenTmp(p) \/ CloseXref(p)
      PROVE  UNCHANGED RS!vars
  <2>1. UNCHANGED <<planFile, plan>>
    BY <1>4, Zenon DEF Lock, LockTimeout, OpenXref, OpenTmp, CloseXref, files, caller
  <2>2. pc[p] \in {"lock", "emit", "write"}
    BY <1>4, Zenon DEF Lock, LockTimeout, OpenXref, OpenTmp, CloseXref
  <2>3. \E label \in {"recheck", "emit", "write"} : Goto(p, label)
    BY <1>4, Zenon DEF Lock, LockTimeout, OpenXref, OpenTmp, CloseXref
  <2>4. QED
    BY <2>1, <2>2, <2>3, WorkSimulated
<1>5. ASSUME NEW p \in Proc, WriteBlock(p) PROVE UNCHANGED RS!vars
  <2>1. UNCHANGED <<planFile, plan, pc>>
    BY <1>5, Zenon DEF WriteBlock, Excl, TmpPrefix, caller
  <2>2. QED
    BY <2>1 DEF RS!vars, StoreView, ClientView
<1>6. ASSUME NEW p \in Proc, EmitRejected(p) PROVE RS!Refuse(p)
  <2>1. /\ TypeOK /\ ClientView[p] = "asking" /\ Goto(p, "idle")
        /\ UNCHANGED <<planFile, plan>> /\ plan[p] \in BadPlans
    BY <1>6, ClientViews, Zenon DEF EmitRejected, Base, files, caller
  <2>2. ClientView'[p] = "idle"
    BY <2>1, PrimedViews, Zenon
  <2>3. ClientView' = [ClientView EXCEPT ![p] = "idle"] /\ UNCHANGED <<StoreView, plan>>
    BY <2>1, <2>2, Shown, Zenon
  <2>4. QED
    BY <2>1, <2>3, Zenon DEF RS!Refuse
<1>7. ASSUME NEW p \in Proc, RenamePlan(p) PROVE RS!Make(p)
  BY <1>7, RenameMakes, Zenon
<1>8. ASSUME NEW p \in Proc, SetMetadata(p) \/ Unlock(p) \/ RunPlan(p) \/ CountColumns(p)
             \/ DescriptionDone(p) \/ ReadOutputKey(p)
      PROVE  RS!Done(p) \/ RS!Die(p) \/ UNCHANGED RS!vars
  <2>1. UNCHANGED <<planFile, plan>>
    BY <1>8, Zenon DEF SetMetadata, Unlock, RunPlan, CountColumns, DescriptionDone, ReadOutputKey,
       files, caller
  <2>2. pc[p] \in {"meta", "unlock", "run", "count", "read", "key"}
    BY <1>8, Zenon DEF SetMetadata, Unlock, RunPlan, CountColumns, DescriptionDone, ReadOutputKey
  <2>3. \E label \in {"meta", "unlock", "run", "count", "read", "key", "idle", "fatal"} : Goto(p, label)
    BY <1>8, Zenon DEF SetMetadata, Unlock, RunPlan, CountColumns, DescriptionDone, ReadOutputKey,
       AfterCache, AfterRun, AfterDescription
  <2>4. QED
    BY <2>1, <2>2, <2>3, UseSimulated
<1>9. ASSUME NEW p \in Proc, ReadColumn(p)
      PROVE  RS!Done(p) \/ RS!Die(p) \/ UNCHANGED RS!vars
  <2>1. UNCHANGED <<planFile, plan>> /\ pc[p] = "read" /\ (UNCHANGED pc \/ Goto(p, "fatal"))
    BY <1>9, Zenon DEF ReadColumn, files, caller
  <2>2. CASE UNCHANGED pc
    BY <2>1, <2>2, SMTT(60) DEF RS!vars, StoreView, ClientView
  <2>3. CASE Goto(p, "fatal")
    BY <2>1, <2>3, UseSimulated
  <2>4. QED
    BY <2>1, <2>2, <2>3, Zenon
<1>10. ASSUME NEW p \in Proc, Crash(p) PROVE RS!Die(p)
  <2>1. /\ TypeOK /\ ClientView[p] \in {"asking", "using"} /\ Goto(p, "fatal")
        /\ UNCHANGED <<planFile, plan>>
    BY <1>10, ClientViews, Zenon DEF Crash, Base, TypeOK, PC, files, caller
  <2>2. ClientView'[p] = "dead"
    BY <2>1, PrimedViews, Zenon
  <2>3. ClientView' = [ClientView EXCEPT ![p] = "dead"] /\ UNCHANGED <<StoreView, plan>>
    BY <2>1, <2>2, Shown, Zenon
  <2>4. QED
    BY <2>1, <2>3, Zenon DEF RS!Die
<1>11. ASSUME NEW p \in Proc, Restart(p) PROVE RS!Return(p)
  <2>1. TypeOK /\ ClientView[p] = "dead" /\ Goto(p, "idle") /\ UNCHANGED <<planFile, plan>>
    BY <1>11, ClientViews, Zenon DEF Restart, Base, files, caller
  <2>2. ClientView'[p] = "idle"
    BY <2>1, PrimedViews, Zenon
  <2>3. ClientView' = [ClientView EXCEPT ![p] = "idle"] /\ UNCHANGED <<StoreView, plan>>
    BY <2>1, <2>2, Shown, Zenon
  <2>4. QED
    BY <2>1, <2>3, Zenon DEF RS!Return
<1>12. CASE UNCHANGED vars
  BY <1>12 DEF vars, files, caller, RS!vars, StoreView, ClientView
<1>13. QED
  BY <1>1, <1>2, <1>3, <1>4, <1>5, <1>6, <1>7, <1>8, <1>9, <1>10, <1>11, <1>12, Zenon
     DEF Next, Step, RS!Next

LEMMA InitSimulated == Init => RS!Init
<1>1. SUFFICES ASSUME Init PROVE RS!Init
  BY Zenon
<1>2. StoreView = [f \in Plan |-> "absent"]
  <2>1. \A f \in Plan : planFile[f] = NoFile
    BY <1>1, Zenon DEF Init
  <2>2. \A f \in Plan : StoreView[f] = "absent"
    BY <2>1, FileFacts, Zenon DEF StoreView
  <2>3. StoreView = [f \in Plan |-> StoreView[f]]
    BY DEF StoreView
  <2>4. QED
    BY <2>2, <2>3, Zenon
<1>3. ClientView = [p \in Proc |-> "idle"]
  BY <1>1, Zenon DEF Init, ClientView
<1>4. QED
  BY <1>1, <1>2, <1>3, Zenon DEF Init, RS!Init

\* The plan cache implements the routine store: each routine is made at most
\* once, by the rename of a client that still asks for it, and is used only
\* when whole, for any number of processes and deaths, as long as no wait
\* for the file lock runs out.
THEOREM PlanCacheImplements ==
  ASSUME LockExpires = FALSE
  PROVE  Spec => Implements
<1>1. Init => Accepted
  BY Zenon DEF Init, Accepted
<1>2. Base /\ Accepted /\ [Next]_vars => Accepted'
  BY AcceptedStep, Zenon
<1>3. Base /\ Excl /\ Excl' /\ Accepted /\ [Next]_vars => [RS!Next]_(RS!vars)
  BY StepSimulated, Zenon
<1>4. Spec => []Accepted
  BY <1>1, <1>2, BaseInvariant, PTL DEF Spec
<1>5. QED
  BY <1>3, <1>4, InitSimulated, BaseInvariant, ExclInvariant, PTL DEF Spec, RS!Spec, Implements
=============================================================================
