--------------------------- MODULE LockdownProofs ---------------------------
(***************************************************************************)
(* Proofs about Lockdown, for any number of runs and power failures.       *)
(*                                                                         *)
(* The invariants of Lockdown are not inductive by themselves: what makes  *)
(* writing PK safe is what efi_main did before, which KeyInv ties to its   *)
(* program counter; what makes the cleanup safe is that a buffer is set    *)
(* exactly when its block is live, which is PoolInv.                       *)
(***************************************************************************)
EXTENDS Lockdown, TLAPS

(* efi_main is between the check of SetupMode and the write of PK.         *)
Enrolling ==
  {"dirname", "read_KEK", "read_db", "read_PK", "set_KEK", "set_db", "set_PK"}

KeyInv ==
  /\ pc \in Enrolling => nv["PK"] = Absent
  /\ pc \in {"set_db", "set_PK", "secure_boot"} => nv["KEK"] = runs
  /\ pc \in {"set_PK", "secure_boot"} => nv["db"] = runs
  /\ pc = "secure_boot" => nv["PK"] = runs
  /\ NeverLockedOut
  /\ SuccessMeansSecure

(* Files that have been read when efi_main is at a label.                  *)
ReadAt(label) ==
  CASE label = "read_db" -> {"KEK"}
    [] label = "read_PK" -> {"KEK", "db"}
    [] label \in {"set_KEK", "set_db", "set_PK", "secure_boot"} -> Files
    [] OTHER -> {}

Owned(f) ==
  IF bufs[f].buffer = "NULL"
  THEN heap[f] \in {"none", "freed"}
  ELSE heap[f] = "live" /\ bufs[f].free # "NULL" /\ bufs[f].allocated = 1

PoolInv ==
  /\ \A f \in Files : Owned(f)
  /\ IF path = "NULL" THEN heap["path"] \in {"none", "freed"} ELSE heap["path"] = "live"
  /\ pc # "dead" =>
       \A f \in Files : IF f \in ReadAt(pc) THEN bufs[f].length = 1 ELSE bufs[f] = NullBuffer
  /\ pc \in {"off", "setup_mode", "dirname", "returned"} => path = "NULL"

-----------------------------------------------------------------------------
(* The empty simple_buffer is a value of every one of the three buffers.   *)
LEMMA NullBufferType == \A f \in Files : NullBuffer \in FileBuffer(f)
BY DEF NullBuffer, FileBuffer, Files

(* The cleanup handlers of efi_main change the state of pool blocks only.  *)
LEMMA CleanedType ==
  ASSUME NEW h \in [Blocks -> BlockState], NEW bs, NEW p \in {"NULL", "path"},
         DOMAIN bs = Files, \A f \in Files : bs[f] \in FileBuffer(f)
  PROVE  Cleaned(h, bs, p) \in [Blocks -> BlockState]
<1> SUFFICES ASSUME NEW b \in Blocks
             PROVE  (IF b \in Files THEN FreeBuffer(h, bs[b])[b]
                     ELSE IF p # "NULL" THEN Free(h, b)[b] ELSE h[b]) \in BlockState
  BY DEF Cleaned
<1>1. CASE b \in Files
  <2>1. bs[b].buffer \in {"NULL", b}
    BY <1>1 DEF FileBuffer
  <2> QED
    BY <1>1, <2>1 DEF FreeBuffer, FreeSimpleBuffer, Free, BlockState, Blocks
<1>2. CASE b \notin Files
  BY <1>2 DEF Free, BlockState, Blocks
<1> QED BY <1>1, <1>2

-----------------------------------------------------------------------------
(* Type correctness                                                        *)

BufsOK(bs) == DOMAIN bs = Files /\ \A f \in Files : bs[f] \in FileBuffer(f)

(* A return of efi_main keeps the types of what it assigns.                *)
LEMMA ReturnType ==
  ASSUME NEW status \in Statuses, NEW h \in [Blocks -> BlockState], NEW bs,
         BufsOK(bs), NEW p \in {"NULL", "path"}, Return(status, h, bs, p)
  PROVE  /\ pc' \in Labels /\ err' \in Statuses /\ heap' \in [Blocks -> BlockState]
         /\ BufsOK(bufs') /\ path' \in {"NULL", "path"}
<1>1. heap' \in [Blocks -> BlockState]
  BY CleanedType DEF Return, BufsOK
<1>2. BufsOK(bufs')
  BY NullBufferType DEF Return, BufsOK, NoBufs
<1> QED
  BY <1>1, <1>2 DEF Return, Labels

(* What read_file_to_buffer leaves in a buffer has the type of a buffer.   *)
LEMMA FilledType ==
  ASSUME BufsOK(bufs), NEW f \in Files
  PROVE  BufsOK(Filled(f)) /\ BufsOK(Unbacked(f)) /\ BufsOK(Reset(f))
<1>1. [AllocateSimpleBuffer(bufs[f], f, 1) EXCEPT !.length = 1] \in FileBuffer(f)
  BY DEF BufsOK, AllocateSimpleBuffer, FileBuffer, Files
<1>2. [NullBuffer EXCEPT !.length = 1] \in FileBuffer(f)
  BY DEF NullBuffer, FileBuffer, Files
<1> QED
  BY <1>1, <1>2, NullBufferType DEF BufsOK, Filled, Unbacked, Reset

(* The successor of a read or of a write is a label of efi_main.           *)
LEMMA LabelsType ==
  ASSUME NEW f \in Files
  PROVE  AfterRead(f) \in Labels /\ AfterSet(f) \in Labels
BY DEF Files, AfterRead, AfterSet, Labels

(* malloc and free keep the pool a function to block states.               *)
LEMMA HeapType ==
  ASSUME NEW h \in [Blocks -> BlockState], NEW b \in Blocks
  PROVE  Malloc(h, b) \in [Blocks -> BlockState] /\ Free(h, b) \in [Blocks -> BlockState]
BY DEF Malloc, Free, BlockState

(* Every variable stays in its range: all steps of the tool, the operator  *)
(* and the power supply.                                                   *)
LEMMA TypeStep == TypeOK /\ [Next]_vars => TypeOK'
<1> SUFFICES ASSUME TypeOK, [Next]_vars PROVE TypeOK'
  OBVIOUS
<1>0. BufsOK(bufs)
  BY DEF TypeOK, BufsOK
<1>1. CASE Start
  BY <1>1, LockdownAssumption DEF TypeOK, Start, Goto, Labels
<1>2. CASE CheckSetupMode
  <2>1. CASE Goto("dirname") /\ UNCHANGED <<bufs, path, heap>>
    BY <1>2, <2>1 DEF TypeOK, CheckSetupMode, Goto, Labels
  <2>2. CASE \E status \in Statuses : Return(status, heap, bufs, path)
    BY <1>0, <1>2, <2>2, ReturnType DEF TypeOK, BufsOK, CheckSetupMode
  <2> QED
    BY <1>2, <2>1, <2>2 DEF CheckSetupMode, Statuses
<1>3. CASE GetDirname
  <2>0. "path" \in Blocks
    BY DEF Blocks
  <2>1. CASE heap' = Malloc(heap, "path") /\ path' = "path" /\ Goto("read_KEK") /\ UNCHANGED bufs
    BY <1>3, <2>0, <2>1, HeapType DEF TypeOK, GetDirname, Goto, Labels
  <2>2. CASE \E status \in Statuses : Return(status, heap, bufs, path)
    BY <1>0, <1>3, <2>2, ReturnType DEF TypeOK, BufsOK, GetDirname
  <2>3. CASE Return("EFI_NOT_FOUND", Malloc(heap, "path"), bufs, "path")
    <3>1. Malloc(heap, "path") \in [Blocks -> BlockState] /\ "EFI_NOT_FOUND" \in Statuses
      BY <2>0, HeapType DEF TypeOK, Statuses
    <3> QED
      BY <1>0, <1>3, <2>3, <3>1, ReturnType DEF TypeOK, BufsOK, GetDirname
  <2>4. CASE Die
    BY <1>3, <2>4 DEF TypeOK, GetDirname, Die, Labels
  <2> QED
    BY <1>3, <2>1, <2>2, <2>3, <2>4 DEF GetDirname, Statuses
<1>4. ASSUME NEW f \in Files, ReadFile(f) PROVE TypeOK'
  <2>0. f \in Blocks
    BY DEF Blocks
  <2>1. CASE Goto(AfterRead(f)) /\ UNCHANGED path /\ heap' = Malloc(heap, f) /\ bufs' = Filled(f)
    BY <1>0, <1>4, <2>0, <2>1, HeapType, FilledType, LabelsType
    DEF TypeOK, BufsOK, ReadFile, Goto
  <2>2. CASE bufs' = Unbacked(f) /\ Goto(AfterRead(f)) /\ UNCHANGED <<path, heap>>
    BY <1>0, <1>4, <2>2, FilledType, LabelsType DEF TypeOK, BufsOK, ReadFile, Goto
  <2>3. CASE Die
    BY <1>4, <2>3 DEF TypeOK, ReadFile, Die, Labels
  <2>4. CASE \E status \in Statuses : Return(status, heap, bufs, path)
    BY <1>0, <1>4, <2>4, ReturnType DEF TypeOK, BufsOK, ReadFile
  <2>5. CASE Return("EFI_DEVICE_ERROR", Free(Malloc(heap, f), f), Reset(f), path)
    <3>1. Free(Malloc(heap, f), f) \in [Blocks -> BlockState] /\ "EFI_DEVICE_ERROR" \in Statuses
      BY <2>0, HeapType DEF TypeOK, Statuses
    <3>2. BufsOK(Reset(f))
      BY <1>0, FilledType
    <3> QED
      BY <1>4, <2>5, <3>1, <3>2, ReturnType DEF TypeOK, BufsOK, ReadFile
  <2> QED
    BY <1>4, <2>1, <2>2, <2>3, <2>4, <2>5 DEF ReadFile, Statuses
<1>5. ASSUME NEW f \in Files, Enroll(f) PROVE TypeOK'
  <2>1. CASE SetVariable(f) /\ Goto(AfterSet(f)) /\ UNCHANGED <<bufs, path, heap>>
    <3>1. runs \in 0 .. MaxRuns + 1
      BY LockdownAssumption DEF TypeOK
    <3>2. secure' \in BOOLEAN
      BY <2>1 DEF SetVariable, TypeOK
    <3> QED
      BY <1>5, <2>1, <3>1, <3>2, LabelsType DEF TypeOK, Enroll, SetVariable, Goto
  <2>2. CASE (\E status \in Statuses : Return(status, heap, bufs, path)) /\ UNCHANGED <<nv, secure>>
    BY <1>0, <1>5, <2>2, ReturnType DEF TypeOK, BufsOK, Enroll
  <2> QED
    BY <1>5, <2>1, <2>2 DEF Enroll, Statuses
<1>6. CASE CheckSecureBoot
  <2>1. \E status \in Statuses : Return(status, heap, bufs, path)
    BY <1>6 DEF CheckSecureBoot, Statuses
  <2> QED
    BY <1>0, <1>6, <2>1, ReturnType DEF TypeOK, BufsOK, CheckSecureBoot
<1>7. CASE PowerOff
  BY <1>7, NullBufferType DEF TypeOK, PowerOff, NoBufs, Labels, BlockState
<1>8. CASE UNCHANGED vars
  BY <1>8 DEF TypeOK, vars
<1> QED
  BY <1>1, <1>2, <1>3, <1>4, <1>5, <1>6, <1>7, <1>8 DEF Next, Steps

(* The type invariant of Lockdown holds for any number of runs.            *)
THEOREM TypeCorrect == Spec => []TypeOK
<1>1. Init => TypeOK
  <2> SUFFICES ASSUME Init PROVE TypeOK
    OBVIOUS
  <2>1. nv \in [Files -> 0 .. MaxRuns + 1]
    <3>1. {Absent, Earlier} \subseteq 0 .. MaxRuns + 1
      BY LockdownAssumption DEF Absent, Earlier
    <3> QED
      BY <3>1 DEF Init
  <2>2. DOMAIN bufs = Files /\ \A f \in Files : bufs[f] \in FileBuffer(f)
    BY NullBufferType DEF Init, NoBufs
  <2>3. runs \in 0 .. MaxRuns
    BY LockdownAssumption DEF Init
  <2> QED
    BY <2>1, <2>2, <2>3
    DEF Init, TypeOK, Labels, Statuses, FileStates, BlockState
<1> QED
  BY <1>1, TypeStep, PTL DEF Spec

-----------------------------------------------------------------------------
(* The keys                                                                *)

(* A return leaves the enrolment with the variables as they are.           *)
LEMMA ReturnKeys ==
  ASSUME KeyInv, NEW status, NEW h, NEW bs, NEW p, Return(status, h, bs, p),
         UNCHANGED <<nv, runs, secure>>,
         status = "EFI_SUCCESS" => secure /\ \A f \in Files : nv[f] = runs
  PROVE  KeyInv'
BY DEF KeyInv, Return, Enrolling, NeverLockedOut, SuccessMeansSecure, Absent

(* Every step of the tool keeps KeyInv: it is inductive.                   *)
LEMMA KeyStep == TypeOK /\ KeyInv /\ [Next]_vars => KeyInv'
<1> SUFFICES ASSUME TypeOK, KeyInv, [Next]_vars PROVE KeyInv'
  OBVIOUS
<1>1. CASE Start
  BY <1>1 DEF KeyInv, Start, Goto, Enrolling, NeverLockedOut, SuccessMeansSecure, Absent
<1>2. CASE CheckSetupMode
  <2>1. CASE ~NotInSetupMode /\ Goto("dirname")
    BY <1>2, <2>1
    DEF KeyInv, CheckSetupMode, NotInSetupMode, Goto, Enrolling, NeverLockedOut,
        SuccessMeansSecure, Absent
  <2>2. CASE \E status \in {"EFI_NOT_FOUND", "EFI_UNSUPPORTED"} : Return(status, heap, bufs, path)
    BY <1>2, <2>2, ReturnKeys DEF CheckSetupMode
  <2> QED
    BY <1>2, <2>1, <2>2 DEF CheckSetupMode
<1>3. CASE GetDirname
  <2>1. CASE pc' \in {"read_KEK", "dead"}
    BY <1>3, <2>1 DEF KeyInv, GetDirname, Enrolling, NeverLockedOut, SuccessMeansSecure, Absent
  <2>2. CASE \E status \in Statuses \ {"EFI_SUCCESS"} : Return(status, heap, bufs, path)
    BY <1>3, <2>2, ReturnKeys DEF GetDirname
  <2>3. CASE Return("EFI_NOT_FOUND", Malloc(heap, "path"), bufs, "path")
    BY <1>3, <2>3, ReturnKeys DEF GetDirname
  <2> QED
    BY <1>3, <2>1, <2>2, <2>3 DEF GetDirname, Goto, Die, Statuses
<1>4. ASSUME NEW f \in Files, ReadFile(f) PROVE KeyInv'
  <2>1. CASE pc' \in {"dead", AfterRead(f)}
    BY <1>4, <2>1
    DEF KeyInv, ReadFile, ReadLabel, AfterRead, Files, Enrolling, NeverLockedOut,
        SuccessMeansSecure, Absent
  <2>2. CASE \E status \in Statuses \ {"EFI_SUCCESS"} : Return(status, heap, bufs, path)
    BY <1>4, <2>2, ReturnKeys DEF ReadFile
  <2>3. CASE Return("EFI_DEVICE_ERROR", Free(Malloc(heap, f), f), Reset(f), path)
    BY <1>4, <2>3, ReturnKeys DEF ReadFile
  <2> QED
    BY <1>4, <2>1, <2>2, <2>3 DEF ReadFile, Goto, Die, Statuses
<1>5. ASSUME NEW f \in Files, Enroll(f) PROVE KeyInv'
  <2>1. CASE SetVariable(f) /\ Goto(AfterSet(f))
    <3>1. runs' = runs /\ nv' = [nv EXCEPT ![f] = runs] /\ pc = SetLabel(f) /\ pc' = AfterSet(f)
      BY <1>5, <2>1 DEF Enroll, SetVariable, Goto
    <3>2. nv \in [Files -> 0 .. MaxRuns + 1]
      BY DEF TypeOK
    <3>3. CASE f = "KEK"
      BY <3>1, <3>2, <3>3
      DEF KeyInv, SetLabel, AfterSet, Files, Enrolling, NeverLockedOut, SuccessMeansSecure
    <3>4. CASE f = "db"
      BY <3>1, <3>2, <3>4
      DEF KeyInv, SetLabel, AfterSet, Files, Enrolling, NeverLockedOut, SuccessMeansSecure
    <3>5. CASE f = "PK"
      BY <3>1, <3>2, <3>5
      DEF KeyInv, SetLabel, AfterSet, Files, Enrolling, NeverLockedOut, SuccessMeansSecure
    <3> QED
      BY <3>3, <3>4, <3>5 DEF Files
  <2>2. CASE /\ \E status \in Statuses \ {"EFI_SUCCESS"} : Return(status, heap, bufs, path)
             /\ UNCHANGED <<nv, secure>>
    BY <1>5, <2>2, ReturnKeys DEF Enroll
  <2> QED
    BY <1>5, <2>1, <2>2 DEF Enroll, Statuses
<1>6. CASE CheckSecureBoot
  <2>1. \A f \in Files : nv[f] = runs
    BY <1>6 DEF CheckSecureBoot, KeyInv, Files
  <2>2. PICK status : /\ Return(status, heap, bufs, path)
                      /\ status = "EFI_SUCCESS" => secure
    BY <1>6 DEF CheckSecureBoot, NotSecure
  <2> QED
    BY <1>6, <2>1, <2>2, ReturnKeys DEF CheckSecureBoot
<1>7. CASE PowerOff
  BY <1>7 DEF KeyInv, PowerOff, Enrolling, NeverLockedOut, SuccessMeansSecure, Absent
<1>8. CASE UNCHANGED vars
  BY <1>8 DEF vars, KeyInv, Enrolling, NeverLockedOut, SuccessMeansSecure, Absent
<1> QED
  BY <1>1, <1>2, <1>3, <1>4, <1>5, <1>6, <1>7, <1>8 DEF Next, Steps

(* KeyInv holds in every reachable state.                                  *)
LEMMA KeyInvariant == Spec => []KeyInv
<1>1. Init => KeyInv
  BY DEF Init, KeyInv, Enrolling, NeverLockedOut, SuccessMeansSecure
<1> QED
  BY <1>1, KeyStep, TypeCorrect, PTL DEF Spec

(* A platform with a PK has the KEK and the db of the same run: PK is      *)
(* written last, after two accepted writes of that run, and no power       *)
(* failure or later run can separate the three.                            *)
THEOREM KeysBelongTogether == Spec => []NeverLockedOut
<1>1. KeyInv => NeverLockedOut
  BY DEF KeyInv
<1> QED
  BY <1>1, KeyInvariant, PTL

(* EFI_SUCCESS is only returned when all keys are in and secure boot is on.*)
THEOREM SuccessIsSecure == Spec => []SuccessMeansSecure
<1>1. KeyInv => SuccessMeansSecure
  BY DEF KeyInv
<1> QED
  BY <1>1, KeyInvariant, PTL

(* Once there is a PK no step changes any of the variables: the tool only  *)
(* writes between its check of SetupMode and its own write of PK.          *)
THEOREM KeysStayFinal == Spec => KeysAreFinal
<1>1. KeyInv /\ [Next]_vars => [nv["PK"] # Absent => nv' = nv]_vars
  <2> SUFFICES ASSUME KeyInv, Next, nv["PK"] # Absent PROVE nv' = nv
    OBVIOUS
  <2>1. ASSUME NEW f \in Files, Enroll(f) PROVE nv' = nv
    <3>1. pc \notin Enrolling
      BY DEF KeyInv
    <3>2. SetLabel(f) \in Enrolling
      BY DEF SetLabel, Files, Enrolling
    <3> QED
      BY <2>1, <3>1, <3>2 DEF Enroll
  <2> QED
    BY <2>1 DEF Next, Steps, Start, CheckSetupMode, GetDirname, ReadFile, CheckSecureBoot,
                PowerOff, vars
<1> QED
  BY <1>1, KeyInvariant, PTL DEF Spec, KeysAreFinal

-----------------------------------------------------------------------------
(* The pool                                                                *)

(* A buffer as PoolInv has it, for a heap h and buffers bs.                *)
OwnedIn(h, b, f) ==
  IF b.buffer = "NULL"
  THEN h[f] \in {"none", "freed"}
  ELSE h[f] = "live" /\ b.free # "NULL" /\ b.allocated = 1

(* The cleanup of efi_main frees every live block exactly once.            *)
LEMMA CleanedReleases ==
  ASSUME NEW h \in [Blocks -> BlockState], NEW bs, BufsOK(bs), NEW p \in {"NULL", "path"},
         \A f \in Files : OwnedIn(h, bs[f], f),
         IF p = "NULL" THEN h["path"] \in {"none", "freed"} ELSE h["path"] = "live"
  PROVE  \A b \in Blocks : Cleaned(h, bs, p)[b] \in {"none", "freed"}
<1> SUFFICES ASSUME NEW b \in Blocks PROVE Cleaned(h, bs, p)[b] \in {"none", "freed"}
  OBVIOUS
<1>1. CASE b \in Files
  <2>1. bs[b].buffer \in {"NULL", b}
    BY <1>1 DEF BufsOK, FileBuffer
  <2>2. OwnedIn(h, bs[b], b)
    BY <1>1
  <2> QED
    BY <1>1, <2>1, <2>2 DEF Cleaned, FreeBuffer, FreeSimpleBuffer, Free, OwnedIn
<1>2. CASE b = "path"
  BY <1>2 DEF Cleaned, Free, Files
<1> QED
  BY <1>1, <1>2 DEF Blocks

(* A return of efi_main re-establishes PoolInv, whatever it had read.      *)
LEMMA ReturnPool ==
  ASSUME NEW status, NEW h \in [Blocks -> BlockState], NEW bs, BufsOK(bs),
         NEW p \in {"NULL", "path"}, Return(status, h, bs, p),
         \A f \in Files : OwnedIn(h, bs[f], f),
         IF p = "NULL" THEN h["path"] \in {"none", "freed"} ELSE h["path"] = "live"
  PROVE  PoolInv'
<1>1. \A b \in Blocks : heap'[b] \in {"none", "freed"}
  BY CleanedReleases DEF Return
<1>2. pc' = "returned" /\ path' = "NULL" /\ \A f \in Files : bufs'[f] = NullBuffer
  BY DEF Return, NoBufs
<1> QED
  BY <1>1, <1>2 DEF PoolInv, Owned, ReadAt, NullBuffer, Blocks

(* Every step of the tool keeps PoolInv: it is inductive.                  *)
LEMMA PoolStep == TypeOK /\ PoolInv /\ [Next]_vars => PoolInv'
<1> SUFFICES ASSUME TypeOK, PoolInv, [Next]_vars PROVE PoolInv'
  OBVIOUS
<1>0. /\ BufsOK(bufs) /\ heap \in [Blocks -> BlockState] /\ path \in {"NULL", "path"}
      /\ \A f \in Files : OwnedIn(heap, bufs[f], f)
      /\ IF path = "NULL" THEN heap["path"] \in {"none", "freed"} ELSE heap["path"] = "live"
  BY DEF TypeOK, BufsOK, PoolInv, Owned, OwnedIn
<1>r. ASSUME NEW status, Return(status, heap, bufs, path) PROVE PoolInv'
  BY <1>0, <1>r, ReturnPool
<1>1. CASE Start
  BY <1>1 DEF PoolInv, Owned, ReadAt, Start, Goto
<1>2. CASE CheckSetupMode
  <2>1. CASE pc' = "dirname" /\ UNCHANGED <<bufs, path, heap>>
    BY <1>2, <2>1 DEF CheckSetupMode, PoolInv, Owned, ReadAt
  <2> QED
    BY <1>2, <1>r, <2>1 DEF CheckSetupMode, Goto
<1>3. CASE GetDirname
  <2>0. "path" \in Blocks /\ "path" \notin Files /\ Files \subseteq Blocks
    BY DEF Blocks, Files
  <2>1. CASE pc' = "read_KEK" /\ heap' = Malloc(heap, "path") /\ path' = "path" /\ UNCHANGED bufs
    BY <1>0, <1>3, <2>0, <2>1 DEF GetDirname, PoolInv, Owned, ReadAt, Malloc
  <2>2. CASE Return("EFI_NOT_FOUND", Malloc(heap, "path"), bufs, "path")
    <3>1. /\ Malloc(heap, "path") \in [Blocks -> BlockState]
          /\ Malloc(heap, "path")["path"] = "live"
          /\ \A f \in Files : OwnedIn(Malloc(heap, "path"), bufs[f], f)
      BY <1>0, <2>0 DEF Malloc, OwnedIn, BlockState
    <3> QED
      BY <1>0, <2>2, <3>1, ReturnPool
  <2>3. CASE Die
    BY <1>3, <2>3 DEF PoolInv, Owned, Die, GetDirname
  <2> QED
    BY <1>3, <1>r, <2>1, <2>2, <2>3 DEF GetDirname, Goto
<1>4. ASSUME NEW f \in Files, ReadFile(f) PROVE PoolInv'
  <2>0. f \in Blocks /\ f # "path" /\ Files \subseteq Blocks
    BY DEF Blocks, Files
  <2>1. pc = ReadLabel(f) /\ bufs[f] = NullBuffer /\ f \notin ReadAt(pc) /\ pc # "dead"
    BY <1>4 DEF ReadFile, ReadLabel, Files, PoolInv, ReadAt
  <2>2. ReadAt(AfterRead(f)) = ReadAt(pc) \cup {f} /\ AfterRead(f) \notin
          {"off", "setup_mode", "dirname", "returned", "dead"}
    BY <2>1 DEF ReadLabel, AfterRead, ReadAt, Files
  <2>3. CASE pc' = AfterRead(f) /\ UNCHANGED path /\ heap' = Malloc(heap, f) /\ bufs' = Filled(f)
    <3>1. \A g \in Files : bufs'[g] = IF g = f THEN [AllocateSimpleBuffer(NullBuffer, f, 1)
                                                      EXCEPT !.length = 1] ELSE bufs[g]
      BY <1>0, <2>1, <2>3 DEF Filled, BufsOK
    <3>2. \A b \in Blocks : heap'[b] = IF b = f THEN "live" ELSE heap[b]
      BY <1>0, <2>3 DEF Malloc
    <3>3. /\ bufs'[f].buffer = f /\ bufs'[f].length = 1 /\ bufs'[f].allocated = 1
          /\ bufs'[f].free = "free_simple_buffer" /\ f # "NULL"
      BY <3>1 DEF AllocateSimpleBuffer, NullBuffer, Files
    <3> QED
      BY <2>0, <2>1, <2>2, <2>3, <3>1, <3>2, <3>3 DEF PoolInv, Owned, Blocks
  <2>4. CASE bufs' = Unbacked(f) /\ pc' = AfterRead(f) /\ UNCHANGED <<path, heap>>
    <3>1. \A g \in Files : bufs'[g] = IF g = f THEN [NullBuffer EXCEPT !.length = 1] ELSE bufs[g]
      BY <1>0, <2>4 DEF Unbacked, BufsOK
    <3>2. bufs'[f].buffer = "NULL" /\ bufs'[f].length = 1
      BY <3>1 DEF NullBuffer
    <3>3. bufs[f].buffer = "NULL"
      BY <2>1 DEF NullBuffer
    <3> QED
      BY <2>1, <2>2, <2>4, <3>1, <3>2, <3>3 DEF PoolInv, Owned
  <2>5. CASE Return("EFI_DEVICE_ERROR", Free(Malloc(heap, f), f), Reset(f), path)
    <3>1. \A b \in Blocks : Free(Malloc(heap, f), f)[b] = IF b = f THEN "freed" ELSE heap[b]
      BY <1>0, <2>0 DEF Malloc, Free
    <3>2. Free(Malloc(heap, f), f) \in [Blocks -> BlockState]
      BY <1>0, <2>0, HeapType
    <3>3. BufsOK(Reset(f)) /\ \A g \in Files : Reset(f)[g] = IF g = f THEN NullBuffer ELSE bufs[g]
      BY <1>0, FilledType DEF Reset, BufsOK
    <3>4. \A g \in Files : OwnedIn(Free(Malloc(heap, f), f), Reset(f)[g], g)
      BY <1>0, <2>0, <3>1, <3>3 DEF OwnedIn, NullBuffer
    <3>5. Free(Malloc(heap, f), f)["path"] = heap["path"]
      BY <2>0, <3>1 DEF Blocks
    <3> QED
      BY <1>0, <2>5, <3>2, <3>3, <3>4, <3>5, ReturnPool
  <2>6. CASE Die
    BY <2>6 DEF PoolInv, Owned, Die
  <2> QED
    BY <1>4, <1>r, <2>3, <2>4, <2>5, <2>6 DEF ReadFile, Goto
<1>5. ASSUME NEW f \in Files, Enroll(f) PROVE PoolInv'
  <2>1. CASE pc' = AfterSet(f) /\ UNCHANGED <<bufs, path, heap>>
    BY <1>5, <2>1 DEF Enroll, SetLabel, AfterSet, Files, PoolInv, Owned, ReadAt
  <2> QED
    BY <1>5, <1>r, <2>1 DEF Enroll, Goto
<1>6. CASE CheckSecureBoot
  BY <1>6, <1>r DEF CheckSecureBoot
<1>7. CASE PowerOff
  BY <1>7 DEF PowerOff, PoolInv, Owned, NoBufs, NullBuffer, ReadAt, Blocks
<1>8. CASE UNCHANGED vars
  BY <1>8 DEF vars, PoolInv, Owned
<1> QED
  BY <1>1, <1>2, <1>3, <1>4, <1>5, <1>6, <1>7, <1>8 DEF Next, Steps

(* PoolInv holds in every reachable state.                                 *)
LEMMA PoolInvariant == Spec => []PoolInv
<1>1. Init => PoolInv
  BY DEF Init, PoolInv, Owned, NoBufs, NullBuffer, ReadAt, Blocks
<1> QED
  BY <1>1, PoolStep, TypeCorrect, PTL DEF Spec

(* Whatever efi_main returns, the blocks it took are free again and none   *)
(* was freed twice.                                                        *)
THEOREM ReturnsReleased == Spec => []ReturnReleases
<1>1. PoolInv => ReturnReleases
  <2> SUFFICES ASSUME PoolInv, NEW b \in Blocks
               PROVE  heap[b] # "corrupt" /\ (pc = "returned" => heap[b] # "live")
    BY DEF ReturnReleases
  <2>1. CASE b \in Files
    BY <2>1 DEF PoolInv, Owned, ReadAt, NullBuffer
  <2>2. CASE b = "path"
    BY <2>2 DEF PoolInv
  <2> QED
    BY <2>1, <2>2 DEF Blocks
<1> QED
  BY <1>1, PoolInvariant, PTL

(* No variable is written before all three files have been read.           *)
THEOREM ReadsComeFirst == Spec => AllReadBeforeFirstWrite
<1>1. PoolInv /\ [Next]_vars => [nv' # nv => \A f \in Files : bufs[f].length = 1]_vars
  <2> SUFFICES ASSUME PoolInv, Next, nv' # nv, NEW f \in Files PROVE bufs[f].length = 1
    OBVIOUS
  <2>1. PICK g \in Files : Enroll(g)
    BY DEF Next, Steps, Start, CheckSetupMode, GetDirname, ReadFile, CheckSecureBoot,
           PowerOff, vars
  <2>2. ReadAt(pc) = Files /\ pc # "dead"
    BY <2>1 DEF Enroll, SetLabel, Files, ReadAt
  <2> QED
    BY <2>2 DEF PoolInv
<1> QED
  BY <1>1, PoolInvariant, PTL DEF Spec, AllReadBeforeFirstWrite
=============================================================================
