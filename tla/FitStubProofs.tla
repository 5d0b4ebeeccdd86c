--------------------------- MODULE FitStubProofs ---------------------------
(***************************************************************************)
(* Proofs about FitStub, for any boot entries and any BootOrder.           *)
(*                                                                         *)
(* Which block has to be freed, and what comes next, depends on which      *)
(* image boot_entry() or boot_file() is about: TargetInv says which it can *)
(* be at each label, PoolInv which blocks are live there.  That nothing is *)
(* started twice or out of order needs the place the stub has come to in   *)
(* its list of candidates: OrderInv.                                       *)
(***************************************************************************)
EXTENDS FitStub, SequenceTheorems, TLAPS

(* What can be started.                                                    *)
Bootable == Entries \cup {Fallback, Shell}

TypeInv ==
  /\ TypeOK
  /\ entries \in [Entries -> Options]
  /\ next \in {Nothing} \cup Entries /\ order \in Orders
  /\ log \in Seq(Bootable)

(* The image the stub is about, label by label; before the list is read it *)
(* is the one of BootNext.                                                 *)
TargetInv ==
  /\ fpc \in {"start", "boot_next", "boot_order"} => heap["order"] = "none"
  /\ fpc \in {"start", "boot_next", "boot_order", "loop", "device"} => target \notin {Fallback, Shell}
  /\ fpc = "entry" => target \in Entries
  /\ fpc \in {"load", "image"} => target \in Bootable
  /\ fpc = "filepath" => target \in {Fallback, Shell}
  /\ fpc = "shell" => target = Fallback
  /\ fpc = "last" => target = Shell
  /\ fpc = "loop" => heap["order"] = "live"
  /\ heap["order"] = "none" => index = 0 /\ target \in {Nothing, next, Fallback, Shell}

Booting == {"load", "image"}

PoolInv ==
  /\ heap["order"] \in IF fpc = "returned" THEN {"none", "freed"} ELSE {"none", "live"}
  /\ heap["entry"] \in IF fpc \in Booting /\ target \in Entries THEN {"live"} ELSE {"none", "freed"}
  /\ heap["path"] \in IF fpc \in Booting /\ target \notin Entries THEN {"live"} ELSE {"none", "freed"}
  /\ heap["filepath"] \in {"none", "freed"}

-----------------------------------------------------------------------------
(* The place in Candidates the stub has come to.                           *)
Offset == IF next = Nothing THEN 0 ELSE 1

Place ==
  IF target = Shell THEN Offset + Len(order) + 2
  ELSE IF target = Fallback THEN Offset + Len(order) + 1
  ELSE Offset + index

(* The images in l were started in the order of c, none behind place p.    *)
StartedUpTo(c, l, p) ==
  \E at \in [1 .. Len(l) -> 1 .. Len(c)] :
    /\ \A i \in 1 .. Len(l) : l[i] = c[at[i]] /\ at[i] <= p
    /\ \A i \in 1 .. Len(l) - 1 : at[i] < at[i + 1]

(* The target has not been started yet.                                    *)
Waiting == {"entry", "load", "filepath"}

OrderInv ==
  /\ fpc \in {"start", "boot_next"} => log = <<>>
  /\ IF fpc \in Waiting
     THEN /\ Place \in 1 .. Len(Candidates) /\ Candidates[Place] = target
          /\ StartedUpTo(Candidates, log, Place - 1)
     ELSE StartedUpTo(Candidates, log, Place)

-----------------------------------------------------------------------------
(* Facts                                                                   *)

(* The three images that are not boot entries are told apart from them.    *)
LEMMA Numbers ==
  /\ \A e \in Entries : e \in Int /\ e > 0
  /\ Nothing \notin Entries /\ Fallback \notin Entries /\ Shell \notin Entries
  /\ Nothing # Fallback /\ Nothing # Shell /\ Fallback # Shell
BY FitStubAssumption DEF Nothing, Fallback, Shell

(* malloc() and free() block by block.                                     *)
LEMMA Blockwise ==
  ASSUME NEW h \in [Blocks -> BlockState], NEW b \in Blocks
  PROVE  /\ Malloc(h, b) \in [Blocks -> BlockState] /\ Free(h, b) \in [Blocks -> BlockState]
         /\ \A c \in Blocks :
              /\ Malloc(h, b)[c] = IF c = b THEN "live" ELSE h[c]
              /\ Free(h, b)[c] = IF c # b THEN h[c]
                                 ELSE IF h[b] = "live" THEN "freed" ELSE "corrupt"
BY DEF Malloc, Free, BlockState

-----------------------------------------------------------------------------
(* Type correctness                                                        *)

(* load_options_size is a value of its type, although it is computed as a  *)
(* negative length.                                                        *)
LEMMA OptionsSizeType ==
  ASSUME entries \in [Entries -> Options]
  PROVE  LoadOptionsSize \in 0 .. U32 - 1
<1>1. U32 \in Nat \ {0}
  BY FitStubAssumption
<1>2. CASE target \in Entries /\ entries[target].optional > 0
  <2>1. entries[target] \in Options
    BY <1>2
  <2>2. entries[target].optional \in Nat
    BY <2>1, FitStubAssumption
  <2>3. \A x \in Int : x % U32 \in 0 .. U32 - 1
    BY <1>1
  <2> QED
    BY <1>1, <1>2, <2>2, <2>3 DEF LoadOptionsSize
<1> QED
  BY <1>1, <1>2 DEF LoadOptionsSize

(* The blocks keep their types when the steps of FitStub work on them.     *)
LEMMA HeapType ==
  ASSUME heap \in [Blocks -> BlockState]
  PROVE  /\ Free(heap, "order") \in [Blocks -> BlockState]
         /\ Malloc(heap, "order") \in [Blocks -> BlockState]
         /\ Malloc(heap, "entry") \in [Blocks -> BlockState]
         /\ Free(Malloc(heap, "entry"), "entry") \in [Blocks -> BlockState]
         /\ Free(Malloc(heap, "filepath"), "filepath") \in [Blocks -> BlockState]
         /\ Malloc(Free(Malloc(heap, "filepath"), "filepath"), "path") \in [Blocks -> BlockState]
         /\ FreeTarget \in [Blocks -> BlockState]
<1>1. "order" \in Blocks /\ "entry" \in Blocks /\ "filepath" \in Blocks /\ "path" \in Blocks
  BY DEF Blocks
<1> QED
  BY <1>1, Blockwise DEF FreeTarget

LEMMA TypeStep == TypeInv /\ TargetInv /\ [Next]_vars => TypeInv'
<1> SUFFICES ASSUME TypeInv, TargetInv, [Next]_vars PROVE TypeInv'
  OBVIOUS
<1> USE DEF TypeInv, TypeOK
<1>o. order \in Seq(Entries) /\ Len(order) \in Nat
  BY FitStubAssumption
<1>h. heap \in [Blocks -> BlockState]
  OBVIOUS
<1>c. Continue \in {"shell", "last", "loop", "boot_order"}
  BY DEF Continue
<1>1. CASE GetDevicePathUtilities
  BY <1>1, <1>h, HeapType DEF GetDevicePathUtilities, Return, Goto, unchangedEnv
<1>2. CASE BootNext
  BY <1>2 DEF BootNext, Goto, unchangedEnv
<1>3. CASE BootOrder
  BY <1>3, <1>h, HeapType DEF BootOrder, Goto, unchangedEnv
<1>4. CASE BootOrderLoop
  BY <1>4, <1>o, ElementOfSeq DEF BootOrderLoop, NextIndex, Goto, unchangedEnv
<1>5. CASE BootEntry
  <2>1. target \in Entries
    BY <1>5 DEF BootEntry, At, TargetInv
  <2> QED
    BY <1>5, <1>h, <1>c, <2>1, HeapType
    DEF BootEntry, LeaveEntry, SetCurrent, WriteCurrent, Goto, unchangedEnv
<1>6. CASE LoadImage
  <2>1. target \in Bootable
    BY <1>6 DEF LoadImage, At, TargetInv
  <2>2. Append(log, target) \in Seq(Bootable)
    BY <2>1
  <2>3. CASE RunReturns("EFI_LOAD_ERROR") /\ UNCHANGED <<image, load_options_size, log>>
    BY <1>6, <1>h, <1>c, <2>3, HeapType DEF LoadImage, RunReturns, DeleteCurrent, WriteCurrent, Goto,
       unchangedEnv
  <2>4. CASE image' = Unloaded /\ RunReturns("EFI_UNSUPPORTED") /\ UNCHANGED <<load_options_size, log>>
    BY <1>6, <1>h, <1>c, <2>4, HeapType DEF LoadImage, Unloaded, RunReturns, DeleteCurrent,
       WriteCurrent, Goto, unchangedEnv
  <2>5. CASE /\ image' = "running" /\ load_options_size' = LoadOptionsSize
             /\ log' = Append(log, target) /\ Goto("image")
             /\ UNCHANGED <<current, written, ferr, heap>>
    BY <1>6, <2>2, <2>5, OptionsSizeType DEF LoadImage, Goto, unchangedEnv
  <2> QED
    BY <1>6, <2>3, <2>4, <2>5 DEF LoadImage
<1>7. CASE OpenDevice
  BY <1>7, <1>h, HeapType DEF OpenDevice, Return, Goto, unchangedEnv
<1>8. CASE BootFile
  BY <1>8, <1>h, <1>c, HeapType DEF BootFile, Goto, unchangedEnv
<1>9. CASE BootShell
  BY <1>9 DEF BootShell, Goto, unchangedEnv
<1>10. CASE Last
  BY <1>10, <1>h, HeapType DEF Last, Return, unchangedEnv
<1>11. CASE ImageTakesOver
  BY <1>11 DEF ImageTakesOver, unchangedEnv
<1>12. CASE ImageEnds
  <2>1. 0 \in 0 .. U32 - 1
    BY FitStubAssumption
  <2> QED
    BY <1>12, <1>h, <1>c, <2>1, HeapType
    DEF ImageEnds, RunReturns, Unloaded, DeleteCurrent, WriteCurrent, Goto, unchangedEnv
<1>13. CASE UNCHANGED vars
  BY <1>13 DEF vars
<1> QED
  BY <1>1, <1>2, <1>3, <1>4, <1>5, <1>6, <1>7, <1>8, <1>9, <1>10, <1>11, <1>12, <1>13
  DEF Next, Steps

-----------------------------------------------------------------------------
(* The target and the pool                                                 *)

(* Where boot_entry() and boot_file() return to fits what they were about. *)
LEMMA ContinueFits ==
  ASSUME TypeInv, TargetInv, PoolInv, fpc \in {"entry", "filepath"} \cup Booting
  PROVE  /\ Continue = "shell" <=> target = Fallback
         /\ Continue = "last" <=> target = Shell
         /\ Continue = "loop" <=> target \in Entries /\ heap["order"] = "live"
         /\ Continue = "boot_order" <=> target \in Entries /\ heap["order"] = "none"
         /\ Continue \in {"shell", "last", "loop", "boot_order"}
<1>1. target \in Bootable
  BY DEF TargetInv, Booting, Bootable
<1>2. heap["order"] \in {"none", "live"}
  BY DEF PoolInv, Booting
<1> QED
  BY <1>1, <1>2, Numbers DEF Continue, Bootable

(* What the steps that end boot_entry() or boot_file() do to the blocks.   *)
LEMMA FreeTargetFrees ==
  ASSUME TypeInv, PoolInv, fpc \in Booting
  PROVE  /\ FreeTarget["order"] = heap["order"] /\ FreeTarget["filepath"] = heap["filepath"]
         /\ FreeTarget["entry"] \in {"none", "freed"} /\ FreeTarget["path"] \in {"none", "freed"}
<1>1. heap \in [Blocks -> BlockState] /\ "entry" \in Blocks /\ "path" \in Blocks
      /\ "order" \in Blocks /\ "filepath" \in Blocks
  BY DEF TypeInv, TypeOK, Blocks
<1> QED
  BY <1>1, Blockwise DEF PoolInv, FreeTarget

(* TargetInv and PoolInv are inductive together.                           *)
LEMMA PlaceStep == TypeInv /\ TargetInv /\ PoolInv /\ [Next]_vars => TargetInv' /\ PoolInv'
<1> SUFFICES ASSUME TypeInv, TargetInv, PoolInv, [Next]_vars PROVE TargetInv' /\ PoolInv'
  OBVIOUS
<1>h. /\ heap \in [Blocks -> BlockState] /\ "entry" \in Blocks /\ "path" \in Blocks
      /\ "order" \in Blocks /\ "filepath" \in Blocks
  BY DEF TypeInv, TypeOK, Blocks
<1>u. CASE UNCHANGED <<fpc, next, index, target, heap>>
  BY <1>u DEF TargetInv, PoolInv
<1>r. ASSUME NEW err, Return(err), fpc \notin Booting, UNCHANGED <<next, index, target>>
      PROVE  TargetInv' /\ PoolInv'
  <2>1. /\ heap'["order"] \in {"none", "freed"} /\ heap'["entry"] = heap["entry"]
        /\ heap'["path"] = heap["path"] /\ heap'["filepath"] = heap["filepath"]
        /\ heap'["order"] = "none" => heap["order"] = "none"
    BY <1>h, <1>r, Blockwise DEF Return, PoolInv
  <2>2. fpc' = "returned"
    BY <1>r DEF Return
  <2>3. PoolInv'
    BY <1>r, <2>1, <2>2 DEF PoolInv, Booting
  <2> QED
    BY <1>r, <2>1, <2>2, <2>3 DEF TargetInv
<1>c. ASSUME fpc \in {"entry", "filepath"} \cup Booting, fpc' = Continue,
             UNCHANGED <<next, index, target>>, heap'["order"] = heap["order"],
             heap'["filepath"] \in {"none", "freed"},
             heap'["entry"] \in {"none", "freed"}, heap'["path"] \in {"none", "freed"}
      PROVE  TargetInv' /\ PoolInv'
  <2>1. heap["order"] \in {"none", "live"} /\ fpc' \notin Booting \cup {"returned"}
    BY <1>c, ContinueFits DEF PoolInv, Booting
  <2>2. PoolInv'
    BY <1>c, <2>1 DEF PoolInv
  <2> QED
    BY <1>c, <2>1, <2>2, ContinueFits, Numbers DEF TargetInv, Booting
<1>1. CASE GetDevicePathUtilities
  <2>1. fpc = "start" /\ UNCHANGED <<next, index, target>>
    BY <1>1 DEF GetDevicePathUtilities, At, unchangedEnv
  <2>2. CASE \E err : Return(err)
    BY <1>r, <2>1, <2>2 DEF Booting
  <2>3. CASE UNCHANGED <<fpc, heap>>
    BY <1>u, <2>1, <2>3
  <2>4. CASE Goto("boot_next") /\ UNCHANGED heap
    BY <2>1, <2>4 DEF Goto, TargetInv, PoolInv, Booting
  <2> QED
    BY <1>1, <2>2, <2>3, <2>4 DEF GetDevicePathUtilities
<1>2. CASE BootNext
  BY <1>2, Numbers DEF BootNext, At, Goto, unchangedEnv, TypeInv, TargetInv, PoolInv, Booting
<1>3. CASE BootOrder
  <2>1. fpc = "boot_order" /\ UNCHANGED <<next, index, target>>
    BY <1>3 DEF BootOrder, At, unchangedEnv
  <2>2. CASE Goto("device") /\ UNCHANGED heap
    BY <2>1, <2>2 DEF Goto, TargetInv, PoolInv, Booting
  <2>3. CASE heap' = Malloc(heap, "order") /\ Goto("loop")
    <3>1. /\ heap'["order"] = "live" /\ heap'["entry"] = heap["entry"]
          /\ heap'["path"] = heap["path"] /\ heap'["filepath"] = heap["filepath"]
      BY <1>h, <2>3, Blockwise
    <3> QED
      BY <2>1, <2>3, <3>1 DEF Goto, TargetInv, PoolInv, Booting
  <2> QED
    BY <1>3, <2>2, <2>3 DEF BootOrder
<1>4. CASE BootOrderLoop
  <2>1. fpc = "loop" /\ heap["order"] = "live" /\ UNCHANGED <<next, heap>>
    BY <1>4 DEF BootOrderLoop, At, unchangedEnv, TargetInv
  <2>2. CASE Goto("entry") /\ target' \in Entries
    BY <2>1, <2>2 DEF Goto, TargetInv, PoolInv, Booting
  <2>3. CASE Goto("device") /\ UNCHANGED <<target, index>>
    BY <2>1, <2>3 DEF Goto, TargetInv, PoolInv, Booting
  <2>4. order \in Seq(Entries) /\ index \in Nat
    BY FitStubAssumption DEF TypeInv, TypeOK
  <2> QED
    BY <1>4, <2>2, <2>3, <2>4, ElementOfSeq DEF BootOrderLoop
<1>5. CASE BootEntry
  <2>1. fpc = "entry" /\ target \in Entries /\ UNCHANGED <<next, index, target>>
    BY <1>5 DEF BootEntry, At, unchangedEnv, TargetInv
  <2> DEFINE once == Free(Malloc(heap, "entry"), "entry")
  <2>2. /\ once["order"] = heap["order"] /\ once["entry"] = "freed"
        /\ once["path"] = heap["path"] /\ once["filepath"] = heap["filepath"]
    BY <1>h, Blockwise
  <2> HIDE DEF once
  <2>3. CASE fpc' = Continue /\ heap' \in {heap, once}
    BY <1>c, <2>1, <2>2, <2>3 DEF PoolInv, Booting
  <2>4. CASE Goto("load") /\ heap' = Malloc(heap, "entry")
    <3>1. /\ heap'["order"] = heap["order"] /\ heap'["entry"] = "live"
          /\ heap'["path"] = heap["path"] /\ heap'["filepath"] = heap["filepath"]
      BY <1>h, <2>4, Blockwise
    <3> QED
      BY <2>1, <2>4, <3>1 DEF Goto, TargetInv, PoolInv, Booting, Bootable
  <2> QED
    BY <1>5, <2>3, <2>4 DEF BootEntry, LeaveEntry, Goto, once
<1>6. CASE LoadImage \/ ImageEnds
  <2>1. fpc \in Booting /\ UNCHANGED <<next, index, target>>
    BY <1>6 DEF LoadImage, ImageEnds, At, unchangedEnv, Booting
  <2>2. CASE \E err : RunReturns(err)
    BY <1>c, <2>1, <2>2, FreeTargetFrees DEF RunReturns, Goto, PoolInv
  <2>3. CASE Goto("image") /\ UNCHANGED heap
    BY <2>1, <2>3 DEF Goto, TargetInv, PoolInv, Booting
  <2> QED
    BY <1>6, <2>2, <2>3 DEF LoadImage, ImageEnds
<1>7. CASE OpenDevice
  <2>1. fpc = "device" /\ UNCHANGED <<next, index>>
    BY <1>7 DEF OpenDevice, At, unchangedEnv
  <2>2. CASE \E err : Return(err) /\ UNCHANGED target
    BY <1>r, <2>1, <2>2 DEF Booting
  <2>3. CASE Goto("filepath") /\ target' = Fallback /\ UNCHANGED heap
    BY <2>1, <2>3 DEF Goto, TargetInv, PoolInv, Booting
  <2> QED
    BY <1>7, <2>2, <2>3 DEF OpenDevice
<1>8. CASE BootFile
  <2>1. fpc = "filepath" /\ target \in {Fallback, Shell} /\ UNCHANGED <<next, index, target>>
    BY <1>8 DEF BootFile, At, unchangedEnv, TargetInv
  <2> DEFINE once == Free(Malloc(heap, "filepath"), "filepath")
  <2>a. once \in [Blocks -> BlockState]
    BY <1>h, HeapType
  <2>b. /\ Malloc(heap, "filepath") \in [Blocks -> BlockState]
        /\ \A c \in Blocks : Malloc(heap, "filepath")[c] = IF c = "filepath" THEN "live" ELSE heap[c]
    BY <1>h, Blockwise
  <2>2. /\ once["order"] = heap["order"] /\ once["filepath"] = "freed"
        /\ once["path"] = heap["path"] /\ once["entry"] = heap["entry"]
    BY <1>h, <2>b, Blockwise
  <2> HIDE DEF once
  <2>3. CASE fpc' = Continue /\ heap' \in {heap, once}
    BY <1>c, <2>1, <2>2, <2>3 DEF PoolInv, Booting
  <2>4. CASE Goto("load") /\ heap' = Malloc(once, "path")
    <3>1. /\ heap'["order"] = heap["order"] /\ heap'["path"] = "live"
          /\ heap'["entry"] = heap["entry"] /\ heap'["filepath"] = "freed"
      BY <1>h, <2>a, <2>2, <2>4, Blockwise
    <3> QED
      BY <2>1, <2>4, <3>1, Numbers DEF Goto, TargetInv, PoolInv, Booting, Bootable
  <2> QED
    BY <1>8, <2>3, <2>4 DEF BootFile, Goto, once
<1>9. CASE BootShell
  BY <1>9 DEF BootShell, At, Goto, unchangedEnv, TargetInv, PoolInv, Booting
<1>10. CASE Last
  BY <1>10, <1>r DEF Last, At, unchangedEnv, Booting
<1>11. CASE ImageTakesOver \/ UNCHANGED vars
  BY <1>11, <1>u DEF ImageTakesOver, unchangedEnv, vars
<1> QED
  BY <1>1, <1>2, <1>3, <1>4, <1>5, <1>6, <1>7, <1>8, <1>9, <1>10, <1>11 DEF Next, Steps

(* The three invariants hold in every reachable state.                     *)
LEMMA PlaceInvariant == Spec => [](TypeInv /\ TargetInv /\ PoolInv)
<1>1. Init => TypeInv
  <2>1. <<>> \in Seq(Bootable) /\ 0 \in 0 .. U32 - 1
    BY FitStubAssumption
  <2>2. ASSUME Init PROVE 0 \in 0 .. Len(order)
    BY <2>2, FitStubAssumption DEF Init
  <2>3. [b \in Blocks |-> "none"] \in [Blocks -> BlockState]
    BY DEF BlockState
  <2> QED
    BY <2>1, <2>2, <2>3 DEF Init, TypeInv, TypeOK
<1>2. Init => TargetInv /\ PoolInv
  BY Numbers DEF Init, TargetInv, PoolInv, Blocks, Booting
<1> QED
  BY <1>1, <1>2, TypeStep, PlaceStep, PTL DEF Spec

-----------------------------------------------------------------------------
(* The type invariant of FitStub, for every set of entries and orders.     *)
THEOREM TypeCorrect == Spec => []TypeOK
<1>1. TypeInv => TypeOK
  BY DEF TypeInv
<1> QED
  BY <1>1, PlaceInvariant, PTL

(* efi_main of fit_stub gives back everything it took from the pool, and   *)
(* nothing twice, whatever fails on the way through any list of entries.   *)
THEOREM PoolComesBack == Spec => []PoolReleased
<1>1. PoolInv => PoolReleased
  BY DEF PoolInv, PoolReleased, Blocks, Booting
<1> QED
  BY <1>1, PlaceInvariant, PTL
-----------------------------------------------------------------------------
(* BootCurrent                                                             *)

(* As long as the firmware took the last write to BootCurrent, it names    *)
(* the entry that is being booted, and nothing while the stub does         *)
(* anything else: whatever it was before, whichever writes were refused    *)
(* and whichever way each entry of any list ends.                          *)
THEOREM CurrentIsTrue == Spec => []BootCurrentIsTrue
<1>1. Init => BootCurrentIsTrue
  BY DEF Init, BootCurrentIsTrue
<1>2. TypeInv /\ TargetInv /\ BootCurrentIsTrue /\ [Next]_vars => BootCurrentIsTrue'
  <2> SUFFICES ASSUME TypeInv, TargetInv, BootCurrentIsTrue, [Next]_vars
               PROVE  BootCurrentIsTrue'
    OBVIOUS
  <2>1. CASE BootEntry
    <3>1. fpc = "entry" /\ target \in Entries /\ target' = target
      BY <2>1 DEF BootEntry, At, TargetInv
    <3>2. CASE UNCHANGED <<current, written>> /\ fpc' = Continue
      <4>1. fpc' \notin Booting
        BY <3>2 DEF Continue, Booting
      <4> QED
        BY <3>1, <3>2, <4>1 DEF BootCurrentIsTrue, Booting
    <3>3. CASE SetCurrent /\ fpc' = "load"
      BY <3>1, <3>3 DEF SetCurrent, WriteCurrent, BootCurrentIsTrue
    <3> QED
      BY <2>1, <3>2, <3>3 DEF BootEntry, LeaveEntry, Goto
  <2>2. CASE LoadImage \/ ImageEnds
    <3>1. fpc \in Booting /\ target' = target
      BY <2>2 DEF LoadImage, ImageEnds, At, Booting
    <3>2. CASE \E err : RunReturns(err)
      <4>1. fpc' \notin Booting
        BY <3>2 DEF RunReturns, Goto, Continue, Booting
      <4>2. CASE target \in Entries
        BY <3>2, <4>1, <4>2 DEF RunReturns, DeleteCurrent, WriteCurrent, BootCurrentIsTrue, Booting
      <4>3. CASE target \notin Entries
        BY <3>1, <3>2, <4>1, <4>3 DEF RunReturns, DeleteCurrent, BootCurrentIsTrue, Booting
      <4> QED
        BY <4>2, <4>3
    <3>3. CASE fpc' = "image" /\ UNCHANGED <<current, written>>
      BY <3>1, <3>3 DEF BootCurrentIsTrue, Booting
    <3> QED
      BY <2>2, <3>2, <3>3 DEF LoadImage, ImageEnds, Goto
  <2>3. CASE ImageTakesOver \/ UNCHANGED vars
    BY <2>3 DEF ImageTakesOver, vars, BootCurrentIsTrue
  <2>4. CASE BootFile
    <3>1. target \notin Entries /\ target' = target /\ UNCHANGED <<current, written>>
          /\ fpc \notin Booting
      BY <2>4, Numbers DEF BootFile, At, TargetInv, Booting
    <3> QED
      BY <3>1 DEF BootCurrentIsTrue, Booting
  <2>5. CASE \/ GetDevicePathUtilities \/ BootNext \/ BootOrder \/ BootOrderLoop
             \/ OpenDevice \/ BootShell \/ Last
    <3>1. fpc \notin Booting /\ fpc' \notin Booting /\ UNCHANGED <<current, written>>
      BY <2>5
      DEF GetDevicePathUtilities, BootNext, BootOrder, BootOrderLoop, OpenDevice,
          BootShell, Last, At, Goto, Return, Booting
    <3> QED
      BY <3>1 DEF BootCurrentIsTrue, Booting
  <2> QED
    BY <2>1, <2>2, <2>3, <2>4, <2>5 DEF Next, Steps
<1> QED
  BY <1>1, <1>2, PlaceInvariant, PTL DEF Spec

-----------------------------------------------------------------------------
(* The order of the images                                                 *)

(* Where each of the candidates stands.                                    *)
LEMMA CandidatesAre ==
  ASSUME TypeInv
  PROVE  /\ Offset \in {0, 1} /\ Len(order) \in Nat
         /\ Len(Candidates) = Offset + Len(order) + 2
         /\ next # Nothing => Offset = 1 /\ Candidates[1] = next
         /\ \A i \in 1 .. Len(order) : Candidates[Offset + i] = order[i]
         /\ Candidates[Offset + Len(order) + 1] = Fallback
         /\ Candidates[Offset + Len(order) + 2] = Shell
<1> DEFINE S == Bootable \cup {Nothing}
           first == IF next = Nothing THEN <<>> ELSE <<next>>
           last == <<Fallback, Shell>>
           front == first \o order
<1>1. order \in Seq(S) /\ Len(order) \in Nat
  BY FitStubAssumption, SeqMonotonic DEF TypeInv, Bootable
<1>2. first \in Seq(S) /\ Len(first) = Offset /\ Offset \in {0, 1}
      /\ (next # Nothing => first[1] = next)
  <2>1. CASE next = Nothing
    <3>1. <<>> \in Seq(S) /\ Len(<<>>) = 0
      OBVIOUS
    <3> QED
      BY <2>1, <3>1 DEF Offset
  <2>2. CASE next # Nothing
    <3>1. next \in S
      BY <2>2 DEF TypeInv, Bootable
    <3>2. <<next>> \in Seq(S) /\ Len(<<next>>) = 1 /\ <<next>>[1] = next
      BY <3>1
    <3> QED
      BY <2>2, <3>2 DEF Offset
  <2> QED
    BY <2>1, <2>2
<1>3. last \in Seq(S) /\ Len(last) = 2 /\ last[1] = Fallback /\ last[2] = Shell
  BY DEF Bootable
<1> HIDE DEF S, first, last
<1>4. /\ front \in Seq(S) /\ Len(front) = Offset + Len(order)
      /\ \A i \in 1 .. Offset + Len(order) :
           front[i] = IF i <= Offset THEN first[i] ELSE order[i - Offset]
  BY <1>1, <1>2, ConcatProperties
<1> HIDE DEF front
<1>5. /\ Len(front \o last) = Offset + Len(order) + 2
      /\ \A i \in 1 .. Offset + Len(order) + 2 :
           (front \o last)[i] = IF i <= Offset + Len(order) THEN front[i]
                               ELSE last[i - (Offset + Len(order))]
  <2>1. /\ Len(front \o last) = Len(front) + Len(last)
        /\ \A i \in 1 .. Len(front) + Len(last) :
             (front \o last)[i] = IF i <= Len(front) THEN front[i] ELSE last[i - Len(front)]
    BY <1>3, <1>4, ConcatProperties
  <2>2. Len(front) = Offset + Len(order) /\ Len(last) = 2
    BY <1>3, <1>4
  <2> QED
    BY <2>1, <2>2
<1>6. Candidates = front \o last
  BY DEF Candidates, front, first, last
<1>7. next # Nothing => Offset = 1
  BY DEF Offset
<1> HIDE DEF Candidates
<1>8. next # Nothing => Candidates[1] = next
  BY <1>1, <1>2, <1>4, <1>5, <1>6, <1>7
<1>9. ASSUME NEW i \in 1 .. Len(order) PROVE Candidates[Offset + i] = order[i]
  <2>1. Offset + i \in 1 .. Offset + Len(order) + 2 /\ Offset + i \in 1 .. Offset + Len(order)
        /\ ~(Offset + i <= Offset) /\ Offset + i <= Offset + Len(order) /\ (Offset + i) - Offset = i
    BY <1>1, <1>2
  <2> QED
    BY <1>4, <1>5, <1>6, <2>1
<1>10. /\ Candidates[Offset + Len(order) + 1] = Fallback
       /\ Candidates[Offset + Len(order) + 2] = Shell
  <2> DEFINE n == Offset + Len(order)
  <2>1. n \in Nat
    BY <1>1, <1>2
  <2>2. \A i \in 1 .. n + 2 : Candidates[i] = IF i <= n THEN front[i] ELSE last[i - n]
    BY <1>5, <1>6
  <2> HIDE DEF n
  <2>3. Candidates[n + 1] = last[1] /\ Candidates[n + 2] = last[2]
    <3>1. /\ n + 1 \in 1 .. n + 2 /\ ~(n + 1 <= n) /\ (n + 1) - n = 1
          /\ n + 2 \in 1 .. n + 2 /\ ~(n + 2 <= n) /\ (n + 2) - n = 2
      BY <2>1
    <3> QED
      BY <2>2, <3>1
  <2> QED
    BY <1>3, <2>3 DEF n
<1> QED
  BY <1>1, <1>2, <1>5, <1>6, <1>7, <1>8, <1>9, <1>10

(* What was not started behind a place was not started behind a later one. *)
LEMMA StartedLater ==
  ASSUME NEW c, NEW l, NEW p \in Int, NEW q \in Int, p <= q, Len(c) \in Nat, StartedUpTo(c, l, p)
  PROVE  StartedUpTo(c, l, q)
<1>1. PICK at \in [1 .. Len(l) -> 1 .. Len(c)] :
        /\ \A i \in 1 .. Len(l) : l[i] = c[at[i]] /\ at[i] <= p
        /\ \A i \in 1 .. Len(l) - 1 : at[i] < at[i + 1]
  BY DEF StartedUpTo
<1>2. \A i \in 1 .. Len(l) : at[i] \in Int /\ at[i] <= q
  BY <1>1
<1> QED
  BY <1>1, <1>2 DEF StartedUpTo

(* Starting the candidate at the next place keeps the order.               *)
LEMMA StartedNext ==
  ASSUME NEW c, NEW l \in Seq(Bootable), Len(c) \in Nat, NEW p \in 1 .. Len(c),
         c[p] \in Bootable, StartedUpTo(c, l, p - 1)
  PROVE  StartedUpTo(c, Append(l, c[p]), p)
<1> DEFINE m == Append(l, c[p])
           n == Len(l)
<1>1. PICK at \in [1 .. n -> 1 .. Len(c)] :
        /\ \A i \in 1 .. n : l[i] = c[at[i]] /\ at[i] <= p - 1
        /\ \A i \in 1 .. n - 1 : at[i] < at[i + 1]
  BY DEF StartedUpTo
<1>2. n \in Nat /\ Len(m) = n + 1 /\ (\A i \in 1 .. n : m[i] = l[i]) /\ m[n + 1] = c[p]
  BY AppendProperties
<1> HIDE DEF m, n
<1> DEFINE to == [i \in 1 .. n + 1 |-> IF i = n + 1 THEN p ELSE at[i]]
<1>3. to \in [1 .. Len(m) -> 1 .. Len(c)]
  BY <1>2
<1>4. \A i \in 1 .. Len(m) : m[i] = c[to[i]] /\ to[i] <= p
  BY <1>1, <1>2
<1>5. \A i \in 1 .. Len(m) - 1 : to[i] < to[i + 1]
  BY <1>1, <1>2
<1> HIDE DEF to
<1>6. StartedUpTo(c, m, p)
  BY <1>3, <1>4, <1>5 DEF StartedUpTo
<1> QED
  BY <1>6 DEF m

(* Nothing was started yet.                                                *)
LEMMA StartedNone ==
  ASSUME NEW c, NEW p PROVE StartedUpTo(c, <<>>, p)
<1> DEFINE none == [i \in 1 .. 0 |-> 1]
<1>1. none \in [1 .. Len(<<>>) -> 1 .. Len(c)]
  OBVIOUS
<1>2. 1 .. Len(<<>>) = {} /\ 1 .. Len(<<>>) - 1 = {}
  OBVIOUS
<1> HIDE DEF none
<1> QED
  BY <1>1, <1>2, Zenon DEF StartedUpTo

(* The candidates are a list of what was there when the stub began.        *)
LEMMA SameCandidates ==
  ASSUME [Next]_vars
  PROVE  next' = next /\ order' = order /\ Candidates' = Candidates /\ Offset' = Offset
<1>1. next' = next /\ order' = order
  BY DEF Next, Steps, GetDevicePathUtilities, BootNext, BootOrder, BootOrderLoop, BootEntry,
         LoadImage, OpenDevice, BootFile, BootShell, Last, ImageTakesOver, ImageEnds,
         unchangedEnv, vars
<1> QED
  BY <1>1 DEF Candidates, Offset

(* The stub does not lose its place: OrderInv is inductive.                *)
LEMMA OrderStep ==
  TypeInv /\ TargetInv /\ OrderInv /\ [Next]_vars => OrderInv'
<1> SUFFICES ASSUME TypeInv, TargetInv, OrderInv, [Next]_vars PROVE OrderInv'
  OBVIOUS
<1>s. next' = next /\ order' = order /\ Candidates' = Candidates /\ Offset' = Offset
  BY SameCandidates
<1>t. Offset \in {0, 1} /\ Len(order) \in Nat /\ index \in 0 .. Len(order) /\ Place \in Nat
      /\ Place <= Offset + Len(order) + 2 /\ Len(Candidates) = Offset + Len(order) + 2
  BY CandidatesAre DEF TypeInv, TypeOK, Place
<1>k. ASSUME UNCHANGED <<target, index>> PROVE Place' = Place
  BY <1>s, <1>k DEF Place
<1>l. StartedUpTo(Candidates, log, Place)
  <2>1. CASE fpc \in Waiting
    BY <1>t, <2>1, StartedLater DEF OrderInv
  <2> QED
    BY <2>1 DEF OrderInv
<1>p. ASSUME UNCHANGED <<target, index, log>>, fpc' \notin Waiting \cup {"start", "boot_next"}
      PROVE  OrderInv'
  BY <1>s, <1>k, <1>l, <1>p DEF OrderInv
<1>c. Continue \notin Waiting \cup {"start", "boot_next"}
  BY DEF Continue, Waiting
<1>w. ASSUME UNCHANGED <<target, index, log>>, fpc \in Waiting, fpc' = "load"
      PROVE  OrderInv'
  BY <1>s, <1>k, <1>w DEF OrderInv, Waiting
<1>n. ASSUME UNCHANGED log, fpc' \in Waiting, Place' = Place + 1,
             Place + 1 <= Len(Candidates), Candidates[Place + 1] = target'
      PROVE  OrderInv'
  <2>1. fpc' \notin {"start", "boot_next"} /\ (Place + 1) - 1 = Place
        /\ Place + 1 \in 1 .. Len(Candidates)
    BY <1>n, <1>t DEF Waiting
  <2>2. StartedUpTo(Candidates, log', Place' - 1)
    BY <1>l, <1>n, <2>1
  <2> QED
    BY <1>n, <1>s, <2>1, <2>2 DEF OrderInv
<1>1. CASE GetDevicePathUtilities
  BY <1>1, <1>s, <1>k, <1>l
  DEF GetDevicePathUtilities, At, Return, Goto, OrderInv, Waiting
<1>2. CASE BootNext
  <2>1. CASE next = Nothing
    BY <1>2, <1>p, <2>1 DEF BootNext, Goto, Waiting
  <2>2. CASE next # Nothing
    <3>1. /\ target' = next /\ index' = 0 /\ log' = <<>> /\ fpc' = "entry"
      BY <1>2, <2>2 DEF BootNext, At, Goto, TargetInv, OrderInv
    <3>2. next \in Entries
      BY <2>2 DEF TypeInv
    <3>3. Place' = 1 /\ Candidates[1] = next
      BY <1>s, <1>t, <2>2, <3>1, <3>2, Numbers, CandidatesAre DEF Place
    <3>4. StartedUpTo(Candidates, log', Place' - 1)
      BY <3>1, StartedNone
    <3> QED
      BY <1>s, <1>t, <3>1, <3>3, <3>4 DEF OrderInv, Waiting
  <2> QED
    BY <2>1, <2>2
<1>3. CASE BootOrder
  BY <1>3, <1>p DEF BootOrder, Goto, Waiting
<1>4. CASE BootOrderLoop
  <2>1. CASE index < Len(order)
    <3>1. /\ target' = order[index + 1] /\ index' = index + 1 /\ log' = log /\ fpc' = "entry"
          /\ target \notin {Fallback, Shell}
      BY <1>4, <2>1 DEF BootOrderLoop, At, NextIndex, Goto, TargetInv
    <3>2. index + 1 \in 1 .. Len(order) /\ Place = Offset + index
          /\ Offset + (index + 1) = Place + 1 /\ Place + 1 <= Len(Candidates)
      BY <1>t, <2>1, <3>1 DEF Place
    <3>3. Candidates[Offset + (index + 1)] = order[index + 1]
      BY <3>2, CandidatesAre
    <3>4. order[index + 1] \in Entries
      BY <3>2, ElementOfSeq, FitStubAssumption DEF TypeInv
    <3>5. Place' = Place + 1
      BY <1>s, <3>1, <3>2, <3>4, Numbers DEF Place
    <3> QED
      BY <1>n, <3>1, <3>2, <3>3, <3>5 DEF Waiting
  <2>2. CASE ~(index < Len(order))
    BY <1>4, <1>p, <2>2 DEF BootOrderLoop, Goto, Waiting
  <2> QED
    BY <2>1, <2>2
<1>5. CASE BootEntry
  <2>1. UNCHANGED <<target, index, log>> /\ fpc \in Waiting /\ fpc' \in {Continue, "load"}
    BY <1>5 DEF BootEntry, LeaveEntry, Goto, At, Waiting
  <2> QED
    BY <1>p, <1>c, <1>w, <2>1
<1>6. CASE LoadImage
  <2>1. UNCHANGED <<target, index>> /\ fpc = "load"
    BY <1>6 DEF LoadImage, At
  <2>2. CASE UNCHANGED log /\ \E err : RunReturns(err)
    BY <1>p, <1>c, <2>1, <2>2 DEF RunReturns, Goto
  <2>3. CASE log' = Append(log, target) /\ Goto("image")
    <3>1. /\ Place \in 1 .. Len(Candidates) /\ Candidates[Place] = target
          /\ StartedUpTo(Candidates, log, Place - 1) /\ target \in Bootable
      BY <2>1 DEF OrderInv, Waiting, TargetInv
    <3>2. StartedUpTo(Candidates, log', Place)
      BY <1>t, <2>3, <3>1, StartedNext DEF TypeInv
    <3> QED
      BY <1>s, <1>k, <2>1, <2>3, <3>2 DEF OrderInv, Goto, Waiting
  <2> QED
    BY <1>6, <2>2, <2>3 DEF LoadImage
<1>7. CASE OpenDevice
  <2>1. CASE UNCHANGED target /\ fpc' = "returned"
    BY <1>7, <1>p, <2>1 DEF OpenDevice, Waiting
  <2>2. CASE target' = Fallback /\ fpc' = "filepath"
    <3>1. Place' = Offset + Len(order) + 1 /\ Place <= Offset + Len(order) /\ log' = log
      BY <1>7, <1>s, <1>t, <2>2, Numbers DEF OpenDevice, At, TargetInv, Place
    <3>2. StartedUpTo(Candidates, log, Place' - 1)
      BY <1>t, <1>l, <3>1, StartedLater
    <3> QED
      BY <1>s, <1>t, <2>2, <3>1, <3>2, CandidatesAre DEF OrderInv, Waiting
  <2> QED
    BY <1>7, <2>1, <2>2 DEF OpenDevice, Return, Goto
<1>8. CASE BootFile
  <2>1. UNCHANGED <<target, index, log>> /\ fpc \in Waiting /\ fpc' \in {Continue, "load"}
    BY <1>8 DEF BootFile, Goto, At, Waiting
  <2> QED
    BY <1>p, <1>c, <1>w, <2>1
<1>9. CASE BootShell
  <2>1. /\ target = Fallback /\ target' = Shell /\ log' = log /\ fpc' = "filepath"
    BY <1>9 DEF BootShell, At, Goto, TargetInv
  <2>2. Place = Offset + Len(order) + 1 /\ Place' = Place + 1
    BY <1>s, <1>t, <2>1, Numbers DEF Place
  <2> QED
    BY <1>n, <1>t, <2>1, <2>2, CandidatesAre DEF Waiting
<1>10. CASE Last
  BY <1>10, <1>p DEF Last, Return, Waiting
<1>11. CASE ImageTakesOver
  <2>1. UNCHANGED <<target, index, log, fpc>>
    BY <1>11 DEF ImageTakesOver
  <2> QED
    BY <1>s, <1>k, <2>1 DEF OrderInv
<1>12. CASE ImageEnds
  BY <1>12, <1>p, <1>c DEF ImageEnds, RunReturns, Goto
<1>13. CASE UNCHANGED vars
  BY <1>13, <1>s, <1>k DEF OrderInv, vars
<1> QED
  BY <1>1, <1>2, <1>3, <1>4, <1>5, <1>6, <1>7, <1>8, <1>9, <1>10, <1>11, <1>12, <1>13
  DEF Next, Steps

(* For every BootNext and every BootOrder, repeated entries included, the  *)
(* images that fit_stub starts are started in the order of that list, none *)
(* of its places twice, whichever loads fail and whichever images end.     *)
THEOREM StartedAsListed == Spec => []StartedInOrder
<1>1. Init => OrderInv
  BY StartedNone DEF Init, OrderInv, Waiting
<1>2. OrderInv => StartedInOrder
  <2> SUFFICES ASSUME NEW p, StartedUpTo(Candidates, log, p) PROVE StartedInOrder
    BY DEF OrderInv
  <2> QED
    BY DEF StartedUpTo, StartedInOrder
<1> QED
  BY <1>1, <1>2, OrderStep, PlaceInvariant, PTL DEF Spec
=============================================================================
