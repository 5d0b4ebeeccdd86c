------------------------------- MODULE EfiLib -------------------------------
(***************************************************************************)
(* lib/efilib: the start of the library, its look-ups with their retry     *)
(* loops, the access to EFI variables, and the loader variables that a     *)
(* chain of images (fit_stub, then zloader) leaves for the booted system.  *)
(*                                                                         *)
(* Every image of the chain starts the library, publishes its variables,   *)
(* makes some calls of the library and hands over to the next image.  All  *)
(* the while drivers of the firmware, run from timer events, may change    *)
(* what the calls look at: the handles that carry a protocol, the name of  *)
(* an open file, the value of a variable.  The look-ups ask twice, for a   *)
(* size and for the data, and the answer can change in between.            *)
(***************************************************************************)
EXTENDS Integers, Sequences, FiniteSets, Functions, EfiBase

CONSTANTS
  Handles,       \* handles of the firmware's database, as numbers; 0 is none
  Sizes,         \* sizes of a file information and of a variable, in units
  Chain,         \* the images started one after the other
  MaxCalls,      \* library calls of one image
  MaxChanges,    \* changes made by others during one call
  Frequencies,   \* what ticks_freq() may measure
  Ticks,         \* what ticks_read() may return
  Factor, Wrap   \* a product Factor * ticks is computed modulo Wrap

ASSUME EfiLibAssumption ==
  /\ Handles \subseteq Nat \ {0} /\ IsFiniteSet(Handles)
  /\ Sizes \subseteq Nat \ {0} /\ Sizes # {}
  /\ Chain \in Seq({"fit_stub", "zloader"}) /\ Chain # <<>>
  /\ MaxCalls \in Nat /\ MaxChanges \in Nat
  /\ Frequencies \subseteq Nat /\ Ticks \subseteq Nat
  /\ Factor \in Nat \ {0} /\ Wrap \in Nat \ {0}

VARIABLES
  pc,      \* what the running image does
  image,   \* its place in the chain
  lib,     \* the library's statics freq and BOOT_TIME_USECS, and the last tick
  pub,     \* where set_systemd_variables() is, and what the firmware answered it
  store,   \* the loader variables: which image wrote them, and for times the value
  world,   \* what the call looks at and others may change, and how often they will
  call,    \* the library call in progress or just finished
  live     \* pool blocks the call holds

vars == <<pc, image, lib, pub, store, world, call, live>>

-----------------------------------------------------------------------------

(* The longest chain: the FIT boot manager starts the boot stub.           *)
BootChain == <<"fit_stub", "zloader">>

None == [by |-> -1, value |-> 0]

Kept == {"LoaderTimeInitUSec", "LoaderImageIdentifier"}

(* "StubInfo" stands for the three variables that are always written, with *)
(* LoaderFirmwareInfo and LoaderFirmwareType.                              *)
LoaderVariables == Kept \cup {"StubInfo", "LoaderTimeExecUSec"}

(* The variables an image deals with when it starts, in this order.        *)
Script ==
  [fit_stub |-> <<"LoaderTimeInitUSec">>,
   zloader |-> <<"LoaderTimeInitUSec", "StubInfo", "LoaderImageIdentifier">>]

(* `i' counts through the script; `test' is what the firmware answered     *)
(* when it was asked for that variable, if it was, and `refused' are the   *)
(* variables it did not write (history).                                   *)
NothingPublished == [i |-> 1, test |-> "none", refused |-> {}]

Absent == [size |-> 0, version |-> 0]

(* `left' counts the calls the image still makes.  `seen' and `kept' are   *)
(* the handles that carried the protocol at some time and at all times     *)
(* during the call, `values' what the variable was during it, `excused'    *)
(* says that the firmware refused something: these four are history.       *)
NoCall(left) ==
  [op |-> "none", at |-> "idle", sz |-> 0, handles |-> <<>>, i |-> 1,
   status |-> "EFI_SUCCESS", interface |-> 0, value |-> Absent, excused |-> FALSE,
   seen |-> {}, kept |-> {}, values |-> {}, left |-> left]

(* Between the calls the world is of no interest; when a call begins it    *)
(* may have become anything.                                               *)
Unwatched == [handles |-> {}, info |-> 0, value |-> Absent, changes |-> 0]

(* A boot manager (image 0) may have published variables before.           *)
Init ==
  /\ pc = "start" /\ image = 1
  /\ lib = [freq |-> 0, boot |-> 0, ticks |-> 0] /\ pub = NothingPublished
  /\ \E earlier \in {{}, Kept} :
       store = [v \in LoaderVariables |-> IF v \in earlier THEN [None EXCEPT !.by = 0] ELSE None]
  /\ world = Unwatched
  /\ call = NoCall(0)
  /\ live = 0

-----------------------------------------------------------------------------
(* initialize_library()                                                    *)

(* UINT64_C(1000000) * ticks / freq                                        *)
Usecs(ticks, freq) == ((Factor * ticks) % Wrap) \div freq

(* ticks_read() at the beginning of the image and in the course of it.     *)
Reads(ticks) == {t \in Ticks : t = 0 \/ t >= ticks}

monotonic_time_usec(ticks) == IF ticks = 0 \/ lib.freq = 0 THEN 0 ELSE Usecs(ticks, lib.freq)

(* exit(): the image is over, and with it the chain.                       *)
Die == /\ pc' = "exit"
       /\ UNCHANGED <<image, lib, pub, store, world, call, live>>

(* What is checked, in this order, before the library is ready.            *)
Checks == {"revision", "image", "LoadedImage", "image_base", "signature",
           "subsystem", "SimpleFileSystem", "open_volume"}

(* BOOT_TIME_USECS is divided by the frequency as it is; a frequency of 0  *)
(* stops an x86 and makes a time of 0 on AArch64.                          *)
InitializeLibrary ==
  /\ pc = "start"
  /\ \E ticks \in Reads(lib.ticks), freq \in Frequencies, failing \in Checks \cup {"none"} :
       \/ (failing # "none" \/ freq = 0) /\ Die
       \/ /\ failing = "none"
          /\ lib' = [freq |-> freq, ticks |-> ticks,
                     boot |-> IF freq = 0 THEN 0 ELSE Usecs(ticks, freq)]
          /\ pc' = "variables"
          /\ UNCHANGED <<image, pub, store, world, call, live>>

-----------------------------------------------------------------------------
(* The loader variables.                                                   *)

(* What the firmware says when it is asked for the size of a variable.     *)
GetVariable(name) ==
  {"EFI_DEVICE_ERROR", IF store[name] = None THEN "EFI_NOT_FOUND" ELSE "EFI_BUFFER_TOO_SMALL"}

(* Any answer but this one counts as a variable that is not there.         *)
efi_var_attributes(status) == status = "EFI_BUFFER_TOO_SMALL"

NotThereUnread(name, status) == name = "LoaderTimeInitUSec" => lib.boot # 0

NotThere(name, status) ==
  ~efi_var_attributes(status) /\ (name = "LoaderTimeInitUSec" => lib.boot # 0)

Steps == Script[Chain[image]]

(* The variable set_systemd_variables() is about, before or after the test *)
(* of whether it is there: of fit_stub's efi_main, the first lines.        *)
Publishing == pc = "variables" /\ pub.i \in 1 .. Len(Steps)

TestVariable ==
  /\ Publishing /\ Steps[pub.i] \in Kept /\ pub.test = "none"
  /\ \E status \in GetVariable(Steps[pub.i]) :
       pub' = IF NotThere(Steps[pub.i], status) THEN [pub EXCEPT !.test = status]
              ELSE [pub EXCEPT !.i = @ + 1]
  /\ UNCHANGED <<pc, image, lib, store, world, call, live>>

(* efi_var_set_printf(), of which the firmware may have none; nobody looks *)
(* at what it returns.                                                     *)
WriteVariable ==
  /\ Publishing /\ (Steps[pub.i] \in Kept => pub.test # "none")
  /\ LET name == Steps[pub.i]
     IN  \/ /\ store' = [store EXCEPT ![name] = [by |-> image, value |-> lib.boot]]
            /\ pub' = [pub EXCEPT !.i = @ + 1, !.test = "none"]
         \/ /\ store' = store
            /\ pub' = [pub EXCEPT !.i = @ + 1, !.test = "none", !.refused = @ \cup {name}]
  /\ UNCHANGED <<pc, image, lib, world, call, live>>

(* get_part_uuid_from_device_path(): partition nodes are passed over and   *)
(* the function ends with EFI_NOT_FOUND whatever it has copied; so         *)
(* LoaderDevicePartUUID is never written.                                  *)
DevicePart ==
  /\ pc = "variables" /\ pub.i > Len(Steps)
  /\ pc' = "running"
  /\ call' = NoCall(MaxCalls) /\ pub' = NothingPublished
  /\ UNCHANGED <<image, lib, store, world, live>>

(* zloader prints the path of its device whether the firmware gave it one  *)
(* or not, from an uninitialized pointer if not.                           *)
NoDevicePath ==
  pc = "variables" /\ pub.i > Len(Steps) /\ Chain[image] = "zloader" /\ Die

(* execute_image_from_memory() and its like: the time of the hand-over,    *)
(* and the next image of the chain.                                        *)
Execute ==
  /\ pc = "running" /\ call.at = "idle" /\ call.left = 0
  /\ \E ticks \in Reads(lib.ticks) :
       /\ \/ store' = store
          \/ /\ Chain[image] = "zloader" /\ lib.boot # 0
             /\ store' = [store EXCEPT !["LoaderTimeExecUSec"] =
                            [by |-> image, value |-> monotonic_time_usec(ticks)]]
       /\ lib' = [lib EXCEPT !.ticks = ticks]
  /\ image' = IF image < Len(Chain) THEN image + 1 ELSE image
  /\ pc' = IF image < Len(Chain) THEN "start" ELSE "end"
  /\ UNCHANGED <<pub, world, call, live>>

-----------------------------------------------------------------------------
(* The calls.  Each begins with the size its first request is made with.   *)

FirstSize == [get_file_info |-> 1, find_handles |-> 1, get_protocol_interface |-> 1,
              var_get_pool |-> 0]

Running(op, at) == pc = "running" /\ call.op \in op /\ call.at = at

Lookups == {"find_handles", "get_protocol_interface"}

(* The call goes on as c, holding the given number of blocks.              *)
Goes(c, blocks) ==
  /\ call' = c /\ live' = blocks
  /\ UNCHANGED <<pc, image, lib, pub, store, world>>

(* What the call looks at, as others may leave it with n changes to come.  *)
Worlds(op, n) ==
  {[Unwatched EXCEPT !.handles = h, !.changes = n] : h \in IF op \in Lookups THEN SUBSET Handles ELSE {}}
  \cup {[Unwatched EXCEPT !.info = z, !.changes = n] : z \in IF op = "get_file_info" THEN Sizes ELSE {}}
  \cup {[Unwatched EXCEPT !.value = v, !.changes = n] :
          v \in IF op = "var_get_pool" THEN [size : Sizes, version : {MaxChanges - n + 1}] \cup {Absent}
                ELSE {}}

Answer(status) == [call EXCEPT !.at = "done", !.status = status]

Refuse(status) == [Answer(status) EXCEPT !.excused = TRUE]

Begin ==
  /\ pc = "running" /\ call.at = "idle" /\ call.left > 0
  /\ \E op \in DOMAIN FirstSize : \E w \in Worlds(op, MaxChanges) :
       /\ world' = w
       /\ call' = [NoCall(call.left - 1) EXCEPT
                     !.op = op, !.sz = FirstSize[op],
                     !.at = IF op = "var_get_pool" THEN "size" ELSE "malloc",
                     !.seen = w.handles, !.kept = w.handles, !.values = {w.value}]
  /\ UNCHANGED <<pc, image, lib, pub, store, live>>

(* malloc() of the size that is known by now.                              *)
Allocate ==
  /\ Running(DOMAIN FirstSize, "malloc")
  /\ \/ Goes([call EXCEPT !.at = "query"], live + 1)
     \/ Goes(Refuse("EFI_OUT_OF_RESOURCES"), live)

(* EFI_BUFFER_TOO_SMALL: the block is given back and a larger one tried.   *)
AgainUnsized(size) == Goes([call EXCEPT !.at = "malloc"], live - 1)

AgainKeeping(size) == Goes([call EXCEPT !.sz = size, !.at = "malloc"], live)

Again(size) == Goes([call EXCEPT !.sz = size, !.at = "malloc"], live - 1)

(* handle->get_info() of lib_get_file_info().                              *)
GetFileInfo ==
  /\ Running({"get_file_info"}, "query")
  /\ IF world.info > call.sz THEN Again(world.info)
     ELSE \/ Goes(Answer("EFI_SUCCESS"), live)
          \/ Goes(Refuse("EFI_DEVICE_ERROR"), live - 1)

(* BS->locate_handle() of lib_find_handles(); the firmware lists the       *)
(* handles in an order of its own.                                         *)
FindHandles ==
  /\ Running(Lookups, "query")
  /\ LET n == Cardinality(world.handles)
     IN  IF n > call.sz THEN Again(n)
         ELSE IF n = 0 THEN Goes(Answer("EFI_NOT_FOUND"), live - 1)
         ELSE \E list \in Bijection(1 .. n, world.handles) :
                Goes([call EXCEPT !.handles = list,
                                  !.at = IF call.op = "find_handles" THEN "done" ELSE "open"], live)

(* BS->open_protocol() of lib_get_protocol_interface(): the first handle   *)
(* that still has the protocol and lets it be opened.                      *)
OpenNext(c) ==
  IF c.i < Len(c.handles) THEN [c EXCEPT !.i = @ + 1] ELSE [c EXCEPT !.at = "free"]

OpenProtocol ==
  /\ Running({"get_protocol_interface"}, "open")
  /\ LET h == call.handles[call.i]
     IN  IF h \notin world.handles
         THEN Goes(OpenNext([call EXCEPT !.status = "EFI_UNSUPPORTED"]), live)
         ELSE \/ Goes([call EXCEPT !.interface = h, !.status = "EFI_SUCCESS", !.at = "free"], live)
              \/ Goes(OpenNext([call EXCEPT !.status = "EFI_ACCESS_DENIED", !.excused = TRUE]), live)

(* An opened protocol is stored after a test of *handle.  Every caller     *)
(* passes NULL for handle, so this is a read, and perhaps a write, at      *)
(* address 0: harmless where the firmware has memory there that holds 0.   *)
ReadThroughNull ==
  /\ Running({"get_protocol_interface"}, "open")
  /\ call.handles[call.i] \in world.handles
  /\ pc' = "fault"
  /\ UNCHANGED <<image, lib, pub, store, world, call, live>>

FreeHandles ==
  /\ Running({"get_protocol_interface"}, "free")
  /\ Goes(Answer(call.status), live - 1)

(* The first RT->get_variable() of efi_var_get_pool(), for the size.       *)
VariableSize ==
  /\ Running({"var_get_pool"}, "size")
  /\ \/ Goes(Refuse("EFI_DEVICE_ERROR"), live)
     \/ IF world.value = Absent THEN Goes(Answer("EFI_NOT_FOUND"), live)
        ELSE Goes([call EXCEPT !.sz = world.value.size, !.at = "malloc"], live)

(* The second, for the value; the size that is returned is that of it.     *)
ValueReadFirstSize(value) == [value EXCEPT !.size = call.sz]

ValueRead(value) == value

ReadVariable ==
  /\ Running({"var_get_pool"}, "query")
  /\ \/ Goes(Refuse("EFI_DEVICE_ERROR"), live - 1)
     \/ IF world.value = Absent THEN Goes(Answer("EFI_NOT_FOUND"), live - 1)
        ELSE IF world.value.size > call.sz THEN Goes(Answer("EFI_BUFFER_TOO_SMALL"), live - 1)
        ELSE Goes([Answer("EFI_SUCCESS") EXCEPT !.value = ValueRead(world.value)], live)

(* What a successful call leaves to its caller, who frees it in the end.   *)
Result(c) == IF c.status = "EFI_SUCCESS" /\ c.op # "get_protocol_interface" THEN 1 ELSE 0

Finish ==
  /\ pc = "running" /\ call.at = "done"
  /\ call' = NoCall(call.left) /\ live' = live - Result(call) /\ world' = Unwatched
  /\ UNCHANGED <<pc, image, lib, pub, store>>

-----------------------------------------------------------------------------
(* Others.                                                                 *)

Change ==
  /\ pc = "running" /\ call.at \notin {"idle", "done"} /\ world.changes > 0
  /\ \E w \in Worlds(call.op, world.changes - 1) :
       /\ world' = w
       /\ call' = [call EXCEPT !.seen = @ \cup w.handles, !.kept = @ \cap w.handles,
                               !.values = @ \cup {w.value}]
  /\ UNCHANGED <<pc, image, lib, pub, store, live>>

Over == pc \in {"exit", "fault", "end"} /\ UNCHANGED vars

Program ==
  \/ InitializeLibrary \/ TestVariable \/ WriteVariable \/ DevicePart \/ Execute
  \/ Begin \/ Allocate \/ GetFileInfo \/ FindHandles \/ OpenProtocol \/ FreeHandles
  \/ VariableSize \/ ReadVariable \/ Finish

Next == Program \/ ReadThroughNull \/ NoDevicePath \/ Change \/ Over

(* The image runs by itself; nobody else has to.                           *)
Spec == Init /\ [][Next]_vars /\ WF_vars(Program)

-----------------------------------------------------------------------------

(* Whatever the retry loops of the look-ups went through, a call returns   *)
(* with exactly the block it hands out, and holds at most one before       *)
(* (lib_get_file_info, lib_find_handles, efi_var_get_pool and their        *)
(* malloc/free pairs on each path).                                        *)
PoolBalance ==
  /\ live \in {0, 1}
  /\ call.at = "done" => live = Result(call)
  /\ call.at = "idle" => live = 0

(* What a look-up answers was true during the call, although handles come  *)
(* and go and variables are written between its two questions:             *)
(* lib_get_protocol_interface returns the interface of a handle that had   *)
(* the protocol, and an error only when no handle had it all the time or   *)
(* the firmware refused; the bytes and the size efi_var_get_pool returns   *)
(* belong to one and the same value, and a variable nobody touched, and of  *)
(* which the firmware did not refuse to tell, is found.                    *)
AnswersTrue ==
  call.at = "done" =>
    CASE call.op = "get_protocol_interface" ->
           /\ call.status = "EFI_SUCCESS" => call.interface \in call.seen
           /\ EfiError(call.status) /\ ~call.excused => call.kept = {}
      [] call.op = "var_get_pool" ->
           /\ call.status = "EFI_SUCCESS" => call.value \in call.values
           /\ EfiError(call.status) /\ ~call.excused =>
                Absent \in call.values \/ Cardinality(call.values) > 1
      [] OTHER -> TRUE

(* The beginning of the boot, its time and its first image, is told once.  *)
(* Whichever images run one after the other, and although the firmware is  *)
(* asked first and written to later: what an earlier image has published   *)
(* is replaced only by one whose question the firmware refused to answer,  *)
(* for that counts as `not there'; and when an image has started, what it  *)
(* had to tell is told, by itself or by an earlier one, unless the         *)
(* firmware did not take it (set_systemd_variables, fit_stub's efi_main).  *)
Due == {v \in Kept : v = "LoaderTimeInitUSec" => lib.boot # 0}

Told == \A i \in 1 .. Len(Steps) : Steps[i] \in Due => store[Steps[i]] # None \/ Steps[i] \in pub.refused

ToldOnce ==
  /\ \A v \in Kept : store[v] # None /\ store'[v] # store[v] =>
       pc = "variables" /\ Steps[pub.i] = v /\ pub.test = "EFI_DEVICE_ERROR"
  /\ pc = "variables" /\ pc' = "running" => Told

EarlierImageWins == [][ToldOnce]_vars

(* Every look-up ends: its loop is left once the others stop changing what *)
(* it asks for.                                                            *)
CallsEnd == (call.at # "idle") ~> (call.at = "idle" \/ pc = "fault")
=============================================================================
