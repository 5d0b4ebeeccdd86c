------------------------------ MODULE Lockdown ------------------------------
(***************************************************************************)
(* src/lockdown.c: the tool that enrols the secure boot keys.  It reads    *)
(* KEK.auth, db.auth and PK.auth and writes the three variables in that    *)
(* order; writing PK ends the setup mode of the platform.                  *)
(*                                                                         *)
(* The variables are non-volatile.  The power may fail between any two     *)
(* steps, and the operator may run the tool again with other files.        *)
(***************************************************************************)
EXTENDS EfiBase

CONSTANT MaxRuns   \* times the tool is started

ASSUME LockdownAssumption == MaxRuns \in Nat

VARIABLES
  pc,       \* where efi_main is; "off" when the tool is not running
  runs,     \* times it was started
  nv,       \* for KEK, db and PK: the run that wrote it, or Absent, or Earlier
  secure,   \* value of the SecureBoot variable
  files,    \* what the three files are like in this run
  bufs,     \* the simple_buffers kek, db and pk of efi_main
  path,     \* char16_t* path of efi_main
  err,      \* status returned
  heap

vars == <<pc, runs, nv, secure, files, bufs, path, err, heap>>

Files == {"KEK", "db", "PK"}
Blocks == Files \cup {"path"}

FileStates == {"good", "missing", "empty", "unreadable", "rejected"}

Absent == 0
Earlier == MaxRuns + 1    \* written by someone before the first run

NoBufs == [f \in Files |-> NullBuffer]

Init ==
  /\ pc = "off" /\ runs = 0
  /\ nv \in [Files -> {Absent, Earlier}] /\ nv["PK"] = Absent
  /\ secure = FALSE
  /\ files = [f \in Files |-> "good"]
  /\ bufs = NoBufs /\ path = "NULL" /\ err = "EFI_SUCCESS"
  /\ heap = [b \in Blocks |-> "none"]

-----------------------------------------------------------------------------
(* Where efi_main goes after it has read, or enrolled, a file.             *)
AfterReadEarly(f) ==
  CASE f = "KEK" -> "set_KEK" [] f = "db" -> "read_PK" [] f = "PK" -> "set_KEK"

AfterRead(f) ==
  CASE f = "KEK" -> "read_db" [] f = "db" -> "read_PK" [] f = "PK" -> "set_KEK"

AfterSetPkEarly(f) ==
  CASE f = "KEK" -> "set_PK" [] f = "PK" -> "set_db" [] f = "db" -> "secure_boot"

AfterSet(f) ==
  CASE f = "KEK" -> "set_db" [] f = "db" -> "set_PK" [] f = "PK" -> "secure_boot"

ReadLabel(f) == CASE f = "KEK" -> "read_KEK" [] f = "db" -> "read_db" [] f = "PK" -> "read_PK"

SetLabel(f) == CASE f = "KEK" -> "set_KEK" [] f = "db" -> "set_db" [] f = "PK" -> "set_PK"

(***************************************************************************)
(* return err: _cleanup_buffer frees the three buffers and _cleanup_pool   *)
(* the path, as they are by then (h, bs, p).                               *)
(***************************************************************************)
Cleaned(h, bs, p) ==
  [b \in Blocks |->
     IF b \in Files THEN FreeBuffer(h, bs[b])[b]
     ELSE IF p # "NULL" THEN Free(h, b)[b] ELSE h[b]]

Return(status, h, bs, p) ==
  /\ pc' = "returned" /\ err' = status
  /\ heap' = Cleaned(h, bs, p) /\ bufs' = NoBufs /\ path' = "NULL"

(* A failed assertion or a call through a wild pointer.                    *)
Die == pc' = "dead" /\ UNCHANGED <<bufs, path, err, heap>>

Goto(label) == pc' = label /\ UNCHANGED err

-----------------------------------------------------------------------------
(* The operator starts the tool with some set of files.                    *)
Start ==
  /\ pc \in {"off", "returned"} /\ runs < MaxRuns
  /\ runs' = runs + 1
  /\ files' \in [Files -> FileStates]
  /\ Goto("setup_mode")
  /\ UNCHANGED <<nv, secure, bufs, path, heap>>

NotInSetupModeIgnored == FALSE

NotInSetupMode == nv["PK"] # Absent

(* SetupMode is a variable of the firmware: 1 as long as there is no PK.   *)
CheckSetupMode ==
  /\ pc = "setup_mode"
  /\ \/ Return("EFI_NOT_FOUND", heap, bufs, path)
     \/ NotInSetupMode /\ Return("EFI_UNSUPPORTED", heap, bufs, path)
     \/ ~NotInSetupMode /\ Goto("dirname") /\ UNCHANGED <<bufs, path, heap>>
  /\ UNCHANGED <<runs, nv, secure, files>>

(* get_dirname() and the open of the directory.  The copy of the name takes *)
(* two bytes a character and the block has one: the pool may be damaged.   *)
GetDirname ==
  /\ pc = "dirname"
  /\ \/ \E status \in {"EFI_UNSUPPORTED", "EFI_OUT_OF_RESOURCES"} :
          Return(status, heap, bufs, path)
     \/ Die
     \/ Return("EFI_NOT_FOUND", Malloc(heap, "path"), bufs, "path")
     \/ /\ heap' = Malloc(heap, "path") /\ path' = "path"
        /\ Goto("read_KEK") /\ UNCHANGED bufs
  /\ UNCHANGED <<runs, nv, secure, files>>

Filled(f) ==
  [bufs EXCEPT ![f] = [AllocateSimpleBuffer(bufs[f], f, 1) EXCEPT !.length = 1]]

(* Where the allocation failed the file is read to address 0.              *)
Unbacked(f) == [bufs EXCEPT ![f] = [NullBuffer EXCEPT !.length = 1]]

ResetForgotten(f) ==
  [bufs EXCEPT ![f] = AllocateSimpleBuffer(bufs[f], f, 1)]

(* memset(buffer, 0, ...) after a failed read.                             *)
Reset(f) == [bufs EXCEPT ![f] = NullBuffer]

(***************************************************************************)
(* read_file_to_buffer().  When the file cannot be opened, `handle' is     *)
(* closed although it was never set.  The result of the allocation is not  *)
(* looked at: buffer_pos() asserts it, the firmware may refuse to read to  *)
(* NULL (then buffer->free is called, which is NULL), or do it.            *)
(***************************************************************************)
ReadFile(f) ==
  /\ pc = ReadLabel(f)
  /\ \/ /\ files[f] = "missing"
        /\ Return("EFI_NOT_FOUND", heap, bufs, path) \/ Die
     \/ /\ files[f] # "missing"
        /\ Return("EFI_OUT_OF_RESOURCES", heap, bufs, path)      \* no file info
     \/ /\ files[f] = "empty"
        /\ Return("EFI_INVALID_PARAMETER", heap, bufs, path)
     \/ /\ files[f] \in {"good", "rejected"}
        /\ heap' = Malloc(heap, f) /\ bufs' = Filled(f)
        /\ Goto(AfterRead(f)) /\ UNCHANGED path
     \/ /\ files[f] = "unreadable"
        /\ Return("EFI_DEVICE_ERROR", Free(Malloc(heap, f), f), Reset(f), path)
     \/ /\ files[f] \notin {"missing", "empty"}                   \* no memory
        /\ IF NDEBUG
           THEN Die \/ (bufs' = Unbacked(f) /\ Goto(AfterRead(f)) /\ UNCHANGED <<path, heap>>)
           ELSE Die
  /\ UNCHANGED <<runs, nv, secure, files>>

(* The firmware takes the variable, or refuses it: the signature is wrong, *)
(* the data is NULL, or the store is full.                                 *)
SetVariable(f) ==
  /\ files[f] = "good" /\ bufs[f].buffer # "NULL"
  /\ nv' = [nv EXCEPT ![f] = runs]
  /\ IF f = "PK" THEN secure' \in BOOLEAN ELSE UNCHANGED secure

Enroll(f) ==
  /\ pc = SetLabel(f)
  /\ \/ /\ SetVariable(f)
        /\ Goto(AfterSet(f)) /\ UNCHANGED <<bufs, path, heap>>
     \/ /\ \E status \in {"EFI_SECURITY_VIOLATION", "EFI_OUT_OF_RESOURCES"} :
             Return(status, heap, bufs, path)
        /\ UNCHANGED <<nv, secure>>
  /\ UNCHANGED <<runs, files>>

NotSecureIgnored == FALSE

NotSecure == ~secure

CheckSecureBoot ==
  /\ pc = "secure_boot"
  /\ \/ Return("EFI_NOT_FOUND", heap, bufs, path)
     \/ NotSecure /\ Return("EFI_UNSUPPORTED", heap, bufs, path)
     \/ ~NotSecure /\ Return("EFI_SUCCESS", heap, bufs, path)
  /\ UNCHANGED <<runs, nv, secure, files>>

-----------------------------------------------------------------------------
(* Reset or power failure, at any moment: only the variables are left.     *)
PowerOff ==
  /\ pc # "off"
  /\ pc' = "off"
  /\ bufs' = NoBufs /\ path' = "NULL" /\ heap' = [b \in Blocks |-> "none"]
  /\ secure' = (nv["PK"] # Absent)
  /\ UNCHANGED <<runs, nv, files, err>>

Steps ==
  \/ CheckSetupMode \/ GetDirname \/ CheckSecureBoot
  \/ \E f \in Files : ReadFile(f) \/ Enroll(f)

Next == Start \/ Steps \/ PowerOff \/ (pc = "off" /\ runs = MaxRuns /\ UNCHANGED vars)

Spec == Init /\ [][Next]_vars

-----------------------------------------------------------------------------
(* Properties                                                              *)

Labels ==
  {"off", "setup_mode", "dirname", "read_KEK", "read_db", "read_PK", "set_KEK",
   "set_db", "set_PK", "secure_boot", "returned", "dead"}

Statuses ==
  {"EFI_SUCCESS", "EFI_NOT_FOUND", "EFI_UNSUPPORTED", "EFI_OUT_OF_RESOURCES",
   "EFI_INVALID_PARAMETER", "EFI_DEVICE_ERROR", "EFI_SECURITY_VIOLATION"}

FileBuffer(f) ==
  [buffer : {"NULL", f}, length : {0, 1}, pos : {0}, allocated : {0, 1},
   free : {"NULL", "free_simple_buffer"}]

(* Type invariant.                                                         *)
TypeOK ==
  /\ pc \in Labels
  /\ runs \in 0 .. MaxRuns
  /\ nv \in [Files -> 0 .. MaxRuns + 1]
  /\ secure \in BOOLEAN
  /\ files \in [Files -> FileStates]
  /\ DOMAIN bufs = Files /\ \A f \in Files : bufs[f] \in FileBuffer(f)
  /\ path \in {"NULL", "path"}
  /\ err \in Statuses
  /\ heap \in [Blocks -> BlockState]

(* A platform with a PK also has a KEK and a db, and all three come from   *)
(* one run of the tool, wherever the power failed, whichever write was     *)
(* refused and however often the tool was run with other files: the        *)
(* platform is never locked with keys that do not belong together.         *)
NeverLockedOut ==
  nv["PK"] # Absent => nv["KEK"] = nv["PK"] /\ nv["db"] = nv["PK"]

(* Nothing is written before all three files have been read: a variable    *)
(* only changes while every one of the buffers holds its file, or was lost *)
(* to a failed allocation.                                                 *)
AllReadBeforeFirstWrite ==
  [][nv' # nv => \A f \in Files : bufs[f].length = 1]_vars

(* Once the platform has left setup mode the tool changes nothing.         *)
KeysAreFinal == [][nv["PK"] # Absent => nv' = nv]_vars

(* Every return of efi_main gives back what it allocated, nothing is freed *)
(* twice: the read error path frees the buffer itself and _cleanup_buffer  *)
(* must not do so again.                                                   *)
ReturnReleases ==
  \A b \in Blocks :
    heap[b] # "corrupt" /\ (pc = "returned" => heap[b] # "live")

(* EFI_SUCCESS means that the platform has all keys and is in secure boot. *)
SuccessMeansSecure ==
  pc = "returned" /\ err = "EFI_SUCCESS" => secure /\ \A f \in Files : nv[f] = runs
=============================================================================
