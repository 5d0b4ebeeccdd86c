------------------------------- MODULE Initrd -------------------------------
(***************************************************************************)
(* src/initrd.c: the stub offers the embedded initrd to the kernel as a    *)
(* LoadFile2 protocol on a handle with the initrd media device path.       *)
(*                                                                         *)
(* The firmware's handle database outlives the stub: when the kernel       *)
(* returns, the stub exits and its image is unloaded, and the boot manager *)
(* may start another stub.  `epoch' numbers the stubs; the static          *)
(* variables of initrd.c are new in every epoch, `media' is not.           *)
(***************************************************************************)
EXTENDS EfiBase

CONSTANTS
  MaxEpoch,   \* stubs started one after the other
  Lengths     \* lengths of the .initrd section to consider, 0 is empty

ASSUME InitrdAssumption == MaxEpoch \in Nat \ {0} /\ Lengths \subseteq Nat

VARIABLES
  epoch,           \* number of the current stub
  phase,           \* what efi_main has done about the initrd
  initrd,          \* static struct simple_buffer initrd
  initrd_handle,   \* static efi_handle_t initrd_handle
  media,           \* who is registered for the initrd media device path
  reply,           \* the last answer the kernel got
  stub

ivars == <<phase, initrd, initrd_handle, media, reply>>
vars == <<epoch, ivars, stub>>

Running == stub = "running"

Nobody == <<"nobody", 0>>
PreviousStage == <<"previous", 0>>       \* a boot loader that came before
Stub(e) == <<"stub", e>>

NoReply == [status |-> "none", size |-> 0, copied |-> 0, asked |-> 0]

Init ==
  /\ epoch = 1 /\ phase = "start"
  /\ initrd = NullBuffer /\ initrd_handle = "NULL"
  /\ media \in {Nobody, PreviousStage}
  /\ reply = NoReply
  /\ stub = "running"

-----------------------------------------------------------------------------
(* The buffer efi_main fills in for the section: its initialiser sets      *)
(* buffer, length and pos, and leaves allocated at 0.                      *)
InitrdSection(length) ==
  [NullBuffer EXCEPT !.buffer = "section", !.length = length]

(***************************************************************************)
(* install_multiple_protocol_interfaces(): refuses a device path that is   *)
(* already in the database, and may run out of memory.                     *)
(***************************************************************************)
InstallInitrd ==
  \/ /\ media = Nobody
     /\ media' = Stub(epoch) /\ initrd_handle' = "handle"
  \/ UNCHANGED <<media, initrd_handle>>

InitrdRegister(length) ==
  /\ Running /\ phase = "start"
  /\ phase' = "registered"
  /\ IF length = 0
     THEN UNCHANGED <<initrd, initrd_handle, media>>
     ELSE initrd' = InitrdSection(length) /\ InstallInitrd
  /\ UNCHANGED <<epoch, reply, stub>>

(***************************************************************************)
(* fl2_load_file(), called by the kernel through the registered protocol.  *)
(* A request says whether the parameters are valid, the file path is the   *)
(* end node, boot_policy is set, a buffer is given, and how large it is.   *)
(***************************************************************************)
Requests ==
  [valid : BOOLEAN, boot_policy : BOOLEAN, end_node : BOOLEAN,
   buffer : BOOLEAN, size : 0 .. 1 + (CHOOSE n \in Lengths : \A m \in Lengths : n >= m)]

Answer(status, size, copied, r) ==
  [status |-> status, size |-> size, copied |-> copied, asked |-> r.size]

TooSmallStrict(r) == ~r.buffer \/ r.size <= BufferLen(initrd)

TooSmallUnsized(r) == ~r.buffer

TooSmall(r) == ~r.buffer \/ r.size < BufferLen(initrd)

LoadFileAnswer(r) ==
  IF ~r.valid THEN Answer("EFI_INVALID_PARAMETER", r.size, 0, r)
  ELSE IF r.boot_policy \/ ~r.end_node THEN Answer("EFI_UNSUPPORTED", r.size, 0, r)
  ELSE IF initrd.buffer = "NULL" \/ BufferLen(initrd) = 0
  THEN Answer("EFI_NOT_FOUND", r.size, 0, r)
  ELSE IF TooSmall(r) THEN Answer("EFI_BUFFER_TOO_SMALL", BufferLen(initrd), 0, r)
  ELSE Answer("EFI_SUCCESS", BufferLen(initrd), BufferLen(initrd), r)

(* buffer_pos(&initrd) is evaluated for the copy only.                     *)
LoadFile(r) ==
  /\ Running /\ phase = "registered" /\ media = Stub(epoch)
  /\ IF LoadFileAnswer(r).status = "EFI_SUCCESS" /\ AssertFails(BufferPosOk(initrd))
     THEN stub' = "exited" /\ UNCHANGED <<epoch, ivars>>
     ELSE /\ reply' = LoadFileAnswer(r)
          /\ UNCHANGED <<epoch, phase, initrd, initrd_handle, media, stub>>

(* The protocol belongs to another stage, or to a stub that is long gone:  *)
(* then nobody knows what the call does.                                   *)
LoadFileElsewhere(r) ==
  /\ Running /\ phase = "registered" /\ media \notin {Nobody, Stub(epoch)}
  /\ reply' = Answer(IF media = PreviousStage THEN "previous" ELSE "undefined",
                     r.size, 0, r)
  /\ UNCHANGED <<epoch, phase, initrd, initrd_handle, media, stub>>

(***************************************************************************)
(* initrd_deregister() hands the address of initrd_handle to the firmware  *)
(* instead of the handle; there is no such handle and nothing happens.     *)
(***************************************************************************)
UninstallInitrd == "EFI_INVALID_PARAMETER"

ClearHandleAlways(status) == initrd_handle' = "NULL"

ClearHandle(status) ==
  initrd_handle' = IF status = "EFI_SUCCESS" THEN "NULL" ELSE initrd_handle

InitrdDeregister ==
  /\ Running /\ phase = "registered"
  /\ phase' = "deregistered"
  /\ IF initrd_handle # "NULL"
     THEN /\ ClearHandle(UninstallInitrd)
          /\ media' = IF EfiError(UninstallInitrd) THEN media ELSE Nobody
     ELSE UNCHANGED <<initrd_handle, media>>
  /\ UNCHANGED <<epoch, initrd, reply, stub>>

(* The statics of a freshly loaded stub.                                   *)
FreshStatics ==
  /\ phase' = "start" /\ initrd' = NullBuffer /\ initrd_handle' = "NULL"
  /\ reply' = NoReply

-----------------------------------------------------------------------------
(* The stub exits after initrd_deregister(), and the next one is started.  *)
NextStub ==
  /\ phase = "deregistered" \/ stub = "exited"
  /\ epoch < MaxEpoch
  /\ epoch' = epoch + 1 /\ stub' = "running"
  /\ FreshStatics
  /\ UNCHANGED media

Finished ==
  epoch = MaxEpoch /\ (phase = "deregistered" \/ ~Running) /\ UNCHANGED vars

Next ==
  \/ \E length \in Lengths : InitrdRegister(length)
  \/ \E r \in Requests : LoadFile(r) \/ LoadFileElsewhere(r)
  \/ InitrdDeregister
  \/ NextStub
  \/ Finished

Spec == Init /\ [][Next]_vars

-----------------------------------------------------------------------------
(* Properties                                                              *)

(* Type invariant.                                                         *)
TypeOK ==
  /\ epoch \in 1 .. MaxEpoch
  /\ phase \in {"start", "registered", "deregistered"}
  /\ initrd = NullBuffer \/ (initrd.buffer = "section" /\ initrd.length \in Lengths \ {0})
  /\ initrd_handle \in {"NULL", "handle"}
  /\ media \in {Nobody, PreviousStage} \cup {Stub(e) : e \in 1 .. epoch}
  /\ stub \in {"running", "exited"}

(* initrd_handle is set exactly while the firmware knows this stub's       *)
(* protocol: after a failed uninstall the handle is not forgotten.         *)
HandleIffRegistered == initrd_handle # "NULL" <=> media = Stub(epoch)

(* EFI_SUCCESS means that the whole initrd of this stub is in a buffer     *)
(* that was large enough, and nothing else is ever copied.                 *)
DeliveredWhole ==
  IF reply.status = "EFI_SUCCESS"
  THEN /\ media = Stub(epoch)
       /\ reply.copied = initrd.length /\ reply.copied <= reply.asked
       /\ reply.size = reply.copied /\ reply.copied > 0
  ELSE reply.copied = 0

(* The two calls of the LoadFile2 protocol: whoever was told the size and  *)
(* comes back with a buffer of that size is served.                        *)
RetrySucceeds ==
  [][\A r \in Requests :
       /\ LoadFile(r) /\ reply.status = "EFI_BUFFER_TOO_SMALL" /\ stub' = stub
       /\ r.valid /\ ~r.boot_policy /\ r.end_node /\ r.buffer /\ r.size = reply.size
       => reply'.status = "EFI_SUCCESS"]_vars

(* initrd.c: initrd_deregister is to "uninstall all protocol thus          *)
(* destroying the handle".                                                 *)
DeregisteredIsGone == phase = "deregistered" => media # Stub(epoch)
=============================================================================
