---------------------------- MODULE BootContract ----------------------------
(***************************************************************************)
(* What the boot stub promises to the firmware and to the owner of the     *)
(* machine, without saying how: it enters one kernel, with a command line  *)
(* that secure boot permits, or gives up with an error; when the kernel    *)
(* returns, its status is what the stub exits with.                        *)
(***************************************************************************)
CONSTANT Statuses   \* EFI status codes, "EFI_SUCCESS" among them

VARIABLES
  secure,    \* secure boot is enforced by the firmware
  stage,     \* "booting", "kernel", "returned", "exited", "crashed", "replaced"
  cmdline,   \* what the kernel was started with
  status     \* what the kernel returned or the stub exited with

cvars == <<secure, stage, cmdline, status>>

Permitted == {"none", "embedded"} \cup (IF secure THEN {} ELSE {"supplied"})

Init ==
  /\ secure \in BOOLEAN
  /\ stage = "booting" /\ cmdline = "none" /\ status = "none"

EnterKernel ==
  /\ stage = "booting" /\ stage' = "kernel"
  /\ cmdline' \in Permitted
  /\ UNCHANGED <<secure, status>>

(* Nothing was started: the exit status says so.                           *)
GiveUp ==
  /\ stage = "booting" /\ stage' = "exited"
  /\ status' \in Statuses \ {"EFI_SUCCESS"}
  /\ UNCHANGED <<secure, cmdline>>

(* The one thing that may go wrong without a status, before the kernel.    *)
Crash ==
  /\ stage = "booting" /\ stage' = "crashed"
  /\ UNCHANGED <<secure, cmdline, status>>

(* ExitBootServices: boot services, and the stub with them, are gone.      *)
TakeOver ==
  /\ stage = "kernel" /\ stage' = "replaced"
  /\ UNCHANGED <<secure, cmdline, status>>

KernelReturns ==
  /\ stage = "kernel" /\ stage' = "returned"
  /\ status' \in Statuses
  /\ UNCHANGED <<secure, cmdline>>

Exit ==
  /\ stage = "returned" /\ stage' = "exited"
  /\ UNCHANGED <<secure, cmdline, status>>

Next == EnterKernel \/ GiveUp \/ Crash \/ TakeOver \/ KernelReturns \/ Exit

Spec == Init /\ [][Next]_cvars
=============================================================================
