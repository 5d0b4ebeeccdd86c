---------------------------- MODULE InitrdProofs ----------------------------
(***************************************************************************)
(* Proofs about Initrd, for any number of stubs started one after the      *)
(* other, any lengths of the .initrd section and both kinds of build.      *)
(*                                                                         *)
(* Neither property of the registration is inductive.  The handle and the  *)
(* firmware's database agree only because no stub ever finds itself        *)
(* registered when it starts: StubsInOrder bounds the numbers in the       *)
(* database.  What the kernel was told fits the initrd only because the    *)
(* buffer is not touched after the registration: ReplyInv relates each     *)
(* answer to the buffer as it is now.                                      *)
(***************************************************************************)
EXTENDS Initrd, TLAPS

(* What a stub starts with, before it has registered anything.             *)
FreshInv ==
  phase = "start" => initrd = NullBuffer /\ initrd_handle = "NULL" /\ reply = NoReply

(* The buffer is empty or spans the whole section, from its beginning.     *)
SectionInv ==
  initrd = NullBuffer \/ \E n \in Lengths \ {0} : initrd = InitrdSection(n)

(* Whoever is registered came first, or is this stub.                      *)
StubsInOrder ==
  /\ epoch \in Nat \ {0}
  /\ media \in {Nobody, PreviousStage} \cup {Stub(e) : e \in 1 .. epoch}

(* Each answer about the initrd is about the one that is there now.        *)
ReplyInv ==
  /\ reply.status = "EFI_BUFFER_TOO_SMALL" =>
       /\ initrd.buffer = "section" /\ initrd.length > 0
       /\ initrd.pos = 0 /\ reply.size = initrd.length
  /\ DeliveredWhole

InitrdInv == FreshInv /\ SectionInv /\ StubsInOrder /\ HandleIffRegistered /\ ReplyInv

-----------------------------------------------------------------------------
(* Stubs are told apart by their numbers, and from everybody else.         *)
LEMMA StubsDiffer ==
  ASSUME NEW d, NEW e
  PROVE  (Stub(d) = Stub(e) <=> d = e) /\ Stub(d) # Nobody /\ Stub(d) # PreviousStage
BY DEF Stub, Nobody, PreviousStage

(* The fields of an empty buffer.                                          *)
LEMMA NullFields ==
  NullBuffer \in [buffer : {"NULL"}, length : {0}, pos : {0}, allocated : {0}, free : {"NULL"}]
BY DEF NullBuffer

(* The fields of a buffer that spans the section.                          *)
LEMMA SectionFields ==
  ASSUME SectionInv
  PROVE  \/ initrd.buffer = "NULL" /\ initrd = NullBuffer
         \/ /\ initrd.buffer = "section" /\ initrd.length \in Nat \ {0} /\ initrd.pos = 0
            /\ initrd.allocated = 0 /\ BufferLen(initrd) = initrd.length
<1>1. ASSUME NEW n \in Nat
      PROVE  InitrdSection(n) \in [buffer : {"section"}, length : {n}, pos : {0}, allocated : {0},
                                   free : {"NULL"}]
  BY NullFields DEF InitrdSection
<1> QED
  BY <1>1, InitrdAssumption DEF SectionInv, NullBuffer, BufferLen

(* What fl2_load_file() answers to a request, by cases on the buffer.      *)
LEMMA AnswerRight ==
  ASSUME SectionInv, NEW r \in Requests
  PROVE  LET a == LoadFileAnswer(r)
         IN  /\ a.status = "EFI_BUFFER_TOO_SMALL" =>
                  /\ initrd.buffer = "section" /\ initrd.length > 0
                  /\ initrd.pos = 0 /\ a.size = initrd.length
             /\ IF a.status = "EFI_SUCCESS"
                THEN /\ a.copied = initrd.length /\ a.copied <= a.asked
                     /\ a.size = a.copied /\ a.copied > 0
                ELSE a.copied = 0
<1>1. r.size \in Nat
  BY DEF Requests
<1> QED
  BY <1>1, SectionFields DEF LoadFileAnswer, Answer, TooSmall

-----------------------------------------------------------------------------
(* The initial states satisfy the invariant.                               *)
LEMMA InvInit == Init => InitrdInv
<1> SUFFICES ASSUME Init PROVE InitrdInv
  OBVIOUS
<1>1. FreshInv /\ SectionInv /\ StubsInOrder /\ ReplyInv
  BY DEF Init, FreshInv, SectionInv, StubsInOrder, ReplyInv, DeliveredWhole, NoReply
<1>2. HandleIffRegistered
  BY StubsDiffer DEF Init, HandleIffRegistered
<1> QED
  BY <1>1, <1>2 DEF InitrdInv

(* Every step preserves it.                                                *)
LEMMA InvStep == InitrdInv /\ [Next]_vars => InitrdInv'
<1> SUFFICES ASSUME InitrdInv, [Next]_vars PROVE InitrdInv'
  OBVIOUS
<1> USE DEF InitrdInv
<1>u. CASE UNCHANGED <<epoch, phase, initrd, initrd_handle, media, reply>>
  BY <1>u DEF FreshInv, SectionInv, StubsInOrder, HandleIffRegistered, ReplyInv, DeliveredWhole
<1>1. ASSUME NEW length \in Lengths, InitrdRegister(length) PROVE InitrdInv'
  <2>1. /\ phase = "start" /\ phase' = "registered" /\ epoch' = epoch /\ reply' = NoReply
        /\ initrd_handle = "NULL" /\ initrd = NullBuffer
    BY <1>1 DEF InitrdRegister, FreshInv
  <2>2. FreshInv' /\ ReplyInv'
    BY <2>1 DEF FreshInv, ReplyInv, DeliveredWhole, NoReply
  <2>3. SectionInv'
    BY <1>1, <2>1 DEF InitrdRegister, SectionInv
  <2>4. \/ UNCHANGED <<media, initrd_handle>>
        \/ media' = Stub(epoch) /\ initrd_handle' = "handle" /\ media = Nobody
    BY <1>1 DEF InitrdRegister, InstallInitrd
  <2> QED
    BY <2>1, <2>2, <2>3, <2>4 DEF StubsInOrder, HandleIffRegistered
<1>2. ASSUME NEW r \in Requests, LoadFile(r) PROVE InitrdInv'
  <2>1. CASE stub' = "exited" /\ UNCHANGED <<epoch, ivars>>
    BY <1>u, <2>1 DEF ivars
  <2>2. CASE reply' = LoadFileAnswer(r) /\ UNCHANGED <<epoch, phase, initrd, initrd_handle, media>>
    <3>1. phase' = "registered" /\ media' = Stub(epoch')
      BY <1>2, <2>2 DEF LoadFile
    <3>2. ReplyInv'
      BY <2>2, <3>1, AnswerRight DEF ReplyInv, DeliveredWhole
    <3> QED
      BY <2>2, <3>1, <3>2 DEF FreshInv, SectionInv, StubsInOrder, HandleIffRegistered
  <2> QED
    BY <1>2, <2>1, <2>2 DEF LoadFile
<1>3. ASSUME NEW r \in Requests, LoadFileElsewhere(r) PROVE InitrdInv'
  BY <1>3 DEF LoadFileElsewhere, Answer, FreshInv, SectionInv, StubsInOrder,
              HandleIffRegistered, ReplyInv, DeliveredWhole
<1>4. CASE InitrdDeregister
  <2>1. phase' = "deregistered" /\ UNCHANGED <<epoch, initrd, initrd_handle, media, reply>>
    BY <1>4 DEF InitrdDeregister, ClearHandle, UninstallInitrd, EfiError
  <2> QED
    BY <2>1 DEF FreshInv, SectionInv, StubsInOrder, HandleIffRegistered, ReplyInv, DeliveredWhole
<1>5. CASE NextStub
  <2>1. /\ epoch' = epoch + 1 /\ phase' = "start" /\ initrd' = NullBuffer
        /\ initrd_handle' = "NULL" /\ reply' = NoReply /\ media' = media
    BY <1>5 DEF NextStub, FreshStatics
  <2>2. FreshInv' /\ SectionInv' /\ ReplyInv'
    BY <2>1 DEF FreshInv, SectionInv, ReplyInv, DeliveredWhole, NoReply
  <2>3. StubsInOrder' /\ media # Stub(epoch + 1)
    BY <2>1, StubsDiffer DEF StubsInOrder
  <2> QED
    BY <2>1, <2>2, <2>3 DEF HandleIffRegistered
<1>6. CASE UNCHANGED vars
  BY <1>6, <1>u DEF vars, ivars
<1> QED
  BY <1>1, <1>2, <1>3, <1>4, <1>5, <1>6 DEF Next, Finished

(* The invariant holds in every reachable state.                           *)
LEMMA Invariant == Spec => []InitrdInv
BY InvInit, InvStep, PTL DEF Spec

-----------------------------------------------------------------------------
(* The type invariant of Initrd holds for every set of lengths and every   *)
(* number of stubs.                                                        *)
THEOREM TypeCorrect == Spec => []TypeOK
<1> DEFINE Rest == /\ epoch \in 1 .. MaxEpoch
                   /\ phase \in {"start", "registered", "deregistered"}
                   /\ initrd_handle \in {"NULL", "handle"}
                   /\ stub \in {"running", "exited"}
<1>1. Init => Rest
  BY InitrdAssumption DEF Init
<1>2. Rest /\ [Next]_vars => Rest'
  BY InitrdAssumption
  DEF Next, vars, ivars, InitrdRegister, InstallInitrd, LoadFile, LoadFileElsewhere,
      InitrdDeregister, ClearHandle, NextStub, FreshStatics, Finished
<1>3. Rest /\ InitrdInv => TypeOK
  BY NullFields DEF InitrdInv, SectionInv, StubsInOrder, TypeOK, InitrdSection
<1> QED
  BY <1>1, <1>2, <1>3, Invariant, PTL DEF Spec

(* The static initrd_handle of a stub is set exactly while the firmware's  *)
(* database has that stub for the initrd, however many stubs came and went *)
(* before without leaving the database.                                    *)
THEOREM HandleTellsRegistration == Spec => []HandleIffRegistered
<1>1. InitrdInv => HandleIffRegistered
  BY DEF InitrdInv
<1> QED
  BY <1>1, Invariant, PTL

(* fl2_load_file() copies the whole initrd of the stub that is running,    *)
(* into a buffer that is large enough, or nothing.                         *)
THEOREM WholeOrNothing == Spec => []DeliveredWhole
<1>1. InitrdInv => DeliveredWhole
  BY DEF InitrdInv, ReplyInv
<1> QED
  BY <1>1, Invariant, PTL

(* A caller who was told the size by EFI_BUFFER_TOO_SMALL and comes back   *)
(* with a buffer of it is served.                                          *)
THEOREM RetryServed == Spec => RetrySucceeds
<1> DEFINE Served ==
      \A r \in Requests :
        /\ LoadFile(r) /\ reply.status = "EFI_BUFFER_TOO_SMALL" /\ stub' = stub
        /\ r.valid /\ ~r.boot_policy /\ r.end_node /\ r.buffer /\ r.size = reply.size
        => reply'.status = "EFI_SUCCESS"
<1>1. InitrdInv => Served
  <2> SUFFICES ASSUME InitrdInv, NEW r \in Requests, LoadFile(r), stub' = stub,
                      reply.status = "EFI_BUFFER_TOO_SMALL",
                      r.valid, ~r.boot_policy, r.end_node, r.buffer, r.size = reply.size
               PROVE  reply'.status = "EFI_SUCCESS"
    OBVIOUS
  <2>1. reply' = LoadFileAnswer(r)
    BY DEF LoadFile, Running
  <2>2. /\ initrd.buffer = "section" /\ initrd.length > 0
        /\ BufferLen(initrd) = initrd.length /\ r.size = initrd.length
    BY SectionFields DEF InitrdInv, ReplyInv
  <2> QED
    BY <2>1, <2>2, SectionFields DEF LoadFileAnswer, TooSmall, Answer, InitrdInv
<1>2. Served => [Served]_vars
  OBVIOUS
<1> QED
  BY <1>1, <1>2, Invariant, PTL DEF RetrySucceeds
=============================================================================
