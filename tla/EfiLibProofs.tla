---------------------------- MODULE EfiLibProofs ----------------------------
(***************************************************************************)
(* Proofs about EfiLib, for every set of handles, every size, any number   *)
(* of calls and any number of changes others make in the middle of one.    *)
(*                                                                         *)
(* PoolBalance and AnswersTrue speak of a call that has returned.  Before  *)
(* that, PoolInv says which labels of a call hold a block, and AnswerInv   *)
(* what a call may rely on at each of them although the world changes:     *)
(* it has recorded all it has seen, the handles it still has to try are    *)
(* the only ones that can have carried the protocol all the time, and the  *)
(* size it allocated was the size of the variable at some moment.          *)
(*                                                                         *)
(* EarlierImageWins speaks of one step.  ScriptInv says which variable the *)
(* last test was about and what it promises of the write that follows, and *)
(* that the part of its script an image has been through is told.          *)
(*                                                                         *)
(* The second part is about Console, the other half of the library, for    *)
(* buffers of every size, texts of any length, any format and any number   *)
(* of calls.  OutputAsMeant is not inductive: it says nothing of the       *)
(* colour that the next character will get.  ColourInv adds which of the   *)
(* colours of the print state, of the console and of the caller's mind     *)
(* agree at each place of _print(), and what a field has to give back.     *)
(***************************************************************************)
EXTENDS EfiLib, Console, FiniteSetTheorems, SequenceTheorems, TLAPS

Ops == {"none", "get_file_info", "find_handles", "get_protocol_interface", "var_get_pool"}

Places == {"idle", "malloc", "size", "query", "open", "free", "done"}

Statuses ==
  {"EFI_SUCCESS", "EFI_NOT_FOUND", "EFI_OUT_OF_RESOURCES", "EFI_DEVICE_ERROR", "EFI_UNSUPPORTED",
   "EFI_ACCESS_DENIED", "EFI_BUFFER_TOO_SMALL"}

Values == [size : Nat, version : Int]

ValueSets == SUBSET Values

Lists == Seq(Handles)

HandleSets == SUBSET Handles

CallType ==
  [op : Ops, at : Places, sz : Nat, handles : Lists, i : Nat, status : Statuses,
   interface : Nat, value : Values, excused : BOOLEAN, seen : HandleSets, kept : HandleSets,
   values : ValueSets, left : Nat]

WorldType == [handles : HandleSets, info : Nat, value : Values, changes : Nat]

DataOK ==
  /\ call \in CallType /\ world \in WorldType /\ live \in Nat
  /\ pc \in {"start", "variables"} => call.at = "idle"
  /\ call.at \in {"idle", "done"} \/ world.changes <= MaxChanges

(* The labels of a call that holds no block, and of one that holds one.    *)
PoolInv ==
  /\ call.at \in {"idle", "malloc", "size"} => live = 0
  /\ call.at \in {"query", "open", "free"} => live = 1
  /\ call.at = "done" => live = Result(call)
  /\ call.at \in {"malloc", "size", "query"} => call.status = "EFI_SUCCESS" /\ call.i = 1
  /\ call.at \in {"open", "free"} => call.op = "get_protocol_interface"

(* The history of the call is up to date.                                  *)
Recorded ==
  /\ world.handles \subseteq call.seen /\ call.kept \subseteq world.handles
  /\ world.value \in call.values /\ IsFiniteSet(call.values)

(* The handles tried so far do not carry the protocol all the time.        *)
Trying ==
  /\ call.i \in 1 .. Len(call.handles)
  /\ \A k \in 1 .. Len(call.handles) : call.handles[k] \in call.seen
  /\ \A h \in call.kept : \E k \in 1 .. Len(call.handles) : call.handles[k] = h
  /\ ~call.excused => \A k \in 1 .. call.i - 1 : call.handles[k] \notin call.kept

InterfaceTrue ==
  /\ call.status = "EFI_SUCCESS" => call.interface \in call.seen
  /\ EfiError(call.status) /\ ~call.excused => call.kept = {}

AnswerInv ==
  /\ call.at \notin {"idle", "done"} => Recorded
  /\ call.at \in {"malloc", "query"} /\ call.op = "var_get_pool"
       => \E v \in call.values : call.sz = v.size
  /\ call.at = "open" => Trying
  /\ call.at = "free" => InterfaceTrue
  /\ AnswersTrue

LibInv == DataOK /\ PoolInv /\ AnswerInv

-----------------------------------------------------------------------------
(* Facts                                                                   *)

LEMMA EmptyRecord ==
  ASSUME NEW n \in Nat, <<>> \in Lists, {} \in HandleSets, Absent \in Values, {} \in ValueSets,
         "none" \in Ops, "idle" \in Places, "EFI_SUCCESS" \in Statuses, FALSE \in BOOLEAN,
         0 \in Nat, 1 \in Nat
  PROVE  NoCall(n) \in CallType
BY Zenon DEF NoCall, CallType

(* Between two calls.                                                      *)
LEMMA EmptyCall ==
  ASSUME NEW n \in Nat
  PROVE  /\ NoCall(n) \in CallType
         /\ NoCall(n).op = "none" /\ NoCall(n).at = "idle" /\ NoCall(n).status = "EFI_SUCCESS"
         /\ NoCall(n).left = n /\ NoCall(n).i = 1
<1>1. <<>> \in Lists /\ {} \in HandleSets /\ {} \in ValueSets
  BY DEF ValueSets, Lists, HandleSets
<1>5. Absent \in Values
  BY DEF Absent, Values
<1>2. NoCall(n).op = "none" /\ NoCall(n).at = "idle" /\ NoCall(n).status = "EFI_SUCCESS"
      /\ NoCall(n).left = n /\ NoCall(n).i = 1
  BY DEF NoCall
<1>3. "none" \in Ops /\ "idle" \in Places /\ 0 \in Nat /\ 1 \in Nat
  BY DEF Ops, Places
<1>6. "EFI_SUCCESS" \in Statuses /\ FALSE \in BOOLEAN
  BY DEF Statuses
<1>4. NoCall(n) \in CallType
  BY <1>1, <1>3, <1>5, <1>6, EmptyRecord, Zenon
<1> QED
  BY <1>2, <1>4

LEMMA EmptyWorld == Unwatched \in WorldType /\ Absent \in Values
BY DEF Unwatched, WorldType, Absent, Values, HandleSets

(* What others leave is a world, with fewer changes to come.               *)
LEMMA WorldsType ==
  ASSUME NEW op, NEW n \in Nat, n <= MaxChanges, NEW w \in Worlds(op, n)
  PROVE  w \in WorldType /\ w.changes = n
<1>0. Unwatched \in WorldType
  BY EmptyWorld
<1>1. CASE \E h \in SUBSET Handles : w = [Unwatched EXCEPT !.handles = h, !.changes = n]
  BY <1>0, <1>1 DEF WorldType, HandleSets
<1>2. CASE \E z \in Sizes : w = [Unwatched EXCEPT !.info = z, !.changes = n]
  BY <1>0, <1>2, EfiLibAssumption DEF WorldType
<1>3. CASE \E v \in [size : Sizes, version : {MaxChanges - n + 1}] \cup {Absent} :
             w = [Unwatched EXCEPT !.value = v, !.changes = n]
  <2>1. PICK v \in [size : Sizes, version : {MaxChanges - n + 1}] \cup {Absent} :
          w = [Unwatched EXCEPT !.value = v, !.changes = n]
    BY <1>3
  <2>2. v \in Values
    <3>1. MaxChanges - n + 1 \in Int
      BY EfiLibAssumption
    <3>2. CASE v = Absent
      BY <3>2, EmptyWorld
    <3>3. CASE v \in [size : Sizes, version : {MaxChanges - n + 1}]
      <4>1. v.size \in Nat /\ v.version \in Int /\ v = [size |-> v.size, version |-> v.version]
        BY <3>1, <3>3, EfiLibAssumption
      <4> QED
        BY <4>1 DEF Values
    <3> QED
      BY <3>2, <3>3
  <2> QED
    BY <1>0, <2>1, <2>2 DEF WorldType
<1> QED
  BY <1>1, <1>2, <1>3, Zenon DEF Worlds

(* Every block of a call was asked for by one of the four.                 *)
LEMMA Operations ==
  /\ DOMAIN FirstSize = Ops \ {"none"} /\ \A op \in DOMAIN FirstSize : FirstSize[op] \in Nat
BY DEF FirstSize, Ops

(* A list the firmware gives holds the handles that carry the protocol.    *)
LEMMA ListType ==
  ASSUME NEW S \in HandleSets, NEW list \in Bijection(1 .. Cardinality(S), S)
  PROVE  /\ Cardinality(S) \in Nat
         /\ list \in Lists /\ Len(list) = Cardinality(S)
         /\ \A k \in 1 .. Cardinality(S) : list[k] \in S
         /\ \A h \in S : \E k \in 1 .. Cardinality(S) : list[k] = h
<1>1. Cardinality(S) \in Nat
  BY EfiLibAssumption, FS_Subset, FS_CardinalityType DEF HandleSets
<1>2. /\ list \in [1 .. Cardinality(S) -> S]
      /\ \A h \in S : \E k \in 1 .. Cardinality(S) : list[k] = h
  BY DEF Bijection, Injection, Surjection
<1> DEFINE n == Cardinality(S)
<1>3. n \in Nat /\ list \in [1 .. n -> S] /\ S \subseteq Handles
  BY <1>1, <1>2 DEF HandleSets
<1> HIDE DEF n
<1>4. list \in Seq(Handles) /\ Len(list) = n
  BY <1>3
<1> QED
  BY <1>1, <1>2, <1>4 DEF n, Lists

(* Two different values were seen.                                         *)
LEMMA TwoValues ==
  ASSUME NEW S, IsFiniteSet(S), NEW v \in S, NEW w \in S, v # w
  PROVE  Cardinality(S) > 1
<1>1. Cardinality(S) \in Nat
  BY FS_CardinalityType
<1>2. Cardinality(S) # 0
  BY FS_EmptySet
<1>3. Cardinality(S) # 1
  BY FS_Singleton
<1> QED
  BY <1>1, <1>2, <1>3

-----------------------------------------------------------------------------
(* The steps of a call, as changes of its record.                          *)

(* What a step of the call does not touch.                                 *)
SameCall(c, d) ==
  /\ d.op = c.op /\ d.left = c.left
  /\ d.seen = c.seen /\ d.kept = c.kept /\ d.values = c.values

LEMMA StepAt ==
  ASSUME NEW c \in CallType, NEW a \in Places
  PROVE  LET d == [c EXCEPT !.at = a]
         IN  /\ d \in CallType /\ SameCall(c, d) /\ d.at = a /\ d.sz = c.sz
             /\ d.status = c.status /\ d.excused = c.excused /\ d.handles = c.handles
             /\ d.i = c.i /\ d.interface = c.interface /\ d.value = c.value
BY DEF CallType, SameCall

LEMMA StepAnswer ==
  ASSUME call \in CallType, NEW s \in Statuses
  PROVE  /\ /\ Answer(s) \in CallType /\ SameCall(call, Answer(s))
            /\ Answer(s).at = "done" /\ Answer(s).status = s
            /\ Answer(s).excused = call.excused /\ Answer(s).interface = call.interface
         /\ /\ Refuse(s) \in CallType /\ SameCall(call, Refuse(s))
            /\ Refuse(s).at = "done" /\ Refuse(s).status = s /\ Refuse(s).excused = TRUE
<1>0. "done" \in Places /\ TRUE \in BOOLEAN
  BY DEF Places
<1>1. /\ Answer(s) \in CallType /\ SameCall(call, Answer(s))
      /\ Answer(s).at = "done" /\ Answer(s).status = s
      /\ Answer(s).excused = call.excused /\ Answer(s).interface = call.interface
  BY <1>0 DEF CallType, SameCall, Answer
<1>2. ASSUME NEW c \in CallType
      PROVE  LET d == [c EXCEPT !.excused = TRUE]
             IN  /\ d \in CallType /\ SameCall(c, d) /\ d.at = c.at /\ d.status = c.status
                 /\ d.excused = TRUE
  BY DEF CallType, SameCall
<1>3. LET d == [Answer(s) EXCEPT !.excused = TRUE]
      IN  /\ d \in CallType /\ SameCall(Answer(s), d) /\ d.at = "done" /\ d.status = s
          /\ d.excused = TRUE
  BY <1>1, <1>2, Zenon
<1> QED
  BY <1>1, <1>3, Zenon DEF Refuse, SameCall

LEMMA StepValue ==
  ASSUME NEW c \in CallType, NEW v \in Values
  PROVE  LET d == [c EXCEPT !.value = v]
         IN  /\ d \in CallType /\ SameCall(c, d) /\ d.at = c.at /\ d.status = c.status
             /\ d.excused = c.excused /\ d.value = v
BY DEF CallType, SameCall

LEMMA StepIndex ==
  ASSUME NEW c \in CallType
  PROVE  LET d == [c EXCEPT !.i = @ + 1]
         IN  /\ d \in CallType /\ SameCall(c, d) /\ d.at = c.at /\ d.status = c.status
             /\ d.excused = c.excused /\ d.handles = c.handles /\ d.i = c.i + 1
<1>1. c.i + 1 \in Nat
  BY DEF CallType
<1> QED
  BY <1>1 DEF CallType, SameCall

-----------------------------------------------------------------------------
(* The steps preserve LibInv.                                              *)

LEMMA LibInit == Init => LibInv
<1> SUFFICES ASSUME Init PROVE LibInv
  OBVIOUS
<1>1. call = NoCall(0) /\ world = Unwatched /\ live = 0
  BY Zenon DEF Init
<1>2. call \in CallType /\ call.at = "idle" /\ world \in WorldType /\ live \in Nat
  BY <1>1, EmptyCall, EmptyWorld
<1> QED
  BY <1>1, <1>2 DEF LibInv, DataOK, PoolInv, AnswerInv, AnswersTrue

(* A call in progress goes on, whatever its step: its data stay typed and  *)
(* nobody else moves.                                                      *)
LEMMA GoesOn ==
  ASSUME LibInv, pc = "running", call.at \notin {"idle", "done"},
         NEW c \in CallType, NEW b \in Nat, Goes(c, b)
  PROVE  /\ DataOK' /\ call' = c /\ live' = b /\ world' = world
         /\ call \in CallType /\ Recorded /\ PoolInv
<1>1. /\ call' = c /\ live' = b /\ world' = world /\ pc' = pc
  BY Zenon DEF Goes
<1> QED
  BY <1>1 DEF LibInv, DataOK, AnswerInv

(* Where the firmware refuses, the call ends without a block.              *)
LEMMA RefuseStep ==
  ASSUME LibInv, pc = "running", call.at \notin {"idle", "done"},
         NEW s \in Statuses \ {"EFI_SUCCESS"}, NEW b \in Nat, b = 0, Goes(Refuse(s), b)
  PROVE  LibInv'
<1> DEFINE c == Refuse(s)
<1>1. c \in CallType /\ SameCall(call, c) /\ c.at = "done" /\ c.status = s /\ c.excused = TRUE
  BY StepAnswer, Zenon DEF LibInv, DataOK
<1>2. Goes(c, b)
  OBVIOUS
<1> HIDE DEF c
<1>3. DataOK' /\ call' = c /\ live' = b /\ world' = world
  BY <1>1, <1>2, GoesOn
<1>4. PoolInv'
  BY <1>1, <1>3 DEF PoolInv, Result
<1>5. AnswerInv'
  BY <1>1, <1>3 DEF AnswerInv, AnswersTrue
<1> QED
  BY <1>3, <1>4, <1>5 DEF LibInv

LEMMA AllocateStep == LibInv /\ Allocate => LibInv'
<1> SUFFICES ASSUME LibInv, Allocate PROVE LibInv'
  OBVIOUS
<1>0. /\ pc = "running" /\ call.at = "malloc" /\ call \in CallType /\ live = 0
      /\ "query" \in Places /\ "EFI_OUT_OF_RESOURCES" \in Statuses
  BY DEF LibInv, DataOK, PoolInv, Allocate, Running, Places, Statuses
<1>1. CASE Goes([call EXCEPT !.at = "query"], live + 1)
  <2> DEFINE c == [call EXCEPT !.at = "query"]
  <2>1. /\ c \in CallType /\ SameCall(call, c) /\ c.at = "query" /\ c.sz = call.sz
        /\ c.status = call.status /\ c.i = call.i
    BY <1>0, StepAt, Zenon
  <2>2. Goes(c, live + 1) /\ live + 1 \in Nat
    BY <1>0, <1>1
  <2> HIDE DEF c
  <2>3. DataOK' /\ call' = c /\ live' = live + 1 /\ world' = world /\ Recorded /\ PoolInv
    BY <1>0, <2>1, <2>2, GoesOn
  <2>4. PoolInv'
    BY <1>0, <2>1, <2>3 DEF PoolInv
  <2>5. AnswerInv'
    BY <1>0, <2>1, <2>3 DEF LibInv, AnswerInv, Recorded, SameCall, AnswersTrue
  <2> QED
    BY <2>3, <2>4, <2>5 DEF LibInv
<1>2. CASE Goes(Refuse("EFI_OUT_OF_RESOURCES"), live)
  BY <1>0, <1>2, RefuseStep
<1> QED
  BY <1>1, <1>2, Zenon DEF Allocate

(* EFI_BUFFER_TOO_SMALL, of the two calls that ask again.                  *)
LEMMA AgainStep ==
  ASSUME LibInv, pc = "running", call.at = "query", call.op # "var_get_pool",
         NEW n \in Nat, Again(n)
  PROVE  LibInv'
<1>0. call \in CallType /\ live = 1 /\ "malloc" \in Places
  BY DEF LibInv, DataOK, PoolInv, Places
<1> DEFINE c == [call EXCEPT !.sz = n, !.at = "malloc"]
<1>1. c \in CallType /\ SameCall(call, c) /\ c.at = "malloc" /\ c.status = call.status
      /\ c.i = call.i
  BY <1>0 DEF CallType, SameCall
<1>2. Goes(c, live - 1)
  BY Zenon DEF Again
<1>6. live - 1 \in Nat /\ call.at \notin {"idle", "done"}
  BY <1>0
<1> HIDE DEF c
<1>3. DataOK' /\ call' = c /\ live' = live - 1 /\ world' = world /\ Recorded /\ PoolInv
  BY <1>1, <1>2, <1>6, GoesOn
<1>4. PoolInv'
  BY <1>0, <1>1, <1>3 DEF PoolInv
<1>5. AnswerInv'
  BY <1>1, <1>3 DEF AnswerInv, Recorded, SameCall, AnswersTrue
<1> QED
  BY <1>3, <1>4, <1>5 DEF LibInv

LEMMA GetFileInfoStep == LibInv /\ GetFileInfo => LibInv'
<1> SUFFICES ASSUME LibInv, GetFileInfo PROVE LibInv'
  OBVIOUS
<1>0. /\ pc = "running" /\ call.at = "query" /\ call.op = "get_file_info" /\ call \in CallType
      /\ live = 1 /\ "EFI_SUCCESS" \in Statuses /\ "EFI_DEVICE_ERROR" \in Statuses
  BY DEF LibInv, DataOK, PoolInv, GetFileInfo, Running, Statuses
<1>1. CASE Again(world.info)
  <2>1. world.info \in Nat
    BY DEF LibInv, DataOK, WorldType
  <2> QED
    BY <1>0, <1>1, <2>1, AgainStep
<1>2. CASE Goes(Answer("EFI_SUCCESS"), live)
  <2> DEFINE c == Answer("EFI_SUCCESS")
  <2>1. c \in CallType /\ SameCall(call, c) /\ c.at = "done" /\ c.status = "EFI_SUCCESS"
    BY <1>0, StepAnswer, Zenon
  <2>2. Goes(c, live) /\ live \in Nat
    BY <1>0, <1>2
  <2> HIDE DEF c
  <2>3. DataOK' /\ call' = c /\ live' = live /\ world' = world
    BY <1>0, <2>1, <2>2, GoesOn
  <2>4. PoolInv'
    BY <1>0, <2>1, <2>3 DEF PoolInv, Result, SameCall
  <2>5. AnswerInv'
    BY <1>0, <2>1, <2>3 DEF AnswerInv, AnswersTrue, SameCall
  <2> QED
    BY <2>3, <2>4, <2>5 DEF LibInv
<1>3. CASE Goes(Refuse("EFI_DEVICE_ERROR"), live - 1)
  BY <1>0, <1>3, RefuseStep
<1> QED
  BY <1>1, <1>2, <1>3, Zenon DEF GetFileInfo

LEMMA FindHandlesStep == LibInv /\ FindHandles => LibInv'
<1> SUFFICES ASSUME LibInv, FindHandles PROVE LibInv'
  OBVIOUS
<1> DEFINE n == Cardinality(world.handles)
<1>0. /\ pc = "running" /\ call.at = "query" /\ call.op \in Lookups /\ call \in CallType
      /\ live = 1 /\ call.status = "EFI_SUCCESS" /\ "EFI_NOT_FOUND" \in Statuses
      /\ world.handles \in HandleSets /\ Recorded
  BY DEF LibInv, DataOK, PoolInv, AnswerInv, FindHandles, Running, Statuses, WorldType
<1>1. /\ n \in Nat
      /\ n = 0 => world.handles = {}
  BY <1>0, EfiLibAssumption, FS_Subset, FS_CardinalityType, FS_EmptySet DEF HandleSets
<1>2. CASE Again(n)
  <2>1. call.op # "var_get_pool"
    BY <1>0 DEF Lookups
  <2> QED
    BY <1>0, <1>1, <1>2, <2>1, AgainStep
<1>3. CASE n = 0 /\ Goes(Answer("EFI_NOT_FOUND"), live - 1)
  <2> DEFINE c == Answer("EFI_NOT_FOUND")
  <2>1. /\ c \in CallType /\ SameCall(call, c) /\ c.at = "done" /\ c.status = "EFI_NOT_FOUND"
    BY <1>0, StepAnswer, Zenon
  <2>2. Goes(c, live - 1) /\ live - 1 \in Nat /\ call.at \notin {"idle", "done"}
    BY <1>0, <1>3
  <2> HIDE DEF c, n
  <2>3. DataOK' /\ call' = c /\ live' = live - 1 /\ world' = world
    BY <1>0, <2>1, <2>2, GoesOn
  <2>4. PoolInv'
    BY <1>0, <2>1, <2>3 DEF PoolInv, Result
  <2>5. c.kept = {}
    BY <1>0, <1>1, <1>3, <2>1 DEF Recorded, SameCall
  <2>6. c.op # "var_get_pool"
    BY <1>0, <2>1 DEF SameCall, Lookups
  <2>7. AnswerInv'
    BY <2>1, <2>3, <2>5, <2>6 DEF AnswerInv, AnswersTrue, EfiError
  <2> QED
    BY <2>3, <2>4, <2>7 DEF LibInv
<1>4. ASSUME n # 0, NEW list \in Bijection(1 .. n, world.handles),
             Goes([call EXCEPT !.handles = list,
                               !.at = IF call.op = "find_handles" THEN "done" ELSE "open"], live)
      PROVE  LibInv'
  <2> DEFINE a == IF call.op = "find_handles" THEN "done" ELSE "open"
             c == [call EXCEPT !.handles = list, !.at = a]
  <2>0. /\ list \in Lists /\ Len(list) = n
        /\ \A k \in 1 .. n : list[k] \in world.handles
        /\ \A h \in world.handles : \E k \in 1 .. n : list[k] = h
    BY <1>0, <1>4, ListType
  <2>1. a \in Places /\ a = (IF call.op = "find_handles" THEN "done" ELSE "open")
    BY DEF Places
  <2>2. Goes(c, live)
    BY <1>4, Zenon
  <2> HIDE DEF a, n
  <2>3. /\ c \in CallType /\ SameCall(call, c) /\ c.at = a /\ c.status = call.status
        /\ c.excused = call.excused /\ c.handles = list /\ c.i = call.i
    BY <1>0, <2>0, <2>1 DEF CallType, SameCall
  <2> HIDE DEF c
  <2>4. live \in Nat /\ call.at \notin {"idle", "done"}
    BY <1>0
  <2>5. DataOK' /\ call' = c /\ live' = live /\ world' = world
    BY <1>0, <2>2, <2>3, <2>4, GoesOn
  <2>6. PoolInv'
    BY <1>0, <2>1, <2>3, <2>5 DEF PoolInv, Result, SameCall, Lookups
  <2>7. call.i = 1
    BY <1>0 DEF LibInv, PoolInv
  <2>8. a = "open" => Trying'
    BY <1>0, <1>1, <1>4, <2>0, <2>3, <2>5, <2>7 DEF Trying, SameCall, Recorded
  <2>9. Recorded'
    BY <1>0, <2>3, <2>5 DEF Recorded, SameCall
  <2>10. AnswerInv'
    BY <1>0, <2>1, <2>3, <2>5, <2>8, <2>9 DEF AnswerInv, AnswersTrue, SameCall, Lookups
  <2> QED
    BY <2>5, <2>6, <2>10 DEF LibInv
<1> QED
  BY <1>2, <1>3, <1>4, Zenon DEF FindHandles

(* A handle whose protocol cannot be opened is left for the next one.      *)
LEMMA OpenNextStep ==
  ASSUME LibInv, pc = "running", call.at = "open",
         NEW c \in CallType, SameCall(call, c), c.at = "open", EfiError(c.status),
         c.handles = call.handles, c.i = call.i,
         c.excused \/ (call.handles[call.i] \notin world.handles /\ c.excused = call.excused),
         Goes(OpenNext(c), live)
  PROVE  LibInv'
<1>0. /\ call.op = "get_protocol_interface" /\ live = 1 /\ Recorded /\ Trying /\ call \in CallType
      /\ "free" \in Places /\ call.at \notin {"idle", "done"} /\ live \in Nat
  BY DEF LibInv, DataOK, PoolInv, AnswerInv, Places
<1>1. ~c.excused => \A k \in 1 .. c.i : c.handles[k] \notin c.kept
  <2> SUFFICES ASSUME ~c.excused, NEW k \in 1 .. c.i PROVE c.handles[k] \notin c.kept
    OBVIOUS
  <2>1. call.i \in Nat /\ (k = call.i \/ k \in 1 .. call.i - 1)
    BY <1>0 DEF CallType
  <2>2. CASE k = call.i
    BY <1>0, <2>2 DEF Recorded, SameCall
  <2>3. CASE k \in 1 .. call.i - 1
    BY <1>0, <2>3 DEF Trying, SameCall
  <2> QED
    BY <2>1, <2>2, <2>3
<1>2. CASE c.i < Len(c.handles)
  <2> DEFINE d == [c EXCEPT !.i = @ + 1]
  <2>1. /\ d \in CallType /\ SameCall(c, d) /\ d.at = c.at /\ d.status = c.status
        /\ d.excused = c.excused /\ d.handles = c.handles /\ d.i = c.i + 1
    BY StepIndex, Zenon
  <2>2. Goes(d, live)
    BY <1>2, Zenon DEF OpenNext
  <2> HIDE DEF d
  <2>3. DataOK' /\ call' = d /\ live' = live /\ world' = world
    BY <1>0, <2>1, <2>2, GoesOn
  <2>4. PoolInv'
    BY <1>0, <2>1, <2>3 DEF PoolInv, SameCall
  <2>5. Trying'
    <3>1. /\ call'.i = call.i + 1 /\ call'.handles = call.handles /\ call'.seen = call.seen
          /\ call'.kept = call.kept /\ call'.excused = c.excused /\ c.kept = call.kept
      BY <2>1, <2>3 DEF SameCall
    <3>2. call.i \in Nat /\ call'.i \in 1 .. Len(call'.handles) /\ call'.i - 1 = c.i
      BY <1>0, <1>2, <3>1 DEF CallType, Lists
    <3> QED
      BY <1>0, <1>1, <3>1, <3>2 DEF Trying
  <2>6. AnswerInv'
    BY <1>0, <2>1, <2>3, <2>5 DEF AnswerInv, AnswersTrue, SameCall, Recorded
  <2> QED
    BY <2>3, <2>4, <2>6 DEF LibInv
<1>3. CASE ~(c.i < Len(c.handles))
  <2> DEFINE d == [c EXCEPT !.at = "free"]
  <2>1. /\ d \in CallType /\ SameCall(c, d) /\ d.at = "free" /\ d.status = c.status
        /\ d.excused = c.excused
    BY <1>0, StepAt, Zenon
  <2>2. Goes(d, live)
    BY <1>3, Zenon DEF OpenNext
  <2> HIDE DEF d
  <2>3. DataOK' /\ call' = d /\ live' = live /\ world' = world
    BY <1>0, <2>1, <2>2, GoesOn
  <2>4. PoolInv'
    BY <1>0, <2>1, <2>3 DEF PoolInv, SameCall
  <2>5. ~c.excused => c.kept = {}
    <3>1. c.i = Len(c.handles)
      BY <1>0, <1>3 DEF Trying, CallType, Lists
    <3>2. \A h \in c.kept : \E k \in 1 .. Len(c.handles) : c.handles[k] = h
      BY <1>0 DEF Trying, SameCall
    <3> QED
      BY <1>1, <3>1, <3>2
  <2>6. InterfaceTrue'
    BY <2>1, <2>3, <2>5 DEF InterfaceTrue, EfiError, SameCall
  <2>7. AnswerInv'
    BY <1>0, <2>1, <2>3, <2>6 DEF AnswerInv, AnswersTrue, SameCall, Recorded
  <2> QED
    BY <2>3, <2>4, <2>7 DEF LibInv
<1> QED
  BY <1>2, <1>3

LEMMA OpenProtocolStep == LibInv /\ OpenProtocol => LibInv'
<1> SUFFICES ASSUME LibInv, OpenProtocol PROVE LibInv'
  OBVIOUS
<1> DEFINE h == call.handles[call.i]
<1>0. /\ pc = "running" /\ call.at = "open" /\ call.op = "get_protocol_interface"
      /\ call \in CallType /\ live = 1 /\ live \in Nat /\ Recorded /\ world.handles \in HandleSets
      /\ "free" \in Places /\ "EFI_SUCCESS" \in Statuses /\ "EFI_UNSUPPORTED" \in Statuses
      /\ "EFI_ACCESS_DENIED" \in Statuses
  BY DEF LibInv, DataOK, PoolInv, AnswerInv, OpenProtocol, Running, Statuses, Places, WorldType
<1>1. CASE h \notin world.handles /\ Goes(OpenNext([call EXCEPT !.status = "EFI_UNSUPPORTED"]), live)
  <2> DEFINE c == [call EXCEPT !.status = "EFI_UNSUPPORTED"]
  <2>1. /\ c \in CallType /\ SameCall(call, c) /\ c.at = call.at /\ c.status = "EFI_UNSUPPORTED"
        /\ c.excused = call.excused /\ c.handles = call.handles /\ c.i = call.i
    BY <1>0 DEF CallType, SameCall
  <2>2. Goes(OpenNext(c), live)
    BY <1>1, Zenon
  <2> HIDE DEF c
  <2>3. EfiError(c.status)
    BY <2>1 DEF EfiError
  <2> QED
    BY <1>0, <1>1, <2>1, <2>2, <2>3, OpenNextStep
<1>2. CASE Goes(OpenNext([call EXCEPT !.status = "EFI_ACCESS_DENIED", !.excused = TRUE]), live)
  <2> DEFINE c == [call EXCEPT !.status = "EFI_ACCESS_DENIED", !.excused = TRUE]
  <2>1. /\ c \in CallType /\ SameCall(call, c) /\ c.at = call.at /\ c.status = "EFI_ACCESS_DENIED"
        /\ c.excused = TRUE /\ c.handles = call.handles /\ c.i = call.i
    BY <1>0 DEF CallType, SameCall
  <2>2. Goes(OpenNext(c), live)
    BY <1>2, Zenon
  <2> HIDE DEF c
  <2>3. EfiError(c.status) /\ c.excused
    BY <2>1 DEF EfiError
  <2> QED
    BY <1>0, <2>1, <2>2, <2>3, OpenNextStep
<1>3. CASE /\ h \in world.handles
           /\ Goes([call EXCEPT !.interface = h, !.status = "EFI_SUCCESS", !.at = "free"], live)
  <2> DEFINE c == [call EXCEPT !.interface = h, !.status = "EFI_SUCCESS", !.at = "free"]
  <2>0. h \in Nat
    BY <1>0, <1>3, EfiLibAssumption DEF HandleSets
  <2>2. Goes(c, live)
    BY <1>3, Zenon
  <2>3. h \in call.seen
    BY <1>0, <1>3 DEF Recorded
  <2> HIDE DEF h
  <2>1. /\ c \in CallType /\ SameCall(call, c) /\ c.at = "free" /\ c.status = "EFI_SUCCESS"
        /\ c.excused = call.excused /\ c.interface = h
    BY <1>0, <2>0 DEF CallType, SameCall
  <2> HIDE DEF c
  <2>4. DataOK' /\ call' = c /\ live' = live /\ world' = world
    BY <1>0, <2>1, <2>2, GoesOn
  <2>5. PoolInv'
    BY <1>0, <2>1, <2>4 DEF PoolInv, SameCall
  <2>6. InterfaceTrue'
    BY <2>1, <2>3, <2>4 DEF InterfaceTrue, EfiError, SameCall
  <2>7. AnswerInv'
    BY <1>0, <2>1, <2>4, <2>6 DEF AnswerInv, AnswersTrue, SameCall, Recorded
  <2> QED
    BY <2>4, <2>5, <2>7 DEF LibInv
<1> QED
  BY <1>1, <1>2, <1>3, Zenon DEF OpenProtocol

LEMMA FreeHandlesStep == LibInv /\ FreeHandles => LibInv'
<1> SUFFICES ASSUME LibInv, FreeHandles PROVE LibInv'
  OBVIOUS
<1>0. /\ pc = "running" /\ call.at = "free" /\ call.op = "get_protocol_interface"
      /\ call \in CallType /\ call.status \in Statuses /\ live = 1 /\ live - 1 \in Nat
      /\ call.at \notin {"idle", "done"} /\ InterfaceTrue
  BY DEF LibInv, DataOK, PoolInv, AnswerInv, FreeHandles, Running, CallType
<1> DEFINE c == Answer(call.status)
<1>1. /\ c \in CallType /\ SameCall(call, c) /\ c.at = "done" /\ c.status = call.status
      /\ c.excused = call.excused /\ c.interface = call.interface
  BY <1>0, StepAnswer, Zenon
<1>2. Goes(c, live - 1)
  BY Zenon DEF FreeHandles
<1> HIDE DEF c
<1>3. DataOK' /\ call' = c /\ live' = live - 1 /\ world' = world
  BY <1>0, <1>1, <1>2, GoesOn
<1>4. PoolInv'
  BY <1>0, <1>1, <1>3 DEF PoolInv, Result, SameCall
<1>5. AnswerInv'
  BY <1>0, <1>1, <1>3 DEF AnswerInv, AnswersTrue, InterfaceTrue, SameCall
<1> QED
  BY <1>3, <1>4, <1>5 DEF LibInv

LEMMA VariableSizeStep == LibInv /\ VariableSize => LibInv'
<1> SUFFICES ASSUME LibInv, VariableSize PROVE LibInv'
  OBVIOUS
<1>0. /\ pc = "running" /\ call.at = "size" /\ call.op = "var_get_pool" /\ call \in CallType
      /\ live = 0 /\ live \in Nat /\ call.at \notin {"idle", "done"} /\ Recorded /\ PoolInv
      /\ world.value \in Values /\ "malloc" \in Places /\ "EFI_NOT_FOUND" \in Statuses
      /\ "EFI_DEVICE_ERROR" \in Statuses
  BY DEF LibInv, DataOK, PoolInv, AnswerInv, VariableSize, Running, Statuses, Places, WorldType
<1>1. CASE world.value = Absent /\ Goes(Answer("EFI_NOT_FOUND"), live)
  <2> DEFINE c == Answer("EFI_NOT_FOUND")
  <2>1. c \in CallType /\ SameCall(call, c) /\ c.at = "done" /\ c.status = "EFI_NOT_FOUND"
    BY <1>0, StepAnswer, Zenon
  <2>2. Goes(c, live)
    BY <1>1, Zenon
  <2> HIDE DEF c
  <2>3. DataOK' /\ call' = c /\ live' = live /\ world' = world
    BY <1>0, <2>1, <2>2, GoesOn
  <2>4. PoolInv'
    BY <1>0, <2>1, <2>3 DEF PoolInv, Result
  <2>5. AnswerInv'
    BY <1>0, <1>1, <2>1, <2>3 DEF AnswerInv, AnswersTrue, SameCall, Recorded
  <2> QED
    BY <2>3, <2>4, <2>5 DEF LibInv
<1>2. CASE Goes([call EXCEPT !.sz = world.value.size, !.at = "malloc"], live)
  <2> DEFINE n == world.value.size
             c == [call EXCEPT !.sz = n, !.at = "malloc"]
  <2>0. n \in Nat
    BY <1>0 DEF Values
  <2>2. Goes(c, live) /\ n = world.value.size
    BY <1>2, Zenon
  <2> HIDE DEF n
  <2>1. /\ c \in CallType /\ SameCall(call, c) /\ c.at = "malloc" /\ c.sz = n
        /\ c.status = call.status /\ c.i = call.i
    BY <1>0, <2>0 DEF CallType, SameCall
  <2> HIDE DEF c
  <2>3. DataOK' /\ call' = c /\ live' = live /\ world' = world
    BY <1>0, <2>1, <2>2, GoesOn
  <2>4. PoolInv'
    BY <1>0, <2>1, <2>3 DEF PoolInv
  <2>5. AnswerInv'
    BY <1>0, <2>1, <2>2, <2>3 DEF AnswerInv, AnswersTrue, SameCall, Recorded
  <2> QED
    BY <2>3, <2>4, <2>5 DEF LibInv
<1>3. CASE Goes(Refuse("EFI_DEVICE_ERROR"), live)
  BY <1>0, <1>3, RefuseStep
<1> QED
  BY <1>1, <1>2, <1>3, Zenon DEF VariableSize

LEMMA ReadVariableStep == LibInv /\ ReadVariable => LibInv'
<1> SUFFICES ASSUME LibInv, ReadVariable PROVE LibInv'
  OBVIOUS
<1>0. /\ pc = "running" /\ call.at = "query" /\ call.op = "var_get_pool" /\ call \in CallType
      /\ live = 1 /\ live \in Nat /\ live - 1 \in Nat /\ call.at \notin {"idle", "done"} /\ Recorded
      /\ world.value \in Values /\ "EFI_SUCCESS" \in Statuses /\ "EFI_NOT_FOUND" \in Statuses
      /\ "EFI_BUFFER_TOO_SMALL" \in Statuses /\ "EFI_DEVICE_ERROR" \in Statuses
      /\ \E v \in call.values : call.sz = v.size
  BY DEF LibInv, DataOK, PoolInv, AnswerInv, ReadVariable, Running, Statuses, WorldType
(* Each failure but the firmware's refusal has a reason.                   *)
<1>1. ASSUME NEW s \in {"EFI_NOT_FOUND", "EFI_BUFFER_TOO_SMALL"}, Goes(Answer(s), live - 1),
             Absent \in call.values \/ Cardinality(call.values) > 1
      PROVE  LibInv'
  <2> DEFINE c == Answer(s)
  <2>0. s \in Statuses /\ s # "EFI_SUCCESS"
    BY DEF Statuses
  <2>1. c \in CallType /\ SameCall(call, c) /\ c.at = "done" /\ c.status = s
    BY <1>0, <2>0, StepAnswer, Zenon
  <2>2. Goes(c, live - 1)
    BY <1>1, Zenon
  <2> HIDE DEF c
  <2>3. DataOK' /\ call' = c /\ live' = live - 1 /\ world' = world
    BY <1>0, <2>1, <2>2, GoesOn
  <2>4. PoolInv'
    BY <1>0, <2>0, <2>1, <2>3 DEF PoolInv, Result
  <2>5. call'.values = call.values
    BY <2>1, <2>3 DEF SameCall
  <2>6. Absent \in call'.values \/ Cardinality(call'.values) > 1
    BY <1>1, <2>5, Zenon
  <2>7. AnswerInv'
    BY <1>0, <2>0, <2>1, <2>3, <2>6 DEF AnswerInv, AnswersTrue, SameCall
  <2> QED
    BY <2>3, <2>4, <2>7 DEF LibInv
<1>2. CASE world.value = Absent /\ Goes(Answer("EFI_NOT_FOUND"), live - 1)
  BY <1>0, <1>1, <1>2 DEF Recorded
<1>3. CASE world.value.size > call.sz /\ Goes(Answer("EFI_BUFFER_TOO_SMALL"), live - 1)
  <2>1. PICK v \in call.values : call.sz = v.size
    BY <1>0
  <2>2. v # world.value
    <3>1. world.value.size \in Nat /\ call.sz \in Nat
      BY <1>0 DEF Values, CallType
    <3> QED
      BY <1>3, <2>1, <3>1
  <2>3. Cardinality(call.values) > 1
    BY <1>0, <2>2, TwoValues DEF Recorded
  <2> QED
    BY <1>1, <1>3, <2>3
<1>4. CASE Goes([Answer("EFI_SUCCESS") EXCEPT !.value = ValueRead(world.value)], live)
  <2> DEFINE b == Answer("EFI_SUCCESS")
             c == [b EXCEPT !.value = world.value]
  <2>1. b \in CallType /\ SameCall(call, b) /\ b.at = "done" /\ b.status = "EFI_SUCCESS"
    BY <1>0, StepAnswer, Zenon
  <2>2. Goes(c, live)
    BY <1>4, Zenon DEF ValueRead
  <2> HIDE DEF b
  <2>3. /\ c \in CallType /\ SameCall(b, c) /\ c.at = b.at /\ c.status = b.status
        /\ c.value = world.value
    BY <1>0, <2>1, StepValue, Zenon
  <2> HIDE DEF c
  <2>4. DataOK' /\ call' = c /\ live' = live /\ world' = world
    BY <1>0, <2>2, <2>3, GoesOn
  <2>5. PoolInv'
    BY <1>0, <2>1, <2>3, <2>4 DEF PoolInv, Result, SameCall
  <2>6. AnswerInv'
    BY <1>0, <2>1, <2>3, <2>4 DEF AnswerInv, AnswersTrue, SameCall, Recorded, EfiError
  <2> QED
    BY <2>4, <2>5, <2>6 DEF LibInv
<1>5. CASE Goes(Refuse("EFI_DEVICE_ERROR"), live - 1)
  BY <1>0, <1>5, RefuseStep
<1> QED
  BY <1>2, <1>3, <1>4, <1>5, Zenon DEF ReadVariable

LEMMA FinishStep == LibInv /\ Finish => LibInv'
<1> SUFFICES ASSUME LibInv, Finish PROVE LibInv'
  OBVIOUS
<1>1. /\ call' = NoCall(call.left) /\ live' = live - Result(call) /\ world' = Unwatched
      /\ live = Result(call) /\ pc' = pc /\ pc = "running" /\ call.left \in Nat
  BY DEF LibInv, PoolInv, Finish, DataOK, CallType
<1>2. Result(call) \in Nat
  BY DEF Result
<1>3. call' \in CallType /\ call'.at = "idle" /\ live' = 0 /\ world' \in WorldType
  BY <1>1, <1>2, EmptyCall, EmptyWorld
<1> QED
  BY <1>1, <1>3 DEF LibInv, DataOK, PoolInv, AnswerInv, AnswersTrue

LEMMA BeginStep == LibInv /\ Begin => LibInv'
<1> SUFFICES ASSUME LibInv, Begin PROVE LibInv'
  OBVIOUS
<1>0. /\ pc = "running" /\ call.at = "idle" /\ call.left > 0 /\ call \in CallType /\ live = 0
      /\ call.left - 1 \in Nat /\ pc' = pc /\ live' = live
  BY DEF LibInv, DataOK, PoolInv, Begin, CallType
<1>a. PICK op \in DOMAIN FirstSize :
        \E w \in Worlds(op, MaxChanges) :
          /\ world' = w
          /\ call' = [NoCall(call.left - 1) EXCEPT
                        !.op = op, !.sz = FirstSize[op],
                        !.at = IF op = "var_get_pool" THEN "size" ELSE "malloc",
                        !.seen = w.handles, !.kept = w.handles, !.values = {w.value}]
  BY Zenon DEF Begin
<1>1. PICK w \in Worlds(op, MaxChanges) :
        /\ world' = w
        /\ call' = [NoCall(call.left - 1) EXCEPT
                      !.op = op, !.sz = FirstSize[op],
                      !.at = IF op = "var_get_pool" THEN "size" ELSE "malloc",
                      !.seen = w.handles, !.kept = w.handles, !.values = {w.value}]
  BY <1>a, Zenon
<1> DEFINE c == NoCall(call.left - 1)
           a == IF op = "var_get_pool" THEN "size" ELSE "malloc"
           z == FirstSize[op]
           V == {w.value}
<1>2. c \in CallType /\ c.status = "EFI_SUCCESS" /\ c.i = 1
  BY <1>0, EmptyCall, Zenon
<1>3. op \in Ops /\ z \in Nat
  BY Operations
<1>4. w \in WorldType /\ w.changes = MaxChanges
  BY EfiLibAssumption, WorldsType
<1>5. w.handles \in HandleSets /\ V \in ValueSets /\ w.value \in V /\ IsFiniteSet(V)
  BY <1>4, FS_Singleton DEF WorldType, ValueSets
<1>6. a \in Places /\ a = (IF op = "var_get_pool" THEN "size" ELSE "malloc")
  BY DEF Places
<1>7. call' = [c EXCEPT !.op = op, !.sz = z, !.at = a, !.seen = w.handles, !.kept = w.handles,
                        !.values = V]
  BY <1>1
<1> HIDE DEF c, a, z, V
<1>8. /\ call' \in CallType /\ call'.op = op /\ call'.at = a /\ call'.status = "EFI_SUCCESS"
      /\ call'.i = 1 /\ call'.seen = w.handles /\ call'.kept = w.handles /\ call'.values = V
  BY <1>2, <1>3, <1>5, <1>6, <1>7 DEF CallType
<1>9. DataOK'
  BY <1>0, <1>1, <1>4, <1>8, EfiLibAssumption DEF DataOK
<1>10. PoolInv'
  BY <1>0, <1>6, <1>8 DEF PoolInv
<1>11. Recorded'
  BY <1>1, <1>5, <1>8 DEF Recorded
<1>12. AnswerInv'
  BY <1>6, <1>8, <1>11 DEF AnswerInv, AnswersTrue
<1> QED
  BY <1>9, <1>10, <1>12 DEF LibInv

(* Others: what the call has recorded stays true of the whole call.        *)
LEMMA ChangeStep == LibInv /\ Change => LibInv'
<1> SUFFICES ASSUME LibInv, Change PROVE LibInv'
  OBVIOUS
<1>0. /\ pc = "running" /\ call.at \notin {"idle", "done"} /\ world.changes > 0
      /\ call \in CallType /\ Recorded /\ pc' = pc /\ live' = live /\ live \in Nat
      /\ world.changes - 1 \in Nat /\ world.changes - 1 <= MaxChanges /\ PoolInv
  BY EfiLibAssumption DEF LibInv, DataOK, PoolInv, AnswerInv, Change, WorldType
<1>1. PICK w \in Worlds(call.op, world.changes - 1) :
        /\ world' = w
        /\ call' = [call EXCEPT !.seen = @ \cup w.handles, !.kept = @ \cap w.handles,
                                !.values = @ \cup {w.value}]
  BY Zenon DEF Change
<1>2. w \in WorldType /\ w.changes = world.changes - 1
  BY <1>0, WorldsType
<1> DEFINE H == w.handles
           v == w.value
<1>3. H \in HandleSets /\ v \in Values /\ world'.handles = H /\ world'.value = v
  BY <1>1, <1>2 DEF WorldType
<1>4. call' = [call EXCEPT !.seen = @ \cup H, !.kept = @ \cap H, !.values = @ \cup {v}]
  BY <1>1
<1> HIDE DEF H, v
<1>5. /\ call' \in CallType /\ call'.op = call.op /\ call'.at = call.at /\ call'.sz = call.sz
      /\ call'.handles = call.handles /\ call'.i = call.i /\ call'.status = call.status
      /\ call'.interface = call.interface /\ call'.excused = call.excused
      /\ call'.seen = call.seen \cup H /\ call'.kept = call.kept \cap H
      /\ call'.values = call.values \cup {v}
  <2>1. /\ call.seen \cup H \in HandleSets /\ call.kept \cap H \in HandleSets
        /\ call.values \cup {v} \in ValueSets
    BY <1>0, <1>3 DEF CallType, HandleSets, ValueSets
  <2> QED
    BY <1>0, <1>4, <2>1 DEF CallType
<1>6. DataOK'
  BY <1>0, <1>1, <1>2, <1>5 DEF DataOK
<1>7. PoolInv'
  BY <1>0, <1>5 DEF PoolInv
<1>8. Recorded'
  <2>1. IsFiniteSet(call.values \cup {v})
    BY <1>0, FS_AddElement DEF Recorded
  <2> QED
    BY <1>3, <1>5, <2>1 DEF Recorded
<1>9. call.at = "open" => Trying'
  <2> SUFFICES ASSUME call.at = "open" PROVE Trying'
    OBVIOUS
  <2>1. Trying
    BY DEF LibInv, AnswerInv
  <2> QED
    BY <1>5, <2>1 DEF Trying
<1>10. call.at = "free" => InterfaceTrue'
  <2> SUFFICES ASSUME call.at = "free" PROVE InterfaceTrue'
    OBVIOUS
  <2>1. InterfaceTrue
    BY DEF LibInv, AnswerInv
  <2> QED
    BY <1>5, <2>1 DEF InterfaceTrue
<1>11. call.at \in {"malloc", "query"} /\ call.op = "var_get_pool"
         => \E x \in call'.values : call'.sz = x.size
  BY <1>5 DEF LibInv, AnswerInv
<1>12. AnswerInv'
  BY <1>0, <1>5, <1>8, <1>9, <1>10, <1>11 DEF AnswerInv, AnswersTrue
<1> QED
  BY <1>6, <1>7, <1>12 DEF LibInv

(* The rest of an image's life leaves the call and what it looks at alone. *)
LEMMA IdleStep ==
  ASSUME LibInv, UNCHANGED <<world, call, live>>, pc' \in {"start", "variables"} => call.at = "idle"
  PROVE  LibInv'
<1>1. DataOK'
  BY DEF LibInv, DataOK
<1>2. PoolInv'
  BY DEF LibInv, PoolInv, Result
<1>3. AnswerInv'
  BY DEF LibInv, AnswerInv, AnswersTrue, Recorded, Trying, InterfaceTrue
<1> QED
  BY <1>1, <1>2, <1>3 DEF LibInv

LEMMA DevicePartStep == LibInv /\ DevicePart => LibInv'
<1> SUFFICES ASSUME LibInv, DevicePart PROVE LibInv'
  OBVIOUS
<1>1. /\ call' = NoCall(MaxCalls) /\ world' = world /\ live' = live /\ pc' = "running"
      /\ pc = "variables"
  BY Zenon DEF DevicePart
<1>2. live = 0 /\ world \in WorldType
  BY <1>1 DEF LibInv, DataOK, PoolInv
<1>3. call' \in CallType /\ call'.at = "idle"
  BY <1>1, EfiLibAssumption, EmptyCall
<1> QED
  BY <1>1, <1>2, <1>3 DEF LibInv, DataOK, PoolInv, AnswerInv, AnswersTrue

LEMMA LibStep == LibInv /\ [Next]_vars => LibInv'
<1> SUFFICES ASSUME LibInv, [Next]_vars PROVE LibInv'
  OBVIOUS
<1>1. CASE InitializeLibrary
  <2>1. UNCHANGED <<world, call, live>> /\ pc = "start"
    BY <1>1, Zenon DEF InitializeLibrary, Die
  <2>2. call.at = "idle"
    BY <2>1 DEF LibInv, DataOK
  <2> QED
    BY <2>1, <2>2, IdleStep
<1>2. CASE Execute
  <2>1. UNCHANGED <<world, call, live>> /\ call.at = "idle"
    BY <1>2, Zenon DEF Execute
  <2> QED
    BY <2>1, IdleStep
<1>6. CASE TestVariable \/ WriteVariable
  <2>1. UNCHANGED <<world, call, live, pc>>
    BY <1>6, Zenon DEF TestVariable, WriteVariable
  <2> QED
    BY <2>1, IdleStep DEF LibInv, DataOK
<1>3. CASE NoDevicePath \/ ReadThroughNull
  <2>1. UNCHANGED <<world, call, live>> /\ pc' \in {"exit", "fault"}
    BY <1>3 DEF NoDevicePath, ReadThroughNull, Die
  <2> QED
    BY <2>1, IdleStep
<1>4. CASE UNCHANGED vars
  <2>1. UNCHANGED <<world, call, live>> /\ pc' = pc
    BY <1>4 DEF vars
  <2> QED
    BY <2>1, IdleStep DEF LibInv, DataOK
<1>5. CASE Program
  BY <1>1, <1>2, <1>5, <1>6, DevicePartStep, BeginStep, AllocateStep, GetFileInfoStep,
     FindHandlesStep, OpenProtocolStep, FreeHandlesStep, VariableSizeStep, ReadVariableStep,
     FinishStep, Zenon DEF Program
<1> QED
  BY <1>3, <1>4, <1>5, ChangeStep, Zenon DEF Next, Over

LEMMA LibInvariant == Spec => []LibInv
BY LibInit, LibStep, PTL DEF Spec

(* A look-up returns with exactly the block it hands out and holds at most *)
(* one before, for any number of rounds its retry loop takes               *)
(* (lib_get_file_info, lib_find_handles, efi_var_get_pool).                *)
THEOREM PoolBalanced == Spec => []PoolBalance
<1>1. LibInv => PoolBalance
  <2> SUFFICES ASSUME LibInv PROVE PoolBalance
    OBVIOUS
  <2>1. call.at \in Places
    BY DEF LibInv, DataOK, CallType
  <2>2. Result(call) \in {0, 1}
    BY DEF Result
  <2> QED
    BY <2>1, <2>2 DEF LibInv, PoolInv, PoolBalance, Places
<1> QED
  BY <1>1, LibInvariant, PTL

(* What a look-up answers was true during the call, whatever others did    *)
(* between its questions and however often (lib_get_protocol_interface,    *)
(* efi_var_get_pool).                                                      *)
THEOREM LookupsTrue == Spec => []AnswersTrue
<1>1. LibInv => AnswersTrue
  BY DEF LibInv, AnswerInv
<1> QED
  BY <1>1, LibInvariant, PTL

-----------------------------------------------------------------------------
(* The loader variables.                                                   *)

(* The write is a step of its own.  What keeps it from replacing what is   *)
(* there is that the answer the image has got still holds, and that the    *)
(* part of the script it has been through is told.                         *)
ToldUpTo(n) ==
  \A i \in 1 .. n : Steps[i] \in Due => store[Steps[i]] # None \/ Steps[i] \in pub.refused

Questions == {"none", "EFI_NOT_FOUND", "EFI_DEVICE_ERROR", "EFI_BUFFER_TOO_SMALL"}

ScriptInv ==
  /\ image \in 1 .. Len(Chain) /\ DOMAIN store = LoaderVariables
  /\ pub \in [i : Nat \ {0}, test : Questions, refused : SUBSET LoaderVariables]
  /\ pc \in {"start", "running"} => pub = NothingPublished
  /\ pc = "variables" =>
       /\ pub.i <= Len(Steps) + 1
       /\ pub.test # "none" => /\ Publishing /\ Steps[pub.i] \in Due
                               /\ pub.test # "EFI_DEVICE_ERROR" => store[Steps[pub.i]] = None
       /\ ToldUpTo(pub.i - 1)

LEMMA Scripts ==
  ASSUME NEW n \in 1 .. Len(Chain)
  PROVE  LET steps == Script[Chain[n]]
         IN  /\ Len(steps) \in {1, 3}
             /\ \A i \in 1 .. Len(steps) : steps[i] \in LoaderVariables
             /\ \A i, j \in 1 .. Len(steps) : steps[i] = steps[j] => i = j
<1>1. Chain[n] \in {"fit_stub", "zloader"}
  BY EfiLibAssumption, ElementOfSeq
<1>2. CASE Chain[n] = "fit_stub"
  <2>1. Script[Chain[n]] = <<"LoaderTimeInitUSec">>
    BY <1>2 DEF Script
  <2> QED
    BY <1>1, <2>1 DEF LoaderVariables, Kept
<1>3. CASE Chain[n] = "zloader"
  <2>1. Script[Chain[n]] = <<"LoaderTimeInitUSec", "StubInfo", "LoaderImageIdentifier">>
    BY <1>3 DEF Script
  <2> QED
    BY <1>1, <2>1 DEF LoaderVariables, Kept
<1> QED
  BY <1>1, <1>2, <1>3

(* Nothing has been told when an image starts.                             *)
LEMMA NothingTold ==
  /\ NothingPublished \in [i : Nat \ {0}, test : Questions, refused : SUBSET LoaderVariables]
  /\ NothingPublished.i = 1 /\ NothingPublished.test = "none"
BY DEF NothingPublished, Questions

(* The question.                                                           *)
LEMMA TestVariableStep == ScriptInv /\ TestVariable => ScriptInv'
<1> SUFFICES ASSUME ScriptInv, TestVariable PROVE ScriptInv'
  OBVIOUS
<1>1. /\ pc = "variables" /\ pub.i \in 1 .. Len(Steps) /\ Steps[pub.i] \in Kept
      /\ UNCHANGED <<pc, image, lib, store>>
  BY DEF TestVariable, Publishing
<1>2. Steps' = Steps /\ Due' = Due /\ Len(Steps) \in Nat
  BY <1>1, Scripts DEF Steps, Due, ScriptInv
<1>3. PICK status \in GetVariable(Steps[pub.i]) :
        pub' = IF NotThere(Steps[pub.i], status) THEN [pub EXCEPT !.test = status]
               ELSE [pub EXCEPT !.i = @ + 1]
  BY DEF TestVariable
<1>4. status \in Questions
  BY <1>3 DEF GetVariable, Questions
<1>5. /\ pub \in [i : Nat \ {0}, test : Questions, refused : SUBSET LoaderVariables]
      /\ ToldUpTo(pub.i - 1) /\ pub.test = "none"
  BY <1>1 DEF ScriptInv, TestVariable
<1>6. CASE NotThere(Steps[pub.i], status)
  <2>1. /\ pub' = [pub EXCEPT !.test = status]
        /\ pub' \in [i : Nat \ {0}, test : Questions, refused : SUBSET LoaderVariables]
        /\ pub'.i = pub.i /\ pub'.test = status /\ pub'.refused = pub.refused
    BY <1>3, <1>4, <1>5, <1>6
  <2>2. Steps[pub.i] \in Due
    BY <1>1, <1>6 DEF NotThere, Due
  <2>3. status # "EFI_DEVICE_ERROR" => store[Steps[pub.i]] = None
    BY <1>3, <1>6 DEF NotThere, efi_var_attributes, GetVariable
  <2>4. ToldUpTo(pub.i - 1)'
    BY <1>1, <1>2, <1>5, <2>1 DEF ToldUpTo
  <2> QED
    BY <1>1, <1>2, <2>1, <2>2, <2>3, <2>4 DEF ScriptInv, Publishing
<1>7. CASE ~NotThere(Steps[pub.i], status)
  <2>1. /\ pub' = [pub EXCEPT !.i = @ + 1]
        /\ pub' \in [i : Nat \ {0}, test : Questions, refused : SUBSET LoaderVariables]
        /\ pub'.i = pub.i + 1 /\ pub'.test = "none" /\ pub'.refused = pub.refused
    BY <1>3, <1>5, <1>7
  <2>2. Steps[pub.i] \in Due => store[Steps[pub.i]] # None
    BY <1>3, <1>7 DEF NotThere, efi_var_attributes, GetVariable, Due
  <2>3. ToldUpTo(pub.i - 1)'
    BY <1>1, <1>2, <1>5, <2>1, <2>2 DEF ToldUpTo
  <2>4. pub'.i <= Len(Steps) + 1 /\ pc' = "variables"
    BY <1>1, <1>2, <1>5, <2>1
  <2>5. image' \in 1 .. Len(Chain) /\ DOMAIN store' = LoaderVariables
    BY <1>1 DEF ScriptInv
  <2> QED
    BY <1>2, <2>1, <2>3, <2>4, <2>5 DEF ScriptInv
<1> QED
  BY <1>6, <1>7

(* Where pub gets with a variable that was written, or was not.            *)
LEMMA ScriptGoesOn ==
  ASSUME NEW q \in [i : Nat \ {0}, test : Questions, refused : SUBSET LoaderVariables],
         NEW r \in SUBSET LoaderVariables, NEW p,
         p = [i |-> q.i + 1, test |-> "none", refused |-> r]
  PROVE  /\ p \in [i : Nat \ {0}, test : Questions, refused : SUBSET LoaderVariables]
         /\ p.i = q.i + 1 /\ p.test = "none" /\ p.refused = r
<1>1. q.i + 1 \in Nat \ {0} /\ "none" \in Questions
  BY DEF Questions
<1> QED
  BY <1>1

(* The write: it replaces something only if the question went unanswered.  *)
LEMMA WriteVariableStep ==
  ScriptInv /\ WriteVariable => ScriptInv' /\ ToldOnce
<1> SUFFICES ASSUME ScriptInv, WriteVariable PROVE ScriptInv' /\ ToldOnce
  OBVIOUS
<1> DEFINE name == Steps[pub.i]
<1>1. /\ pc = "variables" /\ pub.i \in 1 .. Len(Steps)
      /\ name \in Kept => pub.test # "none"
      /\ UNCHANGED <<pc, image, lib>>
  BY DEF WriteVariable, Publishing
<1>2. Steps' = Steps /\ Due' = Due /\ Len(Steps) \in Nat /\ name \in LoaderVariables
  BY <1>1, Scripts DEF Steps, Due, ScriptInv
<1>3. /\ pub \in [i : Nat \ {0}, test : Questions, refused : SUBSET LoaderVariables]
      /\ DOMAIN store = LoaderVariables /\ ToldUpTo(pub.i - 1) /\ image \in 1 .. Len(Chain)
      /\ pub.test \notin {"none", "EFI_DEVICE_ERROR"} => store[name] = None
  BY <1>1 DEF ScriptInv
<1>4. /\ pub' \in [i : Nat \ {0}, test : Questions, refused : SUBSET LoaderVariables]
      /\ pub'.i = pub.i + 1 /\ pub'.test = "none" /\ pub.refused \subseteq pub'.refused
      /\ DOMAIN store' = LoaderVariables
      /\ \A v \in LoaderVariables : v # name => store'[v] = store[v]
      /\ store'[name] # None \/ name \in pub'.refused
  <2>1. CASE /\ store' = [store EXCEPT ![name] = [by |-> image, value |-> lib.boot]]
             /\ pub' = [pub EXCEPT !.i = @ + 1, !.test = "none"]
    <3>1. store'[name] = [by |-> image, value |-> lib.boot]
      BY <1>2, <1>3, <2>1
    <3>2. store'[name] # None
      <4>1. image # -1
        BY <1>3
      <4>2. store'[name].by = image /\ None.by = -1
        BY <3>1 DEF None
      <4> QED
        BY <4>1, <4>2
    <3> HIDE DEF name
    <3>5. pub' = [i |-> pub.i + 1, test |-> "none", refused |-> pub.refused]
          /\ pub.refused \in SUBSET LoaderVariables
      BY <1>3, <2>1
    <3>3. /\ pub' \in [i : Nat \ {0}, test : Questions, refused : SUBSET LoaderVariables]
          /\ pub'.i = pub.i + 1 /\ pub'.test = "none" /\ pub'.refused = pub.refused
      BY <1>3, <3>5, ScriptGoesOn
    <3>4. DOMAIN store' = LoaderVariables /\ \A v \in LoaderVariables : v # name => store'[v] = store[v]
      BY <1>2, <1>3, <2>1
    <3> QED
      BY <3>2, <3>3, <3>4
  <2>2. CASE /\ store' = store
             /\ pub' = [pub EXCEPT !.i = @ + 1, !.test = "none", !.refused = @ \cup {name}]
    <3> HIDE DEF name
    <3> DEFINE more == pub.refused \cup {name}
    <3>1. more \in SUBSET LoaderVariables /\ name \in more /\ pub.refused \subseteq more
      BY <1>2, <1>3
    <3>3. pub' = [i |-> pub.i + 1, test |-> "none", refused |-> more]
      BY <1>3, <2>2
    <3> HIDE DEF more
    <3>2. /\ pub' \in [i : Nat \ {0}, test : Questions, refused : SUBSET LoaderVariables]
          /\ pub'.i = pub.i + 1 /\ pub'.test = "none" /\ pub'.refused = more
      BY <1>3, <3>1, <3>3, ScriptGoesOn
    <3> QED
      BY <1>3, <2>2, <3>1, <3>2
  <2> QED
    BY <2>1, <2>2 DEF WriteVariable
<1> HIDE DEF name
<1>5. ToldUpTo(pub.i - 1)'
  <2> SUFFICES ASSUME NEW i \in 1 .. pub.i, Steps[i] \in Due
               PROVE  store'[Steps[i]] # None \/ Steps[i] \in pub'.refused
    BY <1>2, <1>3, <1>4 DEF ToldUpTo
  <2>1. CASE i = pub.i
    BY <1>4, <2>1 DEF name
  <2>2. CASE i # pub.i
    <3>1. i \in 1 .. pub.i - 1 /\ i \in 1 .. Len(Steps)
      BY <1>1, <1>2, <2>2
    <3>2. store[Steps[i]] # None \/ Steps[i] \in pub.refused
      BY <1>3, <3>1 DEF ToldUpTo
    <3>3. Steps[i] \in LoaderVariables /\ Steps[i] # name
      BY <1>1, <1>3, <2>2, <3>1, Scripts DEF Steps, name
    <3> QED
      BY <1>4, <3>2, <3>3
  <2> QED
    BY <2>1, <2>2
<1>6. ScriptInv'
  BY <1>1, <1>2, <1>3, <1>4, <1>5 DEF ScriptInv
<1>7. ToldOnce
  <2>1. ASSUME NEW v \in Kept, store[v] # None, store'[v] # store[v]
        PROVE  name = v /\ pub.test = "EFI_DEVICE_ERROR"
    <3>1. v \in LoaderVariables
      BY DEF LoaderVariables
    <3> QED
      BY <1>1, <1>3, <1>4, <2>1, <3>1
  <2> QED
    BY <1>1, <2>1 DEF ToldOnce, name
<1> QED
  BY <1>6, <1>7

(* What an earlier image has told about the beginning of the boot is only  *)
(* replaced after a question the firmware refused to answer, and what an   *)
(* image had to tell is told when it has started, for a chain of any       *)
(* images and any length (set_systemd_variables, fit_stub's efi_main).     *)
THEOREM FirstImageWins == Spec => EarlierImageWins
<1>1. Init => ScriptInv
  <2>1. ASSUME Init PROVE image \in 1 .. Len(Chain) /\ DOMAIN store = LoaderVariables
    <3>1. image = 1 /\ Len(Chain) \in Nat \ {0}
      BY <2>1, EfiLibAssumption, EmptySeq DEF Init
    <3>2. DOMAIN store = LoaderVariables
      BY <2>1 DEF Init
    <3> QED
      BY <3>1, <3>2
  <2> QED
    BY <2>1, NothingTold DEF Init, ScriptInv
<1>2. ScriptInv /\ [Next]_vars => ScriptInv' /\ [ToldOnce]_vars
  <2> SUFFICES ASSUME ScriptInv, [Next]_vars PROVE ScriptInv' /\ [ToldOnce]_vars
    OBVIOUS
  <2>k. image \in 1 .. Len(Chain) /\ DOMAIN store = LoaderVariables
    BY DEF ScriptInv
  <2>1. CASE InitializeLibrary
    <3>1. UNCHANGED <<image, pub, store>> /\ pc' \in {"variables", "exit"} /\ pc = "start"
      BY <2>1, Zenon DEF InitializeLibrary, Die
    <3>2. pub.i - 1 = 0 /\ pub.test = "none" /\ Len(Steps') \in Nat
          /\ pub \in [i : Nat \ {0}, test : Questions, refused : SUBSET LoaderVariables]
      BY <2>k, <3>1, NothingTold, Scripts DEF ScriptInv, Steps
    <3>3. ToldUpTo(pub.i - 1)'
      BY <3>1, <3>2 DEF ToldUpTo
    <3>4. ScriptInv'
      BY <2>k, <3>1, <3>2, <3>3 DEF ScriptInv
    <3> QED
      BY <3>1, <3>4 DEF ToldOnce
  <2>2. CASE TestVariable
    BY <2>2, TestVariableStep DEF TestVariable, ToldOnce
  <2>3. CASE WriteVariable
    BY <2>3, WriteVariableStep
  <2>4. CASE DevicePart
    <3>1. /\ pc = "variables" /\ pub.i > Len(Steps) /\ pc' = "running"
          /\ pub' = NothingPublished /\ UNCHANGED <<image, store>>
      BY <2>4 DEF DevicePart
    <3>2. ScriptInv'
      BY <2>k, <3>1, NothingTold DEF ScriptInv
    <3>3. ToldUpTo(pub.i - 1) /\ pub.i \in Nat /\ Len(Steps) \in Nat
      BY <2>k, <3>1, Scripts DEF ScriptInv, Steps
    <3>4. Told
      BY <3>1, <3>3 DEF Told, ToldUpTo
    <3> QED
      BY <3>1, <3>2, <3>4 DEF ToldOnce
  <2>5. CASE Execute
    <3>1. /\ pc = "running" /\ pc' \in {"start", "end"} /\ UNCHANGED pub
          /\ image' = IF image < Len(Chain) THEN image + 1 ELSE image
      BY <2>5, Zenon DEF Execute
    <3>2. image' \in 1 .. Len(Chain)
      BY <2>k, <3>1, EfiLibAssumption
    <3>3. DOMAIN store' = LoaderVariables /\ \A v \in Kept : store'[v] = store[v]
      <4>1. CASE store' = store
        BY <2>k, <4>1
      <4>2. CASE \E x : store' = [store EXCEPT !["LoaderTimeExecUSec"] = x]
        BY <2>k, <4>2 DEF Kept
      <4> QED
        BY <2>5, <4>1, <4>2, Zenon DEF Execute
    <3>4. pub = NothingPublished
      BY <3>1 DEF ScriptInv
    <3>5. ScriptInv'
      BY <3>1, <3>2, <3>3, <3>4, NothingTold DEF ScriptInv
    <3> QED
      BY <3>1, <3>3, <3>5 DEF ToldOnce
  <2>6. CASE NoDevicePath \/ ReadThroughNull
    <3>1. UNCHANGED <<image, pub, store>> /\ pc' \in {"exit", "fault"}
      BY <2>6 DEF NoDevicePath, ReadThroughNull, Die
    <3> QED
      BY <3>1 DEF ScriptInv, ToldOnce
  <2>7. CASE \/ Begin \/ Allocate \/ GetFileInfo \/ FindHandles \/ OpenProtocol \/ FreeHandles
             \/ VariableSize \/ ReadVariable \/ Finish \/ Change \/ Over
    <3>1. UNCHANGED <<pc, image, lib, pub, store>>
      BY <2>7, Zenon DEF Begin, Allocate, GetFileInfo, FindHandles, OpenProtocol, FreeHandles,
         VariableSize, ReadVariable, Finish, Change, Over, Goes, Again, vars
    <3> QED
      BY <3>1
      DEF ScriptInv, ToldOnce, ToldUpTo, Steps, Due, Publishing
  <2>8. CASE UNCHANGED vars
    BY <2>8 DEF vars, ScriptInv, ToldUpTo, Steps, Due, Publishing
  <2> QED
    BY <2>1, <2>2, <2>3, <2>4, <2>5, <2>6, <2>7, <2>8, Zenon DEF Next, Program
<1> QED
  BY <1>1, <1>2, PTL DEF Spec, EarlierImageWins

-----------------------------------------------------------------------------
(* The console.                                                            *)

Plain == Chars \cup {" ", "0"}

Glyphs == Plain \cup {"\n", "\r"}

Strings == Seq(Glyphs)

Cells == [char : Glyphs, attr : Nat]

Screens == Seq(Cells)

PrintType ==
  [output : BOOLEAN, capacity : Nat \ {0}, buffer : Strings, len : Nat, attr : Nat,
   restore_attr : Nat, norm : Nat]

ItemType ==
  [width : Nat, field_width : Nat \cup {NoField}, parse : {"width", "field_width"},
   pad_char : {" ", "0"}, pad_before : BOOLEAN]

ConsoleType == [shown : Screens, attribute : Nat]

MeantType == [text : Screens, standing : Nat, field : Nat, undocumented : BOOLEAN, bytes : BOOLEAN]

PrintDataOK ==
  /\ ppc \in {"idle", "text", "item", "put"} /\ ps \in PrintType /\ item \in ItemType
  /\ queue \in Seq(Plain) /\ console \in ConsoleType /\ meant \in MeantType
  /\ ppc # "put" => queue = <<>>

(* What the console shows once the buffer is handed over.                  *)
Visible(c, p) == c.shown \o Coloured(p.buffer, c.attribute)

Letters(text) == [i \in DOMAIN text |-> text[i].char]

TextInv ==
  IF ps.output
  THEN /\ meant.undocumented \/ meant.bytes
          \/ Shaded(Visible(console, ps) \o Coloured(queue, console.attribute)) = Shaded(meant.text)
       /\ Len(ps.buffer) < ps.capacity
       /\ ppc = "idle" => ps.buffer = <<>>
  ELSE /\ meant.bytes \/ ps.buffer \o queue = Letters(meant.text)
       /\ ps.len = Len(ps.buffer)

(* The console has the colour of the print state, which is the one the     *)
(* caller means; in a field with a colour of its own the standing colour   *)
(* waits in restore_attr.                                                  *)
ColourInv ==
  ps.output /\ ppc # "idle" =>
    /\ ps.norm # 0 /\ ps.attr # 0 /\ ps.attr = Shade(console.attribute)
    /\ meant.undocumented
       \/ /\ ppc = "text" => ps.attr = meant.standing
          /\ ppc \in {"item", "put"} =>
               IF ps.restore_attr = 0 THEN meant.field = 0 /\ ps.attr = meant.standing
               ELSE meant.field = ps.attr /\ ps.restore_attr = meant.standing

ConsoleInv == PrintDataOK /\ TextInv /\ ColourInv

-----------------------------------------------------------------------------
(* Sequences of characters with their colours.                             *)

LEMMA EmptyTexts == <<>> \in Strings /\ <<>> \in Screens /\ <<>> \in Seq(Plain)
BY DEF Strings, Screens

LEMMA AttributesAreNumbers == \A a \in Attributes : a \in Nat
BY ConsoleAssumption

LEMMA PlainStrings == \A s \in Seq(Plain) : s \in Strings
BY SeqMonotonic DEF Strings, Glyphs

LEMMA StringsCat ==
  ASSUME NEW s \in Strings, NEW t \in Strings
  PROVE  /\ s \o t \in Strings /\ Len(s \o t) = Len(s) + Len(t) /\ Len(s) \in Nat /\ Len(t) \in Nat
         /\ \A i \in 1 .. Len(s) + Len(t) : (s \o t)[i] = IF i <= Len(s) THEN s[i] ELSE t[i - Len(s)]
BY ConcatProperties, LenProperties DEF Strings

LEMMA ScreensCat ==
  ASSUME NEW s \in Screens, NEW t \in Screens
  PROVE  /\ s \o t \in Screens /\ Len(s \o t) = Len(s) + Len(t) /\ Len(s) \in Nat /\ Len(t) \in Nat
         /\ \A i \in 1 .. Len(s) + Len(t) : (s \o t)[i] = IF i <= Len(s) THEN s[i] ELSE t[i - Len(s)]
BY ConcatProperties, LenProperties DEF Screens

LEMMA ScreensAssoc ==
  ASSUME NEW s \in Screens, NEW t \in Screens, NEW u \in Screens
  PROVE  (s \o t) \o u = s \o (t \o u)
BY ConcatAssociative DEF Screens

LEMMA StringsAssoc ==
  ASSUME NEW s \in Strings, NEW t \in Strings, NEW u \in Strings
  PROVE  (s \o t) \o u = s \o (t \o u)
BY ConcatAssociative DEF Strings

LEMMA ScreenCells ==
  ASSUME NEW s \in Screens
  PROVE  /\ Len(s) \in Nat /\ DOMAIN s = 1 .. Len(s)
         /\ \A i \in 1 .. Len(s) : s[i] \in Cells /\ s[i].char \in Glyphs
<1>1. Len(s) \in Nat /\ DOMAIN s = 1 .. Len(s) /\ \A i \in 1 .. Len(s) : s[i] \in Cells
  BY DEF Screens
<1>2. \A x \in Cells : x.char \in Glyphs
  BY DEF Cells
<1> QED
  BY <1>1, <1>2, Zenon

LEMMA ColouredType ==
  ASSUME NEW s \in Strings, NEW a \in Nat
  PROVE  /\ Coloured(s, a) \in Screens /\ Len(Coloured(s, a)) = Len(s)
         /\ \A i \in 1 .. Len(s) : /\ Coloured(s, a)[i] = [char |-> s[i], attr |-> a]
                                   /\ Coloured(s, a)[i].char = s[i] /\ Coloured(s, a)[i].attr = a
<1>1. Len(s) \in Nat /\ \A i \in 1 .. Len(s) : s[i] \in Glyphs
  BY DEF Strings
<1>2. \A i \in 1 .. Len(s) : [char |-> s[i], attr |-> a] \in Cells
  BY <1>1 DEF Cells
<1> QED
  BY <1>1, <1>2 DEF Coloured, Screens

LEMMA ColouredCat ==
  ASSUME NEW s \in Strings, NEW t \in Strings, NEW a \in Nat
  PROVE  s \o t \in Strings /\ Coloured(s \o t, a) = Coloured(s, a) \o Coloured(t, a)
<1>1. /\ s \o t \in Strings /\ Len(s \o t) = Len(s) + Len(t) /\ Len(s) \in Nat /\ Len(t) \in Nat
      /\ \A i \in 1 .. Len(s) + Len(t) : (s \o t)[i] = IF i <= Len(s) THEN s[i] ELSE t[i - Len(s)]
  BY StringsCat, Zenon
<1> DEFINE u == Coloured(s \o t, a)
           v == Coloured(s, a)
           w == Coloured(t, a)
<1>2. /\ u \in Screens /\ Len(u) = Len(s) + Len(t)
      /\ \A i \in 1 .. Len(s) + Len(t) : u[i] = [char |-> (s \o t)[i], attr |-> a]
  <2>1. /\ u \in Screens /\ Len(u) = Len(s \o t)
        /\ \A i \in 1 .. Len(s \o t) : u[i] = [char |-> (s \o t)[i], attr |-> a]
    BY <1>1, ColouredType, Zenon
  <2> HIDE DEF u
  <2> QED
    BY <1>1, <2>1
<1>3. /\ v \in Screens /\ Len(v) = Len(s)
      /\ \A i \in 1 .. Len(s) : v[i] = [char |-> s[i], attr |-> a]
  BY ColouredType
<1>4. /\ w \in Screens /\ Len(w) = Len(t)
      /\ \A i \in 1 .. Len(t) : w[i] = [char |-> t[i], attr |-> a]
  BY ColouredType
<1> HIDE DEF u, v, w
<1>5. /\ v \o w \in Screens /\ Len(v \o w) = Len(s) + Len(t)
      /\ \A i \in 1 .. Len(s) + Len(t) : (v \o w)[i] = IF i <= Len(s) THEN v[i] ELSE w[i - Len(s)]
  <2>1. /\ v \o w \in Screens /\ Len(v \o w) = Len(v) + Len(w)
        /\ \A i \in 1 .. Len(v) + Len(w) : (v \o w)[i] = IF i <= Len(v) THEN v[i] ELSE w[i - Len(v)]
    BY <1>3, <1>4, ScreensCat, Zenon
  <2> QED
    BY <1>3, <1>4, <2>1
<1>6. \A i \in 1 .. Len(u) : u[i] = (v \o w)[i]
  <2> SUFFICES ASSUME NEW i \in 1 .. Len(s) + Len(t) PROVE u[i] = (v \o w)[i]
    BY <1>2
  <2>1. CASE i <= Len(s)
    BY <1>1, <1>2, <1>3, <1>5, <2>1
  <2>2. CASE ~(i <= Len(s))
    <3>1. i - Len(s) \in 1 .. Len(t)
      BY <1>1, <2>2
    <3> QED
      BY <1>1, <1>2, <1>4, <1>5, <2>2, <3>1
  <2> QED
    BY <2>1, <2>2
<1>7. u = v \o w
  BY <1>2, <1>5, <1>6, SeqEqual DEF Screens
<1> QED
  BY <1>1, <1>7 DEF u, v, w

LEMMA ShadedType ==
  ASSUME NEW s \in Screens
  PROVE  /\ Shaded(s) \in Screens /\ Len(Shaded(s)) = Len(s)
         /\ \A i \in 1 .. Len(s) : Shaded(s)[i] = [char |-> s[i].char, attr |-> Shade(s[i].attr)]
<1>1. Len(s) \in Nat /\ DOMAIN s = 1 .. Len(s) /\ \A i \in 1 .. Len(s) : s[i] \in Cells
  BY ScreenCells, Zenon
<1>2. ASSUME NEW x \in Cells
      PROVE  /\ [x EXCEPT !.attr = Shade(@)] = [char |-> x.char, attr |-> Shade(x.attr)]
             /\ [char |-> x.char, attr |-> Shade(x.attr)] \in Cells
  BY DEF Cells, Shade, NORMAL
<1>3. Shaded(s) = [i \in 1 .. Len(s) |-> [char |-> s[i].char, attr |-> Shade(s[i].attr)]]
  BY <1>1, <1>2 DEF Shaded
<1>4. \A i \in 1 .. Len(s) : [char |-> s[i].char, attr |-> Shade(s[i].attr)] \in Cells
  BY <1>1, <1>2
<1> QED
  BY <1>1, <1>3, <1>4 DEF Screens

LEMMA ShadedCat ==
  ASSUME NEW s \in Screens, NEW t \in Screens
  PROVE  s \o t \in Screens /\ Shaded(s \o t) = Shaded(s) \o Shaded(t)
<1>1. /\ s \o t \in Screens /\ Len(s \o t) = Len(s) + Len(t) /\ Len(s) \in Nat /\ Len(t) \in Nat
      /\ \A i \in 1 .. Len(s) + Len(t) : (s \o t)[i] = IF i <= Len(s) THEN s[i] ELSE t[i - Len(s)]
  BY ScreensCat, Zenon
<1> DEFINE u == Shaded(s \o t)
           v == Shaded(s)
           w == Shaded(t)
           f(x) == [char |-> x.char, attr |-> Shade(x.attr)]
<1>2. /\ u \in Screens /\ Len(u) = Len(s) + Len(t)
      /\ \A i \in 1 .. Len(s) + Len(t) : u[i] = f((s \o t)[i])
  BY <1>1, ShadedType
<1>3. v \in Screens /\ Len(v) = Len(s) /\ \A i \in 1 .. Len(s) : v[i] = f(s[i])
  BY ShadedType
<1>4. w \in Screens /\ Len(w) = Len(t) /\ \A i \in 1 .. Len(t) : w[i] = f(t[i])
  BY ShadedType
<1> HIDE DEF u, v, w, f
<1>5. /\ v \o w \in Screens /\ Len(v \o w) = Len(s) + Len(t)
      /\ \A i \in 1 .. Len(s) + Len(t) : (v \o w)[i] = IF i <= Len(s) THEN v[i] ELSE w[i - Len(s)]
  <2>1. /\ v \o w \in Screens /\ Len(v \o w) = Len(v) + Len(w)
        /\ \A i \in 1 .. Len(v) + Len(w) : (v \o w)[i] = IF i <= Len(v) THEN v[i] ELSE w[i - Len(v)]
    BY <1>3, <1>4, ScreensCat, Zenon
  <2> QED
    BY <1>3, <1>4, <2>1
<1>6. \A i \in 1 .. Len(u) : u[i] = (v \o w)[i]
  <2> SUFFICES ASSUME NEW i \in 1 .. Len(s) + Len(t) PROVE u[i] = (v \o w)[i]
    BY <1>2
  <2>1. CASE i <= Len(s)
    BY <1>1, <1>2, <1>3, <1>5, <2>1
  <2>2. CASE ~(i <= Len(s))
    <3>1. i - Len(s) \in 1 .. Len(t)
      BY <1>1, <2>2
    <3> QED
      BY <1>1, <1>2, <1>4, <1>5, <2>2, <3>1
  <2> QED
    BY <2>1, <2>2
<1>7. u = v \o w
  BY <1>2, <1>5, <1>6, SeqEqual DEF Screens
<1> QED
  BY <1>1, <1>7 DEF u, v, w

(* Two attributes that a console shows alike.                              *)
LEMMA ShadedColoured ==
  ASSUME NEW s \in Strings, NEW a \in Nat, NEW b \in Nat, Shade(a) = Shade(b)
  PROVE  Shaded(Coloured(s, a)) = Shaded(Coloured(s, b))
<1> DEFINE u == Coloured(s, a)
           v == Coloured(s, b)
<1>1. /\ u \in Screens /\ Len(u) = Len(s)
      /\ \A i \in 1 .. Len(s) : u[i].char = s[i] /\ u[i].attr = a
  BY ColouredType, Zenon
<1>2. /\ v \in Screens /\ Len(v) = Len(s)
      /\ \A i \in 1 .. Len(s) : v[i].char = s[i] /\ v[i].attr = b
  BY ColouredType, Zenon
<1> HIDE DEF u, v
<1>3. /\ Shaded(u) \in Screens /\ Len(Shaded(u)) = Len(s)
      /\ \A i \in 1 .. Len(s) : Shaded(u)[i] = [char |-> s[i], attr |-> Shade(a)]
  BY <1>1, ShadedType
<1>4. /\ Shaded(v) \in Screens /\ Len(Shaded(v)) = Len(s)
      /\ \A i \in 1 .. Len(s) : Shaded(v)[i] = [char |-> s[i], attr |-> Shade(b)]
  BY <1>2, ShadedType
<1>5. \A i \in 1 .. Len(Shaded(u)) : Shaded(u)[i] = Shaded(v)[i]
  BY <1>3, <1>4
<1>6. Shaded(u) = Shaded(v)
  BY <1>3, <1>4, <1>5, SeqEqual DEF Screens
<1> QED
  BY <1>6 DEF u, v

(* The characters of a text, whatever their colours.                       *)
LEMMA LettersCat ==
  ASSUME NEW s \in Screens, NEW t \in Strings, NEW a \in Nat
  PROVE  /\ Letters(s) \in Strings /\ s \o Coloured(t, a) \in Screens
         /\ Letters(s \o Coloured(t, a)) = Letters(s) \o t
<1> DEFINE w == Coloured(t, a)
<1>1. /\ w \in Screens /\ Len(w) = Len(t)
      /\ \A i \in 1 .. Len(t) : w[i].char = t[i]
  BY ColouredType, Zenon
<1>0. Len(t) \in Nat
  BY StringsCat, Zenon
<1> HIDE DEF w
<1>2. /\ Len(s) \in Nat /\ DOMAIN s = 1 .. Len(s)
      /\ \A i \in 1 .. Len(s) : s[i].char \in Glyphs
  BY ScreenCells, Zenon
<1>3. /\ Letters(s) \in Strings /\ Len(Letters(s)) = Len(s)
      /\ \A i \in 1 .. Len(s) : Letters(s)[i] = s[i].char
  BY <1>2 DEF Letters, Strings
<1>4. /\ s \o w \in Screens /\ Len(s \o w) = Len(s) + Len(t)
      /\ \A i \in 1 .. Len(s) + Len(t) : (s \o w)[i] = IF i <= Len(s) THEN s[i] ELSE w[i - Len(s)]
  <2>1. /\ s \o w \in Screens /\ Len(s \o w) = Len(s) + Len(w)
        /\ \A i \in 1 .. Len(s) + Len(w) : (s \o w)[i] = IF i <= Len(s) THEN s[i] ELSE w[i - Len(s)]
    BY <1>1, ScreensCat, Zenon
  <2> QED
    BY <1>1, <2>1
<1> DEFINE x == s \o w
<1>5. Len(x) \in Nat /\ DOMAIN x = 1 .. Len(x) /\ \A i \in 1 .. Len(x) : x[i].char \in Glyphs
  BY <1>4, ScreenCells, Zenon
<1>6. /\ Letters(x) \in Strings /\ Len(Letters(x)) = Len(s) + Len(t)
      /\ \A i \in 1 .. Len(s) + Len(t) : Letters(x)[i] = x[i].char
  <2>1. Len(x) = Len(s) + Len(t)
    BY <1>4
  <2> HIDE DEF x
  <2>2. /\ Letters(x) \in Strings /\ Len(Letters(x)) = Len(x)
        /\ \A i \in 1 .. Len(x) : Letters(x)[i] = x[i].char
    BY <1>5 DEF Letters, Strings
  <2> QED
    BY <2>1, <2>2
<1>7. /\ Letters(s) \o t \in Strings /\ Len(Letters(s) \o t) = Len(s) + Len(t)
      /\ \A i \in 1 .. Len(s) + Len(t) :
           (Letters(s) \o t)[i] = IF i <= Len(s) THEN Letters(s)[i] ELSE t[i - Len(s)]
  <2> DEFINE l == Letters(s)
  <2>1. /\ l \o t \in Strings /\ Len(l \o t) = Len(l) + Len(t)
        /\ \A i \in 1 .. Len(l) + Len(t) : (l \o t)[i] = IF i <= Len(l) THEN l[i] ELSE t[i - Len(l)]
    BY <1>3, StringsCat, Zenon
  <2> QED
    BY <1>3, <2>1
<1>8. \A i \in 1 .. Len(Letters(s \o w)) : Letters(s \o w)[i] = (Letters(s) \o t)[i]
  <2> SUFFICES ASSUME NEW i \in 1 .. Len(s) + Len(t) PROVE Letters(s \o w)[i] = (Letters(s) \o t)[i]
    BY <1>6
  <2>1. CASE i <= Len(s)
    BY <1>3, <1>2, <1>4, <1>6, <1>7, <2>1
  <2>2. CASE ~(i <= Len(s))
    <3>1. i - Len(s) \in 1 .. Len(t)
      BY <1>1, <1>2, <2>2
    <3> QED
      BY <1>1, <1>4, <1>6, <1>7, <2>2, <3>1
  <2> QED
    BY <2>1, <2>2
<1>9. Letters(s \o w) = Letters(s) \o t
  BY <1>6, <1>7, <1>8, SeqEqual DEF Strings
<1> QED
  BY <1>3, <1>4, <1>9 DEF w

-----------------------------------------------------------------------------
(* What ptr_item() puts is what print.h says of widths and fields.         *)

LEMMA RepeatType ==
  ASSUME NEW c \in Plain, NEW n \in Int
  PROVE  /\ Repeat(c, n) \in Seq(Plain) /\ Len(Repeat(c, n)) = IF n > 0 THEN n ELSE 0
         /\ n <= 0 => Repeat(c, n) = <<>>
<1>1. CASE n > 0
  BY <1>1 DEF Repeat
<1>2. CASE n <= 0
  <2>1. 1 .. n = {}
    BY <1>2
  <2>2. Repeat(c, n) = <<>>
    BY <2>1 DEF Repeat
  <2> QED
    BY <1>2, <2>2, EmptySeq
<1> QED
  BY <1>1, <1>2

(* A value filled up to its width, as the code computes it.                *)
LEMMA FilledValue ==
  ASSUME NEW w \in Nat, NEW n \in Nat, NEW pad \in Plain, NEW cut \in Seq(Plain), Len(cut) = n
  PROVE  LET body == Repeat(pad, Larger(w, n) - n) \o cut
         IN  /\ body = Filled(cut, w, pad) /\ body \in Seq(Plain) /\ Len(body) = Larger(w, n)
             /\ Larger(w, n) \in Nat /\ n - Larger(w, n) <= 0
<1> DEFINE m == Larger(w, n)
           fill == Repeat(pad, m - n)
           body == fill \o cut
<1>1. m \in Nat /\ m >= n /\ m - n \in Int /\ w - n \in Int /\ n - m <= 0
  BY DEF Larger
<1>2. fill \in Seq(Plain) /\ Len(fill) = IF m - n > 0 THEN m - n ELSE 0
  BY <1>1, RepeatType, Zenon
<1>3. fill = Repeat(pad, w - n)
  <2>1. CASE w > n
    BY <2>1 DEF Larger
  <2>2. CASE ~(w > n)
    <3>1. m - n <= 0 /\ w - n <= 0
      BY <2>2 DEF Larger
    <3>2. Repeat(pad, m - n) = <<>> /\ Repeat(pad, w - n) = <<>>
      BY <1>1, <3>1, RepeatType, Zenon
    <3> QED
      BY <3>2, Zenon
  <2> QED
    BY <2>1, <2>2
<1> HIDE DEF m, fill
<1>4. body \in Seq(Plain) /\ Len(body) = Len(fill) + Len(cut)
  BY <1>2, ConcatProperties, Zenon
<1> HIDE DEF body
<1>5. Len(body) = m
  BY <1>1, <1>2, <1>4
<1>6. body = Filled(cut, w, pad)
  BY <1>3, Zenon DEF body, Filled
<1> QED
  BY <1>1, <1>4, <1>5, <1>6, Zenon DEF body, fill, m

(* The index behind a text, and behind its beginnings: it only differs     *)
(* from the number of characters where there are multi-byte ones.          *)
Wide(text) == {k \in 1 .. Len(text) : text[k] \in MultiByte}

LEMMA WideType ==
  ASSUME NEW text \in Seq(Chars)
  PROVE  IsFiniteSet(Wide(text)) /\ Cardinality(Wide(text)) \in Nat
<1>1. IsFiniteSet(1 .. Len(text))
  BY FS_Interval
<1>2. Wide(text) \in SUBSET (1 .. Len(text))
  BY DEF Wide
<1>3. IsFiniteSet(Wide(text))
  BY <1>1, <1>2, FS_Subset
<1> QED
  BY <1>3, FS_CardinalityType

LEMMA IndexType ==
  ASSUME NEW text \in Seq(Chars), NEW wide
  PROVE  Index(text, wide) \in Nat /\ Len(text) \in Nat
<1>1. Cardinality(Wide(text)) \in Nat /\ Len(text) \in Nat
  BY WideType, LenProperties
<1>2. Index(text, wide) = Len(text) + IF wide THEN 0 ELSE Cardinality(Wide(text))
  BY DEF Index, Wide
<1> QED
  BY <1>1, <1>2

LEMMA Beginning ==
  ASSUME NEW text \in Seq(Chars), NEW n \in 0 .. Len(text)
  PROVE  /\ SubSeq(text, 1, n) \in Seq(Chars) /\ Len(SubSeq(text, 1, n)) = n
         /\ \A k \in 1 .. n : SubSeq(text, 1, n)[k] = text[k]
<1> DEFINE l == Len(text)
           cut == SubSeq(text, 1, n)
<1>1. l \in Nat /\ n \in 0 .. l /\ \A k \in 1 .. l : text[k] \in Chars
  BY ElementOfSeq, LenProperties
<1> HIDE DEF l
<1>2. n \in Nat /\ \A k \in 1 .. n : text[k] \in Chars
  BY <1>1
<1>3. /\ cut \in Seq(Chars) /\ Len(cut) = IF 1 <= n THEN n - 1 + 1 ELSE 0
      /\ \A k \in 1 .. n - 1 + 1 : cut[k] = text[1 + k - 1]
  BY <1>2, SubSeqProperties
<1> HIDE DEF cut
<1>4. Len(cut) = n
  BY <1>2, <1>3
<1>5. ASSUME NEW k \in 1 .. n PROVE cut[k] = text[k]
  BY <1>2, <1>3
<1> QED
  BY <1>3, <1>4, <1>5 DEF cut

LEMMA IndexPlain ==
  ASSUME NEW text \in Seq(Chars), NEW wide, Index(text, wide) = Len(text),
         NEW n \in 0 .. Len(text)
  PROVE  Index(SubSeq(text, 1, n), wide) = n
<1> DEFINE cut == SubSeq(text, 1, n)
<1>1. cut \in Seq(Chars) /\ Len(cut) = n /\ \A k \in 1 .. n : cut[k] = text[k]
  BY Beginning, Zenon
<1>2. Len(text) \in Nat /\ n \in Nat /\ n <= Len(text)
  BY LenProperties
<1> HIDE DEF cut
<1>3. CASE wide
  BY <1>1, <1>2, <1>3 DEF Index, cut
<1>4. CASE ~wide
  <2>1. Cardinality(Wide(text)) = 0
    <3>1. Len(text) + Cardinality(Wide(text)) = Len(text)
      BY <1>4 DEF Index, Wide
    <3>2. Cardinality(Wide(text)) \in Nat
      BY WideType
    <3> QED
      BY <1>2, <3>1, <3>2
  <2>2. Wide(text) = {}
    BY <2>1, WideType, FS_EmptySet
  <2>3. Wide(cut) = {}
    BY <1>1, <1>2, <2>2 DEF Wide
  <2>4. Cardinality(Wide(cut)) = 0
    BY <2>3, FS_EmptySet
  <2>5. Index(cut, wide) = Len(cut) + Cardinality(Wide(cut))
    BY <1>4 DEF Index, Wide
  <2> QED
    BY <1>1, <1>2, <2>4, <2>5 DEF cut
<1> QED
  BY <1>3, <1>4

(* The characters that are read.                                           *)
Read(i, text, wide) ==
  {n \in 0 .. Len(text) - 1 : Index(SubSeq(text, 1, n), wide) < i.field_width}

LEMMA ReadType ==
  ASSUME NEW i \in ItemType, NEW text \in Seq(Chars), NEW wide
  PROVE  Cardinality(Read(i, text, wide)) \in 0 .. Len(text)
<1>1. Len(text) \in Nat
  BY LenProperties
<1>2. /\ IsFiniteSet(0 .. Len(text) - 1)
      /\ Cardinality(0 .. Len(text) - 1) = IF 0 > Len(text) - 1 THEN 0 ELSE Len(text) - 1 - 0 + 1
  BY <1>1, FS_Interval
<1>3. Read(i, text, wide) \in SUBSET (0 .. Len(text) - 1)
  BY DEF Read
<1>4. IsFiniteSet(Read(i, text, wide)) /\ Cardinality(Read(i, text, wide)) <= Cardinality(0 .. Len(text) - 1)
  BY <1>2, <1>3, FS_Subset
<1>5. Cardinality(Read(i, text, wide)) \in Nat
  BY <1>4, FS_CardinalityType
<1> QED
  BY <1>1, <1>2, <1>4, <1>5

LEMMA CutType ==
  ASSUME NEW i \in ItemType, NEW text \in Seq(Chars), NEW wide
  PROVE  Cut(i, text, wide) \in Seq(Chars) /\ Index(Cut(i, text, wide), wide) \in Nat
<1>1. Cut(i, text, wide) \in Seq(Chars)
  <2>1. CASE i.field_width = NoField
    BY <2>1 DEF Cut
  <2>2. CASE i.field_width # NoField
    <3>1. Cut(i, text, wide) = SubSeq(text, 1, Cardinality(Read(i, text, wide)))
      BY <2>2 DEF Cut, Read
    <3> QED
      BY <3>1, ReadType, Beginning, Zenon
  <2> QED
    BY <2>1, <2>2
<1> QED
  BY <1>1, IndexType, Zenon

LEMMA CutPlain ==
  ASSUME NEW i \in ItemType, NEW text \in Seq(Chars), NEW wide,
         Index(text, wide) = Len(text), i.field_width # NoField
  PROVE  LET n == Smaller(Len(text), i.field_width)
         IN  Cut(i, text, wide) = SubSeq(text, 1, n) /\ Index(Cut(i, text, wide), wide) = n
<1> DEFINE l == Len(text)
           w == i.field_width
           n == Smaller(l, w)
           set == {k \in 0 .. l - 1 : Index(SubSeq(text, 1, k), wide) < w}
<1>1. l \in Nat /\ w \in Nat
  BY LenProperties DEF ItemType
<1>2. n \in 0 .. l /\ (n = l \/ n = w) /\ n <= w
  BY <1>1 DEF Smaller
<1>3. ASSUME NEW k \in 0 .. l - 1 PROVE Index(SubSeq(text, 1, k), wide) = k
  <2>1. k \in 0 .. Len(text)
    BY <1>1
  <2> QED
    BY <2>1, IndexPlain, Zenon
<1>4. Index(SubSeq(text, 1, n), wide) = n
  BY <1>2, IndexPlain, Zenon
<1>5. Cut(i, text, wide) = SubSeq(text, 1, Cardinality(set))
  BY DEF Cut
<1> HIDE DEF l, w, n
<1>6. set = 0 .. n - 1
  <2>1. ASSUME NEW k \in 0 .. l - 1 PROVE k < w <=> k \in 0 .. n - 1
    BY <1>1, <1>2
  <2>2. 0 .. n - 1 \subseteq 0 .. l - 1
    BY <1>1, <1>2
  <2> QED
    BY <1>3, <2>1, <2>2
<1> HIDE DEF set
<1>7. Cardinality(set) = n
  <2>1. Cardinality(0 .. n - 1) = IF 0 > n - 1 THEN 0 ELSE n - 1 - 0 + 1
    BY <1>1, <1>2, FS_Interval
  <2> QED
    BY <1>1, <1>2, <1>6, <2>1
<1> QED
  BY <1>4, <1>5, <1>7 DEF n, l, w

LEMMA ItemPlain ==
  ASSUME NEW i \in ItemType, NEW text \in Seq(Chars), NEW wide
  PROVE  ptr_item(i, text, wide) \in Seq(Plain)
<1> DEFINE cut == Cut(i, text, wide)
           len == Index(cut, wide)
           field == IF i.field_width = NoField THEN len ELSE i.field_width
           width == Larger(i.width, len)
           outer == Repeat(" ", field - width)
           fill == Repeat(i.pad_char, width - len)
           body == fill \o cut
<1>1. cut \in Seq(Plain) /\ len \in Nat
  BY CutType, SeqMonotonic DEF Plain
<1>2. ptr_item(i, text, wide) = IF i.pad_before THEN outer \o body ELSE body \o outer
  BY DEF ptr_item
<1> HIDE DEF cut, len
<1>3. /\ i.width \in Nat /\ i.pad_char \in Plain /\ " " \in Plain
      /\ i.field_width # NoField => i.field_width \in Nat
  BY DEF ItemType, Plain
<1>4. width \in Nat /\ field \in Nat
  BY <1>1, <1>3 DEF Larger
<1> HIDE DEF width, field
<1>5. field - width \in Int /\ width - len \in Int
  BY <1>1, <1>4
<1>6. outer \in Seq(Plain) /\ fill \in Seq(Plain)
  BY <1>3, <1>5, RepeatType, Zenon
<1> HIDE DEF outer, fill
<1>7. body \in Seq(Plain)
  BY <1>1, <1>6, ConcatProperties, Zenon
<1> HIDE DEF body
<1>8. outer \o body \in Seq(Plain) /\ body \o outer \in Seq(Plain)
  BY <1>6, <1>7, ConcatProperties, Zenon
<1> QED
  BY <1>2, <1>8, Zenon

LEMMA ItemAsDocumented ==
  ASSUME NEW i \in ItemType, NEW text \in Seq(Chars), NEW wide,
         ~InBytes(i, text, wide)
  PROVE  ptr_item(i, text, wide) = Documented(i, text)
<1>0. /\ i.width \in Nat /\ i.pad_char \in Plain /\ " " \in Plain /\ i.pad_before \in BOOLEAN
      /\ i.field_width # NoField => i.field_width \in Nat
  BY DEF ItemType, Plain
<1>1. text \in Seq(Plain) /\ Len(text) \in Nat
  BY SeqMonotonic, LenProperties DEF Plain
<1>2. CASE i.field_width = NoField
  <2> DEFINE n == Index(text, wide)
             m == Larger(i.width, n)
             body == Repeat(i.pad_char, m - n) \o text
             outer == Repeat(" ", n - m)
  <2>1. ptr_item(i, text, wide) = IF i.pad_before THEN outer \o body ELSE body \o outer
    <3>1. Cut(i, text, wide) = text
      BY <1>2 DEF Cut
    <3> QED
      BY <1>2, <3>1, Zenon DEF ptr_item
  <2>2. n \in Nat
    BY IndexType, Zenon
  <2>3. m \in Nat /\ n - m <= 0 /\ body = Filled(text, i.width, i.pad_char) /\ body \in Seq(Plain)
    <3>1. CASE n = Len(text)
      <4>1. n \in Nat /\ Len(text) = n /\ i.width \in Nat /\ i.pad_char \in Plain /\ text \in Seq(Plain)
        BY <1>0, <1>1, <2>2, <3>1, Zenon
      <4> HIDE DEF n
      <4> QED
        BY <4>1, FilledValue, Zenon
    <3>2. CASE n # Len(text)
      <4>1. i.width = 0
        BY <3>2, <1>2 DEF InBytes
      <4> HIDE DEF n
      <4>2. m = n
        BY <2>2, <4>1 DEF Larger
      <4>3. m \in Nat /\ n - m <= 0 /\ m - n \in Int /\ m - n <= 0
        BY <2>2, <4>2
      <4>4. Repeat(i.pad_char, m - n) = <<>>
        BY <1>0, <4>3, RepeatType, Zenon
      <4>5. Repeat(i.pad_char, i.width - Len(text)) = <<>>
        <5>1. i.width - Len(text) \in Int /\ i.width - Len(text) <= 0
          BY <1>1, <4>1
        <5> QED
          BY <1>0, <5>1, RepeatType, Zenon
      <4>6. <<>> \o text = text
        BY <1>1, ConcatEmptySeq
      <4> QED
        BY <1>1, <4>3, <4>4, <4>5, <4>6 DEF Filled
    <3> QED
      BY <3>1, <3>2
  <2>4. Documented(i, text) = body
    BY <1>2, <2>3, Zenon DEF Documented
  <2>5. outer = <<>>
    <3> HIDE DEF n, m
    <3>2. n - m \in Int
      BY <2>2, <2>3
    <3> QED
      BY <1>0, <2>3, <3>2, RepeatType, Zenon
  <2> HIDE DEF body, outer
  <2>6. outer \o body = body /\ body \o outer = body
    BY <2>3, <2>5, ConcatEmptySeq
  <2> QED
    BY <2>1, <2>4, <2>6
<1>3. CASE i.field_width # NoField
  <2> DEFINE l == i.field_width
             n == Smaller(Len(text), l)
             m == Larger(i.width, n)
             cut == SubSeq(text, 1, n)
             body == Repeat(i.pad_char, m - n) \o cut
             outer == Repeat(" ", l - m)
  <2>0. Index(text, wide) = Len(text)
    BY <1>3 DEF InBytes
  <2>1. ptr_item(i, text, wide) = IF i.pad_before THEN outer \o body ELSE body \o outer
    <3>1. Cut(i, text, wide) = cut /\ Index(Cut(i, text, wide), wide) = n
      BY <1>3, <2>0, CutPlain, Zenon
    <3>2. Cut(i, text, wide) = cut /\ Index(cut, wide) = n
      BY <3>1, Zenon
    <3> HIDE DEF n, cut
    <3> QED
      BY <1>3, <3>2, Zenon DEF ptr_item
  <2>2. ASSUME NEW a \in Nat, NEW b \in Nat PROVE Smaller(a, b) \in Nat /\ Smaller(a, b) <= a
    BY DEF Smaller
  <2>3. l \in Nat /\ n \in Nat /\ n <= Len(text)
    BY <1>0, <1>1, <1>3, <2>2, Zenon
  <2>4. Documented(i, text) = Justified(Filled(cut, i.width, i.pad_char), l, ~i.pad_before)
    BY <1>3, Zenon DEF Documented
  <2> HIDE DEF l, n
  <2>5. cut \in Seq(Plain) /\ Len(cut) = n
    <3> DEFINE k == Len(text)
    <3>1. k \in Nat /\ n \in Nat /\ n <= k /\ \A j \in 1 .. k : text[j] \in Plain
      BY <1>1, <2>3, ElementOfSeq
    <3> HIDE DEF k
    <3>2. \A j \in 1 .. n : text[j] \in Plain
      BY <3>1
    <3>3. cut \in Seq(Plain) /\ Len(cut) = IF 1 <= n THEN n - 1 + 1 ELSE 0
      BY <2>3, <3>2, SubSeqProperties
    <3> HIDE DEF cut
    <3> QED
      BY <2>3, <3>3
  <2> HIDE DEF cut
  <2>6. /\ body = Filled(cut, i.width, i.pad_char) /\ body \in Seq(Plain) /\ Len(body) = m
        /\ m \in Nat
    <3>1. i.width \in Nat /\ n \in Nat /\ i.pad_char \in Plain /\ cut \in Seq(Plain) /\ Len(cut) = n
      BY <1>0, <2>3, <2>5, Zenon
    <3> QED
      BY <3>1, FilledValue
  <2> HIDE DEF m, body
  <2>7. outer \in Seq(Plain)
    <3>1. l - m \in Int
      BY <2>3, <2>6
    <3> QED
      BY <1>0, <3>1, RepeatType, Zenon
  <2>8. Repeat(" ", l - Len(body)) = outer
    BY <2>6, Zenon
  <2> HIDE DEF outer
  <2>9. Justified(body, l, ~i.pad_before) = IF i.pad_before THEN outer \o body ELSE body \o outer
    <3>1. CASE i.pad_before
      BY <2>8, <3>1 DEF Justified
    <3>2. CASE ~i.pad_before
      BY <2>8, <3>2 DEF Justified
    <3> QED
      BY <3>1, <3>2
  <2>10. outer \o body \in Seq(Plain) /\ body \o outer \in Seq(Plain)
    BY <2>6, <2>7, ConcatProperties
  <2> QED
    BY <2>1, <2>4, <2>6, <2>9, <2>10, Zenon
<1> QED
  BY <1>2, <1>3

LEMMA DocumentedType ==
  ASSUME NEW i \in ItemType, NEW text \in Seq(Chars)
  PROVE  Documented(i, text) \in Seq(Plain)
<1>1. ~InBytes(i, text, TRUE)
  BY LenProperties DEF InBytes, Index
<1> QED
  BY <1>1, ItemAsDocumented, ItemPlain, Zenon

-----------------------------------------------------------------------------
(* The parts of _print().                                                  *)

SamePrint(p, q) ==
  q.output = p.output /\ q.capacity = p.capacity /\ q.norm = p.norm

SameColours(p, q) ==
  SamePrint(p, q) /\ q.attr = p.attr /\ q.restore_attr = p.restore_attr

(* A field of a pair that a part returns.                                  *)
LEMMA Pair ==
  ASSUME NEW c, NEW p
  PROVE  [console |-> c, ps |-> p].console = c /\ [console |-> c, ps |-> p].ps = p
OBVIOUS

LEMMA VisibleType ==
  ASSUME NEW c \in ConsoleType, NEW p \in PrintType
  PROVE  /\ c.shown \in Screens /\ c.attribute \in Nat /\ p.buffer \in Strings
         /\ Visible(c, p) \in Screens
<1>1. c.shown \in Screens /\ c.attribute \in Nat /\ p.buffer \in Strings
  BY DEF ConsoleType, PrintType
<1>2. Coloured(p.buffer, c.attribute) \in Screens
  BY <1>1, ColouredType, Zenon
<1> QED
  BY <1>1, <1>2, ScreensCat, Zenon DEF Visible

(* ptr_flush() shows the buffer as it would have been shown, and empties   *)
(* it.                                                                     *)
LEMMA Flush ==
  ASSUME NEW c \in ConsoleType, NEW p \in PrintType
  PROVE  LET r == ptr_flush(c, p)
         IN  /\ r.console \in ConsoleType /\ r.ps \in PrintType /\ SameColours(p, r.ps)
             /\ r.console.attribute = c.attribute
             /\ p.output => r.console.shown = Visible(c, p) /\ r.ps.buffer = <<>>
             /\ ~p.output => r.console = c /\ r.ps = p
<1>0. Visible(c, p) \in Screens /\ <<>> \in Strings
  BY VisibleType, EmptyTexts, Zenon
<1>1. CASE p.output
  <2> DEFINE d == [c EXCEPT !.shown = Visible(c, p)]
             q == [p EXCEPT !.buffer = <<>>]
  <2>1. ptr_flush(c, p).console = d /\ ptr_flush(c, p).ps = q
    BY <1>1 DEF ptr_flush, Visible
  <2>2. d \in ConsoleType /\ d.attribute = c.attribute /\ d.shown = Visible(c, p)
    BY <1>0 DEF ConsoleType
  <2>3. q \in PrintType /\ SameColours(p, q) /\ q.buffer = <<>>
    BY <1>0 DEF PrintType, SameColours, SamePrint
  <2> HIDE DEF d, q
  <2> QED
    BY <1>1, <2>1, <2>2, <2>3
<1>2. CASE ~p.output
  <2>1. ptr_flush(c, p).console = c /\ ptr_flush(c, p).ps = p
    BY <1>2 DEF ptr_flush
  <2>2. SameColours(p, p)
    BY DEF SameColours, SamePrint
  <2> QED
    BY <1>2, <2>1, <2>2
<1> QED
  BY <1>1, <1>2

(* An empty buffer adds nothing, in whatever colour.                       *)
LEMMA NothingBuffered ==
  ASSUME NEW c \in ConsoleType, NEW p \in PrintType, p.buffer = <<>>
  PROVE  Visible(c, p) = c.shown
<1>1. c.shown \in Screens /\ c.attribute \in Nat
  BY VisibleType, Zenon
<1>2. Coloured(<<>>, c.attribute) = <<>>
  <2>1. /\ Coloured(<<>>, c.attribute) \in Screens
        /\ Len(Coloured(<<>>, c.attribute)) = Len(<<>>)
    BY <1>1, EmptyTexts, ColouredType, Zenon
  <2> QED
    BY <2>1, EmptySeq DEF Screens
<1> QED
  BY <1>1, <1>2, ConcatEmptySeq DEF Visible, Screens

(* ptr_setattr() changes the colour of what comes, not of what is there.   *)
Recoloured(c, p, d, q, attr) ==
  /\ d \in ConsoleType /\ q \in PrintType /\ SamePrint(p, q)
  /\ q.attr = attr /\ q.restore_attr = p.attr
  /\ p.output => d.attribute = attr /\ q.buffer = <<>> /\ Visible(d, q) = Visible(c, p)
  /\ ~p.output => d = c /\ q.buffer = p.buffer /\ q.len = p.len

LEMMA SetAttr ==
  ASSUME NEW c \in ConsoleType, NEW p \in PrintType, NEW attr \in Nat
  PROVE  LET r == ptr_setattr(c, p, attr) IN Recoloured(c, p, r.console, r.ps, attr)
<1> DEFINE f == ptr_flush(c, p)
           e == f.console
           q == f.ps
           d == IF p.output THEN [e EXCEPT !.attribute = attr] ELSE e
           o == [q EXCEPT !.restore_attr = p.attr, !.attr = attr]
<1>1. /\ e \in ConsoleType /\ q \in PrintType /\ SameColours(p, q)
      /\ p.output => e.shown = Visible(c, p) /\ q.buffer = <<>>
      /\ ~p.output => e = c /\ q = p
  BY Flush, Zenon
<1>2. ptr_setattr(c, p, attr).console = d /\ ptr_setattr(c, p, attr).ps = o
  BY DEF ptr_setattr
<1> HIDE DEF f, e, q
<1>3. p.attr \in Nat /\ p.output \in BOOLEAN
  BY DEF PrintType
<1>4. /\ o \in PrintType /\ SamePrint(q, o) /\ o.attr = attr /\ o.restore_attr = p.attr
      /\ o.buffer = q.buffer /\ o.len = q.len
  BY <1>1, <1>3 DEF PrintType, SamePrint
<1>5. CASE p.output
  <2>1. d \in ConsoleType /\ d.attribute = attr /\ d.shown = e.shown
    BY <1>1, <1>5 DEF ConsoleType
  <2> HIDE DEF d, o
  <2>2. Visible(d, o) = Visible(c, p)
    BY <1>1, <1>4, <1>5, <2>1, NothingBuffered
  <2> QED
    BY <1>1, <1>2, <1>4, <1>5, <2>1, <2>2 DEF Recoloured, SamePrint, SameColours
<1>6. CASE ~p.output
  <2>1. d = c
    BY <1>1, <1>6
  <2> HIDE DEF d, o
  <2> QED
    BY <1>1, <1>2, <1>4, <1>6, <2>1 DEF Recoloured, SamePrint, SameColours
<1> QED
  BY <1>3, <1>5, <1>6

(* A character more.  On the console there is room for it and for the NUL. *)
Grown(c, p, d, q, text) ==
  /\ d \in ConsoleType /\ q \in PrintType /\ SameColours(p, q)
  /\ d.attribute = c.attribute
  /\ p.output => /\ Visible(d, q) = Visible(c, p) \o Coloured(text, c.attribute)
                 /\ Len(q.buffer) < q.capacity
  /\ ~p.output => d = c /\ q.buffer = p.buffer \o text /\ q.len = p.len + Len(text)

LEMMA OneCharacter ==
  ASSUME NEW char \in Glyphs
  PROVE  <<char>> \in Strings /\ Len(<<char>>) = 1 /\ Head(<<char>>) = char
BY DEF Strings

LEMMA PutOneCharacter ==
  ASSUME NEW c \in ConsoleType, NEW p \in PrintType, NEW char \in Glyphs,
         p.output => Len(p.buffer) < p.capacity
  PROVE  LET r == PutOne(c, p, char) IN Grown(c, p, r.console, r.ps, <<char>>)
<1> DEFINE b == Append(p.buffer, char)
           q == [p EXCEPT !.buffer = b, !.len = p.len + 1]
           r == PutOne(c, p, char)
<1>1. /\ p.buffer \in Strings /\ p.len \in Nat /\ p.capacity \in Nat \ {0} /\ p.output \in BOOLEAN
      /\ c.shown \in Screens /\ c.attribute \in Nat /\ <<char>> \in Strings /\ Len(<<char>>) = 1
  BY OneCharacter DEF PrintType, ConsoleType
<1>2. b \in Strings /\ b = p.buffer \o <<char>> /\ Len(b) = Len(p.buffer) + 1 /\ Len(p.buffer) \in Nat
  BY <1>1, AppendProperties, AppendIsConcat, LenProperties DEF Strings
<1> HIDE DEF b
<1>3. /\ q \in PrintType /\ SameColours(p, q) /\ q.buffer = b /\ q.len = p.len + 1
  <2>1. b \in Strings /\ p.len + 1 \in Nat
    BY <1>1, <1>2
  <2> QED
    BY <2>1 DEF PrintType, SameColours, SamePrint
<1>4. r = IF Len(q.buffer) >= q.capacity THEN ptr_flush(c, q) ELSE [console |-> c, ps |-> q]
  BY DEF PutOne, b
<1> HIDE DEF q
<1>5. Visible(c, q) = Visible(c, p) \o Coloured(<<char>>, c.attribute)
  <2>1. Coloured(b, c.attribute) = Coloured(p.buffer, c.attribute) \o Coloured(<<char>>, c.attribute)
    BY <1>1, <1>2, ColouredCat
  <2>2. Coloured(p.buffer, c.attribute) \in Screens /\ Coloured(<<char>>, c.attribute) \in Screens
    BY <1>1, ColouredType, Zenon
  <2>3. c.shown \o (Coloured(p.buffer, c.attribute) \o Coloured(<<char>>, c.attribute))
          = (c.shown \o Coloured(p.buffer, c.attribute)) \o Coloured(<<char>>, c.attribute)
    BY <1>1, <2>2, ScreensAssoc, Zenon
  <2> QED
    BY <1>3, <2>1, <2>3, Zenon DEF Visible
<1>6. CASE Len(q.buffer) >= q.capacity
  <2> DEFINE d == ptr_flush(c, q).console
             o == ptr_flush(c, q).ps
  <2>1. /\ d \in ConsoleType /\ o \in PrintType /\ SameColours(q, o)
        /\ d.attribute = c.attribute
        /\ q.output => d.shown = Visible(c, q) /\ o.buffer = <<>>
        /\ ~q.output => d = c /\ o = q
    BY <1>3, Flush, Zenon
  <2>2. r.console = d /\ r.ps = o
    BY <1>4, <1>6, Zenon
  <2> HIDE DEF d, o, r
  <2>3. q.output = p.output /\ SameColours(p, o)
    BY <1>3, <2>1 DEF SameColours, SamePrint
  <2>4. p.output => Visible(d, o) = Visible(c, q) /\ Len(o.buffer) < o.capacity
    <3>1. o.capacity \in Nat \ {0}
      BY <2>1 DEF PrintType
    <3>2. p.output => Visible(d, o) = Visible(c, q)
      BY <2>1, <2>3, NothingBuffered
    <3> QED
      BY <2>1, <2>3, <3>1, <3>2
  <2>5. Grown(c, p, d, o, <<char>>)
    BY <1>1, <1>2, <1>3, <1>5, <2>1, <2>3, <2>4 DEF Grown
  <2> QED
    BY <2>2, <2>5 DEF r
<1>7. CASE ~(Len(q.buffer) >= q.capacity)
  <2>1. r.console = c /\ r.ps = q
    BY <1>4, <1>7
  <2>2. Len(q.buffer) < q.capacity
    BY <1>1, <1>2, <1>3, <1>7 DEF SameColours, SamePrint
  <2>3. Grown(c, p, c, q, <<char>>)
    BY <1>1, <1>2, <1>3, <1>5, <2>2 DEF Grown
  <2> HIDE DEF r
  <2> QED
    BY <2>1, <2>3 DEF r
<1> QED
  BY <1>6, <1>7

LEMMA GrownTwice ==
  ASSUME NEW c \in ConsoleType, NEW p \in PrintType, NEW s \in Strings, NEW t \in Strings,
         NEW d, NEW q, NEW e, NEW o, Grown(c, p, d, q, s), Grown(d, q, e, o, t)
  PROVE  Grown(c, p, e, o, s \o t)
<1>1. /\ d \in ConsoleType /\ q \in PrintType /\ SameColours(p, q) /\ d.attribute = c.attribute
      /\ p.output => Visible(d, q) = Visible(c, p) \o Coloured(s, c.attribute)
      /\ ~p.output => d = c /\ q.buffer = p.buffer \o s /\ q.len = p.len + Len(s)
  BY Zenon DEF Grown
<1>2. /\ e \in ConsoleType /\ o \in PrintType /\ SameColours(q, o) /\ e.attribute = d.attribute
      /\ q.output => /\ Visible(e, o) = Visible(d, q) \o Coloured(t, d.attribute)
                     /\ Len(o.buffer) < o.capacity
      /\ ~q.output => e = d /\ o.buffer = q.buffer \o t /\ o.len = q.len + Len(t)
  BY Zenon DEF Grown
<1>3. SameColours(p, o) /\ q.output = p.output
  BY <1>1, <1>2 DEF SameColours, SamePrint
<1>4. Visible(c, p) \in Screens /\ c.attribute \in Nat /\ p.buffer \in Strings
  BY VisibleType, Zenon
<1>5. /\ Coloured(s, c.attribute) \in Screens /\ Coloured(t, c.attribute) \in Screens
      /\ Coloured(s \o t, c.attribute) = Coloured(s, c.attribute) \o Coloured(t, c.attribute)
  BY <1>4, ColouredType, ColouredCat, Zenon
<1>6. p.output => Visible(e, o) = Visible(c, p) \o Coloured(s \o t, c.attribute)
  <2>1. (Visible(c, p) \o Coloured(s, c.attribute)) \o Coloured(t, c.attribute)
          = Visible(c, p) \o (Coloured(s, c.attribute) \o Coloured(t, c.attribute))
    BY <1>4, <1>5, ScreensAssoc, Zenon
  <2> QED
    BY <1>1, <1>2, <1>3, <1>5, <2>1, Zenon
<1>7. ~p.output => e = c /\ o.buffer = p.buffer \o (s \o t) /\ o.len = p.len + Len(s \o t)
  <2> SUFFICES ASSUME ~p.output
               PROVE  e = c /\ o.buffer = p.buffer \o (s \o t) /\ o.len = p.len + Len(s \o t)
    OBVIOUS
  <2>1. o.buffer = (p.buffer \o s) \o t /\ e = c
    BY <1>1, <1>2, <1>3, Zenon
  <2>2. (p.buffer \o s) \o t = p.buffer \o (s \o t)
    BY <1>4, StringsAssoc, Zenon
  <2>3. Len(s \o t) = Len(s) + Len(t) /\ Len(s) \in Nat /\ Len(t) \in Nat
    BY StringsCat, Zenon
  <2>4. p.len \in Nat /\ q.len = p.len + Len(s) /\ o.len = q.len + Len(t)
    BY <1>1, <1>2, <1>3 DEF PrintType
  <2>5. o.len = p.len + Len(s \o t)
    BY <2>3, <2>4
  <2> QED
    BY <2>1, <2>2, <2>5
<1> QED
  BY <1>1, <1>2, <1>3, <1>6, <1>7 DEF Grown

(* ptr_putc().                                                             *)
LEMMA PutCharacter ==
  ASSUME NEW c \in ConsoleType, NEW p \in PrintType, NEW char \in Glyphs,
         p.output => Len(p.buffer) < p.capacity
  PROVE  LET r == ptr_putc(c, p, char)
         IN  Grown(c, p, r.console, r.ps,
                   IF char = "\n" /\ p.output THEN <<"\r", char>> ELSE <<char>>)
<1>1. CASE ~(char = "\n" /\ p.output)
  <2>1. ptr_putc(c, p, char) = PutOne(c, p, char)
    BY <1>1, Zenon DEF ptr_putc
  <2>2. Grown(c, p, PutOne(c, p, char).console, PutOne(c, p, char).ps, <<char>>)
    BY PutOneCharacter, Zenon
  <2> QED
    BY <1>1, <2>1, <2>2, Zenon
<1>2. CASE char = "\n" /\ p.output
  <2> DEFINE d == PutOne(c, p, "\r").console
             q == PutOne(c, p, "\r").ps
             e == PutOne(d, q, char).console
             o == PutOne(d, q, char).ps
  <2>1. ptr_putc(c, p, char) = PutOne(d, q, char)
    BY <1>2, Zenon DEF ptr_putc
  <2>2. "\r" \in Glyphs
    BY DEF Glyphs
  <2>3. Grown(c, p, d, q, <<"\r">>)
    BY <2>2, PutOneCharacter, Zenon
  <2> HIDE DEF d, q
  <2>4. d \in ConsoleType /\ q \in PrintType /\ (q.output => Len(q.buffer) < q.capacity)
    BY <1>2, <2>3, Zenon DEF Grown
  <2>5. Grown(d, q, e, o, <<char>>)
    BY <2>4, PutOneCharacter, Zenon
  <2> HIDE DEF e, o
  <2>6. <<"\r">> \in Strings /\ <<char>> \in Strings
    BY <2>2, OneCharacter, Zenon
  <2>7. Grown(c, p, e, o, <<"\r">> \o <<char>>)
    BY <2>3, <2>5, <2>6, GrownTwice, Zenon
  <2>8. <<"\r">> \o <<char>> = <<"\r", char>>
    <3> DEFINE x == <<"\r">> \o <<char>>
               y == <<"\r", char>>
    <3>1. /\ x \in Seq(Glyphs) /\ Len(x) = Len(<<"\r">>) + Len(<<char>>)
          /\ \A i \in 1 .. Len(<<"\r">>) + Len(<<char>>) :
               x[i] = IF i <= Len(<<"\r">>) THEN <<"\r">>[i] ELSE <<char>>[i - Len(<<"\r">>)]
      BY <2>6, StringsCat, Zenon DEF Strings
    <3> HIDE DEF x
    <3>2. Len(x) = 2 /\ x[1] = "\r" /\ x[2] = char
      BY <3>1
    <3>3. y \in Seq(Glyphs) /\ Len(y) = 2 /\ y[1] = "\r" /\ y[2] = char
      BY <2>2
    <3> HIDE DEF y
    <3>4. \A i \in 1 .. Len(x) : x[i] = y[i]
      BY <3>2, <3>3
    <3> QED
      BY <3>1, <3>2, <3>3, <3>4, SeqEqual DEF x, y
  <2>9. ptr_putc(c, p, char).console = e /\ ptr_putc(c, p, char).ps = o
    BY <2>1, Zenon DEF e, o
  <2> QED
    BY <1>2, <2>7, <2>8, <2>9, Zenon
<1> QED
  BY <1>1, <1>2

(* More of the text is meant, and more of it comes.                        *)
LEMMA SaysMore ==
  ASSUME NEW V \in Screens, NEW T \in Screens, NEW t \in Strings, NEW a \in Nat, NEW b \in Nat,
         Shaded(V) = Shaded(T), Shade(a) = Shade(b)
  PROVE  Shaded(V \o Coloured(t, a)) = Shaded(T \o Coloured(t, b))
<1>1. Coloured(t, a) \in Screens /\ Coloured(t, b) \in Screens
  BY ColouredType, Zenon
<1>2. /\ Shaded(V \o Coloured(t, a)) = Shaded(V) \o Shaded(Coloured(t, a))
      /\ Shaded(T \o Coloured(t, b)) = Shaded(T) \o Shaded(Coloured(t, b))
  BY <1>1, ShadedCat, Zenon
<1>3. Shaded(Coloured(t, a)) = Shaded(Coloured(t, b))
  BY ShadedColoured, Zenon
<1> QED
  BY <1>2, <1>3, Zenon

LEMMA NothingQueued ==
  ASSUME NEW V \in Screens, NEW s \in Strings, NEW a \in Nat
  PROVE  V \o Coloured(<<>>, a) = V /\ s \o <<>> = s
<1>1. Coloured(<<>>, a) \in Screens /\ Len(Coloured(<<>>, a)) = Len(<<>>)
  BY EmptyTexts, ColouredType, Zenon
<1>2. Coloured(<<>>, a) = <<>>
  BY <1>1, EmptySeq DEF Screens
<1> QED
  BY <1>2, ConcatEmptySeq DEF Screens, Strings

-----------------------------------------------------------------------------
(* The steps preserve ConsoleInv.                                          *)

LEMMA Fields ==
  ASSUME ConsoleInv
  PROVE  /\ console \in ConsoleType /\ ps \in PrintType /\ meant \in MeantType /\ item \in ItemType
         /\ console.attribute \in Nat /\ ps.attr \in Nat /\ ps.restore_attr \in Nat /\ ps.norm \in Nat
         /\ ps.output \in BOOLEAN /\ ps.buffer \in Strings /\ Visible(console, ps) \in Screens
         /\ meant.text \in Screens /\ meant.standing \in Nat /\ meant.field \in Nat
         /\ meant.undocumented \in BOOLEAN /\ meant.bytes \in BOOLEAN /\ queue \in Strings
<1>1. console \in ConsoleType /\ ps \in PrintType /\ meant \in MeantType /\ item \in ItemType
      /\ queue \in Seq(Plain)
  BY Zenon DEF ConsoleInv, PrintDataOK
<1>2. /\ console.attribute \in Nat /\ ps.attr \in Nat /\ ps.restore_attr \in Nat /\ ps.norm \in Nat
      /\ ps.output \in BOOLEAN /\ ps.buffer \in Strings
  BY <1>1 DEF ConsoleType, PrintType
<1>3. /\ meant.text \in Screens /\ meant.standing \in Nat /\ meant.field \in Nat
      /\ meant.undocumented \in BOOLEAN /\ meant.bytes \in BOOLEAN
  BY <1>1 DEF MeantType
<1>4. Visible(console, ps) \in Screens /\ queue \in Strings
  BY <1>1, VisibleType, PlainStrings, Zenon
<1> QED
  BY <1>1, <1>2, <1>3, <1>4, Zenon

(* The text the caller means and the text that comes grow alike.           *)
LEMMA TextGrows ==
  ASSUME ConsoleInv, ppc # "idle", ppc' # "idle", queue = <<>>,
         NEW t \in Strings, NEW s \in Strings, NEW colour \in Nat,
         Grown(console, ps, console', ps', t), queue' = s,
         meant'.bytes \/ meant'.text = meant.text \o Coloured(t \o s, colour),
         meant'.undocumented = meant.undocumented, meant.bytes => meant'.bytes,
         ps.output => meant.undocumented \/ Shade(console.attribute) = Shade(colour)
  PROVE  TextInv'
<1>0. /\ console.attribute \in Nat /\ Visible(console, ps) \in Screens /\ ps.buffer \in Strings
      /\ meant.text \in Screens /\ ps.output \in BOOLEAN /\ meant.undocumented \in BOOLEAN
      /\ meant.bytes \in BOOLEAN
  BY Fields, Zenon
<1>1. ps'.output = ps.output /\ console'.attribute = console.attribute
  BY DEF Grown, SameColours, SamePrint
<1>2. CASE ps.output
  <2>1. /\ Visible(console', ps') = Visible(console, ps) \o Coloured(t, console.attribute)
        /\ Len(ps'.buffer) < ps'.capacity
    BY <1>2, Zenon DEF Grown
  <2>2. /\ Coloured(t, console.attribute) \in Screens /\ Coloured(s, console.attribute) \in Screens
        /\ t \o s \in Strings
        /\ Coloured(t \o s, console.attribute)
             = Coloured(t, console.attribute) \o Coloured(s, console.attribute)
    <3>1. Coloured(t, console.attribute) \in Screens /\ Coloured(s, console.attribute) \in Screens
      BY <1>0, ColouredType, Zenon
    <3>2. /\ t \o s \in Strings
          /\ Coloured(t \o s, console.attribute)
               = Coloured(t, console.attribute) \o Coloured(s, console.attribute)
      BY <1>0, ColouredCat, Zenon
    <3> QED
      BY <3>1, <3>2
  <2>3. Visible(console', ps') \o Coloured(s, console.attribute)
          = Visible(console, ps) \o Coloured(t \o s, console.attribute)
    <3>1. (Visible(console, ps) \o Coloured(t, console.attribute)) \o Coloured(s, console.attribute)
            = Visible(console, ps) \o (Coloured(t, console.attribute) \o Coloured(s, console.attribute))
      BY <1>0, <2>2, ScreensAssoc, Zenon
    <3> QED
      BY <2>1, <2>2, <3>1, Zenon
  <2>4. CASE ~meant.undocumented /\ ~meant'.bytes
    <3>1. Shaded(Visible(console, ps) \o Coloured(queue, console.attribute)) = Shaded(meant.text)
      BY <1>2, <2>4, Zenon DEF ConsoleInv, TextInv
    <3>2. Shaded(Visible(console, ps)) = Shaded(meant.text)
      BY <1>0, <3>1, NothingQueued, Zenon
    <3>3. Shaded(Visible(console, ps) \o Coloured(t \o s, console.attribute))
            = Shaded(meant.text \o Coloured(t \o s, colour))
      <4>1. Shade(console.attribute) = Shade(colour)
        BY <1>2, <2>4
      <4> QED
        <5> DEFINE V == Visible(console, ps)
                   T == meant.text
                   w == t \o s
                   a == console.attribute
        <5>1. /\ V \in Screens /\ T \in Screens /\ w \in Strings /\ a \in Nat
              /\ Shaded(V) = Shaded(T) /\ Shade(a) = Shade(colour)
          BY <1>0, <2>2, <3>2, <4>1, Zenon
        <5> HIDE DEF V, T, w, a
        <5>2. Shaded(V \o Coloured(w, a)) = Shaded(T \o Coloured(w, colour))
          BY <5>1, SaysMore
        <5> QED
          BY <5>2 DEF V, T, w, a
    <3>4. Shaded(Visible(console', ps') \o Coloured(queue', console'.attribute)) = Shaded(meant'.text)
      BY <1>1, <2>3, <2>4, <3>3, Zenon
    <3> QED
      BY <1>1, <1>2, <2>1, <3>4, Zenon DEF TextInv
  <2>5. CASE meant.undocumented \/ meant'.bytes
    BY <1>1, <1>2, <2>1, <2>5, Zenon DEF TextInv
  <2> QED
    BY <2>4, <2>5
<1>3. CASE ~ps.output
  <2>1. ps'.buffer = ps.buffer \o t /\ ps'.len = ps.len + Len(t)
    BY <1>3, Zenon DEF Grown
  <2>2. (meant.bytes \/ ps.buffer \o queue = Letters(meant.text)) /\ ps.len = Len(ps.buffer)
    BY <1>3, Zenon DEF ConsoleInv, TextInv
  <2>3. meant.bytes \/ ps.buffer = Letters(meant.text)
    <3>1. ps.buffer \o <<>> = ps.buffer
      BY <1>0, NothingQueued, Zenon
    <3> QED
      BY <2>2, <3>1, Zenon
  <2>4. meant'.bytes \/ Letters(meant'.text) = Letters(meant.text) \o (t \o s)
    <3>1. t \o s \in Strings
      BY StringsCat, Zenon
    <3>2. Letters(meant.text \o Coloured(t \o s, colour)) = Letters(meant.text) \o (t \o s)
      BY <1>0, <3>1, LettersCat, Zenon
    <3> QED
      BY <3>1, <3>2, Zenon
  <2>5. (ps.buffer \o t) \o s = ps.buffer \o (t \o s)
    BY <1>0, StringsAssoc, Zenon
  <2>6. meant'.bytes \/ ps'.buffer \o queue' = Letters(meant'.text)
    BY <2>1, <2>3, <2>4, <2>5, Zenon
  <2>7. ps'.len = Len(ps'.buffer)
    <3>1. Len(ps.buffer \o t) = Len(ps.buffer) + Len(t)
      BY <1>0, StringsCat, Zenon
    <3> QED
      BY <2>1, <2>2, <3>1, Zenon
  <2> QED
    BY <1>1, <1>3, <2>6, <2>7, Zenon DEF TextInv
<1> QED
  BY <1>0, <1>2, <1>3

(* Nothing is said.                                                        *)
LEMMA TextStays ==
  ASSUME ConsoleInv, queue' = queue, meant'.text = meant.text,
         ps'.output = ps.output, ps'.capacity = ps.capacity,
         meant.undocumented => meant'.undocumented, meant'.bytes = meant.bytes,
         ps.output => /\ Visible(console', ps') = Visible(console, ps)
                      /\ queue = <<>> \/ console'.attribute = console.attribute
                      /\ ps'.buffer = <<>> \/ (ps'.buffer = ps.buffer /\ ppc' # "idle"),
         ~ps.output => ps'.buffer = ps.buffer /\ ps'.len = ps.len,
         console'.attribute \in Nat
  PROVE  TextInv'
<1>0. /\ console.attribute \in Nat /\ ps \in PrintType
  BY Fields, Zenon
<1>1. CASE ps.output
  <2>1. Coloured(queue', console'.attribute) = Coloured(queue, console.attribute)
    <3>1. CASE queue = <<>>
      <4>1. ASSUME NEW a \in Nat PROVE Coloured(<<>>, a) = <<>>
        <5>1. Coloured(<<>>, a) \in Screens /\ Len(Coloured(<<>>, a)) = Len(<<>>)
          BY EmptyTexts, ColouredType, Zenon
        <5> QED
          BY <5>1, EmptySeq DEF Screens
      <4> QED
        BY <1>0, <3>1, <4>1, Zenon
    <3>2. CASE console'.attribute = console.attribute
      BY <3>2, Zenon
    <3> QED
      BY <1>1, <3>1, <3>2
  <2>2. Len(ps'.buffer) < ps'.capacity
    <3>1. CASE ps'.buffer = <<>>
      <4>1. ps.capacity \in Nat \ {0}
        BY <1>0 DEF PrintType
      <4> QED
        BY <3>1, <4>1
    <3>2. CASE ps'.buffer = ps.buffer
      BY <1>1, <3>2, Zenon DEF ConsoleInv, TextInv
    <3> QED
      BY <1>1, <3>1, <3>2
  <2>3. meant'.undocumented \/ meant'.bytes
        \/ Shaded(Visible(console', ps') \o Coloured(queue', console'.attribute)) = Shaded(meant'.text)
    BY <1>1, <2>1, Zenon DEF ConsoleInv, TextInv
  <2> QED
    BY <1>1, <2>2, <2>3, Zenon DEF TextInv
<1>2. CASE ~ps.output
  BY <1>2, Zenon DEF ConsoleInv, TextInv
<1> QED
  BY <1>1, <1>2

LEMMA ConsoleInit == PrintInit => ConsoleInv
<1> SUFFICES ASSUME PrintInit PROVE ConsoleInv
  OBVIOUS
<1>1. /\ ppc = "idle" /\ item = NewItem /\ queue = <<>>
      /\ ps = [output |-> TRUE, capacity |-> 1, buffer |-> <<>>, len |-> 0,
               attr |-> NORMAL, restore_attr |-> 0, norm |-> NORMAL]
      /\ meant = [text |-> <<>>, standing |-> NORMAL, field |-> 0, undocumented |-> FALSE,
                bytes |-> FALSE]
  BY Zenon DEF PrintInit
<1>2. console \in ConsoleType /\ console.shown = <<>>
  <2>1. console \in [shown : {<<>>}, attribute : Attributes]
    BY Zenon DEF PrintInit
  <2>2. console.shown = <<>> /\ console.attribute \in Attributes
        /\ console = [shown |-> console.shown, attribute |-> console.attribute]
    BY <2>1
  <2>3. console.attribute \in Nat
    BY <2>2, AttributesAreNumbers, Zenon
  <2> QED
    BY <2>2, <2>3, EmptyTexts DEF ConsoleType
<1>3. ps \in PrintType /\ ps.buffer = <<>> /\ ps.output /\ ps.capacity = 1
  BY <1>1, EmptyTexts DEF PrintType, NORMAL
<1>4. meant \in MeantType /\ meant.text = <<>>
  BY <1>1, EmptyTexts DEF MeantType, NORMAL
<1>5. item \in ItemType
  BY <1>1 DEF ItemType, NewItem, NoField
<1>6. PrintDataOK
  BY <1>1, <1>2, <1>3, <1>4, <1>5, EmptyTexts DEF PrintDataOK
<1>7. Visible(console, ps) = <<>> /\ console.attribute \in Nat
  BY <1>2, <1>3, NothingBuffered, VisibleType
<1>8. Visible(console, ps) \o Coloured(queue, console.attribute) = <<>>
  BY <1>1, <1>7, EmptyTexts, NothingQueued, Zenon
<1>9. TextInv
  <2>1. Len(ps.buffer) < ps.capacity
    BY <1>3
  <2>2. Shaded(Visible(console, ps) \o Coloured(queue, console.attribute)) = Shaded(meant.text)
    BY <1>4, <1>8, Zenon
  <2> QED
    BY <1>3, <2>1, <2>2, Zenon DEF TextInv
<1> QED
  BY <1>1, <1>6, <1>9 DEF ConsoleInv, ColourInv

LEMMA CallStep ==
  ASSUME ConsoleInv, NEW output \in BOOLEAN, NEW capacity \in Capacities, Call(output, capacity)
  PROVE  ConsoleInv'
<1> DEFINE attr == IF output THEN Shade(console.attribute) ELSE 0
<1>0. /\ ppc = "idle" /\ ppc' = "text" /\ item' = item /\ queue' = queue
      /\ ps' = [output |-> output, capacity |-> capacity, buffer |-> <<>>, len |-> 0,
                attr |-> attr, restore_attr |-> 0, norm |-> attr]
      /\ console' = [console EXCEPT !.shown = <<>>]
      /\ meant' = [text |-> <<>>, standing |-> attr, field |-> 0, undocumented |-> FALSE,
                bytes |-> FALSE]
  BY Zenon DEF Call
<1>1. /\ console \in ConsoleType /\ console.attribute \in Nat /\ item \in ItemType
      /\ queue = <<>> /\ queue \in Seq(Plain)
  BY <1>0, Fields DEF ConsoleInv, PrintDataOK
<1>2. attr \in Nat /\ (output => attr # 0 /\ attr = Shade(console.attribute))
  BY <1>1 DEF Shade, NORMAL
<1>3. capacity \in Nat \ {0}
  BY ConsoleAssumption
<1> HIDE DEF attr
<1>4. /\ ps' \in PrintType /\ ps'.buffer = <<>> /\ ps'.output = output /\ ps'.capacity = capacity
      /\ ps'.attr = attr /\ ps'.norm = attr /\ ps'.len = 0
  BY <1>0, <1>2, <1>3, EmptyTexts DEF PrintType
<1>5. console' \in ConsoleType /\ console'.shown = <<>> /\ console'.attribute = console.attribute
  BY <1>0, <1>1, EmptyTexts DEF ConsoleType
<1>6. meant' \in MeantType /\ meant'.text = <<>> /\ meant'.standing = attr
  BY <1>0, <1>2, EmptyTexts DEF MeantType
<1>7. PrintDataOK'
  BY <1>0, <1>1, <1>4, <1>5, <1>6 DEF PrintDataOK
<1>8. Visible(console', ps') = <<>>
  BY <1>4, <1>5, NothingBuffered
<1>9. Visible(console', ps') \o Coloured(queue', console'.attribute) = <<>> /\ ps'.buffer \o queue' = <<>>
  <2>1. Visible(console', ps') \o Coloured(<<>>, console'.attribute) = <<>> /\ <<>> \o <<>> = <<>>
    BY <1>1, <1>5, <1>8, EmptyTexts, NothingQueued, Zenon
  <2> QED
    BY <1>0, <1>1, <1>4, <2>1, Zenon
<1>10. TextInv'
  <2>1. Len(<<>>) = 0 /\ Letters(<<>>) = <<>>
    BY DEF Letters
  <2>2. Len(ps'.buffer) < ps'.capacity /\ ps'.len = Len(ps'.buffer)
    BY <1>3, <1>4, <2>1
  <2>3. Shaded(Visible(console', ps') \o Coloured(queue', console'.attribute)) = Shaded(meant'.text)
    BY <1>6, <1>9, Zenon
  <2>4. ps'.buffer \o queue' = Letters(meant'.text)
    BY <1>6, <1>9, <2>1, Zenon
  <2> QED
    BY <1>4, <2>2, <2>3, <2>4, Zenon DEF TextInv
<1>11. ColourInv'
  BY <1>0, <1>2, <1>4, <1>5, <1>6 DEF ColourInv
<1> QED
  BY <1>7, <1>10, <1>11 DEF ConsoleInv

(* A part of _print() that leaves the colours as they are.                 *)
LEMMA ColoursStay ==
  ASSUME ConsoleInv, ppc # "idle", SameColours(ps, ps'),
         console'.attribute = console.attribute,
         meant'.standing = meant.standing, meant'.field = meant.field,
         meant'.undocumented = meant.undocumented,
         ppc' = ppc \/ (ppc = "item" /\ ppc' = "put")
  PROVE  ColourInv'
BY DEF ConsoleInv, ColourInv, SameColours, SamePrint

LEMMA MeansMore ==
  ASSUME meant \in MeantType, NEW t \in Strings, NEW a \in Nat, Means(t, a)
  PROVE  /\ meant' \in MeantType /\ meant'.text = meant.text \o Coloured(t, a)
         /\ meant'.standing = meant.standing /\ meant'.field = meant.field
         /\ meant'.undocumented = meant.undocumented /\ meant'.bytes = meant.bytes
<1>1. meant.text \in Screens
  BY DEF MeantType
<1>2. meant.text \o Coloured(t, a) \in Screens
  BY <1>1, LettersCat, Zenon
<1>3. meant' = [meant EXCEPT !.text = meant.text \o Coloured(t, a)]
  BY DEF Means
<1> QED
  BY <1>2, <1>3 DEF MeantType

LEMMA LiteralStep ==
  ASSUME ConsoleInv, NEW char \in Chars \cup {"\n"}, Literal(char)
  PROVE  ConsoleInv'
<1> DEFINE t == IF char = "\n" /\ ps.output THEN <<"\r", char>> ELSE <<char>>
<1>0. /\ ppc = "text" /\ ppc' = ppc /\ item' = item /\ queue' = queue
      /\ console' = ptr_putc(console, ps, char).console /\ ps' = ptr_putc(console, ps, char).ps
      /\ Means(t, meant.standing)
  BY Zenon DEF Literal
<1>1. /\ console \in ConsoleType /\ ps \in PrintType /\ meant \in MeantType /\ item \in ItemType
      /\ console.attribute \in Nat /\ meant.standing \in Nat /\ ps.attr \in Nat
      /\ queue \in Seq(Plain) /\ queue = <<>>
      /\ ps.output => Len(ps.buffer) < ps.capacity
  BY <1>0, Fields DEF ConsoleInv, PrintDataOK, TextInv
<1>2. char \in Glyphs /\ "\r" \in Glyphs
  BY DEF Glyphs, Plain
<1>3. Grown(console, ps, console', ps', t)
  BY <1>0, <1>1, <1>2, PutCharacter, Zenon
<1>4. t \in Strings
  BY <1>2 DEF Strings
<1> HIDE DEF t
<1>5. /\ meant' \in MeantType /\ meant'.text = meant.text \o Coloured(t, meant.standing)
      /\ meant'.standing = meant.standing /\ meant'.field = meant.field
      /\ meant'.undocumented = meant.undocumented /\ meant'.bytes = meant.bytes
  BY <1>0, <1>1, <1>4, MeansMore
<1>6. t \o <<>> = t
  BY <1>1, <1>4, EmptyTexts, NothingQueued, Zenon
<1>7. ps.output => meant.undocumented \/ Shade(console.attribute) = Shade(meant.standing)
  BY <1>0, <1>1 DEF ConsoleInv, ColourInv, Shade
<1>8. TextInv'
  <2>1. meant'.text = meant.text \o Coloured(t \o <<>>, meant.standing)
    BY <1>5, <1>6, Zenon
  <2>2. ppc # "idle" /\ ppc' # "idle" /\ queue' = <<>> /\ <<>> \in Strings
    BY <1>0, <1>1, EmptyTexts
  <2> QED
    BY <1>1, <1>3, <1>4, <1>5, <1>7, <2>1, <2>2, TextGrows
<1>9. PrintDataOK'
  BY <1>0, <1>1, <1>3, <1>5 DEF PrintDataOK, Grown
<1>10. ColourInv'
  <2>1. SameColours(ps, ps') /\ console'.attribute = console.attribute
    BY <1>3, Zenon DEF Grown
  <2> QED
    BY <1>0, <1>5, <2>1, ColoursStay
<1> QED
  BY <1>8, <1>9, <1>10 DEF ConsoleInv

LEMMA PercentStep == ConsoleInv /\ Percent => ConsoleInv'
<1> SUFFICES ASSUME ConsoleInv, Percent PROVE ConsoleInv'
  OBVIOUS
<1>0. /\ ppc = "text" /\ ppc' = "item" /\ item' = NewItem /\ queue' = queue /\ console' = console
      /\ ps' = [ps EXCEPT !.restore_attr = 0] /\ meant' = [meant EXCEPT !.field = 0]
  BY Zenon DEF Percent
<1>1. /\ console \in ConsoleType /\ ps \in PrintType /\ meant \in MeantType
      /\ console.attribute \in Nat /\ queue \in Seq(Plain) /\ queue = <<>>
  BY <1>0, Fields DEF ConsoleInv, PrintDataOK
<1>2. /\ ps' \in PrintType /\ SamePrint(ps, ps') /\ ps'.attr = ps.attr /\ ps'.restore_attr = 0
      /\ ps'.buffer = ps.buffer /\ ps'.len = ps.len
  BY <1>0, <1>1 DEF PrintType, SamePrint
<1>3. /\ meant' \in MeantType /\ meant'.text = meant.text /\ meant'.standing = meant.standing
      /\ meant'.field = 0 /\ meant'.undocumented = meant.undocumented /\ meant'.bytes = meant.bytes
  BY <1>0, <1>1 DEF MeantType
<1>4. item' \in ItemType
  BY <1>0 DEF ItemType, NewItem, NoField
<1>5. Visible(console', ps') = Visible(console, ps)
  BY <1>0, <1>2, Zenon DEF Visible
<1>6. TextInv'
  <2>1. ps'.output = ps.output /\ ps'.capacity = ps.capacity /\ ppc' # "idle"
    BY <1>0, <1>2 DEF SamePrint
  <2> QED
    BY <1>0, <1>1, <1>2, <1>3, <1>5, <2>1, TextStays
<1>7. PrintDataOK'
  BY <1>0, <1>1, <1>2, <1>3, <1>4 DEF PrintDataOK
<1>8. ColourInv'
  BY <1>0, <1>2, <1>3 DEF ConsoleInv, ColourInv, SamePrint
<1> QED
  BY <1>6, <1>7, <1>8 DEF ConsoleInv

LEMMA FlagStep ==
  ASSUME ConsoleInv, NEW i \in ItemType, Flag(i)
  PROVE  ConsoleInv'
<1>0. /\ ppc = "item" /\ ppc' = ppc /\ item' = i /\ UNCHANGED <<ps, queue, console, meant>>
  BY Zenon DEF Flag
<1>1. PrintDataOK'
  BY <1>0 DEF ConsoleInv, PrintDataOK
<1>2. TextInv'
  <2>1. Visible(console', ps') = Visible(console, ps)
    BY <1>0 DEF Visible
  <2>2. console.attribute \in Nat
    BY Fields, Zenon
  <2> QED
    BY <1>0, <2>1, <2>2, TextStays
<1>3. ColourInv'
  BY <1>0 DEF ConsoleInv, ColourInv
<1> QED
  BY <1>1, <1>2, <1>3 DEF ConsoleInv

LEMMA ModifyStep == ConsoleInv /\ Modify => ConsoleInv'
<1> SUFFICES ASSUME ConsoleInv, Modify PROVE ConsoleInv'
  OBVIOUS
<1>0. item \in ItemType
  BY Fields, Zenon
<1>1. /\ [item EXCEPT !.pad_char = "0"] \in ItemType
      /\ [item EXCEPT !.pad_before = FALSE] \in ItemType
      /\ [item EXCEPT !.parse = "field_width"] \in ItemType
  BY <1>0 DEF ItemType
<1>2. ASSUME NEW n \in Widths PROVE [item EXCEPT ![item.parse] = n] \in ItemType
  <2>1. n \in Nat
    BY ConsoleAssumption
  <2>2. CASE item.parse = "width"
    BY <1>0, <2>1, <2>2 DEF ItemType
  <2>3. CASE item.parse = "field_width"
    BY <1>0, <2>1, <2>3 DEF ItemType
  <2> QED
    BY <1>0, <2>2, <2>3 DEF ItemType
<1>3. \E i \in ItemType : Flag(i)
  BY <1>1, <1>2, Zenon DEF Modify
<1> QED
  BY <1>3, FlagStep

(* The colour of a field; a second one in the same field is undocumented.  *)
LEMMA FieldAttrStep ==
  ASSUME ConsoleInv, NEW attr \in Nat, ps.output /\ ppc = "item" => attr # 0, FieldAttr(attr)
  PROVE  ConsoleInv'
<1> DEFINE r == ptr_setattr(console, ps, attr)
<1>0. /\ ppc = "item" /\ ppc' = ppc /\ item' = item /\ queue' = queue
      /\ console' = r.console /\ ps' = r.ps
      /\ meant' = [meant EXCEPT !.field = attr,
                                !.undocumented = meant.undocumented \/ meant.field # 0]
  BY DEF FieldAttr
<1>1. /\ console \in ConsoleType /\ ps \in PrintType /\ meant \in MeantType /\ item \in ItemType
      /\ queue \in Seq(Plain) /\ queue = <<>> /\ ps.output \in BOOLEAN
      /\ meant.undocumented \in BOOLEAN
  BY <1>0, Fields DEF ConsoleInv, PrintDataOK
<1>2. /\ console' \in ConsoleType /\ ps' \in PrintType /\ SamePrint(ps, ps')
      /\ ps'.attr = attr /\ ps'.restore_attr = ps.attr
      /\ ps.output => /\ console'.attribute = attr /\ ps'.buffer = <<>>
                      /\ Visible(console', ps') = Visible(console, ps)
      /\ ~ps.output => console' = console /\ ps'.buffer = ps.buffer /\ ps'.len = ps.len
  <2>1. Recoloured(console, ps, r.console, r.ps, attr)
    BY <1>1, SetAttr, Zenon
  <2> QED
    BY <1>0, <2>1, Zenon DEF Recoloured
<1> HIDE DEF r
<1>3. /\ meant' \in MeantType /\ meant'.text = meant.text /\ meant'.standing = meant.standing
      /\ meant'.field = attr /\ meant'.undocumented = (meant.undocumented \/ meant.field # 0)
      /\ meant'.bytes = meant.bytes
  BY <1>0, <1>1 DEF MeantType
<1>4. TextInv'
  <2>1. ps'.output = ps.output /\ ps'.capacity = ps.capacity
    BY <1>2 DEF SamePrint
  <2>2. console'.attribute \in Nat
    BY <1>2 DEF ConsoleType
  <2> QED
    BY <1>0, <1>1, <1>2, <1>3, <2>1, <2>2, TextStays
<1>5. PrintDataOK'
  BY <1>0, <1>1, <1>2, <1>3 DEF PrintDataOK
<1>6. ColourInv'
  BY <1>0, <1>1, <1>2, <1>3 DEF ConsoleInv, ColourInv, SamePrint, Shade
<1> QED
  BY <1>4, <1>5, <1>6 DEF ConsoleInv

LEMMA StandingAttrStep ==
  ASSUME ConsoleInv, NEW attr \in Nat, StandingAttr(attr)
  PROVE  ConsoleInv'
<1> DEFINE r == ptr_setattr(console, ps, attr)
<1>0. /\ ppc = "item" /\ item' = item /\ queue' = queue
      /\ meant' = [meant EXCEPT !.standing = attr,
                                !.undocumented = meant.undocumented \/ attr = 0]
  BY DEF StandingAttr
<1>1. /\ console \in ConsoleType /\ ps \in PrintType /\ meant \in MeantType /\ item \in ItemType
      /\ queue \in Seq(Plain) /\ queue = <<>> /\ ps.output \in BOOLEAN
      /\ meant.undocumented \in BOOLEAN /\ console.attribute \in Nat
  BY <1>0, Fields DEF ConsoleInv, PrintDataOK
<1>2. /\ meant' \in MeantType /\ meant'.text = meant.text /\ meant'.standing = attr
      /\ meant'.field = meant.field /\ meant'.undocumented = (meant.undocumented \/ attr = 0)
      /\ meant'.bytes = meant.bytes
  BY <1>0, <1>1 DEF MeantType
<1>3. CASE attr = 0
  <2>1. ppc' = ppc /\ ps' = ps /\ console' = console
    BY <1>3, Zenon DEF StandingAttr
  <2>2. Visible(console', ps') = Visible(console, ps)
    BY <2>1, Zenon
  <2>3. TextInv'
    BY <1>0, <1>1, <1>2, <2>1, <2>2, TextStays
  <2>4. PrintDataOK'
    BY <1>0, <1>1, <1>2, <2>1 DEF PrintDataOK
  <2>5. ColourInv'
    BY <1>0, <1>2, <1>3, <2>1 DEF ConsoleInv, ColourInv
  <2> QED
    BY <2>3, <2>4, <2>5 DEF ConsoleInv
<1>4. CASE attr # 0
  <2> DEFINE q == r.ps
  <2>1. ppc' = "text" /\ console' = r.console /\ ps' = [q EXCEPT !.restore_attr = 0]
    BY <1>4, Zenon DEF StandingAttr
  <2>2. /\ console' \in ConsoleType /\ q \in PrintType /\ SamePrint(ps, q) /\ q.attr = attr
        /\ ps.output => /\ console'.attribute = attr /\ q.buffer = <<>>
                        /\ Visible(console', q) = Visible(console, ps)
        /\ ~ps.output => console' = console /\ q.buffer = ps.buffer /\ q.len = ps.len
    <3>1. Recoloured(console, ps, r.console, r.ps, attr)
      BY <1>1, SetAttr, Zenon
    <3> QED
      BY <2>1, <3>1, Zenon DEF Recoloured
  <2> HIDE DEF q
  <2>3. /\ ps' \in PrintType /\ SamePrint(q, ps') /\ ps'.attr = q.attr /\ ps'.buffer = q.buffer
        /\ ps'.len = q.len
    BY <2>1, <2>2 DEF PrintType, SamePrint
  <2>4. Visible(console', ps') = Visible(console', q)
    BY <2>3, Zenon DEF Visible
  <2>5. TextInv'
    <3>1. ps'.output = ps.output /\ ps'.capacity = ps.capacity
      BY <2>2, <2>3 DEF SamePrint
    <3>2. console'.attribute \in Nat
      BY <2>2 DEF ConsoleType
    <3>3. ps.output => Visible(console', ps') = Visible(console, ps) /\ ps'.buffer = <<>>
      BY <2>2, <2>3, <2>4, Zenon
    <3>4. ~ps.output => ps'.buffer = ps.buffer /\ ps'.len = ps.len
      BY <2>2, <2>3, Zenon
    <3>5. meant.undocumented => meant'.undocumented
      BY <1>2
    <3> QED
      <4>1. queue' = queue /\ meant'.text = meant.text /\ meant'.bytes = meant.bytes
        BY <1>0, <1>2
      <4>2. ps.output => /\ Visible(console', ps') = Visible(console, ps)
                         /\ queue = <<>> \/ console'.attribute = console.attribute
                         /\ ps'.buffer = <<>> \/ (ps'.buffer = ps.buffer /\ ppc' # "idle")
        BY <1>1, <3>3, Zenon
      <4> QED
        BY <3>1, <3>2, <3>4, <3>5, <4>1, <4>2, TextStays
  <2>6. PrintDataOK'
    BY <1>0, <1>1, <1>2, <2>1, <2>2, <2>3 DEF PrintDataOK
  <2>7. ColourInv'
    BY <1>0, <1>2, <1>4, <2>1, <2>2, <2>3 DEF ConsoleInv, ColourInv, SamePrint, Shade
  <2> QED
    BY <2>5, <2>6, <2>7 DEF ConsoleInv
<1> QED
  BY <1>3, <1>4

(* An argument: all of the field is meant, and waits in the queue; or its  *)
(* width counts bytes.                                                     *)
LEMMA ItemStep ==
  ASSUME ConsoleInv, NEW i \in ItemType, NEW text \in Seq(Chars), NEW wide, Item(i, text, wide)
  PROVE  ConsoleInv'
<1>0. /\ ppc = "item" /\ ppc' = "put" /\ queue' = ptr_item(i, text, wide)
      /\ meant' = [meant EXCEPT !.text = meant.text \o Coloured(Documented(i, text), FieldColour),
                                !.bytes = meant.bytes \/ InBytes(i, text, wide)]
      /\ ps' = ps /\ item' = item /\ console' = console
  BY Zenon DEF Item
<1>1. /\ console \in ConsoleType /\ ps \in PrintType /\ meant \in MeantType /\ item \in ItemType
      /\ console.attribute \in Nat /\ meant.standing \in Nat /\ meant.field \in Nat
      /\ ps.attr \in Nat /\ ps.buffer \in Strings /\ Visible(console, ps) \in Screens
      /\ queue = <<>>
  BY <1>0, Fields DEF ConsoleInv, PrintDataOK
<1> DEFINE t == ptr_item(i, text, wide)
           d == Documented(i, text)
           colour == FieldColour
<1>2. t \in Seq(Plain) /\ t \in Strings /\ (InBytes(i, text, wide) \/ t = d)
  BY ItemPlain, ItemAsDocumented, PlainStrings, Zenon
<1>3. colour \in Nat /\ colour = (IF meant.field = 0 THEN meant.standing ELSE meant.field)
  BY <1>1 DEF FieldColour
<1>4. queue' = t /\ d \in Strings
  BY <1>0, DocumentedType, PlainStrings, Zenon
<1>5. /\ meant' \in MeantType
      /\ meant'.bytes \/ meant'.text = meant.text \o Coloured(t, colour)
      /\ meant'.standing = meant.standing /\ meant'.field = meant.field
      /\ meant'.undocumented = meant.undocumented /\ (meant.bytes => meant'.bytes)
  <2> DEFINE x == meant.text \o Coloured(d, colour)
             b == meant.bytes \/ InBytes(i, text, wide)
  <2>1. x \in Screens /\ meant.bytes \in BOOLEAN /\ b \in BOOLEAN
    <3>1. meant.text \in Screens /\ meant.bytes \in BOOLEAN
      BY Fields, Zenon
    <3> QED
      BY <1>3, <1>4, <3>1, LettersCat, Zenon
  <2>2. meant' = [meant EXCEPT !.text = x, !.bytes = b]
    BY <1>0
  <2>3. t = d \/ b
    BY <1>2
  <2>4. meant.bytes => b
    OBVIOUS
  <2>5. t = d => x = meant.text \o Coloured(t, colour)
    OBVIOUS
  <2> HIDE DEF x, b
  <2>6. /\ meant' \in MeantType /\ meant'.text = x /\ meant'.bytes = b
        /\ meant'.standing = meant.standing /\ meant'.field = meant.field
        /\ meant'.undocumented = meant.undocumented
    BY <1>1, <2>1, <2>2 DEF MeantType
  <2> QED
    BY <2>3, <2>4, <2>5, <2>6, Zenon
<1> HIDE DEF t, d, colour
<1>6. ps.output => meant.undocumented \/ Shade(console.attribute) = Shade(colour)
  BY <1>0, <1>1, <1>3 DEF ConsoleInv, ColourInv, Shade
<1>7. Grown(console, ps, console', ps', <<>>)
  <2>1. Visible(console, ps) \o Coloured(<<>>, console.attribute) = Visible(console, ps)
        /\ ps.buffer \o <<>> = ps.buffer
    BY <1>1, NothingQueued, Zenon
  <2>2. ps.len + Len(<<>>) = ps.len
    BY <1>1 DEF PrintType
  <2>3. ps.output => Len(ps.buffer) < ps.capacity
    BY DEF ConsoleInv, TextInv
  <2>4. SameColours(ps, ps)
    BY DEF SameColours, SamePrint
  <2>5. Grown(console, ps, console, ps, <<>>)
    BY <1>1, <2>1, <2>2, <2>3, <2>4, Zenon DEF Grown
  <2> QED
    BY <1>0, <2>5, Zenon
<1>8. TextInv'
  <2>1. <<>> \o t = t
    BY <1>2, ConcatEmptySeq
  <2>2. meant'.bytes \/ meant'.text = meant.text \o Coloured(<<>> \o t, colour)
    BY <1>5, <2>1, Zenon
  <2>3. ppc # "idle" /\ ppc' # "idle" /\ <<>> \in Strings
    BY <1>0, EmptyTexts
  <2> QED
    BY <1>1, <1>2, <1>3, <1>4, <1>5, <1>6, <1>7, <2>2, <2>3, TextGrows
<1>9. PrintDataOK'
  BY <1>0, <1>1, <1>2, <1>4, <1>5 DEF PrintDataOK
<1>10. ColourInv'
  <2>1. SameColours(ps, ps') /\ console'.attribute = console.attribute
    BY <1>0 DEF SameColours, SamePrint
  <2> QED
    BY <1>0, <1>5, <2>1, ColoursStay
<1> QED
  BY <1>8, <1>9, <1>10 DEF ConsoleInv

LEMMA ArgumentStep ==
  ASSUME ConsoleInv, NEW text \in Texts, Argument(text)
  PROVE  ConsoleInv'
<1>1. text \in Seq(Chars)
  <2>1. PICK n \in Lengths : text \in [1 .. n -> Chars]
    BY DEF Texts
  <2>2. n \in Nat
    BY ConsoleAssumption
  <2> QED
    BY <2>1, <2>2
<1>2. item \in ItemType
  BY Fields, Zenon
<1>3. [item EXCEPT !.width = FixedWidth, !.pad_char = "0"] \in ItemType
  <2>1. FixedWidth \in Nat
    BY ConsoleAssumption
  <2> QED
    BY <1>2, <2>1 DEF ItemType
<1>4. \E i \in ItemType : \E wide \in BOOLEAN : Item(i, text, wide)
  BY <1>2, <1>3, Zenon DEF Argument
<1> QED
  BY <1>1, <1>4, ItemStep

(* A character of a field leaves the queue for the buffer.                 *)
LEMMA PutStep == ConsoleInv /\ Put => ConsoleInv'
<1> SUFFICES ASSUME ConsoleInv, Put PROVE ConsoleInv'
  OBVIOUS
<1> DEFINE h == Head(queue)
           u == Tail(queue)
<1>0. /\ ppc = "put" /\ queue # <<>> /\ queue' = u /\ ppc' = ppc /\ item' = item /\ meant' = meant
      /\ console' = ptr_putc(console, ps, h).console /\ ps' = ptr_putc(console, ps, h).ps
  BY Zenon DEF Put
<1>1. /\ console \in ConsoleType /\ ps \in PrintType /\ meant \in MeantType /\ item \in ItemType
      /\ console.attribute \in Nat /\ ps.buffer \in Strings /\ Visible(console, ps) \in Screens
      /\ queue \in Seq(Plain) /\ ps.output \in BOOLEAN
      /\ ps.output => Len(ps.buffer) < ps.capacity
  BY Fields DEF ConsoleInv, PrintDataOK, TextInv
<1>2. h \in Plain /\ u \in Seq(Plain) /\ queue = <<h>> \o u
  <2>1. h \in Plain /\ u \in Seq(Plain)
    BY <1>0, <1>1, HeadTailProperties
  <2>2. queue = <<h>> \o u
    BY <1>0, <1>1
  <2> QED
    BY <2>1, <2>2
<1> HIDE DEF h, u
<1>3. h # "\n" /\ h \in Glyphs
  BY <1>2, ConsoleAssumption DEF Plain, Glyphs
<1>4. <<h>> \in Strings /\ u \in Strings /\ Len(<<h>>) = 1
  BY <1>2, <1>3, OneCharacter, PlainStrings
<1>5. Grown(console, ps, console', ps', <<h>>)
  <2>1. Grown(console, ps, console', ps', IF h = "\n" /\ ps.output THEN <<"\r", h>> ELSE <<h>>)
    BY <1>0, <1>1, <1>3, PutCharacter, Zenon
  <2> QED
    BY <1>3, <2>1, Zenon
<1>6. /\ console' \in ConsoleType /\ ps' \in PrintType /\ SameColours(ps, ps')
      /\ console'.attribute = console.attribute /\ ps'.output = ps.output
  BY <1>5 DEF Grown, SameColours, SamePrint
<1>7. ASSUME ps.output PROVE TextInv'
  <2> DEFINE a == console.attribute
             V == Visible(console, ps)
  <2>1. Visible(console', ps') = V \o Coloured(<<h>>, a) /\ Len(ps'.buffer) < ps'.capacity
    BY <1>5, <1>7, Zenon DEF Grown
  <2>2. /\ Coloured(<<h>>, a) \in Screens /\ Coloured(u, a) \in Screens
    BY <1>1, <1>4, ColouredType, Zenon
  <2>3. Coloured(queue, a) = Coloured(<<h>>, a) \o Coloured(u, a)
    BY <1>1, <1>2, <1>4, ColouredCat
  <2>4. (V \o Coloured(<<h>>, a)) \o Coloured(u, a) = V \o (Coloured(<<h>>, a) \o Coloured(u, a))
    BY <1>1, <2>2, ScreensAssoc, Zenon
  <2>5. Visible(console', ps') \o Coloured(queue', console'.attribute)
          = Visible(console, ps) \o Coloured(queue, console.attribute)
    BY <1>0, <1>6, <2>1, <2>3, <2>4, Zenon
  <2>6. meant'.undocumented \/ meant'.bytes
        \/ Shaded(Visible(console', ps') \o Coloured(queue', console'.attribute)) = Shaded(meant'.text)
    BY <1>0, <1>7, <2>5, Zenon DEF ConsoleInv, TextInv
  <2>7. ppc' # "idle"
    BY <1>0
  <2> QED
    BY <1>6, <1>7, <2>1, <2>6, <2>7, Zenon DEF TextInv
<1>8. ASSUME ~ps.output PROVE TextInv'
  <2>1. ps'.buffer = ps.buffer \o <<h>> /\ ps'.len = ps.len + Len(<<h>>)
    BY <1>5, <1>8, Zenon DEF Grown
  <2>2. (meant.bytes \/ ps.buffer \o queue = Letters(meant.text)) /\ ps.len = Len(ps.buffer)
    BY <1>8, Zenon DEF ConsoleInv, TextInv
  <2>3. (ps.buffer \o <<h>>) \o u = ps.buffer \o (<<h>> \o u)
    BY <1>1, <1>4, StringsAssoc, Zenon
  <2>4. meant'.bytes \/ ps'.buffer \o queue' = Letters(meant'.text)
    BY <1>0, <1>2, <2>1, <2>2, <2>3, Zenon
  <2>5. Len(ps.buffer \o <<h>>) = Len(ps.buffer) + Len(<<h>>)
    BY <1>1, <1>4, StringsCat, Zenon
  <2>6. ps'.len = Len(ps'.buffer)
    BY <2>1, <2>2, <2>5, Zenon
  <2> QED
    BY <1>6, <1>8, <2>4, <2>6, Zenon DEF TextInv
<1>9. PrintDataOK'
  BY <1>0, <1>1, <1>2, <1>6 DEF PrintDataOK
<1>10. ColourInv'
  <2>1. ppc # "idle"
    BY <1>0
  <2> QED
    BY <1>0, <1>6, <2>1, ColoursStay
<1> QED
  BY <1>1, <1>7, <1>8, <1>9, <1>10 DEF ConsoleInv

(* The end of a field gives the standing colour back.                      *)
LEMMA ItemEndStep == ConsoleInv /\ ItemEnd => ConsoleInv'
<1> SUFFICES ASSUME ConsoleInv, ItemEnd PROVE ConsoleInv'
  OBVIOUS
<1> DEFINE r == Restored(console, ps)
<1>0. /\ ppc = "put" /\ queue = <<>> /\ ppc' = "text" /\ console' = r.console /\ ps' = r.ps
      /\ item' = item /\ queue' = queue /\ meant' = meant
  BY Zenon DEF ItemEnd
<1>1. /\ console \in ConsoleType /\ ps \in PrintType /\ meant \in MeantType /\ item \in ItemType
      /\ console.attribute \in Nat /\ ps.restore_attr \in Nat /\ ps.output \in BOOLEAN
      /\ queue \in Seq(Plain) /\ ppc' # "idle"
  BY <1>0, Fields DEF ConsoleInv, PrintDataOK
<1>2. CASE ps.restore_attr # 0
  <2> DEFINE attr == ps.restore_attr
  <2>1. Recoloured(console, ps, console', ps', attr)
    <3>1. r = ptr_setattr(console, ps, attr)
      BY <1>2, Zenon DEF Restored
    <3>2. Recoloured(console, ps, ptr_setattr(console, ps, attr).console,
                     ptr_setattr(console, ps, attr).ps, attr)
      BY <1>1, SetAttr, Zenon
    <3> QED
      BY <1>0, <3>1, <3>2, Zenon
  <2>2. /\ console' \in ConsoleType /\ ps' \in PrintType /\ SamePrint(ps, ps')
        /\ ps'.attr = attr
        /\ ps.output => /\ console'.attribute = attr /\ ps'.buffer = <<>>
                        /\ Visible(console', ps') = Visible(console, ps)
        /\ ~ps.output => console' = console /\ ps'.buffer = ps.buffer /\ ps'.len = ps.len
    BY <2>1, Zenon DEF Recoloured
  <2>3. TextInv'
    <3>1. ps'.output = ps.output /\ ps'.capacity = ps.capacity
      BY <2>2 DEF SamePrint
    <3>2. console'.attribute \in Nat
      BY <2>2 DEF ConsoleType
    <3> QED
      BY <1>0, <2>2, <3>1, <3>2, TextStays
  <2>4. PrintDataOK'
    BY <1>0, <1>1, <2>2 DEF PrintDataOK
  <2>5. ColourInv'
    BY <1>0, <1>1, <1>2, <2>2 DEF ConsoleInv, ColourInv, SamePrint, Shade
  <2> QED
    BY <2>3, <2>4, <2>5 DEF ConsoleInv
<1>3. CASE ps.restore_attr = 0
  <2>1. console' = console /\ ps' = ps
    BY <1>0, <1>3 DEF Restored
  <2>2. Visible(console', ps') = Visible(console, ps)
    BY <2>1, Zenon
  <2>3. TextInv'
    BY <1>0, <1>1, <2>1, <2>2, TextStays
  <2>4. PrintDataOK'
    BY <1>0, <1>1, <2>1 DEF PrintDataOK
  <2>5. ColourInv'
    BY <1>0, <1>3, <2>1 DEF ConsoleInv, ColourInv
  <2> QED
    BY <2>3, <2>4, <2>5 DEF ConsoleInv
<1> QED
  BY <1>2, <1>3

LEMMA ReturnStep == ConsoleInv /\ Return => ConsoleInv'
<1> SUFFICES ASSUME ConsoleInv, Return PROVE ConsoleInv'
  OBVIOUS
<1> DEFINE r == ptr_flush(console, ps)
<1>0. /\ ppc = "text" /\ ppc' = "idle" /\ console' = r.console /\ ps' = r.ps
      /\ item' = item /\ queue' = queue /\ meant' = meant
  BY Zenon DEF Return
<1>1. /\ console \in ConsoleType /\ ps \in PrintType /\ meant \in MeantType /\ item \in ItemType
      /\ console.attribute \in Nat /\ queue \in Seq(Plain) /\ queue = <<>> /\ ps.output \in BOOLEAN
  BY <1>0, Fields DEF ConsoleInv, PrintDataOK
<1>2. /\ r.console \in ConsoleType /\ r.ps \in PrintType /\ SameColours(ps, r.ps)
      /\ r.console.attribute = console.attribute
      /\ ps.output => r.console.shown = Visible(console, ps) /\ r.ps.buffer = <<>>
      /\ ~ps.output => r.console = console /\ r.ps = ps
  BY <1>1, Flush, Zenon
<1> HIDE DEF r
<1>3. ps.output => Visible(console', ps') = Visible(console, ps)
  BY <1>0, <1>2, NothingBuffered
<1>4. TextInv'
  <2>1. ps'.output = ps.output /\ ps'.capacity = ps.capacity
    BY <1>0, <1>2 DEF SameColours, SamePrint
  <2> QED
    BY <1>0, <1>1, <1>2, <1>3, <2>1, TextStays
<1>5. PrintDataOK'
  BY <1>0, <1>1, <1>2 DEF PrintDataOK
<1>6. ColourInv'
  BY <1>0 DEF ColourInv
<1> QED
  BY <1>4, <1>5, <1>6 DEF ConsoleInv

(* No colour of a format is 0 on a console.                                *)
LEMMA ColoursType ==
  ASSUME ConsoleInv
  PROVE  /\ \A attr \in Colours : attr \in Nat /\ (ps.output /\ ppc = "item" => attr # 0)
         /\ \A a \in Attributes : (a % 16) + Background(ps.attr) \in Nat
<1>1. ps.norm \in Nat /\ ps.attr \in Nat /\ (ps.output /\ ppc = "item" => ps.norm # 0)
  BY Fields DEF ConsoleInv, ColourInv
<1>2. ASSUME NEW n \in Nat PROVE Background(n) \in Nat
  BY DEF Background
<1>3. Background(ps.norm) \in Nat /\ Background(ps.attr) \in Nat
  BY <1>1, <1>2, Zenon
<1>4. ASSUME NEW attr \in Colours PROVE attr \in Nat /\ (ps.output /\ ppc = "item" => attr # 0)
  BY <1>1, <1>3 DEF Colours, HIGHLIGHT, ERROR
<1>5. ASSUME NEW a \in Attributes PROVE (a % 16) + Background(ps.attr) \in Nat
  <2>1. a \in Nat
    BY AttributesAreNumbers, Zenon
  <2>2. a % 16 \in Nat
    BY <2>1
  <2> QED
    BY <1>3, <2>2
<1> QED
  BY <1>4, <1>5, Zenon

LEMMA ConsoleStep == ConsoleInv /\ [PrintNext]_<<pvars, meant>> => ConsoleInv'
<1> SUFFICES ASSUME ConsoleInv, [PrintNext]_<<pvars, meant>> PROVE ConsoleInv'
  OBVIOUS
<1>1. CASE \E attr \in Colours : FieldAttr(attr)
  BY <1>1, ColoursType, FieldAttrStep
<1>2. CASE \E attr \in Attributes \cup Colours
                       \cup {(a % 16) + Background(ps.attr) : a \in Attributes} : StandingAttr(attr)
  <2>1. PICK attr \in Attributes \cup Colours
                       \cup {(a % 16) + Background(ps.attr) : a \in Attributes} : StandingAttr(attr)
    BY <1>2
  <2>2. attr \in Nat
    BY ColoursType, AttributesAreNumbers, Zenon
  <2> QED
    BY <2>1, <2>2, StandingAttrStep
<1>3. CASE UNCHANGED <<pvars, meant>>
  <2>1. UNCHANGED <<ppc, ps, item, queue, console, meant>>
    BY <1>3 DEF pvars
  <2> QED
    BY <2>1 DEF ConsoleInv, PrintDataOK, TextInv, ColourInv, Visible
<1> QED
  BY <1>1, <1>2, <1>3, CallStep, LiteralStep, PercentStep, ModifyStep, ArgumentStep, PutStep,
     ItemEndStep, ReturnStep, Zenon DEF PrintNext, PrintStep

LEMMA ConsoleInvariant == PrintSpec => []ConsoleInv
BY ConsoleInit, ConsoleStep, PTL DEF PrintSpec

(* What a caller asked for is what comes out of _print(), every character  *)
(* once, in its order and its colour, for texts of every length, as far as *)
(* widths do not meet a char8_t text with multi-byte characters.  On the   *)
(* console nothing is put behind the end of the buffer, whatever its size  *)
(* (_iprint).  A string is as long as the number returned, and its array   *)
(* is left exactly when what the caller means does not fit (vswprintf).    *)
THEOREM PrintsAsMeant == PrintSpec => []OutputAsMeant
<1>1. ConsoleInv => OutputAsMeant
  <2> SUFFICES ASSUME ConsoleInv PROVE OutputAsMeant
    OBVIOUS
  <2>1. /\ console.shown \in Screens /\ console.attribute \in Nat /\ ps.buffer \in Strings
        /\ queue \in Strings /\ meant.text \in Screens /\ ps \in PrintType
    BY Fields, VisibleType, Zenon
  <2>2. console.shown \o Coloured(ps.buffer \o queue, console.attribute)
          = Visible(console, ps) \o Coloured(queue, console.attribute)
    <3> DEFINE a == console.attribute
    <3>1. Coloured(ps.buffer \o queue, a) = Coloured(ps.buffer, a) \o Coloured(queue, a)
      BY <2>1, ColouredCat, Zenon
    <3>2. Coloured(ps.buffer, a) \in Screens /\ Coloured(queue, a) \in Screens
      BY <2>1, ColouredType, Zenon
    <3>3. (console.shown \o Coloured(ps.buffer, a)) \o Coloured(queue, a)
            = console.shown \o (Coloured(ps.buffer, a) \o Coloured(queue, a))
      BY <2>1, <3>2, ScreensAssoc, Zenon
    <3> QED
      BY <3>1, <3>3, Zenon DEF Visible
  <2>3. CASE ps.output
    BY <2>2, <2>3, Zenon DEF ConsoleInv, TextInv, OutputAsMeant
  <2>4. CASE ~ps.output
    <3>1. (meant.bytes \/ ps.buffer \o queue = Letters(meant.text)) /\ ps.len = Len(ps.buffer)
      BY <2>4, Zenon DEF ConsoleInv, TextInv
    <3>2. Len(ps.buffer \o queue) = Len(ps.buffer) + Len(queue)
          /\ Len(ps.buffer) \in Nat /\ Len(queue) \in Nat
      BY <2>1, StringsCat, Zenon
    <3>3. Len(Letters(meant.text)) = Len(meant.text)
      BY <2>1, LenProperties DEF Letters, Screens
    <3>4. ps.capacity \in Nat
      BY <2>1 DEF PrintType
    <3>5. ppc = "idle" => Len(queue) = 0
      <4>1. ppc = "idle" => queue = <<>>
        BY Zenon DEF ConsoleInv, PrintDataOK
      <4> QED
        BY <4>1
    <3>6. ASSUME ~meant.bytes PROVE Len(meant.text) = Len(ps.buffer) + Len(queue)
      BY <3>1, <3>2, <3>3, <3>6
    <3>7. ASSUME ~meant.bytes PROVE Overrun => Len(meant.text) > ps.capacity
      BY <3>2, <3>4, <3>6, <3>7 DEF Overrun
    <3>8. ASSUME ~meant.bytes, ppc = "idle", Len(meant.text) > ps.capacity PROVE Overrun
      BY <2>4, <3>2, <3>4, <3>5, <3>6, <3>8 DEF Overrun
    <3> QED
      BY <2>4, <3>1, <3>7, <3>8, Zenon DEF OutputAsMeant, Letters
  <2> QED
    BY <2>3, <2>4
<1> QED
  BY <1>1, ConsoleInvariant, PTL
=============================================================================
