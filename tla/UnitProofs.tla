----------------------------- MODULE UnitProofs -----------------------------
(***************************************************************************)
(* Proofs about two of the units that the Controller drives, the DmaEngine *)
(* and the SystolicArray.                                                  *)
(***************************************************************************)
EXTENDS Dma, SystolicArray, TLAPS
-----------------------------------------------------------------------------
(***************************************************************************)
(* DmaEngine, for every set of memories, buffers and requests: words move  *)
(* only for a pending request, an accepted request run with its storage    *)
(* does not fail, and a transfer that ends has moved its rectangle.        *)
(***************************************************************************)

Storage == Memories \cup Buffers

\* BUSY is the state of a request that was accepted and not cancelled since.
Busy ==
    state = "BUSY" =>
        /\ error = "NONE" /\ hasRequest
        /\ request \in Requests /\ request.direction \in Directions /\ WellFormed(request)
        /\ memory \in Memories /\ buffer \in Buffers
        /\ atSubmit[1] \in Memories /\ atSubmit[2] \in Buffers
        /\ InRange(request, SizeOf[atSubmit[1]], SizeOf[atSubmit[2]])

\* run_sync is in its loop for such a request only.
Running ==
    running => state = "BUSY" /\ row <= request.rows /\ col < request.length

\* The rows of the rectangle that have written word w so far.
RowsDone(w) ==
    { r \in RowsInto(request, w) :
        r < row \/ (r = row /\ w - DstAddr(request, r, 0) < col) }

\* The words of the target in the middle of a transfer: the last row to reach
\* one so far has written it, and no other storage has changed.
Progress ==
    running =>
        /\ DOMAIN atRun = Storage
        /\ \A s \in Storage \ {Target} : store[s] = atRun[s]
        /\ DOMAIN atRun[Target] = Words(Target)
        /\ \A w \in Words(Target) :
              store[Target][w] =
                  IF RowsDone(w) = {} THEN atRun[Target][w]
                  ELSE atRun[Source][SrcAddr(request, Max(RowsDone(w)),
                                             w - DstAddr(request, Max(RowsDone(w)), 0))]

\* The storage is a function to functions, which its domains alone do not say.
Shape ==
    /\ DOMAIN store = Storage /\ store = [s \in Storage |-> store[s]]
    /\ \A s \in Storage : store[s] = [w \in Words(s) |-> store[s][w]]

IInv == TypeOK /\ Shape /\ Busy /\ Running /\ Progress
-----------------------------------------------------------------------------
\* The numbers of a request the engine can hold.
LEMMA RequestNumbers ==
    ASSUME NEW req \in Requests \cup {NoRequest}
    PROVE  /\ req.dramBase \in Nat /\ req.bufferBase \in Nat
           /\ req.length \in Nat /\ req.rows \in Nat
           /\ req.srcStride \in Nat /\ req.dstStride \in Nat
           /\ SrcBase(req) \in Nat /\ DstBase(req) \in Nat
<1>1. req \in RequestType
  BY DmaAssumption DEF NoRequest, Request, RequestType, Directions
<1>2. DramWord(req) \in Nat
  BY <1>1 DEF RequestType, DramWord, DramWordBytes
<1> QED
  BY <1>1, <1>2 DEF RequestType, SrcBase, DstBase

LEMMA TimesMonotone ==
    ASSUME NEW a \in Nat, NEW b \in Nat, a <= b, NEW s \in Nat
    PROVE  a * s <= b * s /\ a * s \in Nat /\ b * s \in Nat
<1>1. PICK c \in Nat : b = a + c
  <2>1. b - a \in Nat /\ b = a + (b - a)
    OBVIOUS
  <2> QED BY <2>1
<1>2. b * s = a * s + c * s /\ c * s \in Nat /\ a * s \in Nat
  BY <1>1
<1> QED
  BY <1>2

\* Every word of a rectangle in range is inside the storage it names.
LEMMA InRangeCovers ==
    ASSUME NEW req \in Requests, WellFormed(req),
           NEW m \in Nat, NEW b \in Nat, InRange(req, m, b),
           NEW r \in Nat, r < req.rows, NEW c \in Nat, c < req.length
    PROVE  /\ SrcAddr(req, r, c) \in 0..((IF ToBuffer(req) THEN m ELSE b) - 1)
           /\ DstAddr(req, r, c) \in 0..((IF ToBuffer(req) THEN b ELSE m) - 1)
<1>1. /\ req.length \in Nat /\ req.rows \in Nat
      /\ req.srcStride \in Nat /\ req.dstStride \in Nat
      /\ SrcBase(req) \in Nat /\ DstBase(req) \in Nat
  BY RequestNumbers
<1>2. r <= req.rows - 1 /\ req.rows - 1 \in Nat /\ c <= req.length - 1
  BY <1>1
<1>3. /\ r * req.srcStride <= (req.rows - 1) * req.srcStride
      /\ r * req.srcStride \in Nat /\ (req.rows - 1) * req.srcStride \in Nat
  BY <1>1, <1>2, TimesMonotone
<1>4. /\ r * req.dstStride <= (req.rows - 1) * req.dstStride
      /\ r * req.dstStride \in Nat /\ (req.rows - 1) * req.dstStride \in Nat
  BY <1>1, <1>2, TimesMonotone
<1>5. /\ SrcBase(req) + (req.rows - 1) * req.srcStride + (req.length - 1)
            < (IF ToBuffer(req) THEN m ELSE b)
      /\ DstBase(req) + (req.rows - 1) * req.dstStride + (req.length - 1)
            < (IF ToBuffer(req) THEN b ELSE m)
  BY DEF InRange, SrcAddr, DstAddr
<1>6. SrcAddr(req, r, c) \in 0..((IF ToBuffer(req) THEN m ELSE b) - 1)
  BY <1>1, <1>2, <1>3, <1>5 DEF SrcAddr
<1>7. DstAddr(req, r, c) \in 0..((IF ToBuffer(req) THEN b ELSE m) - 1)
  BY <1>1, <1>2, <1>4, <1>5 DEF DstAddr
<1> QED
  BY <1>6, <1>7

\* The word MoveWord reads and writes is inside, when the storage is still the
\* one submit has checked.
LEMMA NextWordInside ==
    ASSUME IInv, running, ~AtEnd, <<memory, buffer>> = atSubmit
    PROVE  /\ SrcAddr(request, row, col) \in Words(Source)
           /\ DstAddr(request, row, col) \in Words(Target)
<1>1. /\ request \in Requests /\ WellFormed(request)
      /\ memory \in Memories /\ buffer \in Buffers
      /\ InRange(request, SizeOf[memory], SizeOf[buffer])
  BY DEF IInv, Busy, Running
<1>2. SizeOf[memory] \in Nat /\ SizeOf[buffer] \in Nat
  BY <1>1, DmaAssumption
<1>3. row \in Nat /\ row < request.rows /\ col \in Nat /\ col < request.length
  BY <1>1, RequestNumbers DEF IInv, TypeOK, Running, AtEnd
<1>4. CASE ToBuffer(request)
  BY <1>1, <1>2, <1>3, <1>4, InRangeCovers DEF Words, Source, Target
<1>5. CASE ~ToBuffer(request)
  BY <1>1, <1>2, <1>3, <1>5, InRangeCovers DEF Words, Source, Target
<1> QED
  BY <1>4, <1>5
-----------------------------------------------------------------------------
\* The statistics of a new or reset engine.
LEMMA ZeroStatsType == ZeroStats \in [bytes : Nat, transfers : Nat, cycles : Nat]
BY DEF ZeroStats

LEMMA InitIInv == Init => IInv
<1> SUFFICES ASSUME Init PROVE IInv
  OBVIOUS
<1>1. Shape /\ \A s \in Storage : DOMAIN store[s] = Words(s)
  BY DEF Init, Shape, Storage
<1>2. /\ stats = ZeroStats /\ row = 0 /\ col = 0 /\ running = FALSE /\ calls = 0
      /\ memory = Null /\ buffer = Null /\ request = NoRequest /\ hasRequest = FALSE
      /\ state = "IDLE" /\ error = "NONE"
  BY DEF Init
<1>3. /\ calls \in 0..MaxCalls /\ state \in States /\ error \in Errors
      /\ stats \in [bytes : Nat, transfers : Nat, cycles : Nat]
  BY <1>2, ZeroStatsType, DmaAssumption DEF States, Errors
<1>4. TypeOK
  BY <1>1, <1>2, <1>3 DEF TypeOK, Storage
<1> QED
  BY <1>1, <1>2, <1>4 DEF IInv, Busy, Running, Progress

\* A call that binds storage: BUSY stays BUSY only with storage bound.
LEMMA BindIInv ==
    ASSUME IInv,
           \/ \E m \in Memories \cup {Null} : BindMemory(m)
           \/ \E b \in Buffers \cup {Null} : BindBuffer(b)
    PROVE  IInv'
<1>1. /\ ~running /\ running' = FALSE /\ calls' \in 0..MaxCalls
      /\ UNCHANGED <<store, request, hasRequest, stats, row, col, history>>
  BY DmaAssumption DEF BindMemory, BindBuffer, Call, IInv, TypeOK
<1>2. /\ memory' \in Memories \cup {Null} /\ buffer' \in Buffers \cup {Null}
      /\ state' \in States /\ error' \in Errors
  BY DEF BindMemory, BindBuffer, Rebound, Fail, IInv, TypeOK, States, Errors
<1>3. state' = "BUSY" =>
          /\ state = "BUSY" /\ error' = error
          /\ memory' = memory \/ memory' \in Memories
          /\ buffer' = buffer \/ buffer' \in Buffers
  BY DEF BindMemory, BindBuffer, Rebound, Fail
<1>4. TypeOK' /\ Shape'
  BY <1>1, <1>2 DEF IInv, TypeOK, Words, Shape, Storage
<1>5. Busy'
  BY <1>1, <1>3 DEF IInv, Busy, history
<1>6. Running' /\ Progress'
  BY <1>1 DEF Running, Progress
<1> QED
  BY <1>4, <1>5, <1>6 DEF IInv

LEMMA SubmitIInv ==
    ASSUME IInv, NEW req \in Requests, Submit(req)
    PROVE  IInv'
<1> USE DEF Submit
<1>1. /\ ~running /\ running' = FALSE /\ calls' \in 0..MaxCalls
      /\ UNCHANGED <<store, memory, buffer, stats, row, col, atRun>>
  BY DmaAssumption DEF Call, IInv, TypeOK
<1>2. CASE Refusal(req) # "NONE"
  <2>1. Refusal(req) \in Errors
    BY DEF Refusal, Errors
  <2>2. state' = "ERROR" /\ error' \in Errors /\ UNCHANGED <<request, hasRequest>>
    BY <1>2, <2>1 DEF Fail
  <2> QED
    BY <1>1, <2>2 DEF IInv, TypeOK, Words, Shape, Storage, States, Busy, Running, Progress
<1>3. CASE Refusal(req) = "NONE"
  <2>1. /\ request' = req /\ hasRequest' = TRUE /\ state' = "BUSY" /\ error' = "NONE"
        /\ atSubmit' = <<memory, buffer>>
    BY <1>3
  <2>2. /\ memory # Null /\ buffer # Null /\ WellFormed(req)
        /\ req.direction \in Directions
        /\ InRange(req, SizeOf[memory], SizeOf[buffer])
    BY <1>3 DEF Refusal
  <2>3. TypeOK' /\ Shape'
    BY <1>1, <2>1 DEF IInv, TypeOK, Words, Shape, Storage, States, Errors
  <2>4. Busy'
    BY <1>1, <2>1, <2>2 DEF IInv, TypeOK, Busy
  <2> QED
    BY <1>1, <2>3, <2>4 DEF IInv, Running, Progress
<1> QED
  BY <1>2, <1>3

LEMMA ResetIInv ==
    ASSUME IInv, Reset
    PROVE  IInv'
<1> USE DEF Reset
<1>1. /\ ~running /\ running' = FALSE /\ calls' \in 0..MaxCalls
      /\ state' = "IDLE" /\ UNCHANGED <<store, memory, buffer, row, col>>
  BY DmaAssumption DEF Call, IInv, TypeOK
<1>2. TypeOK'
  BY <1>1, ZeroStatsType DEF IInv, TypeOK, Words, States, Errors
<1> QED
  BY <1>1, <1>2 DEF IInv, Words, Shape, Storage, Busy, Running, Progress

\* At the first word no row has been done.
LEMMA RunSyncIInv ==
    ASSUME IInv, RunSync
    PROVE  IInv'
<1> USE DEF RunSync
<1>1. /\ ~running /\ calls' \in 0..MaxCalls
      /\ UNCHANGED <<store, memory, buffer, request, hasRequest, stats, atSubmit>>
  BY DmaAssumption DEF Call, IInv, TypeOK
<1>2. CASE ~MayRun
  BY <1>1, <1>2 DEF Fail, IInv, TypeOK, Words, Shape, Storage, States, Errors, Busy, Running, Progress
<1>3. CASE MayRun
  <2>1. /\ running' = TRUE /\ row' = 0 /\ col' = 0 /\ atRun' = store
        /\ UNCHANGED <<state, error>> /\ state = "BUSY"
    BY <1>3 DEF MayRun
  <2>2. /\ request.length \in Nat \ {0} /\ request.rows \in Nat
        /\ memory \in Memories /\ buffer \in Buffers
        /\ SrcBase(request) \in Nat /\ DstBase(request) \in Nat
        /\ request.dstStride \in Nat
    BY <2>1, RequestNumbers DEF IInv, Busy, WellFormed
  <2>3. TypeOK'
    BY <1>1, <2>1, <2>2 DEF IInv, TypeOK, Words
  <2>4. Busy' /\ Running'
    BY <1>1, <2>1, <2>2 DEF IInv, Busy, Running
  <2>5. \A w : RowsDone(w)' = {}
    <3>1. \A r \in RowsInto(request, 0) \cup Nat : ~(r < 0)
      BY <2>2 DEF RowsInto
    <3>2. SUFFICES ASSUME NEW w, NEW r \in RowsInto(request, w),
                          r < 0 \/ (r = 0 /\ w - DstAddr(request, r, 0) < 0)
                   PROVE  FALSE
      BY <1>1, <2>1 DEF RowsDone
    <3>3. r \in Nat /\ w - DstAddr(request, r, 0) \in Nat
      BY <2>2 DEF RowsInto
    <3> QED BY <3>2, <3>3
  <2>6. Target' = Target /\ Target \in Storage
    BY <1>1, <2>2 DEF Target, Storage, ToBuffer
  <2>7. Progress'
    BY <1>1, <2>1, <2>5, <2>6 DEF Progress, IInv, TypeOK, Shape, Storage, Words
  <2>8. Shape'
    BY <1>1 DEF IInv, Shape, Storage, Words
  <2> QED
    BY <2>3, <2>4, <2>7, <2>8 DEF IInv
<1> QED
  BY <1>2, <1>3

LEMMA FinishIInv ==
    ASSUME IInv, Finish
    PROVE  IInv'
<1>1. request.length * request.rows \in Nat
  BY RequestNumbers DEF IInv, TypeOK
<1>2. stats' \in [bytes : Nat, transfers : Nat, cycles : Nat]
  <2> DEFINE e == request.length * request.rows
  <2> HIDE DEF e
  <2>1. e \in Nat /\ e * DramWordBytes \in Nat
    BY <1>1 DEF e, DramWordBytes
  <2>2. stats.bytes \in Nat /\ stats.transfers \in Nat /\ stats.cycles \in Nat
    BY DEF IInv, TypeOK
  <2>3. stats' = [bytes |-> stats.bytes + e * DramWordBytes,
                  transfers |-> stats.transfers + 1, cycles |-> stats.cycles + e]
    BY DEF Finish, e
  <2> QED BY <2>1, <2>2, <2>3
<1>3. /\ running' = FALSE /\ hasRequest' = FALSE /\ state' = "DONE" /\ error' = "NONE"
      /\ UNCHANGED <<store, memory, buffer, request, row, col, calls>>
  BY DEF Finish
<1>4. TypeOK'
  BY <1>2, <1>3 DEF IInv, TypeOK, Words, States, Errors
<1> QED
  BY <1>3, <1>4 DEF IInv, Words, Shape, Storage, Busy, Running, Progress
-----------------------------------------------------------------------------
(* The loop. *)

\* After a word has moved, the counters are at the next one, or past the end.
LEMMA NextCounters ==
    ASSUME IInv, running, ~AtEnd,
           row' = (IF LastColumn THEN row + 1 ELSE row),
           col' = (IF LastColumn THEN 0 ELSE col + 1)
    PROVE  /\ row' \in Nat /\ col' \in Nat
           /\ row' <= request.rows /\ col' < request.length
           /\ \A r \in Nat, c \in 0..(request.length - 1) :
                  (r < row' \/ (r = row' /\ c < col'))
                  <=> (r < row \/ (r = row /\ c <= col))
<1>1. /\ request.rows \in Nat /\ request.length \in Nat
      /\ row \in Nat /\ col \in Nat /\ row < request.rows /\ col < request.length
  BY RequestNumbers DEF IInv, TypeOK, Running, AtEnd
<1>2. CASE LastColumn
  BY <1>1, <1>2 DEF LastColumn
<1>3. CASE ~LastColumn
  BY <1>1, <1>3 DEF LastColumn
<1> QED
  BY <1>2, <1>3

\* The word written now gets row as its last one; other words keep theirs.
LEMMA RowsDoneNext ==
    ASSUME IInv, running, ~AtEnd, UNCHANGED request,
           row' = (IF LastColumn THEN row + 1 ELSE row),
           col' = (IF LastColumn THEN 0 ELSE col + 1),
           NEW w \in Nat
    PROVE  /\ w # DstAddr(request, row, col) => RowsDone(w)' = RowsDone(w)
           /\ w = DstAddr(request, row, col) =>
                  /\ row \in RowsDone(w)' /\ \A r \in RowsDone(w)' : row >= r
                  /\ w - DstAddr(request, row, 0) = col
<1>1. /\ request.rows \in Nat /\ request.length \in Nat /\ request.dstStride \in Nat
      /\ DstBase(request) \in Nat
      /\ row \in Nat /\ col \in Nat /\ row < request.rows /\ col < request.length
  BY RequestNumbers DEF IInv, TypeOK, Running, AtEnd
<1>2. \A r \in Nat : DstAddr(request, r, 0) \in Nat
  <2> SUFFICES ASSUME NEW r \in Nat PROVE DstAddr(request, r, 0) \in Nat
    OBVIOUS
  <2>1. r * request.dstStride \in Nat
    BY <1>1
  <2> QED BY <1>1, <2>1 DEF DstAddr
<1>3. DstAddr(request, row, col) = DstAddr(request, row, 0) + col
  <2>1. row * request.dstStride \in Nat
    BY <1>1
  <2> QED BY <1>1, <2>1 DEF DstAddr
<1>4. RowsInto(request, w) \subseteq 0..(request.rows - 1)
  BY DEF RowsInto
<1>5. \A r \in RowsInto(request, w) :
          /\ r \in Nat /\ w - DstAddr(request, r, 0) \in 0..(request.length - 1)
  BY <1>1, <1>4 DEF RowsInto
<1> DEFINE D(r) == DstAddr(request, r, 0)
           I == RowsInto(request, w)
<1>6. RowsDone(w) = { r \in I : r < row \/ (r = row /\ w - D(r) < col) }
  BY DEF RowsDone
<1>7. RowsDone(w)' = { r \in I : r < row' \/ (r = row' /\ w - D(r) < col') }
  BY DEF RowsDone
<1>8. RowsDone(w)' = { r \in I : r < row \/ (r = row /\ w - D(r) <= col) }
  <2> HIDE DEF I, D
  <2>1. \A r \in I : (r < row' \/ (r = row' /\ w - D(r) < col'))
                     <=> (r < row \/ (r = row /\ w - D(r) <= col))
    BY <1>5, NextCounters DEF I, D
  <2> QED BY <1>7, <2>1
<1>9. ASSUME w # DstAddr(request, row, col) PROVE RowsDone(w)' = RowsDone(w)
  <2> HIDE DEF I
  <2>1. \A r \in I : (r = row /\ w - D(r) <= col) <=> (r = row /\ w - D(r) < col)
    BY <1>1, <1>2, <1>3, <1>5, <1>9 DEF I
  <2> HIDE DEF D
  <2> QED BY <1>6, <1>8, <2>1
<1>10. ASSUME w = DstAddr(request, row, col)
       PROVE  /\ row \in RowsDone(w)' /\ \A r \in RowsDone(w)' : row >= r
              /\ w - DstAddr(request, row, 0) = col
  <2>1. w - DstAddr(request, row, 0) = col
    BY <1>1, <1>2, <1>3, <1>10
  <2>2. row \in I
    BY <1>1, <2>1 DEF RowsInto
  <2>3. \A r \in I : r \in Nat
    BY <1>5
  <2>4. w - D(row) <= col
    BY <1>1, <2>1
  <2> HIDE DEF I, D
  <2>5. row \in RowsDone(w)'
    BY <1>8, <2>2, <2>4
  <2>6. \A r \in RowsDone(w)' : row >= r
    BY <1>1, <1>8, <2>3
  <2> QED BY <2>1, <2>5, <2>6
<1> QED
  BY <1>9, <1>10

LEMMA MaxIs ==
    ASSUME NEW S \in SUBSET Nat, NEW x \in S, \A y \in S : x >= y
    PROVE  Max(S) = x
<1>1. \A z \in S : (\A y \in S : z >= y) => z = x
  OBVIOUS
<1> QED
  BY <1>1 DEF Max

LEMMA MoveWordIInv ==
    ASSUME IInv, MoveWord
    PROVE  IInv'
<1> USE DEF MoveWord
<1> DEFINE from == SrcAddr(request, row, col)
           to == DstAddr(request, row, col)
<1>1. /\ running /\ ~AtEnd
      /\ UNCHANGED <<memory, buffer, request, hasRequest, stats, calls, atSubmit, atRun>>
      /\ Target' = Target /\ Source' = Source
  BY DEF history, Target, Source
<1>2. CASE ~(from \in Words(Source) /\ to \in Words(Target))
  <2>1. state' = "ERROR" /\ error' = "OUT_OF_RANGE" /\ running' = FALSE
        /\ UNCHANGED <<store, row, col>>
    BY <1>2 DEF Fail
  <2> QED
    BY <1>1, <2>1 DEF IInv, TypeOK, Words, Shape, Storage, States, Errors, Busy, Running, Progress
<1>3. CASE from \in Words(Source) /\ to \in Words(Target)
  <2>1. /\ store' = [store EXCEPT ![Target][to] = store[Source][from]]
        /\ row' = (IF LastColumn THEN row + 1 ELSE row)
        /\ col' = (IF LastColumn THEN 0 ELSE col + 1)
        /\ UNCHANGED <<state, error, running>>
    BY <1>3
  <2>2. /\ Target \in Storage /\ Source \in Storage /\ Source # Target
        /\ state = "BUSY"
    BY <1>1, DmaAssumption DEF IInv, Busy, Running, Target, Source, Storage
  <2>3. /\ DOMAIN store' = Storage
        /\ \A s \in Storage \ {Target} : store'[s] = store[s]
        /\ store'[Target] = [store[Target] EXCEPT ![to] = store[Source][from]]
        /\ DOMAIN store[Target] = Words(Target)
    BY <2>1, <2>2 DEF IInv, TypeOK, Shape, Storage
  <2>4. row' \in Nat /\ col' \in Nat /\ row' <= request.rows /\ col' < request.length
    BY <1>1, <2>1, NextCounters
  <2>5. Shape' /\ \A s \in Storage : DOMAIN store'[s] = Words(s)
    <3>1. \A s \in Storage : store'[s] = [w \in Words(s) |-> store'[s][w]]
      BY <2>3 DEF IInv, TypeOK, Shape, Storage
    <3>2. store' = [s \in Storage |-> store'[s]]
      BY <2>1, <2>3
    <3> QED BY <2>3, <3>1, <3>2 DEF Shape, Storage, Words
  <2>6. TypeOK'
    BY <1>1, <2>1, <2>3, <2>4, <2>5 DEF IInv, TypeOK, Storage, Words
  <2>7. Busy' /\ Running'
    BY <1>1, <2>1, <2>4 DEF IInv, Busy, Running
  <2>8. Progress'
    <3>1. /\ DOMAIN atRun = Storage
          /\ \A s \in Storage \ {Target} : store'[s] = atRun[s]
          /\ DOMAIN atRun[Target] = Words(Target)
          /\ store[Source] = atRun[Source]
      BY <1>1, <2>2, <2>3 DEF IInv, Progress
    <3>2. ASSUME NEW w \in Words(Target)
          PROVE  store'[Target][w] =
                   IF RowsDone(w)' = {} THEN atRun[Target][w]
                   ELSE atRun[Source][SrcAddr(request, Max(RowsDone(w)'),
                                              w - DstAddr(request, Max(RowsDone(w)'), 0))]
      <4>1. w \in Nat
        BY <2>2, DmaAssumption DEF Words, Shape, Storage
      <4>2. CASE w # to
        <5>1. RowsDone(w)' = RowsDone(w)
          BY <1>1, <2>1, <4>1, <4>2, RowsDoneNext
        <5>2. store'[Target][w] = store[Target][w]
          BY <2>3, <4>2
        <5>3. store[Target][w] =
                IF RowsDone(w) = {} THEN atRun[Target][w]
                ELSE atRun[Source][SrcAddr(request, Max(RowsDone(w)),
                                           w - DstAddr(request, Max(RowsDone(w)), 0))]
          BY <1>1 DEF IInv, Progress
        <5> QED BY <5>1, <5>2, <5>3
      <4>3. CASE w = to
        <5> HIDE DEF to, from
        <5>1. /\ row \in RowsDone(w)' /\ \A r \in RowsDone(w)' : row >= r
              /\ w - DstAddr(request, row, 0) = col
          BY <1>1, <2>1, <4>1, <4>3, RowsDoneNext DEF to
        <5>2. RowsDone(w)' \subseteq Nat
          BY <1>1, RequestNumbers DEF RowsDone, RowsInto, IInv, TypeOK
        <5>3. Max(RowsDone(w)') = row
          BY <5>1, <5>2, MaxIs
        <5>4. store'[Target][w] = store[Source][from]
          BY <2>3, <4>3
        <5> QED BY <3>1, <5>1, <5>3, <5>4 DEF from
      <4> QED BY <4>2, <4>3
    <3> QED
      BY <1>1, <3>1, <3>2 DEF Progress, Words
  <2> QED
    BY <2>5, <2>6, <2>7, <2>8 DEF IInv
<1> QED
  BY <1>2, <1>3

LEMMA NextIInv == IInv /\ [Next]_vars => IInv'
<1> SUFFICES ASSUME IInv, [Next]_vars PROVE IInv'
  OBVIOUS
<1>1. CASE Next
  BY <1>1, BindIInv, SubmitIInv, RunSyncIInv, MoveWordIInv, FinishIInv, ResetIInv DEF Next
<1>2. CASE UNCHANGED vars
  <2>1. TypeOK' /\ Shape' /\ Busy' /\ Running'
    BY <1>2 DEF vars, engine, history, IInv, TypeOK, Words, Shape, Storage, Busy, Running
  <2>2. /\ UNCHANGED <<store, request, running, atRun, Target, Source>>
        /\ \A w : RowsDone(w)' = RowsDone(w)
    BY <1>2 DEF vars, engine, history, Target, Source, RowsDone
  <2>3. Progress'
    BY <2>2 DEF IInv, Progress, Words
  <2> QED BY <2>1, <2>3 DEF IInv
<1> QED
  BY <1>1, <1>2

LEMMA Inductive == Spec => []IInv
BY InitIInv, NextIInv, PTL DEF Spec
-----------------------------------------------------------------------------
\* The engine's state is of its type, the counters of the loop inside the
\* rectangle included (dma.cpp:118-146).
THEOREM TypeCorrect == Spec => []TypeOK
<1>1. IInv => TypeOK
  BY DEF IInv
<1> QED
  BY <1>1, Inductive, PTL

\* Words move only for a request that is pending, whatever the engine keeps of
\* earlier ones (dma.cpp:53-58,112).
THEOREM CancelledNeverMoves == Spec => OnlyPendingMoves
<1>1. IInv /\ [Next]_vars
        => [store' # store => state = "BUSY" /\ error = "NONE" /\ hasRequest]_vars
  <2> SUFFICES ASSUME IInv, Next, store' # store
               PROVE  state = "BUSY" /\ error = "NONE" /\ hasRequest
    OBVIOUS
  <2>1. running
    BY DEF Next, BindMemory, BindBuffer, Submit, RunSync, MoveWord, Finish, Reset
  <2> QED
    BY <2>1 DEF IInv, Busy, Running
<1> QED
  BY <1>1, Inductive, PTL DEF Spec, OnlyPendingMoves

\* An accepted request that is run with the storage it was accepted for does
\* not fail: the check of its last word covers all (dma.cpp:73-102,125-146).
THEOREM AcceptedRunsToEnd == Spec => AcceptedNeverFails
<1>1. IInv /\ [Next]_vars
        => [running /\ <<memory, buffer>> = atSubmit => state' # "ERROR"]_vars
  <2> SUFFICES ASSUME IInv, Next, running, <<memory, buffer>> = atSubmit
               PROVE  state' # "ERROR"
    OBVIOUS
  <2>1. MoveWord \/ Finish
    BY DEF Next, BindMemory, BindBuffer, Submit, RunSync, Reset, Call
  <2>2. state = "BUSY"
    BY DEF IInv, Running
  <2>3. ASSUME MoveWord PROVE state' = state
    BY <2>3, NextWordInside DEF MoveWord
  <2>4. ASSUME Finish PROVE state' = "DONE"
    BY <2>4 DEF Finish
  <2> QED
    BY <2>1, <2>2, <2>3, <2>4
<1> QED
  BY <1>1, Inductive, PTL DEF Spec, AcceptedNeverFails

\* At the end every row has been done, so that what Progress says of the target
\* is the closed form.
LEMMA AllRowsDone ==
    ASSUME IInv, running, AtEnd, NEW w \in Nat
    PROVE  RowsDone(w) = RowsInto(request, w)
<1>1. request.rows \in Nat /\ row = request.rows
  BY RequestNumbers DEF IInv, TypeOK, AtEnd
<1>2. \A r \in RowsInto(request, w) : r < row
  BY <1>1 DEF RowsInto
<1> QED
  BY <1>2 DEF RowsDone

\* A transfer that reports DONE has left exactly the rectangle of its request in
\* the destination, the last row to reach a word on top (dma.cpp:118-166).
THEOREM TransferIsRectangle == Spec => DoneMovesRectangle
<1>1. IInv /\ [Next]_vars
        => [Finish => store = [atRun EXCEPT ![Target] =
                                 Transferred(request, atRun[Source], atRun[Target])]]_vars
  <2> SUFFICES ASSUME IInv, Finish
               PROVE  store = [atRun EXCEPT ![Target] =
                                 Transferred(request, atRun[Source], atRun[Target])]
    OBVIOUS
  <2>1. /\ running /\ AtEnd
        /\ store = [s \in Storage |-> store[s]] /\ DOMAIN atRun = Storage
        /\ store[Target] = [w \in Words(Target) |-> store[Target][w]]
        /\ \A s \in Storage \ {Target} : store[s] = atRun[s]
        /\ DOMAIN atRun[Target] = Words(Target) /\ Target \in Storage
    BY DEF Finish, IInv, TypeOK, Shape, Busy, Running, Progress, Target, Storage
  <2>2. ASSUME NEW w \in Words(Target)
        PROVE  store[Target][w] =
                 IF RowsInto(request, w) = {} THEN atRun[Target][w]
                 ELSE atRun[Source][SrcAddr(request, Max(RowsInto(request, w)),
                                            w - DstAddr(request, Max(RowsInto(request, w)), 0))]
    <3>1. w \in Nat
      BY <2>1, DmaAssumption DEF Words, Shape, Storage
    <3>2. RowsDone(w) = RowsInto(request, w)
      BY <2>1, <3>1, AllRowsDone
    <3> QED BY <2>1, <3>2 DEF IInv, Progress
  <2>3. store[Target] = Transferred(request, atRun[Source], atRun[Target])
    BY <2>1, <2>2 DEF Transferred
  <2> QED
    BY <2>1, <2>3
<1> QED
  BY <1>1, Inductive, PTL DEF Spec, DoneMovesRectangle
-----------------------------------------------------------------------------
(***************************************************************************)
(* SystolicArray: a tile that run_gemm_tile accepts comes out multiplied,  *)
(* for every size of the array and of the tile, in the three dataflows.    *)
(***************************************************************************)

\* A call that reached the loop over cycles: its tile fits, and the elements
\* hold the operand that stays.
Loaded ==
    phase = "ticking" =>
        /\ 0 \notin {tile.m, tile.n, tile.k} /\ DimsFit(tile)
        /\ held = Stationary(tile)

\* The results that have left the grid so far are in the output.
Delivered ==
    phase = "ticking" /\ tile.mode # "OS" =>
        \A i \in 0..(tile.m - 1), j \in 0..(tile.n - 1) :
            i + j + tile.k - 1 < cyc => cOut[i][j] = PartialSum(tile, i, j, tile.k)

\* The inductive invariant.
ArrayIInv == ArrayTypeOK /\ Loaded /\ OperandsMeet /\ Delivered /\ ReturnsProduct
-----------------------------------------------------------------------------
(* The operands at the boundary. *)

\* The numbers of a tile.
LEMMA TileNumbers ==
    ASSUME NEW t \in Tiles
    PROVE  /\ t.m \in Nat /\ t.n \in Nat /\ t.k \in Nat
           /\ \A i \in 0..(t.m - 1), p \in 0..(t.k - 1) : t.a[i][p] \in Int
           /\ \A p \in 0..(t.k - 1), j \in 0..(t.n - 1) : t.b[p][j] \in Int
           /\ \A i \in 0..(t.m - 1), j \in 0..(t.n - 1) : CIn(t, i, j) \in Int
<1>1. /\ t.m \in Nat /\ t.n \in Nat /\ t.k \in Nat
      /\ t.a \in Matrix(t.m, t.k) /\ t.b \in Matrix(t.k, t.n) /\ t.c \in Matrix(t.m, t.n)
  BY TileAssumption
<1>2. \A i \in 0..(t.m - 1), p \in 0..(t.k - 1) : t.a[i][p] \in Int
  BY <1>1 DEF Matrix
<1>3. \A p \in 0..(t.k - 1), j \in 0..(t.n - 1) : t.b[p][j] \in Int
  BY <1>1 DEF Matrix
<1>4. \A i \in 0..(t.m - 1), j \in 0..(t.n - 1) : CIn(t, i, j) \in Int
  BY <1>1 DEF Matrix, CIn
<1>. QED BY <1>1, <1>2, <1>3, <1>4

\* The sizes of the array.
LEMMA ArrayNumbers == ArrayRows \in Nat \ {0} /\ ArrayCols \in Nat \ {0} /\ MaxTiles \in Nat
BY TileAssumption

\* The skew: lane x is fed its slot cyc - x, or nothing.
LEMMA LaneSlot ==
    ASSUME cyc \in Nat, NEW x \in Nat, NEW lanes \in Nat, NEW depth \in Nat
    PROVE  IF x < lanes /\ cyc - x \in 0..(depth - 1)
           THEN Lane(x, lanes, depth) # {} /\ (CHOOSE s \in Lane(x, lanes, depth) : TRUE) = cyc - x
           ELSE Lane(x, lanes, depth) = {}
<1>1. Lane(x, lanes, depth) = IF x < lanes /\ cyc - x \in 0..(depth - 1) THEN {cyc - x} ELSE {}
  BY DEF Lane
<1>2. (CHOOSE s \in {cyc - x} : TRUE) = cyc - x
  OBVIOUS
<1>. QED BY <1>1, <1>2

\* What the left boundary is fed.
LEMMA LeftValue ==
    ASSUME ArrayTypeOK, phase = "ticking", NEW i \in Rows
    PROVE  /\ tile.mode = "OS" =>
                 Left(i) = IF i < tile.m /\ cyc - i \in 0..(tile.k - 1) THEN tile.a[i][cyc - i] ELSE 0
           /\ tile.mode = "WS" =>
                 Left(i) = IF i < tile.k /\ cyc - i \in 0..(tile.m - 1) THEN tile.a[cyc - i][i] ELSE 0
           /\ tile.mode = "IS" =>
                 Left(i) = IF i < tile.m /\ cyc - i \in 0..(tile.n - 1) THEN CIn(tile, i, cyc - i) ELSE 0
<1>1. /\ cyc \in Nat /\ i \in Nat /\ tile.m \in Nat /\ tile.n \in Nat /\ tile.k \in Nat
  BY TileNumbers, ArrayNumbers DEF ArrayTypeOK, Rows
<1>3. CASE tile.mode = "OS"
  <2>1. Left(i) = IF Lane(i, tile.m, tile.k) = {} THEN 0
                  ELSE tile.a[i][CHOOSE s \in Lane(i, tile.m, tile.k) : TRUE]
    BY <1>3 DEF Left, Fed
  <2>2. IF i < tile.m /\ cyc - i \in 0..(tile.k - 1)
        THEN Lane(i, tile.m, tile.k) # {} /\ (CHOOSE s \in Lane(i, tile.m, tile.k) : TRUE) = cyc - i
        ELSE Lane(i, tile.m, tile.k) = {}
    BY <1>1, LaneSlot
  <2>. QED BY <1>3, <2>1, <2>2
<1>4. CASE tile.mode = "WS"
  <2>1. Left(i) = IF Lane(i, tile.k, tile.m) = {} THEN 0
                  ELSE tile.a[CHOOSE s \in Lane(i, tile.k, tile.m) : TRUE][i]
    BY <1>4 DEF Left, Fed
  <2>2. IF i < tile.k /\ cyc - i \in 0..(tile.m - 1)
        THEN Lane(i, tile.k, tile.m) # {} /\ (CHOOSE s \in Lane(i, tile.k, tile.m) : TRUE) = cyc - i
        ELSE Lane(i, tile.k, tile.m) = {}
    BY <1>1, LaneSlot
  <2>. QED BY <1>4, <2>1, <2>2
<1>5. CASE tile.mode = "IS"
  <2>1. Left(i) = IF Lane(i, tile.m, tile.n) = {} THEN 0
                  ELSE CIn(tile, i, CHOOSE s \in Lane(i, tile.m, tile.n) : TRUE)
    BY <1>5 DEF Left, Fed
  <2>2. IF i < tile.m /\ cyc - i \in 0..(tile.n - 1)
        THEN Lane(i, tile.m, tile.n) # {} /\ (CHOOSE s \in Lane(i, tile.m, tile.n) : TRUE) = cyc - i
        ELSE Lane(i, tile.m, tile.n) = {}
    BY <1>1, LaneSlot
  <2>. QED BY <1>5, <2>1, <2>2
<1>. QED BY <1>3, <1>4, <1>5

\* What the top boundary is fed.
LEMMA TopValue ==
    ASSUME ArrayTypeOK, phase = "ticking", NEW j \in Cols
    PROVE  /\ tile.mode = "OS" =>
                 Top(j) = IF j < tile.n /\ cyc - j \in 0..(tile.k - 1) THEN tile.b[cyc - j][j] ELSE 0
           /\ tile.mode = "WS" =>
                 Top(j) = IF j < tile.n /\ cyc - j \in 0..(tile.m - 1) THEN CIn(tile, cyc - j, j) ELSE 0
           /\ tile.mode = "IS" =>
                 Top(j) = IF j < tile.k /\ cyc - j \in 0..(tile.n - 1) THEN tile.b[j][cyc - j] ELSE 0
<1>1. /\ cyc \in Nat /\ j \in Nat /\ tile.m \in Nat /\ tile.n \in Nat /\ tile.k \in Nat
  BY TileNumbers, ArrayNumbers DEF ArrayTypeOK, Cols
<1>3. CASE tile.mode = "OS"
  <2>1. Top(j) = IF Lane(j, tile.n, tile.k) = {} THEN 0
                 ELSE tile.b[CHOOSE s \in Lane(j, tile.n, tile.k) : TRUE][j]
    BY <1>3 DEF Top, Fed
  <2>2. IF j < tile.n /\ cyc - j \in 0..(tile.k - 1)
        THEN Lane(j, tile.n, tile.k) # {} /\ (CHOOSE s \in Lane(j, tile.n, tile.k) : TRUE) = cyc - j
        ELSE Lane(j, tile.n, tile.k) = {}
    BY <1>1, LaneSlot
  <2>. QED BY <1>3, <2>1, <2>2
<1>4. CASE tile.mode = "WS"
  <2>1. Top(j) = IF Lane(j, tile.n, tile.m) = {} THEN 0
                 ELSE CIn(tile, CHOOSE s \in Lane(j, tile.n, tile.m) : TRUE, j)
    BY <1>4 DEF Top, Fed
  <2>2. IF j < tile.n /\ cyc - j \in 0..(tile.m - 1)
        THEN Lane(j, tile.n, tile.m) # {} /\ (CHOOSE s \in Lane(j, tile.n, tile.m) : TRUE) = cyc - j
        ELSE Lane(j, tile.n, tile.m) = {}
    BY <1>1, LaneSlot
  <2>. QED BY <1>4, <2>1, <2>2
<1>5. CASE tile.mode = "IS"
  <2>1. Top(j) = IF Lane(j, tile.k, tile.n) = {} THEN 0
                 ELSE tile.b[j][CHOOSE s \in Lane(j, tile.k, tile.n) : TRUE]
    BY <1>5 DEF Top, Fed
  <2>2. IF j < tile.k /\ cyc - j \in 0..(tile.n - 1)
        THEN Lane(j, tile.k, tile.n) # {} /\ (CHOOSE s \in Lane(j, tile.k, tile.n) : TRUE) = cyc - j
        ELSE Lane(j, tile.k, tile.n) = {}
    BY <1>1, LaneSlot
  <2>. QED BY <1>5, <2>1, <2>2
<1>. QED BY <1>3, <1>4, <1>5

\* Every operand is a number, the boundary's included.
LEMMA InputNumbers ==
    ASSUME ArrayTypeOK, phase = "ticking", NEW i \in Rows, NEW j \in Cols
    PROVE  /\ Input0(i, j) \in Int /\ Input1(i, j) \in Int
           /\ held[i][j] \in Int /\ psum[i][j] \in Int /\ Psum(i, j) \in Int
<1>1. /\ i \in Nat /\ j \in Nat /\ tile.m \in Nat /\ tile.n \in Nat /\ tile.k \in Nat
      /\ tile \in Tiles /\ cyc \in Nat
  BY TileNumbers, ArrayNumbers DEF ArrayTypeOK, Cols, Rows
<1>2. tile.mode \in Modes /\ mode = tile.mode
  BY DEF ArrayTypeOK
<1>3. Left(i) \in Int
  BY <1>1, <1>2, TileNumbers, LeftValue DEF Modes
<1>4. Top(j) \in Int
  BY <1>1, <1>2, TileNumbers, TopValue DEF Modes
<1>5. \A x \in Rows, y \in Cols : /\ out0[x][y] \in Int /\ out1[x][y] \in Int
                                  /\ held[x][y] \in Int /\ psum[x][y] \in Int
  BY DEF ArrayTypeOK, Grid
<1>6. Input0(i, j) \in Int
  <2>1. j # 0 => j - 1 \in Cols
    BY ArrayNumbers DEF Cols
  <2>. QED BY <1>3, <1>5, <2>1 DEF Input0
<1>7. Input1(i, j) \in Int
  <2>1. i # 0 => i - 1 \in Rows
    BY ArrayNumbers DEF Rows
  <2>. QED BY <1>4, <1>5, <2>1 DEF Input1
<1>8. Psum(i, j) \in Int
  <2>1. \A x, y, z \in Int : x * y + z \in Int /\ z + x * y \in Int
    OBVIOUS
  <2>. QED BY <1>2, <1>5, <1>6, <1>7, <2>1 DEF Psum, Modes
<1>. QED BY <1>5, <1>6, <1>7, <1>8
-----------------------------------------------------------------------------
(* One element in one cycle: what it reads, and what it computes. *)

\* The place of an element.
LEMMA Place ==
    ASSUME ArrayTypeOK, NEW i \in Rows, NEW j \in Cols
    PROVE  /\ i \in Nat /\ j \in Nat /\ cyc \in Nat
           /\ tile \in Tiles /\ tile.m \in Nat /\ tile.n \in Nat /\ tile.k \in Nat
           /\ j # 0 => j - 1 \in Cols
           /\ i # 0 => i - 1 \in Rows
BY TileNumbers, ArrayNumbers DEF ArrayTypeOK, Cols, Rows

\* Output stationary: the operands of the slot, and the sum up to it.
LEMMA MeetOS ==
    ASSUME ArrayIInv, phase = "ticking", tile.mode = "OS", NEW i \in Rows, NEW j \in Cols
    PROVE  LET s == cyc - i - j IN
           /\ i < tile.m => Input0(i, j) = IF s \in 0..(tile.k - 1) THEN tile.a[i][s] ELSE 0
           /\ j < tile.n /\ s \in 0..(tile.k - 1) => Input1(i, j) = tile.b[s][j]
           /\ i < tile.m /\ j < tile.n =>
                 Psum(i, j) = PartialSum(tile, i, j, IF s < 0 THEN 0 ELSE Least(s + 1, tile.k))
<1>. DEFINE s == cyc - i - j
<1>0. ArrayTypeOK /\ OperandsMeet
  BY DEF ArrayIInv
<1>1. /\ i \in Nat /\ j \in Nat /\ cyc \in Nat
      /\ tile \in Tiles /\ tile.m \in Nat /\ tile.n \in Nat /\ tile.k \in Nat
      /\ j # 0 => j - 1 \in Cols
      /\ i # 0 => i - 1 \in Rows
  BY <1>0, Place
<1>2. \A x \in Rows, y \in Cols :
        LET z == cyc - 1 - x - y IN
        /\ x < tile.m => out0[x][y] = IF z \in 0..(tile.k - 1) THEN tile.a[x][z] ELSE 0
        /\ y < tile.n /\ z \in 0..(tile.k - 1) => out1[x][y] = tile.b[z][y]
        /\ x < tile.m /\ y < tile.n =>
              psum[x][y] = PartialSum(tile, x, y, IF z < 0 THEN 0 ELSE Least(z + 1, tile.k))
  BY <1>0 DEF OperandsMeet, Active, Slot, Depth, Summed
<1>3. ASSUME i < tile.m
      PROVE  Input0(i, j) = IF s \in 0..(tile.k - 1) THEN tile.a[i][s] ELSE 0
  <2>1. CASE j = 0
    <3>1. s = cyc - i
      BY <1>1, <2>1
    <3>. QED BY <1>0, <1>3, <2>1, <3>1, LeftValue DEF Input0
  <2>2. CASE j # 0
    <3>1. s = cyc - 1 - i - (j - 1)
      BY <1>1
    <3>2. Input0(i, j) = out0[i][j - 1] /\ j - 1 \in Cols
      BY <1>1, <2>2 DEF Input0
    <3>. HIDE DEF s
    <3>. QED BY <1>2, <1>3, <3>1, <3>2
  <2>. QED BY <2>1, <2>2
<1>4. ASSUME j < tile.n, s \in 0..(tile.k - 1)
      PROVE  Input1(i, j) = tile.b[s][j]
  <2>1. CASE i = 0
    <3>1. s = cyc - j
      BY <1>1, <2>1
    <3>. QED BY <1>0, <1>4, <2>1, <3>1, TopValue DEF Input1
  <2>2. CASE i # 0
    <3>1. s = cyc - 1 - (i - 1) - j
      BY <1>1
    <3>2. Input1(i, j) = out1[i - 1][j] /\ i - 1 \in Rows
      BY <1>1, <2>2 DEF Input1
    <3>. HIDE DEF s
    <3>. QED BY <1>2, <1>4, <3>1, <3>2
  <2>. QED BY <2>1, <2>2
<1>5. ASSUME i < tile.m, j < tile.n
      PROVE  Psum(i, j) = PartialSum(tile, i, j, IF s < 0 THEN 0 ELSE Least(s + 1, tile.k))
  <2>. DEFINE z == cyc - 1 - i - j
  <2>1. s \in Int /\ z = s - 1
    BY <1>1
  <2>2. Psum(i, j) = psum[i][j] + Input0(i, j) * Input1(i, j)
    BY <1>0 DEF Psum, ArrayTypeOK
  <2>3. psum[i][j] = PartialSum(tile, i, j, IF z < 0 THEN 0 ELSE Least(z + 1, tile.k))
    BY <1>2, <1>5
  <2>4. psum[i][j] \in Int /\ Input1(i, j) \in Int
    BY <1>0, InputNumbers
  <2>5. i \in 0..(tile.m - 1) /\ j \in 0..(tile.n - 1)
    BY <1>1, <1>5
  <2>. HIDE DEF s, z
  <2>6. CASE s \in 0..(tile.k - 1)
    <3>1. Psum(i, j) = psum[i][j] + tile.a[i][s] * tile.b[s][j]
      BY <2>2, <2>6, <1>3, <1>4, <1>5
    <3>2. (IF z < 0 THEN 0 ELSE Least(z + 1, tile.k)) = s
      BY <1>1, <2>1, <2>6 DEF Least
    <3>3. (IF s < 0 THEN 0 ELSE Least(s + 1, tile.k)) = s + 1
      BY <1>1, <2>1, <2>6 DEF Least
    <3>4. PartialSum(tile, i, j, s + 1) = PartialSum(tile, i, j, s) + tile.a[i][s] * tile.b[s][j]
      BY <1>1, <2>5, <2>6, PartialSumAssumption
    <3>. QED BY <2>3, <3>1, <3>2, <3>3, <3>4
  <2>7. CASE s \notin 0..(tile.k - 1)
    <3>1. Input0(i, j) = 0
      BY <1>3, <1>5, <2>7
    <3>2. Psum(i, j) = psum[i][j]
      BY <2>2, <2>4, <3>1
    <3>3. (IF z < 0 THEN 0 ELSE Least(z + 1, tile.k)) = (IF s < 0 THEN 0 ELSE Least(s + 1, tile.k))
      BY <1>1, <2>1, <2>7 DEF Least
    <3>. QED BY <2>3, <3>2, <3>3
  <2>. QED BY <2>6, <2>7
<1>. QED BY <1>3, <1>4, <1>5

\* Weight stationary: the element adds the term of its row to the sum that
\* comes down its column.
LEMMA MeetWS ==
    ASSUME ArrayIInv, phase = "ticking", tile.mode = "WS", NEW i \in Rows, NEW j \in Cols,
           i < tile.k, j < tile.n, cyc - i - j \in 0..(tile.m - 1)
    PROVE  LET s == cyc - i - j IN
           /\ Input0(i, j) = tile.a[s][i]
           /\ Psum(i, j) = PartialSum(tile, s, j, i + 1)
<1>. DEFINE s == cyc - i - j
<1>0. ArrayTypeOK /\ OperandsMeet /\ held = Stationary(tile)
  BY DEF ArrayIInv, Loaded
<1>1. /\ i \in Nat /\ j \in Nat /\ cyc \in Nat
      /\ tile \in Tiles /\ tile.m \in Nat /\ tile.n \in Nat /\ tile.k \in Nat
      /\ j # 0 => j - 1 \in Cols
      /\ i # 0 => i - 1 \in Rows
  BY <1>0, Place
<1>2. \A x \in Rows, y \in Cols :
        LET z == cyc - 1 - x - y IN
        x < tile.k /\ y < tile.n /\ z \in 0..(tile.m - 1) =>
            /\ out0[x][y] = tile.a[z][x]
            /\ out1[x][y] = PartialSum(tile, z, y, x + 1)
  BY <1>0 DEF OperandsMeet, Active, Slot, Depth
<1>3. Input0(i, j) = tile.a[s][i]
  <2>1. CASE j = 0
    <3>1. s = cyc - i
      BY <1>1, <2>1
    <3>. QED BY <1>0, <2>1, <3>1, LeftValue DEF Input0
  <2>2. CASE j # 0
    <3>1. s = cyc - 1 - i - (j - 1) /\ j - 1 < tile.n /\ s \in 0..(tile.m - 1)
      BY <1>1
    <3>2. Input0(i, j) = out0[i][j - 1] /\ j - 1 \in Cols
      BY <1>1, <2>2 DEF Input0
    <3>. HIDE DEF s
    <3>. QED BY <1>2, <3>1, <3>2
  <2>. QED BY <2>1, <2>2
<1>4. Input1(i, j) = PartialSum(tile, s, j, i)
  <2>1. CASE i = 0
    <3>1. s = cyc - j /\ s \in 0..(tile.m - 1) /\ j \in 0..(tile.n - 1)
      BY <1>1, <2>1
    <3>2. Input1(i, j) = CIn(tile, s, j)
      BY <1>0, <2>1, <3>1, TopValue DEF Input1
    <3>. QED BY <1>1, <2>1, <3>1, <3>2, PartialSumAssumption
  <2>2. CASE i # 0
    <3>1. s = cyc - 1 - (i - 1) - j /\ i - 1 < tile.k /\ s \in 0..(tile.m - 1) /\ (i - 1) + 1 = i
      BY <1>1
    <3>2. Input1(i, j) = out1[i - 1][j] /\ i - 1 \in Rows
      BY <1>1, <2>2 DEF Input1
    <3>. HIDE DEF s
    <3>. QED BY <1>2, <3>1, <3>2
  <2>. QED BY <2>1, <2>2
<1>5. held[i][j] = tile.b[i][j]
  BY <1>0 DEF Stationary
<1>6. Psum(i, j) = Input0(i, j) * held[i][j] + Input1(i, j)
  BY <1>0 DEF Psum, ArrayTypeOK
<1>7. PartialSum(tile, s, j, i + 1) = PartialSum(tile, s, j, i) + tile.a[s][i] * tile.b[i][j]
  <2>1. s \in 0..(tile.m - 1) /\ j \in 0..(tile.n - 1) /\ i \in 0..(tile.k - 1)
    BY <1>1
  <2>. QED BY <1>1, <2>1, PartialSumAssumption
<1>8. /\ Input0(i, j) \in Int /\ Input1(i, j) \in Int /\ held[i][j] \in Int
  BY <1>0, InputNumbers
<1>9. Psum(i, j) = Input1(i, j) + Input0(i, j) * held[i][j]
  <2>1. \A x, y, z \in Int : x * y + z = z + x * y
    OBVIOUS
  <2>. QED BY <1>6, <1>8, <2>1
<1>. QED BY <1>3, <1>4, <1>5, <1>7, <1>9

\* Input stationary: the element adds the term of its column to the sum that
\* comes along its row.
LEMMA MeetIS ==
    ASSUME ArrayIInv, phase = "ticking", tile.mode = "IS", NEW i \in Rows, NEW j \in Cols,
           i < tile.m, j < tile.k, cyc - i - j \in 0..(tile.n - 1)
    PROVE  LET s == cyc - i - j IN
           /\ Input1(i, j) = tile.b[j][s]
           /\ Psum(i, j) = PartialSum(tile, i, s, j + 1)
<1>. DEFINE s == cyc - i - j
<1>0. ArrayTypeOK /\ OperandsMeet /\ held = Stationary(tile)
  BY DEF ArrayIInv, Loaded
<1>1. /\ i \in Nat /\ j \in Nat /\ cyc \in Nat
      /\ tile \in Tiles /\ tile.m \in Nat /\ tile.n \in Nat /\ tile.k \in Nat
      /\ j # 0 => j - 1 \in Cols
      /\ i # 0 => i - 1 \in Rows
  BY <1>0, Place
<1>2. \A x \in Rows, y \in Cols :
        LET z == cyc - 1 - x - y IN
        x < tile.m /\ y < tile.k /\ z \in 0..(tile.n - 1) =>
            /\ out1[x][y] = tile.b[y][z]
            /\ out0[x][y] = PartialSum(tile, x, z, y + 1)
  BY <1>0 DEF OperandsMeet, Active, Slot, Depth
<1>3. Input1(i, j) = tile.b[j][s]
  <2>1. CASE i = 0
    <3>1. s = cyc - j
      BY <1>1, <2>1
    <3>. QED BY <1>0, <2>1, <3>1, TopValue DEF Input1
  <2>2. CASE i # 0
    <3>1. s = cyc - 1 - (i - 1) - j /\ i - 1 < tile.m /\ s \in 0..(tile.n - 1)
      BY <1>1
    <3>2. Input1(i, j) = out1[i - 1][j] /\ i - 1 \in Rows
      BY <1>1, <2>2 DEF Input1
    <3>. HIDE DEF s
    <3>. QED BY <1>2, <3>1, <3>2
  <2>. QED BY <2>1, <2>2
<1>4. Input0(i, j) = PartialSum(tile, i, s, j)
  <2>1. CASE j = 0
    <3>1. s = cyc - i /\ s \in 0..(tile.n - 1) /\ i \in 0..(tile.m - 1)
      BY <1>1, <2>1
    <3>2. Input0(i, j) = CIn(tile, i, s)
      BY <1>0, <2>1, <3>1, LeftValue DEF Input0
    <3>. QED BY <1>1, <2>1, <3>1, <3>2, PartialSumAssumption
  <2>2. CASE j # 0
    <3>1. s = cyc - 1 - i - (j - 1) /\ j - 1 < tile.k /\ s \in 0..(tile.n - 1) /\ (j - 1) + 1 = j
      BY <1>1
    <3>2. Input0(i, j) = out0[i][j - 1] /\ j - 1 \in Cols
      BY <1>1, <2>2 DEF Input0
    <3>. HIDE DEF s
    <3>. QED BY <1>2, <3>1, <3>2
  <2>. QED BY <2>1, <2>2
<1>5. held[i][j] = tile.a[i][j]
  BY <1>0 DEF Stationary
<1>6. Psum(i, j) = Input0(i, j) + held[i][j] * Input1(i, j)
  BY <1>0 DEF Psum, ArrayTypeOK
<1>7. PartialSum(tile, i, s, j + 1) = PartialSum(tile, i, s, j) + tile.a[i][j] * tile.b[j][s]
  <2>1. i \in 0..(tile.m - 1) /\ s \in 0..(tile.n - 1) /\ j \in 0..(tile.k - 1)
    BY <1>1
  <2>. QED BY <1>1, <2>1, PartialSumAssumption
<1>. QED BY <1>3, <1>4, <1>5, <1>6, <1>7
-----------------------------------------------------------------------------
(* The steps. *)

\* Initially no tile is in the array.
LEMMA ArrayInitIInv == ArrayInit => ArrayIInv
<1>. SUFFICES ASSUME ArrayInit PROVE ArrayIInv
  OBVIOUS
<1>1. Zero(Rows, Cols) \in Grid
  BY DEF Zero, Grid
<1>2. cOut \in Matrix(tile.m, tile.n)
  BY DEF ArrayInit, ZeroTile, Zero, Matrix
<1>3. ArrayTypeOK
  <2>1. /\ tile \in Tiles /\ phase = "ready" /\ mode \in Modes
        /\ cyc = 0 /\ cycles = 0 /\ called = 0
    BY DEF ArrayInit, Modes
  <2>2. out0 \in Grid /\ out1 \in Grid /\ held \in Grid /\ psum \in Grid
    BY <1>1 DEF ArrayInit
  <2>3. called \in 0..MaxTiles /\ cyc \in Nat /\ cycles \in Nat
    BY <2>1, ArrayNumbers
  <2>4. ok \in BOOLEAN
    BY DEF ArrayInit
  <2>. QED BY <1>2, <2>1, <2>2, <2>3, <2>4 DEF ArrayTypeOK
<1>. QED BY <1>3 DEF ArrayInit, ArrayIInv, Loaded, OperandsMeet, Delivered, ReturnsProduct

\* A call: refused, or the first cycle is about to be ticked.
LEMMA CallIInv ==
    ASSUME ArrayIInv, NEW t \in Tiles, ArrayCall(t)
    PROVE  ArrayIInv'
<1>0. /\ tile' = t /\ cOut' = ZeroTile(t) /\ cycles' = 0 /\ called' \in 0..MaxTiles
      /\ t.m \in Nat /\ t.n \in Nat /\ t.k \in Nat
  BY TileNumbers, ArrayNumbers DEF ArrayCall, ArrayIInv, ArrayTypeOK
<1>1. cOut' \in Matrix(tile'.m, tile'.n)
  BY <1>0 DEF ZeroTile, Zero, Matrix
<1>2. CASE 0 \notin {t.m, t.n, t.k} /\ DimsFit(t)
  <2>1. /\ phase' = "ticking" /\ cyc' = 0 /\ mode' = t.mode /\ ok' = ok
        /\ held' = Stationary(t) /\ psum' = LoadedPsum(t)
        /\ out0' = Zero(Rows, Cols) /\ out1' = Zero(Rows, Cols)
    BY <1>2 DEF ArrayCall, Begin, ResetPipes
  <2>2. t.mode \in Modes
    BY <1>2 DEF DimsFit, Modes
  <2>3. out0' \in Grid /\ out1' \in Grid
    BY <2>1 DEF Zero, Grid
  <2>4. held' \in Grid
    <3>1. \A i \in Rows, j \in Cols :
            (IF t.mode = "WS" /\ i < t.k /\ j < t.n THEN t.b[i][j]
             ELSE IF t.mode = "IS" /\ i < t.m /\ j < t.k THEN t.a[i][j] ELSE 0) \in Int
      BY <1>0, TileNumbers, ArrayNumbers DEF Rows, Cols
    <3>. QED BY <2>1, <3>1 DEF Stationary, Grid
  <2>5. psum' \in Grid
    <3>1. \A i \in Rows, j \in Cols :
            (IF t.mode = "OS" /\ i < t.m /\ j < t.n THEN CIn(t, i, j) ELSE 0) \in Int
      BY <1>0, TileNumbers, ArrayNumbers DEF Rows, Cols
    <3>. QED BY <2>1, <3>1 DEF LoadedPsum, Grid
  <2>6. ArrayTypeOK'
    <3>1. TileCycles(t) \in Nat /\ 0 <= TileCycles(t)
      BY <1>0, <1>2 DEF TileCycles
    <3>2. ok' \in BOOLEAN
      BY <2>1 DEF ArrayIInv, ArrayTypeOK
    <3>. QED BY <1>0, <1>1, <2>1, <2>2, <2>3, <2>4, <2>5, <3>1, <3>2 DEF ArrayTypeOK
  <2>7. Loaded'
    BY <1>0, <1>2, <2>1 DEF Loaded
  <2>8. OperandsMeet'
    <3>1. ASSUME NEW i \in Rows, NEW j \in Cols
          PROVE  /\ ~Active(i, j)' /\ Summed(i, j)' = 0
                 /\ out0'[i][j] = 0
                 /\ tile'.mode = "OS" /\ i < tile'.m /\ j < tile'.n =>
                       psum'[i][j] = PartialSum(tile', i, j, 0)
      <4>1. i \in Nat /\ j \in Nat
        BY ArrayNumbers DEF Rows, Cols
      <4>2. Slot(i, j)' \in Int /\ Slot(i, j)' < 0
        BY <2>1, <4>1 DEF Slot
      <4>3. Depth' \in Nat
        BY <1>0, <2>2 DEF Depth, Modes
      <4>4. out0'[i][j] = 0
        BY <2>1 DEF Zero
      <4>5. ASSUME t.mode = "OS", i < t.m, j < t.n PROVE psum'[i][j] = PartialSum(t, i, j, 0)
        <5>1. i \in 0..(t.m - 1) /\ j \in 0..(t.n - 1)
          BY <1>0, <4>1, <4>5
        <5>2. psum'[i][j] = CIn(t, i, j)
          BY <2>1, <4>5 DEF LoadedPsum
        <5>. QED BY <5>1, <5>2, PartialSumAssumption
      <4>. QED BY <1>0, <4>2, <4>3, <4>4, <4>5 DEF Active, Summed
    <3>2. tile'.mode \in Modes
      BY <1>0, <2>2
    <3>. QED BY <3>1, <3>2 DEF OperandsMeet, Modes
  <2>9. Delivered'
    <3>1. \A i \in 0..(t.m - 1), j \in 0..(t.n - 1) : ~(i + j + t.k - 1 < 0)
      BY <1>0, <1>2
    <3>. QED BY <1>0, <2>1, <3>1 DEF Delivered
  <2>10. ReturnsProduct'
    BY <2>1 DEF ReturnsProduct
  <2>. QED BY <2>6, <2>7, <2>8, <2>9, <2>10 DEF ArrayIInv
<1>3. CASE ~(0 \notin {t.m, t.n, t.k} /\ DimsFit(t))
  <2>1. phase' = "done" /\ ok' = FALSE /\ UNCHANGED <<cyc, pes>>
    BY <1>3 DEF ArrayCall
  <2>2. ArrayTypeOK'
    BY <1>0, <1>1, <2>1 DEF ArrayIInv, ArrayTypeOK, pes
  <2>. QED BY <2>1, <2>2 DEF ArrayIInv, Loaded, OperandsMeet, Delivered, ReturnsProduct
<1>. QED BY <1>2, <1>3

\* What a cycle does to the registers of the elements.
LEMMA TickEffect ==
    ASSUME ArrayTypeOK, Tick
    PROVE  /\ tile' = tile /\ phase' = "ticking" /\ phase = "ticking" /\ mode' = mode /\ held' = held
           /\ cyc' = cyc + 1 /\ cyc < TileCycles(tile) /\ mode = tile.mode
           /\ \A i \in Rows, j \in Cols :
                 /\ psum'[i][j] = Psum(i, j)
                 /\ out0'[i][j] = IF mode = "IS" THEN Psum(i, j) ELSE Input0(i, j)
                 /\ out1'[i][j] = IF mode = "WS" THEN Psum(i, j) ELSE Input1(i, j)
                 /\ Slot(i, j)' = cyc - i - j
BY ArrayNumbers DEF Tick, ArrayTypeOK, Slot, Rows, Cols

\* The rest of an element's type.
LEMMA TickTyped ==
    ASSUME ArrayIInv, Tick
    PROVE  ArrayTypeOK'
<1>0. ArrayTypeOK /\ phase = "ticking"
  BY DEF ArrayIInv, Tick
<1>1. \A i \in Rows, j \in Cols : Psum(i, j) \in Int /\ Input0(i, j) \in Int /\ Input1(i, j) \in Int
  BY <1>0, InputNumbers
<1>2. psum' \in Grid /\ out0' \in Grid /\ out1' \in Grid
  BY <1>1 DEF Tick, Grid
<1>3. cOut' \in Matrix(tile.m, tile.n)
  <2>1. /\ tile.mode = "WS" => tile.k - 1 \in Rows
        /\ tile.mode = "WS" => \A j \in 0..(tile.n - 1) : j \in Cols
        /\ tile.mode = "IS" => tile.k - 1 \in Cols
        /\ tile.mode = "IS" => \A i \in 0..(tile.m - 1) : i \in Rows
    BY <1>0, TileNumbers, ArrayNumbers DEF ArrayIInv, Loaded, DimsFit, Rows, Cols, ArrayTypeOK
  <2>2. \A i \in 0..(tile.m - 1), j \in 0..(tile.n - 1) : cOut[i][j] \in Int
    BY <1>0 DEF ArrayTypeOK, Matrix
  <2>3. \A i \in 0..(tile.m - 1), j \in 0..(tile.n - 1) :
          (IF tile.mode = "WS" /\ IsReady(j, i) THEN Psum(tile.k - 1, j)
           ELSE IF tile.mode = "IS" /\ IsReady(i, j) THEN Psum(i, tile.k - 1)
           ELSE cOut[i][j]) \in Int
    BY <1>1, <2>1, <2>2
  <2>. QED BY <2>3 DEF Tick, Captured, Matrix
<1>4. cyc' \in Nat /\ cyc' <= TileCycles(tile)
  <2>1. tile.m \in Nat /\ tile.n \in Nat /\ tile.k \in Nat
    BY <1>0, TileNumbers DEF ArrayTypeOK
  <2>. QED BY <1>0, <2>1 DEF Tick, ArrayTypeOK, TileCycles
<1>. QED BY <1>0, <1>2, <1>3, <1>4 DEF Tick, ArrayTypeOK

\* The operands move on, and the next ones meet.
LEMMA TickMeets ==
    ASSUME ArrayIInv, Tick
    PROVE  OperandsMeet'
<1>0. ArrayTypeOK
  BY DEF ArrayIInv
<1>1. /\ tile' = tile /\ phase' = "ticking" /\ phase = "ticking" /\ mode = tile.mode
      /\ \A i \in Rows, j \in Cols :
            /\ psum'[i][j] = Psum(i, j)
            /\ out0'[i][j] = IF mode = "IS" THEN Psum(i, j) ELSE Input0(i, j)
            /\ out1'[i][j] = IF mode = "WS" THEN Psum(i, j) ELSE Input1(i, j)
            /\ Slot(i, j)' = cyc - i - j
  BY <1>0, TickEffect
<1>2. Depth' = Depth
  BY <1>1 DEF Depth
<1>3. ASSUME NEW i \in Rows, NEW j \in Cols, tile.mode = "OS"
      PROVE  /\ i < tile.m' /\ Active(i, j)' => out0'[i][j] = tile'.a[i][Slot(i, j)']
             /\ j < tile.n' /\ Active(i, j)' => out1'[i][j] = tile'.b[Slot(i, j)'][j]
             /\ i < tile.m' /\ ~Active(i, j)' => out0'[i][j] = 0
             /\ i < tile.m' /\ j < tile.n' =>
                   psum'[i][j] = PartialSum(tile', i, j, Summed(i, j)')
  <2>. DEFINE s == cyc - i - j
  <2>1. /\ i < tile.m => Input0(i, j) = IF s \in 0..(tile.k - 1) THEN tile.a[i][s] ELSE 0
        /\ j < tile.n /\ s \in 0..(tile.k - 1) => Input1(i, j) = tile.b[s][j]
        /\ i < tile.m /\ j < tile.n =>
              Psum(i, j) = PartialSum(tile, i, j, IF s < 0 THEN 0 ELSE Least(s + 1, tile.k))
    BY <1>1, <1>3, MeetOS
  <2>2. Slot(i, j)' = s
    BY <1>1
  <2>3. Active(i, j)' <=> s \in 0..(tile.k - 1)
    BY <1>1, <1>3, <2>2 DEF Active, Depth
  <2>4. Summed(i, j)' = IF s < 0 THEN 0 ELSE Least(s + 1, tile.k)
    BY <1>1, <2>2 DEF Summed
  <2>5. psum'[i][j] = Psum(i, j) /\ out0'[i][j] = Input0(i, j) /\ out1'[i][j] = Input1(i, j)
    BY <1>1, <1>3
  <2>. HIDE DEF s
  <2>. QED BY <1>1, <2>1, <2>2, <2>3, <2>4, <2>5
<1>4. ASSUME NEW i \in Rows, NEW j \in Cols, tile.mode = "WS",
             i < tile.k', j < tile.n', Active(i, j)'
      PROVE  /\ out0'[i][j] = tile'.a[Slot(i, j)'][i]
             /\ out1'[i][j] = PartialSum(tile', Slot(i, j)', j, i + 1)
  <2>1. cyc - i - j \in 0..(tile.m - 1) /\ i < tile.k /\ j < tile.n
    BY <1>1, <1>4 DEF Active, Depth
  <2>2. /\ Input0(i, j) = tile.a[cyc - i - j][i]
        /\ Psum(i, j) = PartialSum(tile, cyc - i - j, j, i + 1)
    BY <1>1, <1>4, <2>1, MeetWS
  <2>3. out0'[i][j] = Input0(i, j) /\ out1'[i][j] = Psum(i, j)
    BY <1>1, <1>4
  <2>. QED BY <1>1, <2>2, <2>3
<1>5. ASSUME NEW i \in Rows, NEW j \in Cols, tile.mode = "IS",
             i < tile.m', j < tile.k', Active(i, j)'
      PROVE  /\ out1'[i][j] = tile'.b[j][Slot(i, j)']
             /\ out0'[i][j] = PartialSum(tile', i, Slot(i, j)', j + 1)
  <2>1. cyc - i - j \in 0..(tile.n - 1) /\ i < tile.m /\ j < tile.k
    BY <1>1, <1>5 DEF Active, Depth
  <2>2. /\ Input1(i, j) = tile.b[j][cyc - i - j]
        /\ Psum(i, j) = PartialSum(tile, i, cyc - i - j, j + 1)
    BY <1>1, <1>5, <2>1, MeetIS
  <2>3. out0'[i][j] = Psum(i, j) /\ out1'[i][j] = Input1(i, j)
    BY <1>1, <1>5
  <2>. QED BY <1>1, <2>2, <2>3
<1>6. tile.mode \in Modes /\ tile'.mode = tile.mode
  BY <1>0, <1>1 DEF ArrayTypeOK
<1>. QED BY <1>3, <1>4, <1>5, <1>6 DEF OperandsMeet, Modes

\* A result leaves the grid when its lane is ready, and stays in the output.
LEMMA TickDelivers ==
    ASSUME ArrayIInv, Tick
    PROVE  Delivered'
<1>0. ArrayTypeOK /\ Loaded /\ Delivered
  BY DEF ArrayIInv
<1>1. tile' = tile /\ phase = "ticking" /\ cyc' = cyc + 1 /\ cOut' = Captured
  BY DEF Tick
<1>2. /\ tile.m \in Nat /\ tile.n \in Nat /\ tile.k \in Nat \ {0} /\ cyc \in Nat /\ tile.mode \in Modes
      /\ DimsFit(tile)
  BY <1>0, <1>1, TileNumbers DEF ArrayTypeOK, Loaded
<1>. SUFFICES ASSUME tile.mode # "OS",
                     NEW i \in 0..(tile.m - 1), NEW j \in 0..(tile.n - 1),
                     i + j + tile.k - 1 < cyc + 1
              PROVE  cOut'[i][j] = PartialSum(tile, i, j, tile.k)
  BY <1>1 DEF Delivered
<1>3. i \in Nat /\ j \in Nat /\ i < tile.m /\ j < tile.n
  BY <1>2
<1>4. cOut'[i][j] = IF tile.mode = "WS" /\ IsReady(j, i) THEN Psum(tile.k - 1, j)
                    ELSE IF tile.mode = "IS" /\ IsReady(i, j) THEN Psum(i, tile.k - 1)
                    ELSE cOut[i][j]
  BY <1>1 DEF Captured
<1>5. (IsReady(j, i) <=> cyc = i + j + tile.k - 1) /\ (IsReady(i, j) <=> cyc = i + j + tile.k - 1)
  BY <1>2, <1>3 DEF IsReady, ReadyCycle
<1>6. CASE i + j + tile.k - 1 < cyc
  <2>1. cOut'[i][j] = cOut[i][j]
    BY <1>2, <1>3, <1>4, <1>5, <1>6
  <2>. QED BY <1>0, <1>1, <1>6, <2>1 DEF Delivered
<1>7. CASE cyc = i + j + tile.k - 1 /\ tile.mode = "WS"
  <2>1. tile.k - 1 \in Rows /\ j \in Cols /\ tile.k - 1 < tile.k
    BY <1>2, <1>3, <1>7, ArrayNumbers DEF DimsFit, Rows, Cols
  <2>2. cyc - (tile.k - 1) - j = i /\ (tile.k - 1) + 1 = tile.k
    BY <1>2, <1>3, <1>7
  <2>3. Psum(tile.k - 1, j) = PartialSum(tile, i, j, tile.k)
    BY <1>1, <1>3, <1>7, <2>1, <2>2, MeetWS
  <2>. QED BY <1>4, <1>5, <1>7, <2>3
<1>8. CASE cyc = i + j + tile.k - 1 /\ tile.mode = "IS"
  <2>1. tile.k - 1 \in Cols /\ i \in Rows /\ tile.k - 1 < tile.k
    BY <1>2, <1>3, <1>8, ArrayNumbers DEF DimsFit, Rows, Cols
  <2>2. cyc - i - (tile.k - 1) = j /\ (tile.k - 1) + 1 = tile.k
    BY <1>2, <1>3, <1>8
  <2>3. Psum(i, tile.k - 1) = PartialSum(tile, i, j, tile.k)
    BY <1>1, <1>3, <1>8, <2>1, <2>2, MeetIS
  <2>. QED BY <1>4, <1>5, <1>8, <2>3
<1>. QED
  <2>1. cyc = i + j + tile.k - 1 \/ i + j + tile.k - 1 < cyc
    BY <1>2, <1>3
  <2>. QED BY <1>2, <1>6, <1>7, <1>8, <2>1 DEF Modes

\* A cycle.
LEMMA TickIInv ==
    ASSUME ArrayIInv, Tick
    PROVE  ArrayIInv'
<1>1. Loaded'
  BY DEF ArrayIInv, Loaded, Tick
<1>2. ReturnsProduct'
  BY DEF ReturnsProduct, Tick
<1>. QED BY <1>1, <1>2, TickTyped, TickMeets, TickDelivers DEF ArrayIInv

\* After the last cycle every result has left the grid, or is complete in its
\* element.
LEMMA ReturnIInv ==
    ASSUME ArrayIInv, Return
    PROVE  ArrayIInv'
<1>0. ArrayTypeOK /\ Loaded /\ Delivered /\ OperandsMeet
  BY DEF ArrayIInv
<1>1. /\ tile' = tile /\ phase = "ticking" /\ phase' = "done" /\ cyc = TileCycles(tile)
      /\ cycles' = TileCycles(tile) /\ called' = called /\ cyc' = cyc /\ UNCHANGED pes /\ ok' = TRUE
      /\ cOut' = IF tile.mode = "OS"
                 THEN [i \in 0..(tile.m - 1) |-> [j \in 0..(tile.n - 1) |-> psum[i][j]]]
                 ELSE cOut
  BY DEF Return
<1>2. /\ tile.m \in Nat \ {0} /\ tile.n \in Nat \ {0} /\ tile.k \in Nat \ {0}
      /\ cyc = tile.m + tile.n + tile.k - 2 /\ DimsFit(tile)
  BY <1>0, <1>1, TileNumbers DEF ArrayTypeOK, Loaded, TileCycles
<1>. DEFINE Product ==
              /\ cOut' \in Matrix(tile.m, tile.n)
              /\ \A i \in 0..(tile.m - 1), j \in 0..(tile.n - 1) :
                    cOut'[i][j] = PartialSum(tile, i, j, tile.k)
<1>3. ASSUME tile.mode = "OS" PROVE Product
  <2>1. \A i \in 0..(tile.m - 1), j \in 0..(tile.n - 1) : i \in Rows /\ j \in Cols
    BY <1>2, <1>3, ArrayNumbers DEF DimsFit, Rows, Cols
  <2>2. cOut' \in Matrix(tile.m, tile.n)
    <3>1. \A i \in 0..(tile.m - 1), j \in 0..(tile.n - 1) : psum[i][j] \in Int
      BY <1>0, <2>1 DEF ArrayTypeOK, Grid
    <3>. QED BY <1>1, <1>3, <3>1 DEF Matrix
  <2>3. ASSUME NEW i \in 0..(tile.m - 1), NEW j \in 0..(tile.n - 1)
        PROVE  cOut'[i][j] = PartialSum(tile, i, j, tile.k)
    <3>1. i \in Nat /\ j \in Nat /\ i < tile.m /\ j < tile.n
      BY <1>2
    <3>2. Summed(i, j) = tile.k
      BY <1>2, <3>1 DEF Summed, Slot, Least
    <3>3. psum[i][j] = PartialSum(tile, i, j, Summed(i, j))
      BY <1>0, <1>1, <1>3, <2>1, <3>1 DEF OperandsMeet
    <3>. QED BY <1>1, <1>3, <3>2, <3>3
  <2>. QED BY <2>2, <2>3
<1>4. ASSUME tile.mode # "OS" PROVE Product
  <2>1. \A i \in 0..(tile.m - 1), j \in 0..(tile.n - 1) : i + j + tile.k - 1 < cyc
    BY <1>2
  <2>. QED BY <1>0, <1>1, <1>4, <2>1 DEF Delivered, ArrayTypeOK
<1>5. /\ cOut' \in Matrix(tile'.m, tile'.n)
      /\ \A i \in 0..(tile.m - 1), j \in 0..(tile.n - 1) : cOut'[i][j] = PartialSum(tile, i, j, tile.k)
  <2>1. Product
    BY <1>3, <1>4
  <2>. QED BY <1>1, <2>1
<1>6. ArrayTypeOK'
  <2>1. cycles' \in Nat
    BY <1>1, <1>2
  <2>. QED BY <1>0, <1>1, <1>5, <2>1 DEF ArrayTypeOK, pes
<1>7. ReturnsProduct'
  BY <1>1, <1>5 DEF ReturnsProduct
<1>. QED BY <1>1, <1>6, <1>7 DEF ArrayIInv, Loaded, OperandsMeet, Delivered

\* The invariant of the array.
THEOREM ArrayInvariance == ArraySpec => []ArrayIInv
<1>1. ArrayIInv /\ [ArrayNext]_arrayVars => ArrayIInv'
  <2>. SUFFICES ASSUME ArrayIInv, [ArrayNext]_arrayVars PROVE ArrayIInv'
    OBVIOUS
  <2>1. ASSUME NEW t \in Tiles, ArrayCall(t) PROVE ArrayIInv'
    BY <2>1, CallIInv
  <2>2. CASE Tick
    BY <2>2, TickIInv
  <2>3. CASE Return
    BY <2>3, ReturnIInv
  <2>4. CASE UNCHANGED arrayVars
    <3>1. /\ UNCHANGED <<tile, phase, ok, cyc, mode, out0, out1, held, psum, cOut, cycles, called>>
      BY <2>4 DEF arrayVars, pes
    <3>2. ArrayTypeOK' /\ Loaded' /\ Delivered' /\ ReturnsProduct'
      BY <3>1 DEF ArrayIInv, ArrayTypeOK, Loaded, Delivered, ReturnsProduct
    <3>3. \A i \in Rows, j \in Cols : /\ Active(i, j)' <=> Active(i, j)
                                      /\ Slot(i, j)' = Slot(i, j) /\ Summed(i, j)' = Summed(i, j)
      BY <3>1 DEF Active, Slot, Depth, Summed
    <3>4. phase = "ticking" => tile.mode \in Modes
      BY DEF ArrayIInv, ArrayTypeOK
    <3>5. OperandsMeet'
      <4>. SUFFICES ASSUME phase = "ticking" PROVE OperandsMeet'
        BY <3>1 DEF OperandsMeet
      <4>1. CASE tile.mode = "OS"
        BY <3>1, <3>3, <4>1 DEF ArrayIInv, OperandsMeet
      <4>2. CASE tile.mode = "WS"
        BY <3>1, <3>3, <4>2 DEF ArrayIInv, OperandsMeet
      <4>3. CASE tile.mode = "IS"
        BY <3>1, <3>3, <4>3 DEF ArrayIInv, OperandsMeet
      <4>. QED BY <3>4, <4>1, <4>2, <4>3 DEF Modes
    <3>. QED BY <3>2, <3>5 DEF ArrayIInv
  <2>. QED BY <2>1, <2>2, <2>3, <2>4 DEF ArrayNext
<1>. QED BY <1>1, ArrayInitIInv, PTL DEF ArraySpec

\* The registers of the elements and the output keep their types, and the loop
\* over cycles ends at m + n + k - 2 (array.cpp:101-256).
THEOREM ArrayTypeCorrect == ArraySpec => []ArrayTypeOK
<1>1. ArrayIInv => ArrayTypeOK
  BY DEF ArrayIInv
<1>. QED BY <1>1, ArrayInvariance, PTL

\* The boundary skew of each dataflow brings the operands of a product to the
\* same element in the same cycle (array.cpp:73-95 and the feeding loops).
THEOREM OperandsAlwaysMeet == ArraySpec => []OperandsMeet
<1>1. ArrayIInv => OperandsMeet
  BY DEF ArrayIInv
<1>. QED BY <1>1, ArrayInvariance, PTL

\* run_gemm_tile that returns true has added A times B to C, for every size of
\* the array and of a tile that fits it (array.cpp:101-256).
THEOREM ArrayMultiplies == ArraySpec => []ReturnsProduct
<1>1. ArrayIInv => ReturnsProduct
  BY DEF ArrayIInv
<1>. QED BY <1>1, ArrayInvariance, PTL
=============================================================================
