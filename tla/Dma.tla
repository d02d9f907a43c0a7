-------------------------------- MODULE Dma --------------------------------
(***************************************************************************)
(* DmaEngine (maps-sim/src/npu/dma.cpp): an engine that is bound to a      *)
(* memory and a buffer, accepts one request at a time and moves its words  *)
(* one by one in run_sync. The host calls the operations in any order, and *)
(* may bind other storage between submit and run_sync.                     *)
(***************************************************************************)
EXTENDS Transfer, Sequences

CONSTANTS
    Memories, Buffers,  \* the storage the host may bind
    SizeOf,             \* words of each
    Requests,           \* the requests the host submits
    MaxCalls            \* calls of one behaviour

ASSUME DmaAssumption ==
    /\ Memories \cap Buffers = {}
    /\ SizeOf \in [Memories \cup Buffers -> Nat]
    /\ Requests \subseteq RequestType
    /\ MaxCalls \in Nat

Null == "null"
ASSUME NullAssumption == Null \notin Memories \cup Buffers

VARIABLES
    store,          \* the words of every memory and buffer
    memory, buffer, \* memory_ (dram_size_ is its size) and buffer_
    request,        \* current_req_
    hasRequest, state, error, stats,
    row, col,       \* run_sync: the word to move next
    running,        \* run_sync is in its loop
    calls,          \* operations called so far
    atSubmit,       \* history: the bindings when the request was accepted
    atRun           \* history: store when run_sync began

engine == <<memory, buffer, request, hasRequest, state, error, stats>>
history == <<atSubmit, atRun>>
vars == <<store, engine, row, col, running, calls, history>>

States == {"IDLE", "BUSY", "DONE", "ERROR"}
Errors == {"NONE", "NULL_PTR", "INVALID_PARAM", "OUT_OF_RANGE", "NOT_READY"}

Words(s) == 0..(SizeOf[s] - 1)

\* Distinct words, so that a word moved to a wrong place shows.
Fill(s, w) == IF s \in Memories THEN w + 1 ELSE 0 - w - 1

ZeroStats == [bytes |-> 0, transfers |-> 0, cycles |-> 0]

Init ==
    /\ store = [s \in Memories \cup Buffers |-> [w \in Words(s) |-> Fill(s, w)]]
    /\ memory = Null /\ buffer = Null
    /\ request = NoRequest /\ hasRequest = FALSE
    /\ state = "IDLE" /\ error = "NONE" /\ stats = ZeroStats
    /\ row = 0 /\ col = 0 /\ running = FALSE
    /\ calls = 0
    /\ atSubmit = <<Null, Null>> /\ atRun = store

\* One call of the host, between calls.
Call ==
    /\ ~running /\ calls < MaxCalls
    /\ calls' = calls + 1

Fail(why) == state' = "ERROR" /\ error' = why

\* A new binding clears an error or a result, but not a pending request.
Rebound ==
    IF state # "BUSY" THEN state' = "IDLE" /\ error' = "NONE"
    ELSE UNCHANGED <<state, error>>

BindMemory(m) ==
    /\ Call
    /\ IF m = Null THEN Fail("NULL_PTR") /\ UNCHANGED memory
       ELSE memory' = m /\ Rebound
    /\ UNCHANGED <<store, buffer, request, hasRequest, stats, row, col, running, history>>

BindBuffer(b) ==
    /\ Call
    /\ IF b = Null THEN Fail("NULL_PTR") /\ UNCHANGED buffer
       ELSE buffer' = b /\ Rebound
    /\ UNCHANGED <<store, memory, request, hasRequest, stats, row, col, running, history>>

\* Mutant: only the first row of the rectangle is checked.
RefusalFirstRow(req) ==
    IF state = "BUSY" THEN "NOT_READY"
    ELSE IF Null \in {memory, buffer} THEN "NULL_PTR"
    ELSE IF ~WellFormed(req) THEN "INVALID_PARAM"
    ELSE IF req.direction \notin Directions THEN "INVALID_PARAM"
    ELSE IF ~InRange([req EXCEPT !.rows = 1], SizeOf[memory], SizeOf[buffer]) THEN "OUT_OF_RANGE"
    ELSE "NONE"

\* Why submit refuses req, "NONE" when it does not.
Refusal(req) ==
    IF state = "BUSY" THEN "NOT_READY"
    ELSE IF Null \in {memory, buffer} THEN "NULL_PTR"
    ELSE IF ~WellFormed(req) THEN "INVALID_PARAM"
    ELSE IF req.direction \notin Directions THEN "INVALID_PARAM"
    ELSE IF ~InRange(req, SizeOf[memory], SizeOf[buffer]) THEN "OUT_OF_RANGE"
    ELSE "NONE"

Submit(req) ==
    /\ Call
    /\ IF Refusal(req) # "NONE"
       THEN /\ Fail(Refusal(req))
            /\ UNCHANGED <<request, hasRequest, atSubmit>>
       ELSE /\ request' = req
            /\ hasRequest' = TRUE
            /\ state' = "BUSY" /\ error' = "NONE"
            /\ atSubmit' = <<memory, buffer>>
    /\ UNCHANGED <<store, memory, buffer, stats, row, col, running, atRun>>

\* Mutant: has_request_ alone lets run_sync through.
MayRunAnyRequest == hasRequest

MayRun == hasRequest /\ state = "BUSY"

\* run_sync, up to its loop.
RunSync ==
    /\ Call
    /\ IF MayRun
       THEN /\ running' = TRUE /\ row' = 0 /\ col' = 0
            /\ atRun' = store
            /\ UNCHANGED <<state, error>>
       ELSE /\ Fail("NOT_READY")
            /\ UNCHANGED <<running, row, col, atRun>>
    /\ UNCHANGED <<store, memory, buffer, request, hasRequest, stats, atSubmit>>

Source == IF ToBuffer(request) THEN memory ELSE buffer
Target == IF ToBuffer(request) THEN buffer ELSE memory

AtEnd == row = request.rows

\* Mutant: the column loop runs once too often.
LastColumnLate == col = request.length

LastColumn == col + 1 = request.length

\* One turn of the inner loop: read a word, write it, step the counters.
MoveWord ==
    /\ running /\ ~AtEnd
    /\ LET from == SrcAddr(request, row, col)
           to == DstAddr(request, row, col)
       IN  IF from \in Words(Source) /\ to \in Words(Target)
           THEN /\ store' = [store EXCEPT ![Target][to] = store[Source][from]]
                /\ row' = IF LastColumn THEN row + 1 ELSE row
                /\ col' = IF LastColumn THEN 0 ELSE col + 1
                /\ UNCHANGED <<state, error, running>>
           ELSE /\ Fail("OUT_OF_RANGE")
                /\ running' = FALSE
                /\ UNCHANGED <<store, row, col>>
    /\ UNCHANGED <<memory, buffer, request, hasRequest, stats, calls, history>>

Finish ==
    /\ running /\ AtEnd
    /\ LET elems == request.length * request.rows
       IN  stats' = [bytes |-> stats.bytes + elems * DramWordBytes,
                     transfers |-> stats.transfers + 1,
                     cycles |-> stats.cycles + elems]
    /\ hasRequest' = FALSE
    /\ state' = "DONE" /\ error' = "NONE"
    /\ running' = FALSE
    /\ UNCHANGED <<store, memory, buffer, request, row, col, calls, history>>

Reset ==
    /\ Call
    /\ request' = NoRequest /\ hasRequest' = FALSE
    /\ state' = "IDLE" /\ error' = "NONE" /\ stats' = ZeroStats
    /\ UNCHANGED <<store, memory, buffer, row, col, running, history>>

Next ==
    \/ \E m \in Memories \cup {Null} : BindMemory(m)
    \/ \E b \in Buffers \cup {Null} : BindBuffer(b)
    \/ \E req \in Requests : Submit(req)
    \/ RunSync \/ MoveWord \/ Finish \/ Reset

Spec == Init /\ [][Next]_vars
-----------------------------------------------------------------------------
TypeOK ==
    /\ \A s \in Memories \cup Buffers : DOMAIN store[s] = Words(s)
    /\ memory \in Memories \cup {Null} /\ buffer \in Buffers \cup {Null}
    /\ request \in Requests \cup {NoRequest} /\ hasRequest \in BOOLEAN
    /\ state \in States /\ error \in Errors
    /\ stats \in [bytes : Nat, transfers : Nat, cycles : Nat]
    /\ row \in Nat /\ col \in Nat /\ running \in BOOLEAN
    /\ running => /\ row <= request.rows /\ col < request.length
    /\ calls \in 0..MaxCalls

\* A transfer that reports DONE has left exactly the rectangle of its request
\* in the destination and touched nothing else, rows that overlap included
\* (run_sync, dma.cpp:118-166).
DoneMovesRectangle ==
    [][ Finish =>
          store = [atRun EXCEPT ![Target] = Transferred(request, atRun[Source], atRun[Target])]
      ]_vars

\* A request that was accepted and is run with the storage it was accepted
\* for never stops half way (submit, dma.cpp:73-102; run_sync, dma.cpp:125-146).
AcceptedNeverFails ==
    [][ running /\ <<memory, buffer>> = atSubmit => state' # "ERROR" ]_vars

\* Words move only for a request that is still pending: one that was
\* cancelled by a second submit, by a null binding or by a reset, or that
\* failed, is never run afterwards, although the engine keeps it
\* (has_request_ stays set, dma.cpp:53-58,112).
OnlyPendingMoves ==
    [][ store' # store => state = "BUSY" /\ error = "NONE" /\ hasRequest ]_vars
=============================================================================
