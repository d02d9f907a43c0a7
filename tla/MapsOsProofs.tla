---------------------------- MODULE MapsOsProofs ----------------------------
(***************************************************************************)
(* Proofs about the trap path of maps-os, for every memory, program and    *)
(* set of descriptors: dispatch gets the call its caller made, the call    *)
(* returns to where it was made, and a submit that returns 0 has delivered *)
(* the product.                                                            *)
(***************************************************************************)
EXTENDS MapsOs, GemmOpsProofs, SequenceTheorems

\* Labels between a call of the runtime and its return.
Inside == {"dispatch", "npu_start", "npu_poll", "trap_return"}

Shape ==
    /\ DOMAIN regs = {"ra", "sp", "a0", "a1", "a2", "a3", "a7"}
    /\ DOMAIN csr = {"mtvec", "mepc"}
    /\ DOMAIN npu = {"desc", "state", "error", "perf"}
    /\ regs.sp \in Int /\ asked.sp \in Int
    /\ asked.from \in {"user", "user_exit"}

\* The trap vector is set from crt0 to machine_exit, and a trap came from an
\* ecall of the runtime.
Vector ==
    /\ pc \notin {"_start", "machine_ecall", "machine_loop"} => csr.mtvec
    /\ pc = "machine_ecall" => ~csr.mtvec
    /\ pc \in Inside \cup {"trap_vector"} => csr.mepc = "os_sys"

\* The registers of the caller, until trap.S has them.
CallerRegisters ==
    pc \in {"os_ecall", "trap_vector"} =>
        /\ regs.a7 = asked.number /\ regs.a0 = asked.arg0
        /\ asked.number = OS_SYSCALL_WRITE => regs.a1 = asked.arg1
        /\ regs.ra = asked.from /\ regs.sp = asked.sp

\* The frame trap.S has made, until it is given back.
Frame ==
    pc \in Inside => saved = asked.from /\ regs.sp = asked.sp - 16

\* The arguments of dispatch and of the driver it calls.
Arguments ==
    pc \in {"dispatch", "npu_start", "npu_poll"} =>
        /\ regs.ra = "trap_return"
        /\ regs.a0 = asked.number /\ regs.a1 = asked.arg0
        /\ asked.number = OS_SYSCALL_WRITE => regs.a2 = asked.arg1
        /\ pc # "dispatch" => asked.number = OS_SYSCALL_NPU_SUBMIT

\* What has become of a0, ra and sp when the call returns.
Returned ==
    /\ pc \in {"trap_return", "os_sys"} =>
        /\ asked.number = OS_SYSCALL_EXIT => regs.a0 = asked.arg0
        /\ asked.number \notin 0..2 => regs.a0 = 0 - 1
    /\ pc = "os_sys" => regs.ra = asked.from /\ regs.sp = asked.sp

\* The product of the descriptor the caller passed is in C.
Delivered ==
    LET d == LoadFromMemory(asked.mem, asked.arg0)
    IN  Validate(d) /\ (Disjoint(d) => mem = Multiply(asked.mem, d))

\* Where the memory is the caller's still, and where it is the product.
NpuProgress ==
    /\ pc \in {"os_ecall", "trap_vector", "dispatch", "npu_start"} => mem = asked.mem
    /\ pc = "npu_start" => descAddr = asked.arg0
    /\ pc = "npu_poll" => npu.state = "DONE" /\ Delivered
    /\ pc \in {"trap_return", "os_sys"} /\ asked.number = OS_SYSCALL_NPU_SUBMIT =>
           IF regs.a0 = 0 THEN Delivered ELSE mem = asked.mem

IInv ==
    /\ Shape /\ Vector /\ CallerRegisters /\ Frame /\ Arguments /\ Returned
    /\ NpuProgress
-----------------------------------------------------------------------------
\* The device answers DONE only for the descriptor it was given, which is then
\* valid and in current_desc_.
LEMMA DoneIsOfSubmitted ==
    ASSUME NEW n, DOMAIN n = {"desc", "state", "error", "perf"}, NEW d,
           Submitted(n, d).state # "ERROR",
           Ran(Submitted(n, d), TRUE).state = "DONE"
    PROVE  Validate(d) /\ Ran(Submitted(n, d), TRUE).desc = d
<1>1. Validate(d)
  BY DEF Submitted, Failed
<1>2. /\ Submitted(n, d).desc = d
      /\ DOMAIN Submitted(n, d) = {"desc", "state", "error", "perf"}
  BY <1>1 DEF Submitted
<1>3. \A why : Failed(Submitted(n, d), why).state = "ERROR"
  BY <1>2 DEF Failed
<1>4. Ran(Submitted(n, d), TRUE).desc = d
  BY <1>2, <1>3 DEF Ran
<1> QED
  BY <1>1, <1>4

\* Submit and run keep the registers of the controller.
LEMMA NpuShape ==
    ASSUME NEW n, DOMAIN n = {"desc", "state", "error", "perf"}, NEW d
    PROVE  /\ DOMAIN Submitted(n, d) = {"desc", "state", "error", "perf"}
           /\ DOMAIN Ran(n, TRUE) = {"desc", "state", "error", "perf"}
BY DEF Submitted, Ran, Failed

\* A call of the runtime starts with the caller's registers.
LEMMA CallStarts ==
    ASSUME IInv, NEW number, NEW arg0, NEW arg1, NEW from \in {"user", "user_exit"},
           UserCall, OsEcall(number, arg0, arg1, from)
    PROVE  IInv'
<1> USE DEF IInv, UserCall, At, OsEcall, Inside
<1>1. Shape'
  BY DEF Shape
<1>2. Vector'
  BY DEF Vector
<1>3. CallerRegisters'
  BY DEF CallerRegisters, Shape
<1>4. (Frame /\ Arguments /\ Returned)'
  BY DEF Frame, Arguments, Returned
<1>5. NpuProgress'
  BY DEF NpuProgress
<1> QED
  BY <1>1, <1>2, <1>3, <1>4, <1>5

\* A handler's return from dispatch, or from the driver, with the value the
\* call is to get.
LEMMA HandlerReturns ==
    ASSUME IInv, pc \in {"dispatch", "npu_poll"}, NEW value, Answer(value),
           UNCHANGED <<csr, saved, mem, npu, asked>>,
           asked.number = OS_SYSCALL_EXIT => value = asked.arg0,
           asked.number \notin 0..2 => value = 0 - 1,
           asked.number = OS_SYSCALL_NPU_SUBMIT =>
               IF value = 0 THEN Delivered ELSE mem = asked.mem
    PROVE  IInv'
<1> USE DEF IInv, Answer, Inside
<1>1. pc' = "trap_return" /\ regs' = [regs EXCEPT !.a0 = value]
  BY DEF Arguments
<1>2. Shape'
  BY <1>1 DEF Shape
<1>3. (Vector /\ CallerRegisters)'
  BY <1>1 DEF Vector, CallerRegisters
<1>4. (Frame /\ Arguments /\ Returned)'
  BY <1>1 DEF Frame, Arguments, Returned, Shape
<1>5. Delivered' <=> Delivered
  BY DEF Delivered
<1>6. NpuProgress'
  BY <1>1, <1>5 DEF NpuProgress, Shape
<1> QED
  BY <1>2, <1>3, <1>4, <1>6

LEMMA InitIInv == Init => IInv
BY DEF Init, IInv, Shape, Vector, CallerRegisters, Frame, Arguments, Returned,
       NpuProgress, Inside, ResetNpu

\* Steps outside a system call: boot, the kernel around the user program, and
\* the machine's system call.
LEMMA OutsideIInv ==
    ASSUME IInv,
           \/ Boot \/ KmainEnter \/ MachineExit \/ MachineSyscall
           \/ \E code \in Codes : KmainReturn(code)
    PROVE  IInv'
<1> USE DEF IInv, At, Inside
<1>1. ASSUME Boot \/ KmainEnter PROVE IInv'
  <2> USE <1>1 DEF Boot, KmainEnter
  <2>1. (Shape /\ Vector)'
    BY DEF Shape, Vector
  <2>2. (CallerRegisters /\ Frame /\ Arguments /\ Returned /\ NpuProgress)'
    BY DEF CallerRegisters, Frame, Arguments, Returned, NpuProgress
  <2> QED BY <2>1, <2>2
<1>2. ASSUME NEW code \in Codes, MachineExit \/ KmainReturn(code) PROVE IInv'
  <2> USE <1>2 DEF MachineExit, KmainReturn
  <2>1. (Shape /\ Vector)'
    BY DEF Shape, Vector
  <2>2. (CallerRegisters /\ Frame /\ Arguments /\ Returned /\ NpuProgress)'
    BY DEF CallerRegisters, Frame, Arguments, Returned, NpuProgress
  <2> QED BY <2>1, <2>2
<1>3. ASSUME MachineExit PROVE IInv'
  <2> USE <1>3 DEF MachineExit
  <2>1. (Shape /\ Vector)'
    BY DEF Shape, Vector
  <2>2. (CallerRegisters /\ Frame /\ Arguments /\ Returned /\ NpuProgress)'
    BY DEF CallerRegisters, Frame, Arguments, Returned, NpuProgress
  <2> QED BY <2>1, <2>2
<1>4. ASSUME MachineSyscall PROVE IInv'
  <2>1. pc = "machine_ecall" /\ pc' = "machine_loop"
    BY <1>4 DEF MachineSyscall, Vector, AfterEcall
  <2>2. /\ regs' = regs \/ \E v : regs' = [regs EXCEPT !.a0 = v]
        /\ UNCHANGED <<csr, npu, asked>>
    BY <1>4 DEF MachineSyscall
  <2>3. (Shape /\ Vector)'
    BY <2>1, <2>2 DEF Shape, Vector
  <2>4. (CallerRegisters /\ Frame /\ Arguments /\ Returned /\ NpuProgress)'
    BY <2>1 DEF CallerRegisters, Frame, Arguments, Returned, NpuProgress
  <2> QED BY <2>3, <2>4
<1> QED
  BY <1>1, <1>2, <1>3, <1>4

\* Calls of the runtime.
LEMMA UserIInv ==
    ASSUME IInv,
           \/ \E code \in Codes : UserExit(code)
           \/ \E w \in Writes : UserWrite(w[1], w[2])
           \/ \E ptr \in Texts : UserWriteCstr(ptr)
           \/ \E d \in Gemms : UserNpuGemm(d)
           \/ \E ptr \in Pointers : OsSysNpuSubmit(ptr)
           \/ \E number \in Unknowns : OsSysUnknown(number)
    PROVE  IInv'
<1>1. ASSUME NEW code \in Codes, UserExit(code) PROVE IInv'
  BY <1>1, CallStarts DEF UserExit
<1>2. ASSUME NEW w \in Writes, UserWrite(w[1], w[2]) PROVE IInv'
  BY <1>2, CallStarts DEF UserWrite
<1>3. ASSUME NEW ptr \in Texts, UserWriteCstr(ptr) PROVE IInv'
  <2>1. CASE ptr = 0 \/ Terminators(ptr) = {}
    <3>1. UNCHANGED <<pc, regs, csr, saved, npu, descAddr, asked, mem>>
      BY <1>3, <2>1 DEF UserWriteCstr
    <3>2. (Shape /\ Vector /\ CallerRegisters /\ Frame /\ Arguments /\ Returned)'
      BY <3>1 DEF IInv, Shape, Vector, CallerRegisters, Frame, Arguments, Returned
    <3>3. NpuProgress'
      BY <3>1 DEF IInv, NpuProgress, Delivered
    <3> QED BY <3>2, <3>3 DEF IInv
  <2>2. CASE ~(ptr = 0 \/ Terminators(ptr) = {})
    <3>1. PICK len : OsEcall(OS_SYSCALL_WRITE, ptr, len, "user")
      BY <1>3, <2>2 DEF UserWriteCstr
    <3>2. UserCall
      BY <1>3 DEF UserWriteCstr
    <3> QED BY <3>1, <3>2, CallStarts
  <2> QED BY <2>1, <2>2
<1>4. ASSUME NEW d \in Gemms, UserNpuGemm(d) PROVE IInv'
  BY <1>4, CallStarts DEF UserNpuGemm
<1>5. ASSUME NEW ptr \in Pointers, OsSysNpuSubmit(ptr) PROVE IInv'
  BY <1>5, CallStarts DEF OsSysNpuSubmit
<1>6. ASSUME NEW number \in Unknowns, OsSysUnknown(number) PROVE IInv'
  BY <1>6, CallStarts DEF OsSysUnknown
<1> QED
  BY <1>1, <1>2, <1>3, <1>4, <1>5, <1>6

\* The path of a system call from ecall to dispatch.
LEMMA TrapIInv ==
    ASSUME IInv, Ecall \/ TrapEntry
    PROVE  IInv'
<1> USE DEF IInv, Inside
<1>1. CASE Ecall
  <2>1. pc = "os_ecall" /\ pc' = "trap_vector" /\ csr' = [csr EXCEPT !.mepc = "os_sys"]
    BY <1>1 DEF Ecall, Vector, AfterEcall
  <2>2. UNCHANGED <<regs, saved, mem, npu, descAddr, asked>>
    BY <1>1 DEF Ecall
  <2>3. (Shape /\ Vector)'
    BY <2>1, <2>2 DEF Shape, Vector
  <2>4. (CallerRegisters /\ Frame /\ Arguments /\ Returned)'
    BY <2>1, <2>2 DEF CallerRegisters, Frame, Arguments, Returned
  <2>5. NpuProgress'
    BY <2>1, <2>2 DEF NpuProgress
  <2> QED BY <2>3, <2>4, <2>5
<1>2. CASE TrapEntry
  <2> USE <1>2 DEF TrapEntry, At
  <2>1. /\ DOMAIN regs' = {"ra", "sp", "a0", "a1", "a2", "a3", "a7"}
        /\ regs'.a0 = regs.a7 /\ regs'.a1 = regs.a0 /\ regs'.a2 = regs.a1
        /\ regs'.sp = regs.sp - 16 /\ regs'.ra = "trap_return"
    BY DEF Marshalled, Shape
  <2>2. (Shape /\ Vector)'
    BY <2>1 DEF Shape, Vector
  <2>3. (CallerRegisters /\ Frame /\ Arguments /\ Returned)'
    BY <2>1 DEF CallerRegisters, Frame, Arguments, Returned
  <2>4. NpuProgress'
    BY DEF NpuProgress
  <2> QED BY <2>2, <2>3, <2>4
<1> QED
  BY <1>1, <1>2

\* What dispatch does with each number.
LEMMA DispatchIInv ==
    ASSUME IInv,
           DispatchExit \/ DispatchWrite \/ DispatchNpuSubmit \/ DispatchUnknown
    PROVE  IInv'
<1> USE DEF At, OS_SYSCALL_EXIT, OS_SYSCALL_WRITE, OS_SYSCALL_NPU_SUBMIT
<1>1. CASE DispatchExit
  BY <1>1, HandlerReturns DEF DispatchExit, IInv, Arguments
<1>2. CASE DispatchWrite
  <2>1. pc = "dispatch" /\ asked.number = OS_SYSCALL_WRITE
    BY <1>2 DEF DispatchWrite, IInv, Arguments
  <2>2. UNCHANGED <<csr, saved, mem, npu, descAddr, asked>>
    BY <1>2 DEF DispatchWrite
  <2>3. CASE Answer(regs.a2)
    BY <2>1, <2>2, <2>3, HandlerReturns
  <2>4. CASE UNCHANGED <<pc, regs>>
    <3>1. (Shape /\ Vector /\ CallerRegisters /\ Frame /\ Arguments /\ Returned)'
      BY <2>2, <2>4 DEF IInv, Shape, Vector, CallerRegisters, Frame, Arguments, Returned
    <3>2. NpuProgress'
      BY <2>1, <2>2, <2>4 DEF IInv, NpuProgress
    <3> QED BY <3>1, <3>2 DEF IInv
  <2> QED BY <1>2, <2>3, <2>4 DEF DispatchWrite
<1>3. CASE DispatchNpuSubmit
  <2>1. pc = "dispatch" /\ asked.number = OS_SYSCALL_NPU_SUBMIT /\ mem = asked.mem
    BY <1>3 DEF DispatchNpuSubmit, IInv, Arguments, NpuProgress
  <2>2. UNCHANGED <<csr, saved, mem, npu, asked>>
    BY <1>3 DEF DispatchNpuSubmit
  <2>3. CASE regs.a1 = 0
    BY <1>3, <2>1, <2>2, <2>3, HandlerReturns DEF DispatchNpuSubmit
  <2>4. CASE regs.a1 # 0
    <3>1. pc' = "npu_start" /\ regs' = regs /\ descAddr' = asked.arg0
      BY <1>3, <2>1, <2>4 DEF DispatchNpuSubmit, DescAddrFor, IInv, Arguments
    <3>2. (Shape /\ Vector /\ CallerRegisters)'
      BY <2>1, <2>2, <3>1 DEF IInv, Shape, Vector, CallerRegisters, Inside
    <3>3. (Frame /\ Arguments /\ Returned)'
      BY <2>1, <2>2, <3>1 DEF IInv, Frame, Arguments, Returned, Inside
    <3>4. NpuProgress'
      BY <2>1, <2>2, <3>1 DEF NpuProgress
    <3> QED BY <3>2, <3>3, <3>4 DEF IInv
  <2> QED BY <2>3, <2>4
<1>4. CASE DispatchUnknown
  <2>1. asked.number \notin {0, 1, 2} /\ pc = "dispatch"
    BY <1>4 DEF DispatchUnknown, IInv, Arguments
  <2> QED BY <1>4, <2>1, HandlerReturns DEF DispatchUnknown
<1> QED
  BY <1>1, <1>2, <1>3, <1>4

\* The driver: a START that is acknowledged has put the product in C, and the
\* poll after it answers 0.
LEMMA DriverIInv ==
    ASSUME IInv, NpuStart \/ NpuPoll
    PROVE  IInv'
<1> USE DEF IInv, At, OS_SYSCALL_EXIT, OS_SYSCALL_WRITE, OS_SYSCALL_NPU_SUBMIT
<1>1. CASE NpuStart
  <2> DEFINE d == LoadFromMemory(mem, descAddr)
             n == Submitted(npu, d)
  <2>1. /\ pc = "npu_start" /\ pc' \in {"npu_start", "npu_poll"}
        /\ npu' = IF n.state = "ERROR" THEN n ELSE Ran(n, TRUE)
        /\ npu'.state # "DONE" => mem' = mem /\ pc' = pc
        /\ npu'.state = "DONE" => MayBecome(mem, npu'.desc, mem') /\ pc' = "npu_poll"
        /\ UNCHANGED <<regs, csr, saved, descAddr, asked>>
    BY <1>1 DEF NpuStart, Acknowledged
  <2>2. asked.arg0 = descAddr /\ asked.mem = mem
    BY <2>1 DEF NpuProgress
  <2>3. DOMAIN npu' = {"desc", "state", "error", "perf"}
    <3> HIDE DEF d
    <3> QED BY <2>1, NpuShape DEF Shape
  <2>4. npu'.state = "DONE" => Validate(d) /\ npu'.desc = d
    <3> HIDE DEF d
    <3> QED BY <2>1, DoneIsOfSubmitted DEF Shape
  <2>5. npu'.state = "DONE" => Delivered'
    BY <2>1, <2>2, <2>4 DEF Delivered, MayBecome
  <2> HIDE DEF n
  <2>6. (Shape /\ Vector /\ CallerRegisters)'
    BY <2>1, <2>3 DEF Shape, Vector, CallerRegisters, Inside
  <2>7. (Frame /\ Arguments /\ Returned)'
    BY <2>1 DEF Frame, Arguments, Returned, Inside
  <2>8. NpuProgress'
    BY <2>1, <2>2, <2>5 DEF NpuProgress
  <2> QED BY <2>6, <2>7, <2>8
<1>2. CASE NpuPoll
  <2>1. Answer(0) /\ pc = "npu_poll"
    BY <1>2 DEF NpuPoll, NpuProgress, StateCode
  <2>2. asked.number = 2 /\ Delivered
    BY <2>1 DEF Arguments, NpuProgress
  <2> QED BY <1>2, <2>1, <2>2, HandlerReturns DEF NpuPoll
<1> QED
  BY <1>1, <1>2

\* The way back to the caller.
LEMMA ReturnIInv ==
    ASSUME IInv, TrapReturn \/ OsSysReturn
    PROVE  IInv'
<1> USE DEF IInv, At, Inside
<1>1. Delivered' <=> Delivered
  BY DEF TrapReturn, OsSysReturn, Delivered
<1>2. CASE TrapReturn
  <2>1. /\ pc = "trap_return" /\ pc' = "os_sys"
        /\ DOMAIN regs' = {"ra", "sp", "a0", "a1", "a2", "a3", "a7"}
        /\ regs'.a0 = regs.a0 /\ regs'.ra = asked.from /\ regs'.sp = asked.sp
        /\ UNCHANGED <<csr, saved, mem, npu, descAddr, asked>>
    BY <1>2 DEF TrapReturn, Restored, Shape, Vector, Frame
  <2>2. (Shape /\ Vector /\ CallerRegisters /\ Frame /\ Arguments /\ Returned)'
    BY <2>1 DEF Shape, Vector, CallerRegisters, Frame, Arguments, Returned
  <2>3. NpuProgress'
    BY <1>1, <2>1 DEF NpuProgress
  <2> QED BY <2>2, <2>3
<1>3. CASE OsSysReturn
  <2>1. /\ pc = "os_sys" /\ pc' \in {"user", "user_exit"}
        /\ UNCHANGED <<regs, csr, saved, mem, npu, descAddr, asked>>
    BY <1>3 DEF OsSysReturn, Returned, Shape
  <2>2. (Shape /\ Vector /\ CallerRegisters /\ Frame /\ Arguments /\ Returned)'
    BY <2>1 DEF Shape, Vector, CallerRegisters, Frame, Arguments, Returned
  <2>3. NpuProgress'
    BY <2>1 DEF NpuProgress
  <2> QED BY <2>2, <2>3
<1> QED
  BY <1>2, <1>3

LEMMA StutterIInv ==
    ASSUME IInv, UNCHANGED vars
    PROVE  IInv'
<1>1. (Shape /\ Vector /\ CallerRegisters /\ Frame /\ Arguments /\ Returned)'
  BY DEF vars, IInv, Shape, Vector, CallerRegisters, Frame, Arguments, Returned
<1>2. NpuProgress'
  BY DEF vars, IInv, NpuProgress, Delivered
<1> QED BY <1>1, <1>2 DEF IInv

LEMMA NextIInv == IInv /\ [Next]_vars => IInv'
<1> SUFFICES ASSUME IInv, [Next]_vars PROVE IInv'
  OBVIOUS
<1>1. CASE Kernel
  BY <1>1, OutsideIInv, TrapIInv, DispatchIInv, DriverIInv, ReturnIInv DEF Kernel
<1>2. CASE User
  BY <1>2, OutsideIInv, UserIInv DEF User
<1>3. CASE Stopped \/ UNCHANGED vars
  BY <1>3, StutterIInv DEF Stopped
<1> QED
  BY <1>1, <1>2, <1>3 DEF Next

LEMMA Inductive == Spec => []IInv
BY InitIInv, NextIInv, PTL DEF Spec
-----------------------------------------------------------------------------
\* os_syscall_dispatch gets the number and the arguments its caller put in a7,
\* a0 and a1, although trap.S moves them through one another (trap.S:7-10).
THEOREM ArgumentsArrive == Spec => []DispatchGetsCall
<1>1. IInv => DispatchGetsCall
  BY DEF IInv, Arguments, DispatchGetsCall, At
<1> QED
  BY <1>1, Inductive, PTL

\* The instruction after ecall finds ra, sp and a0 as its caller expects them,
\* although trap.S calls a C function in between (trap.S:4-14).
THEOREM CallReturns == Spec => []ReturnsToCaller
<1>1. IInv => ReturnsToCaller
  BY DEF IInv, Returned, ReturnsToCaller, At
<1> QED
  BY <1>1, Inductive, PTL

\* A submit that returns 0 has left the product in C and changed no other
\* word; one that returns anything else has changed nothing (npu.c:38-56).
THEOREM ZeroMeansDelivered == Spec => []SubmitDelivers
<1>1. IInv => SubmitDelivers
  BY DEF IInv, NpuProgress, Delivered, SubmitDelivers, At
<1> QED
  BY <1>1, Inductive, PTL
-----------------------------------------------------------------------------
(* The way out. What follows needs the texts to be sequences and the       *)
(* lengths numbers: the last thing on the console is compared.             *)

EndsWith(s, t) == SubSeq(s, Len(s) - Len(t) + 1, Len(s)) = t

ConsoleText == \E S : console \in Seq(S)

\* What console_write is asked for.
WriteArguments ==
    pc \in {"os_ecall", "trap_vector", "dispatch"} /\ asked.number = OS_SYSCALL_WRITE =>
        asked.arg0 \in Nat /\ asked.arg1 \in Nat

\* From the return of user_main to the ecall of machine_exit.
Exiting ==
    /\ pc \in {"machine_exit", "machine_ecall"} =>
           regs.a0 = rc /\ EndsWith(console, Verdict(rc))
    /\ pc = "machine_ecall" => regs.a7 = MAPS_SYSCALL_EXIT

HInv == IInv /\ ConsoleText /\ WriteArguments /\ Exiting /\ HaltReportsResult

LEMMA SuffixOfConcat ==
    ASSUME NEW S, NEW s \in Seq(S), NEW T, NEW t \in Seq(T)
    PROVE  EndsWith(s \o t, t) /\ s \o t \in Seq(S \cup T)
<1> DEFINE U == S \cup T
<1>1. s \in Seq(U) /\ t \in Seq(U)
  BY Z3
<1> HIDE DEF U
<1>2. s \o t \in Seq(U) /\ Len(s \o t) = Len(s) + Len(t) /\ Len(s) \in Nat /\ Len(t) \in Nat
  BY <1>1, ConcatProperties
<1>3. CASE t = <<>>
  <2>1. Len(t) = 0
    BY <1>3
  <2> QED BY <1>2, <1>3, <2>1, SubSeqEmpty DEF EndsWith, U
<1>4. CASE t # <<>>
  <2>1. Len(t) > 0
    BY <1>1, <1>2, <1>4, EmptySeq
  <2>2. SubSeq(s \o t, Len(s) + 1, Len(s) + Len(t)) = SubSeq(t, 1, Len(t))
    BY <1>1, <1>2, <2>1, SubSeqOfConcat2
  <2>3. SubSeq(t, 1, Len(t)) = t
    BY <1>1, SubSeqFull
  <2> QED BY <1>2, <2>2, <2>3 DEF EndsWith, U
<1> QED
  BY <1>3, <1>4

\* What can be read at ptr is a text.
LEMMA ReadPrefixText ==
    ASSUME NEW ptr \in Nat, NEW len \in Nat
    PROVE  \E S : ReadPrefix(ptr, len) \in Seq(S)
<1> DEFINE n == IF ptr + len <= DramBytes THEN len
                ELSE IF ptr < DramBytes THEN DramBytes - ptr ELSE 0
           f(i) == Byte(ptr + i - 1)
           S == { f(i) : i \in 1..n }
<1>1. DramBytes \in Nat
  BY MemoryAssumption DEF DramBytes, WordBytes
<1>2. n \in Nat
  BY <1>1
<1>3. ReadPrefix(ptr, len) = [i \in 1..n |-> f(i)]
  BY DEF ReadPrefix
<1> HIDE DEF n, f
<1>4. [i \in 1..n |-> f(i)] \in [1..n -> S]
  OBVIOUS
<1> HIDE DEF S
<1>5. [i \in 1..n |-> f(i)] \in Seq(S)
  BY <1>2, <1>4
<1> QED
  BY <1>3, <1>5

\* The search of user_write_cstr ends at the first zero byte.
LEMMA FirstTerminator ==
    ASSUME NEW ptr \in Nat, Terminators(ptr) # {}
    PROVE  (CHOOSE l \in Terminators(ptr) : \A t \in Terminators(ptr) : l <= t) \in Nat
<1>1. Terminators(ptr) \subseteq Nat
  BY DEF Terminators
<1> DEFINE R == { p \in Nat \X Nat : p[1] < p[2] }
<1>2. IsWellFoundedOn(R, Nat)
  BY NatLessThanWellFounded DEF OpToRel
<1>3. \A a, b \in Nat : <<a, b>> \in R <=> a < b
  OBVIOUS
<1> HIDE DEF R
<1>4. \E l \in Terminators(ptr) : \A t \in Terminators(ptr) : ~(<<t, l>> \in R)
  BY <1>1, <1>2, WFMin
<1>5. \E l \in Terminators(ptr) : \A t \in Terminators(ptr) : l <= t
  <2>1. PICK l \in Terminators(ptr) : \A t \in Terminators(ptr) : ~(<<t, l>> \in R)
    BY <1>4
  <2>2. \A t \in Terminators(ptr) : ~(t < l)
    BY <1>1, <1>3, <2>1
  <2>3. \A t \in Terminators(ptr) : l <= t
    BY <1>1, <2>2
  <2> QED BY <2>3
<1> QED
  BY <1>1, <1>5

\* A step that leaves the console and rc alone, and is not on the way out.
LEMMA QuietStep ==
    ASSUME HInv, IInv', UNCHANGED <<console, rc>>, cpu = "running", cpu' # "halted",
           pc' \notin {"machine_exit", "machine_ecall"},
           WriteArguments'
    PROVE  HInv'
BY DEF HInv, ConsoleText, Exiting, HaltReportsResult

\* A step that adds a text to the console before the way out.
LEMMA PrintStep ==
    ASSUME HInv, IInv', NEW T, NEW t \in Seq(T), console' = console \o t,
           cpu' # "halted", pc' \notin {"machine_exit", "machine_ecall"},
           pc' \notin {"os_ecall", "trap_vector"},
           pc' = "dispatch" => pc = "dispatch" /\ asked' = asked
    PROVE  HInv'
<1>1. ConsoleText'
  BY SuffixOfConcat DEF HInv, ConsoleText
<1> QED
  BY <1>1 DEF HInv, WriteArguments, Exiting, HaltReportsResult

LEMMA InitHInv == Init => HInv
<1> SUFFICES ASSUME Init PROVE HInv
  OBVIOUS
<1>1. ConsoleText
  BY DEF Init, ConsoleText
<1> QED
  BY <1>1, InitIInv DEF Init, HInv, WriteArguments, Exiting, HaltReportsResult

LEMMA UserHInv ==
    ASSUME HInv, IInv',
           \/ \E code \in Codes : UserExit(code)
           \/ \E w \in Writes : UserWrite(w[1], w[2])
           \/ \E ptr \in Texts : UserWriteCstr(ptr)
           \/ \E d \in Gemms : UserNpuGemm(d)
           \/ \E ptr \in Pointers : OsSysNpuSubmit(ptr)
           \/ \E number \in Unknowns : OsSysUnknown(number)
    PROVE  HInv'
<1> USE DEF OS_SYSCALL_EXIT, OS_SYSCALL_WRITE, OS_SYSCALL_NPU_SUBMIT
<1>0. ASSUME NEW number, NEW arg0, NEW arg1, NEW from, UserCall,
             OsEcall(number, arg0, arg1, from),
             number = OS_SYSCALL_WRITE => arg0 \in Nat /\ arg1 \in Nat
      PROVE  HInv'
  <2>1. WriteArguments'
    BY <1>0 DEF OsEcall, WriteArguments
  <2>2. /\ UNCHANGED <<console, rc, cpu>> /\ cpu = "running" /\ pc' = "os_ecall"
    BY <1>0 DEF OsEcall, UserCall, At
  <2> QED BY <2>1, <2>2, QuietStep
<1>1. ASSUME NEW code \in Codes, UserExit(code) PROVE HInv'
  BY <1>0, <1>1 DEF UserExit
<1>2. ASSUME NEW w \in Writes, UserWrite(w[1], w[2]) PROVE HInv'
  <2>1. w[1] \in Nat /\ w[2] \in Nat
    BY MapsOsAssumption
  <2> QED BY <1>0, <1>2, <2>1 DEF UserWrite
<1>3. ASSUME NEW ptr \in Texts, UserWriteCstr(ptr) PROVE HInv'
  <2>0. ptr \in Nat /\ UserCall
    BY <1>3, MapsOsAssumption DEF UserWriteCstr
  <2>1. CASE ptr = 0 \/ Terminators(ptr) = {}
    <3>1. /\ UNCHANGED <<pc, console, rc, asked>> /\ pc = "user"
          /\ cpu = "running" /\ cpu' # "halted"
      BY <1>3, <2>1 DEF UserWriteCstr, UserCall, At
    <3>2. WriteArguments'
      BY <3>1 DEF WriteArguments
    <3> QED BY <3>1, <3>2, QuietStep
  <2>2. CASE ~(ptr = 0 \/ Terminators(ptr) = {})
    <3>1. PICK len \in Nat : OsEcall(OS_SYSCALL_WRITE, ptr, len, "user")
      BY <1>3, <2>0, <2>2, FirstTerminator DEF UserWriteCstr
    <3> QED BY <1>0, <2>0, <3>1
  <2> QED BY <2>1, <2>2
<1>4. ASSUME NEW d \in Gemms, UserNpuGemm(d) PROVE HInv'
  BY <1>0, <1>4 DEF UserNpuGemm
<1>5. ASSUME NEW ptr \in Pointers, OsSysNpuSubmit(ptr) PROVE HInv'
  BY <1>0, <1>5 DEF OsSysNpuSubmit
<1>6. ASSUME NEW number \in Unknowns, OsSysUnknown(number) PROVE HInv'
  BY <1>0, <1>6, MapsOsAssumption DEF OsSysUnknown
<1> QED
  BY <1>1, <1>2, <1>3, <1>4, <1>5, <1>6

\* The kernel's steps that print.
LEMMA PrintHInv ==
    ASSUME HInv, IInv', KmainEnter \/ DispatchWrite
    PROVE  HInv'
<1>1. CASE KmainEnter
  BY <1>1, PrintStep, MapsOsAssumption DEF KmainEnter, At
<1>2. CASE DispatchWrite
  <2> DEFINE text == IF regs.a1 = 0 THEN <<>> ELSE ReadPrefix(regs.a1, regs.a2)
  <2>1. pc = "dispatch" /\ asked.number = OS_SYSCALL_WRITE
    BY <1>2 DEF DispatchWrite, At, HInv, IInv, Arguments
  <2>2. regs.a1 \in Nat /\ regs.a2 \in Nat
    BY <2>1 DEF HInv, IInv, Arguments, WriteArguments
  <2>3. \E T : text \in Seq(T)
    <3>1. <<>> \in Seq({})
      OBVIOUS
    <3> QED BY <2>2, <3>1, ReadPrefixText
  <2>4. /\ console' = console \o text /\ cpu' # "halted" /\ asked' = asked
        /\ pc' \in {"dispatch", "trap_return"}
    BY <1>2, <2>1 DEF DispatchWrite, At, Answer, HInv, IInv, Arguments
  <2> HIDE DEF text
  <2> QED BY <2>1, <2>3, <2>4, PrintStep
<1> QED
  BY <1>1, <1>2

\* The kernel's other steps inside a system call, and boot.
LEMMA QuietHInv ==
    ASSUME HInv, IInv',
           \/ Boot \/ TrapEntry \/ DispatchExit \/ DispatchNpuSubmit \/ DispatchUnknown
           \/ NpuStart \/ NpuPoll \/ TrapReturn \/ OsSysReturn \/ Ecall
    PROVE  HInv'
<1>1. /\ UNCHANGED <<console, rc, asked>> /\ cpu = "running" /\ cpu' # "halted"
  BY DEF Boot, TrapEntry, DispatchExit, DispatchNpuSubmit, DispatchUnknown, NpuStart,
         NpuPoll, TrapReturn, OsSysReturn, Ecall, At
<1>2. CASE Ecall
  <2>1. pc = "os_ecall" /\ pc' = "trap_vector"
    BY <1>2 DEF Ecall, AfterEcall, HInv, IInv, Vector
  <2>2. WriteArguments'
    BY <1>1, <2>1 DEF HInv, WriteArguments
  <2> QED BY <1>1, <2>1, <2>2, QuietStep
<1>3. CASE TrapEntry
  <2>1. pc = "trap_vector" /\ pc' = "dispatch"
    BY <1>3 DEF TrapEntry, At
  <2>2. WriteArguments'
    BY <1>1, <2>1 DEF HInv, WriteArguments
  <2> QED BY <1>1, <2>1, <2>2, QuietStep
<1>4. CASE ~(Ecall \/ TrapEntry)
  <2>1. pc' \in {"kmain", "trap_return", "npu_start", "npu_poll", "os_sys", "user", "user_exit"}
    BY <1>4 DEF Boot, DispatchExit, DispatchNpuSubmit, DispatchUnknown, NpuStart, NpuPoll,
                TrapReturn, OsSysReturn, Answer, At, HInv, IInv, Arguments, Vector,
                Returned, Shape, Inside
  <2>2. WriteArguments'
    BY <2>1 DEF WriteArguments
  <2> QED BY <1>1, <2>1, <2>2, QuietStep
<1> QED
  BY <1>2, <1>3, <1>4

\* user_main returns, kmain prints the verdict, machine_exit halts.
LEMMA ExitHInv ==
    ASSUME HInv, IInv',
           \/ \E code \in Codes : KmainReturn(code)
           \/ MachineExit \/ MachineSyscall
    PROVE  HInv'
<1>1. ASSUME NEW code \in Codes, KmainReturn(code) PROVE HInv'
  <2> USE <1>1 DEF KmainReturn, At
  <2>1. Verdict(code) \in Seq(0..255)
    BY MapsOsAssumption DEF Verdict
  <2>2. ConsoleText' /\ EndsWith(console', Verdict(code))
    BY <2>1, SuffixOfConcat DEF HInv, ConsoleText
  <2>3. regs'.a0 = code
    BY DEF HInv, IInv, Shape
  <2> QED
    BY <2>2, <2>3 DEF HInv, WriteArguments, Exiting, HaltReportsResult
<1>2. CASE MachineExit
  <2>1. regs'.a7 = MAPS_SYSCALL_EXIT /\ regs'.a0 = regs.a0
    BY <1>2 DEF MachineExit, HInv, IInv, Shape
  <2> QED
    BY <1>2, <2>1 DEF MachineExit, At, HInv, ConsoleText, WriteArguments, Exiting,
                      HaltReportsResult
<1>3. CASE MachineSyscall
  <2>1. pc = "machine_ecall" /\ pc' = "machine_loop"
    BY <1>3 DEF MachineSyscall, HInv, IInv, Vector, AfterEcall
  <2>2. regs.a7 = MAPS_SYSCALL_EXIT
    BY <2>1 DEF HInv, Exiting
  <2>3. exitCode' = regs.a0 /\ UNCHANGED <<console, rc>>
    BY <1>3, <2>2 DEF MachineSyscall
  <2>4. HaltReportsResult'
    BY <2>1, <2>3 DEF HInv, Exiting, EndsWith, Verdict, HaltReportsResult
  <2> QED
    BY <2>1, <2>3, <2>4 DEF HInv, ConsoleText, WriteArguments, Exiting
<1> QED
  BY <1>1, <1>2, <1>3

LEMMA NextHInv == HInv /\ [Next]_vars => HInv'
<1> SUFFICES ASSUME HInv, [Next]_vars PROVE HInv'
  OBVIOUS
<1>0. IInv'
  BY NextIInv DEF HInv
<1>1. CASE Kernel
  BY <1>0, <1>1, PrintHInv, QuietHInv, ExitHInv DEF Kernel
<1>2. CASE User
  BY <1>0, <1>2, ExitHInv, UserHInv DEF User
<1>3. CASE Stopped \/ UNCHANGED vars
  BY <1>0, <1>3 DEF Stopped, vars, HInv, ConsoleText, WriteArguments, Exiting,
                    HaltReportsResult
<1> QED
  BY <1>1, <1>2, <1>3 DEF Next

\* A program that halts has given the host the value user_main returned and has
\* printed the verdict on it last (kmain.c, machine_syscall.c).
THEOREM HostLearnsResult == Spec => []HaltReportsResult
<1>1. HInv => HaltReportsResult
  BY DEF HInv
<1> QED
  BY <1>1, InitHInv, NextHInv, PTL DEF Spec
-----------------------------------------------------------------------------
(* The types. The words a user program leaves in memory are any integers,  *)
(* and the pointers it passes any addresses.                               *)

Args == {"a0", "a1", "a2", "a3", "a7"}

Callers == {"reset", "crt0", "user", "user_exit", "trap_return"}

RegsTyped(r) == r.ra \in Callers /\ \A a \in Args : r[a] \in Int

\* The stack is the caller's outside the trap path, and a pointer that is
\* submitted is an address.
Typed ==
    /\ TypeOK
    /\ asked.sp = 0
    /\ pc \notin Inside => regs.sp = 0
    /\ asked.number = OS_SYSCALL_NPU_SUBMIT => asked.arg0 \in Nat

\* A byte of the memory.
LEMMA ByteTyped ==
    ASSUME mem \in Memory, NEW a \in 0..(DramBytes - 1)
    PROVE  Byte(a) \in 0..255
<1>1. a \div 4 \in Addresses
  BY MemoryAssumption DEF DramBytes, WordBytes, Addresses
<1>2. mem[a \div 4] \in Int
  BY <1>1 DEF Memory
<1>3. 256 ^ (a % 4) \in Nat \ {0}
  <2>1. a % 4 = 0 \/ a % 4 = 1 \/ a % 4 = 2 \/ a % 4 = 3
    BY MemoryAssumption DEF DramBytes, WordBytes
  <2>2. 256 ^ 0 \in Nat \ {0} /\ 256 ^ 1 \in Nat \ {0} /\ 256 ^ 2 \in Nat \ {0} /\ 256 ^ 3 \in Nat \ {0}
    OBVIOUS
  <2>. QED BY <2>1, <2>2
<1>. DEFINE x == mem[a \div 4]
            y == 256 ^ (a % 4)
<1>4. x \in Int /\ y \in Nat \ {0} /\ Byte(a) = (x \div y) % 256
  BY <1>2, <1>3 DEF Byte
<1>. HIDE DEF x, y
<1>5. x \div y \in Int
  BY <1>4
<1>. QED BY <1>4, <1>5

\* What can be read at ptr is a text of bytes.
LEMMA ReadPrefixBytes ==
    ASSUME mem \in Memory, NEW ptr \in Nat, NEW len \in Nat
    PROVE  ReadPrefix(ptr, len) \in Seq(0..255)
<1>. DEFINE n == IF ptr + len <= DramBytes THEN len
                 ELSE IF ptr < DramBytes THEN DramBytes - ptr ELSE 0
<1>1. DramBytes \in Nat
  BY MemoryAssumption DEF DramBytes, WordBytes
<1>2. n \in Nat /\ (n = 0 \/ ptr + n <= DramBytes)
  BY <1>1
<1>3. ReadPrefix(ptr, len) = [i \in 1..n |-> Byte(ptr + i - 1)]
  BY DEF ReadPrefix
<1>. HIDE DEF n
<1>4. ASSUME NEW i \in 1..n PROVE Byte(ptr + i - 1) \in 0..255
  <2>1. ptr + i - 1 \in 0..(DramBytes - 1)
    BY <1>1, <1>2, <1>4
  <2>. QED BY <2>1, ByteTyped
<1>. DEFINE f(i) == Byte(ptr + i - 1)
            S == 0..255
<1>5. \A i \in 1..n : f(i) \in S
  BY <1>4
<1>. HIDE DEF f, S
<1>6. [i \in 1..n |-> f(i)] \in Seq(S)
  BY <1>2, <1>5
<1>. QED BY <1>3, <1>6 DEF f, S

LEMMA InitTyped == Init => Typed
<1>. SUFFICES ASSUME Init PROVE Typed
  OBVIOUS
<1>1. InitialMemory \in Memory /\ 0 \in 0..MaxCalls
  BY MapsOsAssumption
<1>2. <<>> \in Seq(0..255)
  OBVIOUS
<1>3. ResetNpu \in NpuType
  BY ResetTyped
<1>. HIDE DEF ResetNpu
<1>. QED BY <1>1, <1>2, <1>3 DEF Init, Typed, TypeOK, Inside, OS_SYSCALL_NPU_SUBMIT

\* A call of the runtime loads registers.
LEMMA CallTyped ==
    ASSUME IInv, Typed, NEW number \in Int, NEW arg0 \in Int, NEW arg1 \in Int,
           NEW from \in {"user", "user_exit"},
           UserCall, OsEcall(number, arg0, arg1, from), mem' \in Memory,
           number = OS_SYSCALL_NPU_SUBMIT => arg0 \in Nat
    PROVE  Typed'
<1>1. /\ regs'.ra = from /\ regs'.sp = regs.sp /\ regs'.a0 = arg0 /\ regs'.a7 = number
      /\ regs'.a1 \in {arg1, regs.a1} /\ regs'.a2 = regs.a2 /\ regs'.a3 = regs.a3
  BY DEF OsEcall, IInv, Shape
<1>2. regs.sp = 0
  BY DEF Typed, UserCall, At, Inside
<1>3. /\ UNCHANGED <<csr, cpu, console, npu, descAddr>> /\ pc' = "os_ecall"
      /\ asked'.sp = regs.sp /\ asked'.number = number /\ asked'.arg0 = arg0
  BY DEF OsEcall
<1>4. calls' \in 0..MaxCalls
  BY MapsOsAssumption DEF UserCall, Typed, TypeOK
<1>5. TypeOK'
  BY <1>1, <1>2, <1>3, <1>4 DEF Typed, TypeOK
<1>. QED BY <1>1, <1>2, <1>3, <1>5 DEF Typed, Inside

LEMMA UserTyped ==
    ASSUME IInv, Typed, User
    PROVE  Typed'
<1>0. mem \in Memory
  BY DEF Typed, TypeOK
<1>. USE DEF OS_SYSCALL_EXIT, OS_SYSCALL_WRITE, OS_SYSCALL_NPU_SUBMIT
<1>1. ASSUME NEW code \in Codes, UserExit(code) PROVE Typed'
  <2>1. code \in Int
    BY MapsOsAssumption
  <2>. QED BY <1>0, <1>1, <2>1, CallTyped DEF UserExit
<1>2. ASSUME NEW code \in Codes, KmainReturn(code) PROVE Typed'
  <2>1. code \in Int /\ Verdict(code) \in Seq(0..255)
    BY MapsOsAssumption DEF Verdict
  <2>2. console' \in Seq(0..255)
    BY <1>2, <2>1 DEF KmainReturn, Typed, TypeOK
  <2>3. /\ regs'.ra = regs.ra /\ regs'.sp = regs.sp /\ regs'.a0 = code /\ regs'.a1 = regs.a1
        /\ regs'.a2 = regs.a2 /\ regs'.a3 = regs.a3 /\ regs'.a7 = regs.a7
    BY <1>2 DEF KmainReturn, IInv, Shape
  <2>4. /\ UNCHANGED <<csr, cpu, mem, npu, descAddr, calls, asked>>
        /\ pc = "user" /\ pc' = "machine_exit"
    BY <1>2 DEF KmainReturn, At
  <2>5. TypeOK'
    BY <2>1, <2>2, <2>3, <2>4 DEF Typed, TypeOK
  <2>. QED BY <2>3, <2>4, <2>5 DEF Typed, Inside
<1>3. ASSUME NEW w \in Writes, UserWrite(w[1], w[2]) PROVE Typed'
  <2>1. w[1] \in Int /\ w[2] \in Int
    BY MapsOsAssumption
  <2>. QED BY <1>0, <1>3, <2>1, CallTyped DEF UserWrite
<1>4. ASSUME NEW ptr \in Texts, UserWriteCstr(ptr) PROVE Typed'
  <2>1. ptr \in Nat
    BY MapsOsAssumption
  <2>2. CASE ptr = 0 \/ Terminators(ptr) = {}
    <3>1. UNCHANGED <<pc, regs, csr, mem, console, npu, descAddr, asked>> /\ cpu' \in {cpu, "faulted"}
      BY <1>4, <2>2 DEF UserWriteCstr
    <3>2. calls' \in 0..MaxCalls
      BY <1>4, MapsOsAssumption DEF UserWriteCstr, UserCall, Typed, TypeOK
    <3>. QED BY <3>1, <3>2 DEF Typed, TypeOK
  <2>3. CASE ~(ptr = 0 \/ Terminators(ptr) = {})
    <3>. DEFINE len == CHOOSE l \in Terminators(ptr) : \A t \in Terminators(ptr) : l <= t
    <3>1. len \in Nat
      BY <2>1, <2>3, FirstTerminator
    <3>2. OsEcall(OS_SYSCALL_WRITE, ptr, len, "user") /\ UserCall /\ mem' = mem
      BY <1>4, <2>3 DEF UserWriteCstr
    <3>. HIDE DEF len
    <3>. QED BY <1>0, <2>1, <3>1, <3>2, CallTyped
  <2>. QED BY <2>2, <2>3
<1>5. ASSUME NEW d \in Gemms, UserNpuGemm(d) PROVE Typed'
  <2>1. d \in DescriptorType /\ d.mode \in Modes /\ UserDesc \in Nat
    BY MapsOsAssumption DEF Modes
  <2>2. mem' \in Memory
    BY <1>0, <1>5, <2>1, DescriptorMemory DEF UserNpuGemm
  <2>. QED BY <1>5, <2>1, <2>2, CallTyped DEF UserNpuGemm
<1>6. ASSUME NEW ptr \in Pointers, OsSysNpuSubmit(ptr) PROVE Typed'
  <2>1. ptr \in Nat
    BY MapsOsAssumption
  <2>. QED BY <1>0, <1>6, <2>1, CallTyped DEF OsSysNpuSubmit
<1>7. ASSUME NEW number \in Unknowns, OsSysUnknown(number) PROVE Typed'
  <2>1. number \in Int /\ number # 2
    BY MapsOsAssumption
  <2>. QED BY <1>0, <1>7, <2>1, CallTyped DEF OsSysUnknown
<1>. QED BY <1>1, <1>2, <1>3, <1>4, <1>5, <1>6, <1>7 DEF User

\* A step that changes neither the memory, the device nor the history, and
\* leaves the stack where its place in the trap path wants it.
LEMMA StepTyped ==
    ASSUME Typed, UNCHANGED <<mem, npu, calls, asked>>,
           RegsTyped(regs'), regs'.sp \in {0, -16}, pc' \notin Inside => regs'.sp = 0,
           csr'.mtvec \in BOOLEAN, cpu' \in {"running", "halted", "faulted"},
           console' \in Seq(0..255), descAddr' \in Nat
    PROVE  Typed'
<1>1. TypeOK'
  BY DEF Typed, TypeOK, RegsTyped, Callers, Args
<1>. QED BY <1>1 DEF Typed

\* Boot, the kernel around the user program and the exit.
LEMMA OutsideTyped ==
    ASSUME HInv, Typed, Boot \/ KmainEnter \/ MachineExit \/ MachineSyscall
    PROVE  Typed'
<1>. USE DEF At
<1>0. /\ RegsTyped(regs) /\ regs.sp \in {0, -16} /\ csr.mtvec \in BOOLEAN
      /\ cpu \in {"running", "halted", "faulted"} /\ console \in Seq(0..255) /\ descAddr \in Nat
      /\ DOMAIN regs = {"ra", "sp", "a0", "a1", "a2", "a3", "a7"} /\ DOMAIN csr = {"mtvec", "mepc"}
  BY DEF Typed, TypeOK, RegsTyped, Callers, Args, HInv, IInv, Shape
<1>1. CASE Boot
  <2>1. mem' \in Memory
    <3>1. mem \in [Addresses -> Int]
      BY DEF Typed, TypeOK, Memory
    <3>. QED BY <1>1, <3>1 DEF Boot, Memory
  <2>2. /\ regs'.ra = "crt0" /\ regs'.sp = regs.sp /\ regs'.a0 = regs.a0 /\ regs'.a1 = regs.a1
        /\ regs'.a2 = regs.a2 /\ regs'.a3 = regs.a3 /\ regs'.a7 = regs.a7 /\ csr'.mtvec = TRUE
    BY <1>0, <1>1 DEF Boot
  <2>3. regs.sp = 0
    BY <1>1 DEF Boot, Typed, Inside
  <2>4. /\ UNCHANGED <<cpu, console, npu, descAddr, calls, asked>> /\ pc' = "kmain"
    BY <1>1 DEF Boot
  <2>5. TypeOK'
    BY <2>1, <2>2, <2>3, <2>4 DEF Typed, TypeOK
  <2>. QED BY <2>2, <2>3, <2>4, <2>5 DEF Typed
<1>2. CASE KmainEnter
  <2>1. console' \in Seq(0..255)
    BY <1>0, <1>2, MapsOsAssumption DEF KmainEnter
  <2>2. regs.sp = 0
    BY <1>2 DEF KmainEnter, Typed, Inside
  <2>. QED BY <1>0, <1>2, <2>1, <2>2, StepTyped DEF KmainEnter
<1>3. CASE MachineExit
  <2>1. regs.sp = 0 /\ csr'.mtvec = FALSE
    BY <1>0, <1>3 DEF MachineExit, Typed, Inside
  <2>2. RegsTyped(regs') /\ regs'.sp = regs.sp
    BY <1>0, <1>3 DEF MachineExit, RegsTyped, Args, MAPS_SYSCALL_EXIT
  <2>. QED BY <1>0, <1>3, <2>1, <2>2, StepTyped DEF MachineExit
<1>4. CASE MachineSyscall
  <2>1. pc = "machine_ecall" /\ pc' = "machine_loop"
    BY <1>4 DEF MachineSyscall, HInv, IInv, Vector, AfterEcall
  <2>2. regs.a7 = MAPS_SYSCALL_EXIT /\ regs.sp = 0
    BY <2>1 DEF HInv, Exiting, Typed, Inside
  <2>3. cpu' = "halted" /\ UNCHANGED <<regs, console, csr, mem, npu, descAddr, calls, asked>>
    BY <1>4, <2>2 DEF MachineSyscall
  <2>. QED BY <1>0, <2>2, <2>3, StepTyped
<1>. QED BY <1>1, <1>2, <1>3, <1>4

\* The trap path.
LEMMA TrapTyped ==
    ASSUME HInv, Typed,
           \/ Ecall \/ TrapEntry \/ DispatchExit \/ DispatchWrite \/ DispatchNpuSubmit
           \/ DispatchUnknown \/ NpuPoll \/ TrapReturn \/ OsSysReturn
    PROVE  Typed'
<1>. USE DEF At
<1>0. /\ RegsTyped(regs) /\ regs.sp \in {0, -16} /\ csr.mtvec \in BOOLEAN
      /\ cpu \in {"running", "halted", "faulted"} /\ console \in Seq(0..255) /\ descAddr \in Nat
      /\ DOMAIN regs = {"ra", "sp", "a0", "a1", "a2", "a3", "a7"} /\ DOMAIN csr = {"mtvec", "mepc"}
      /\ pc \notin Inside => regs.sp = 0
  BY DEF Typed, TypeOK, RegsTyped, Callers, Args, HInv, IInv, Shape
<1>1. CASE Ecall
  <2>1. pc = "os_ecall" /\ csr'.mtvec = csr.mtvec
    BY <1>0, <1>1 DEF Ecall, AfterEcall, HInv, IInv, Vector
  <2>2. regs.sp = 0
    BY <1>0, <2>1 DEF Inside
  <2>. QED BY <1>0, <1>1, <2>1, <2>2, StepTyped DEF Ecall
<1>2. CASE TrapEntry
  <2>1. regs.sp = 0 /\ pc' = "dispatch"
    BY <1>0, <1>2 DEF TrapEntry, Inside
  <2>2. /\ regs'.ra = "trap_return" /\ regs'.sp = regs.sp - 16 /\ regs'.a0 = regs.a7
        /\ regs'.a1 = regs.a0 /\ regs'.a2 = regs.a1 /\ regs'.a3 = regs.a2 /\ regs'.a7 = regs.a7
    BY <1>0, <1>2 DEF TrapEntry, Marshalled
  <2>3. RegsTyped(regs')
    BY <1>0, <2>2 DEF RegsTyped, Args, Callers
  <2>4. regs'.sp = -16
    BY <2>1, <2>2
  <2>. QED BY <1>0, <1>2, <2>1, <2>3, <2>4, StepTyped DEF TrapEntry, Inside
<1>3. ASSUME NEW value \in Int, Answer(value), pc \in {"dispatch", "npu_poll"},
             UNCHANGED <<csr, mem, npu, descAddr, calls, asked>>,
             cpu' = cpu, console' \in Seq(0..255)
      PROVE  Typed'
  <2>1. pc' = "trap_return"
    BY <1>3 DEF Answer, HInv, IInv, Arguments
  <2>2. RegsTyped(regs') /\ regs'.sp = regs.sp
    BY <1>0, <1>3 DEF Answer, RegsTyped, Args
  <2>. QED BY <1>0, <1>3, <2>1, <2>2, StepTyped DEF Inside
<1>4. CASE DispatchExit \/ DispatchUnknown
  <2>1. regs.a1 \in Int
    BY <1>0 DEF RegsTyped, Args
  <2>. QED BY <1>0, <1>3, <1>4, <2>1 DEF DispatchExit, DispatchUnknown
<1>5. CASE DispatchWrite
  <2>1. regs.a1 \in Nat /\ regs.a2 \in Nat
    BY <1>5 DEF DispatchWrite, HInv, IInv, Arguments, WriteArguments
  <2>. DEFINE text == IF regs.a1 = 0 THEN <<>> ELSE ReadPrefix(regs.a1, regs.a2)
  <2>2. text \in Seq(0..255)
    <3>1. ReadPrefix(regs.a1, regs.a2) \in Seq(0..255)
      BY <2>1, ReadPrefixBytes DEF Typed, TypeOK
    <3>2. <<>> \in Seq(0..255)
      OBVIOUS
    <3>. QED BY <3>1, <3>2
  <2>3. /\ console' = console \o text /\ pc = "dispatch"
        /\ \/ Answer(regs.a2) /\ cpu' = cpu
           \/ cpu' = "faulted" /\ UNCHANGED <<pc, regs>>
        /\ UNCHANGED <<csr, mem, npu, descAddr, calls, asked>>
    BY <1>5 DEF DispatchWrite
  <2>. HIDE DEF text
  <2>4. console' \in Seq(0..255)
    BY <1>0, <2>2, <2>3
  <2>5. CASE Answer(regs.a2) /\ cpu' = cpu
    BY <1>3, <2>1, <2>3, <2>4, <2>5
  <2>6. CASE cpu' = "faulted" /\ UNCHANGED <<pc, regs>>
    BY <1>0, <2>3, <2>4, <2>6, StepTyped
  <2>. QED BY <2>3, <2>5, <2>6
<1>6. CASE DispatchNpuSubmit
  <2>1. regs.a1 \in Nat /\ pc = "dispatch"
    BY <1>6 DEF DispatchNpuSubmit, HInv, IInv, Arguments, Typed
  <2>2. CASE regs.a1 = 0
    BY <1>0, <1>3, <1>6, <2>1, <2>2 DEF DispatchNpuSubmit
  <2>3. CASE regs.a1 # 0
    <3>1. descAddr' = regs.a1 /\ pc' = "npu_start"
      BY <1>6, <2>3 DEF DispatchNpuSubmit, DescAddrFor
    <3>. QED BY <1>0, <1>6, <2>1, <2>3, <3>1, StepTyped DEF DispatchNpuSubmit, Inside
  <2>. QED BY <2>2, <2>3
<1>7. CASE NpuPoll
  <2>1. Answer(0) /\ pc = "npu_poll"
    BY <1>7 DEF NpuPoll, HInv, IInv, NpuProgress, StateCode
  <2>. QED BY <1>0, <1>3, <1>7, <2>1 DEF NpuPoll
<1>8. CASE TrapReturn
  <2>1. saved = asked.from /\ regs.sp = asked.sp - 16 /\ asked.from \in {"user", "user_exit"}
    BY <1>8 DEF TrapReturn, HInv, IInv, Frame, Shape, Inside
  <2>2. asked.sp = 0
    BY DEF Typed
  <2>3. /\ regs'.ra = saved /\ regs'.sp = regs.sp + 16 /\ regs'.a0 = regs.a0 /\ regs'.a1 = regs.a1
        /\ regs'.a2 = regs.a2 /\ regs'.a3 = regs.a3 /\ regs'.a7 = regs.a7
    BY <1>0, <1>8 DEF TrapReturn, Restored
  <2>4. RegsTyped(regs') /\ regs'.sp = 0
    BY <1>0, <2>1, <2>2, <2>3 DEF RegsTyped, Args, Callers
  <2>. QED BY <1>0, <1>8, <2>4, StepTyped DEF TrapReturn
<1>9. CASE OsSysReturn
  <2>1. regs.sp = 0
    BY <1>0, <1>9 DEF OsSysReturn, Inside
  <2>. QED BY <1>0, <1>9, <2>1, StepTyped DEF OsSysReturn
<1>. QED BY <1>1, <1>2, <1>4, <1>5, <1>6, <1>7, <1>8, <1>9

\* The device answers within its types, whatever words are at DESC_ADDR.
LEMMA NpuStartTyped ==
    ASSUME Typed, NpuStart
    PROVE  Typed'
<1>. DEFINE d == LoadFromMemory(mem, descAddr)
<1>1. mem \in Memory /\ npu \in NpuType
  BY DEF Typed, TypeOK
<1>2. d \in DescriptorType
  BY <1>1, LoadedDescriptor
<1>3. npu' = AfterStart(npu, d)
  BY DEF NpuStart, AfterStart
<1>4. IF npu'.state = "DONE" THEN MayBecome(mem, npu'.desc, mem') ELSE mem' = mem
  BY DEF NpuStart
<1>5. /\ UNCHANGED <<regs, csr, console, descAddr, calls, asked>> /\ cpu' \in {cpu, "faulted"}
      /\ pc' \in {"npu_poll", "npu_start"} /\ pc = "npu_start"
  BY DEF NpuStart, At
<1>. HIDE DEF d
<1>6. npu' \in NpuType
  BY <1>1, <1>2, <1>3, StartKeepsTypes
<1>7. mem' \in Memory
  <2>1. CASE Validate(d) /\ InMemory(d) /\ npu'.state = "DONE" /\ npu'.desc = d
    BY <1>1, <1>2, <1>4, <2>1, BecomesMemory
  <2>2. CASE npu'.state = "ERROR"
    BY <1>1, <1>4, <2>2
  <2>. QED BY <1>1, <1>3, <2>1, <2>2, StartVerdict
<1>8. TypeOK'
  BY <1>5, <1>6, <1>7 DEF Typed, TypeOK
<1>. QED BY <1>5, <1>8 DEF Typed, Inside

\* The kernel, the drivers and the registers keep their types: the stack
\* comes back to where the user program has it, and every byte on the console
\* was read from the memory (crt0.S, trap.S, kernel/syscall.c, drivers/npu.c).
THEOREM TypeCorrect == Spec => []TypeOK
<1>1. Init => HInv /\ Typed
  BY InitHInv, InitTyped
<1>2. HInv /\ Typed /\ [Next]_vars => (HInv /\ Typed)'
  <2>. SUFFICES ASSUME HInv, Typed, [Next]_vars PROVE Typed'
    BY NextHInv
  <2>1. CASE Kernel
    BY <2>1, OutsideTyped, TrapTyped, NpuStartTyped DEF Kernel
  <2>2. CASE User
    BY <2>2, UserTyped DEF HInv
  <2>3. CASE Stopped \/ UNCHANGED vars
    BY <2>3 DEF Stopped, vars, Typed, TypeOK
  <2>. QED BY <2>1, <2>2, <2>3 DEF Next
<1>3. Typed => TypeOK
  BY DEF Typed
<1>. QED BY <1>1, <1>2, <1>3, PTL DEF Spec

=============================================================================
