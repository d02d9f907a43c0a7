------------------------------ MODULE TensorC ------------------------------
(***************************************************************************)
(* The names of a TensorC program: SemanticAnalyzer (maps-compiler/tensorc *)
(* /sema.py) walks the program statement by statement and decides what     *)
(* each name means; CCodegen (codegen_c.py) prints the names as they are   *)
(* into C, tensors of the top level first, then functions, then user_main, *)
(* and a C compiler decides again. One action is one statement, and the    *)
(* program is any sequence of them.                                        *)
(***************************************************************************)
EXTENDS Integers, SequencesExt

CONSTANTS
    Names,
    Exprs,           \* expressions a statement may have
    Targets,         \* expressions left of "="
    TensorForms,     \* a declaration: <<shape given, shape of the initializer>>
    ParamLists,      \* parameters of a function
    MaxStatements,
    MaxDepth         \* blocks in one another

None == "none"
NoShape == <<>>
Ragged == <<0>>

\* parts are the int32 names an expression is built from: an operand of an
\* operator, an index, an argument.
ExprType ==
    [form : {"literal", "operator"}, parts : Seq(Names)]
        \cup [form : {"var", "index", "call"}, name : Names, parts : Seq(Names)]

\* The names are those of one program.
ASSUME TensorCAssumption ==
    /\ IsFiniteSet(Names) /\ None \notin Names
    /\ Exprs \cup Targets \subseteq ExprType
    /\ TensorForms \subseteq Seq(Int) \X Seq(Int)
    /\ ParamLists \subseteq Seq(Names)
    /\ MaxStatements \in Nat /\ MaxDepth \in Nat

VARIABLES
    functions,   \* name -> number of parameters: what the first loop of analyze finds
    scopes,      \* a stack: the symbols of each block, and the C block it becomes
    file,        \* the tensors at the file scope of the C text
    emitted,     \* the functions of the C text so far, in their order
    outer,       \* names the C blocks around them do not have, to be looked up in the file
    flaws,       \* what is wrong with the C text so far
    gaps,        \* history: features of the program that C has otherwise
    size, status

tcVars == <<functions, scopes, file, emitted, outer, flaws, gaps, size, status>>

NoSymbols == [n \in {} |-> None]
Missing == [type |-> "none", shape |-> NoShape, id |-> <<>>]
Function == [Missing EXCEPT !.type = "function"]
Over(f, g) == [n \in DOMAIN f \cup DOMAIN g |-> IF n \in DOMAIN f THEN f[n] ELSE g[n]]
With(f, n, v) == Over([m \in {n} |-> v], f)

Top == scopes[Len(scopes)]
Symbols == Top.symbols
InFunction == Len(scopes) > 1 /\ scopes[2].opens = "function"
AtTop == Len(scopes) = 1

\* A symbol remembers which declaration it is.
Scalar == [type |-> "scalar", shape |-> NoShape, id |-> <<size>>]
Tensor(shape) == [type |-> "tensor", shape |-> shape, id |-> <<size>>]
Param(i) == [Scalar EXCEPT !.id = <<size, i>>]

TCInit ==
    /\ functions \in UNION {[F -> {Len(p) : p \in ParamLists}] : F \in SUBSET Names}
    /\ scopes = <<[symbols |-> NoSymbols, block |-> NoSymbols, opens |-> "program", name |-> None]>>
    /\ file = NoSymbols /\ emitted = <<>> /\ outer = {} /\ flaws = {} /\ gaps = {}
    /\ size = 0 /\ status = "open"

Statement == status = "open" /\ size < MaxStatements /\ size' = size + 1

\* CompileError.
Reject ==
    /\ status' = "rejected"
    /\ UNCHANGED <<functions, scopes, file, emitted, outer, flaws, gaps>>
-----------------------------------------------------------------------------
(* What sema.py makes of an expression. *)

IsScalar(symbols, n) == n \in DOMAIN symbols /\ symbols[n].type = "scalar"
IsTensor(symbols, n) == n \in DOMAIN symbols /\ symbols[n].type = "tensor"

\* _expr_type: "scalar", "tensor" or None for an error.
TypeOf(e, symbols) ==
    CASE \E i \in DOMAIN e.parts : ~IsScalar(symbols, e.parts[i]) -> None
      [] \A i \in DOMAIN e.parts : IsScalar(symbols, e.parts[i]) ->
            CASE e.form \in {"literal", "operator"} -> "scalar"
              [] e.form = "var" -> IF e.name \in DOMAIN symbols THEN symbols[e.name].type ELSE None
              [] e.form = "index" -> IF IsTensor(symbols, e.name) THEN "scalar" ELSE None
              [] e.form = "call" ->
                    IF e.name \in DOMAIN functions /\ functions[e.name] = Len(e.parts)
                    THEN "scalar" ELSE None

\* The names of an expression with what sema takes them for.
Uses(e, symbols) ==
    {[name |-> e.parts[i], means |-> symbols[e.parts[i]]] : i \in DOMAIN e.parts}
        \cup (IF e.form \in {"var", "index"} THEN {[name |-> e.name, means |-> symbols[e.name]]}
              ELSE IF e.form = "call" THEN {[name |-> e.name, means |-> Function]} ELSE {})

\* _tensor_decl: the shape, or NoShape for an error.
ShapeOf(given, init) ==
    LET shape == IF given = NoShape THEN init ELSE given
    IN  IF \/ Ragged = init \/ init \notin {NoShape, shape}
           \/ \E i \in DOMAIN shape : shape[i] <= 0
        THEN NoShape ELSE shape
-----------------------------------------------------------------------------
(* What C makes of the names of the text. *)

\* The blocks of the function a name is in, the innermost last: user_main has
\* the top level's scalars in its outermost one.
CBlocks(stack) ==
    LET first == IF Len(stack) > 1 /\ stack[2].opens = "function" THEN 2 ELSE 1
    IN  [i \in 1..(Len(stack) - first + 1) |-> stack[i + first - 1].block]

\* What the blocks have a name for, Missing if nothing.
InBlocks(blocks, n) ==
    LET having == {i \in DOMAIN blocks : n \in DOMAIN blocks[i]}
    IN  IF having = {} THEN Missing
        ELSE blocks[CHOOSE i \in having : \A j \in having : j <= i][n]

\* A declaration a name finds and the one it was used for.
Verdict(found, means) ==
    IF found = means THEN {}
    ELSE IF found = Missing THEN {"undeclared"}
    ELSE IF found.type # means.type THEN {"mistaken"} ELSE {"captured"}

\* The uses of a statement, in the C blocks around it.
Emit(uses, stack) ==
    LET blocks == CBlocks(stack)
        inner == IF InFunction THEN scopes[2].name ELSE None
        local == {u \in uses : InBlocks(blocks, u.name) # Missing}
        calls == {u \in uses : u.means = Function}
    IN  /\ flaws' = flaws \cup UNION {Verdict(InBlocks(blocks, u.name), u.means) : u \in local}
        /\ outer' = outer \cup {[name |-> u.name, means |-> u.means, from |-> inner] : u \in uses \ local}
        /\ gaps' = gaps
             \cup {"outer scalar" : u \in {u \in uses : InFunction /\ u.name \in DOMAIN scopes[1].symbols
                                                       /\ u.means = scopes[1].symbols[u.name]
                                                       /\ u.means.type = "scalar"}}
             \cup {"later function" : u \in {u \in calls : InFunction /\ \A i \in DOMAIN emitted : emitted[i] # u.name}}
             \cup {"hidden function" : u \in {u \in calls : u.name \in DOMAIN stack[Len(stack)].symbols}}

\* Mutant of FileScope: functions come before the tensors they use.
FileScopeLate(n, from) ==
    IF n \in DOMAIN file /\ from = None THEN file[n]
    ELSE IF \E i \in DOMAIN emitted : emitted[i] = n THEN Function ELSE Missing

\* A name at the file scope: every tensor is printed before the functions, a
\* function after those before it and without prototypes.
FileScope(n, from) ==
    IF n \in DOMAIN file THEN file[n]
    ELSE IF \E i \in DOMAIN emitted :
               /\ emitted[i] = n
               /\ from = None \/ \E j \in DOMAIN emitted : i <= j /\ emitted[j] = from
    THEN Function ELSE Missing
-----------------------------------------------------------------------------
(* The statements: what sema.py checks and what codegen_c.py prints.       *)

\* The symbols and the C block of the innermost scope get a declaration.
Declared(stack, n, symbol, inBlock) ==
    [stack EXCEPT ![Len(stack)].symbols = With(@, n, symbol),
                  ![Len(stack)].block = IF inBlock THEN With(@, n, symbol) ELSE @]

DeclareTensor(n, form) ==
    /\ Statement
    /\ LET shape == ShapeOf(form[1], form[2]) IN
       IF n \in DOMAIN Symbols \/ shape = NoShape THEN Reject
       ELSE /\ scopes' = Declared(scopes, n, Tensor(shape), ~AtTop)
            /\ file' = IF AtTop THEN With(file, n, Tensor(shape)) ELSE file
            /\ UNCHANGED <<functions, emitted, outer, flaws, gaps, status>>

\* Mutant of MayDeclare: a block may declare a name of a block around it.
MayDeclareInBlock(stack, n) == n \notin DOMAIN stack[Len(stack)].block

MayDeclare(stack, n) == n \notin DOMAIN stack[Len(stack)].symbols

\* The name is checked before the initializer and added after it; in C the
\* initializer is in the scope of its name.
DeclareVar(n, e) ==
    /\ Statement
    /\ IF ~MayDeclare(scopes, n) \/ TypeOf(e, Symbols) # "scalar" THEN Reject
       ELSE /\ scopes' = Declared(scopes, n, Scalar, TRUE)
            /\ Emit(Uses(e, Symbols), scopes')
            /\ UNCHANGED <<functions, file, emitted, status>>

\* Any expression may be a target: C wants a variable or an element.
Assign(target, e) ==
    /\ Statement
    /\ IF {TypeOf(target, Symbols), TypeOf(e, Symbols)} # {"scalar"} THEN Reject
       ELSE /\ IF target.form \in {"var", "index"} THEN Emit(Uses(target, Symbols) \cup Uses(e, Symbols), scopes)
               ELSE /\ flaws' = flaws \cup {"no place"} /\ gaps' = gaps \cup {"no place"}
                    /\ UNCHANGED outer
            /\ UNCHANGED <<functions, scopes, file, emitted, status>>

ShapesMatch(a, b, c) == a[2] = b[1] /\ c[1] = a[1] /\ c[2] = b[2]

Gemm(a, b, c) ==
    /\ Statement
    /\ IF \/ \E n \in {a, b, c} : ~IsTensor(Symbols, n)
          \/ ~ShapesMatch(Symbols[a].shape, Symbols[b].shape, Symbols[c].shape)
       THEN Reject
       ELSE /\ Emit({[name |-> n, means |-> Symbols[n]] : n \in {a, b, c}}, scopes)
            /\ UNCHANGED <<functions, scopes, file, emitted, status>>

\* An expression statement may have any type, a return an int32.
Expression(e, types) ==
    /\ Statement
    /\ IF TypeOf(e, Symbols) \notin types THEN Reject
       ELSE /\ Emit(Uses(e, Symbols), scopes)
            /\ UNCHANGED <<functions, scopes, file, emitted, status>>

Scope(opens, name) == [symbols |-> Symbols, block |-> NoSymbols, opens |-> opens, name |-> name]

\* The block of an if, an else or a while, after its condition.
OpenBlock(condition) ==
    /\ Statement /\ Len(scopes) < MaxDepth
    /\ IF TypeOf(condition, Symbols) # "scalar" THEN Reject
       ELSE /\ Emit(Uses(condition, Symbols), scopes)
            /\ scopes' = Append(scopes, Scope("block", None))
            /\ UNCHANGED <<functions, file, emitted, status>>

\* A for that declares its counter: a scope for its head, another for its body.
OpenFor(n, init, condition, step) ==
    LET head == Declared(Append(scopes, Scope("for", None)), n, Scalar, TRUE)
        symbols == head[Len(head)].symbols
    IN  /\ Statement /\ Len(scopes) + 1 < MaxDepth
        /\ IF \/ ~MayDeclare(scopes, n) \/ TypeOf(init, Symbols) # "scalar"
              \/ TypeOf(condition, symbols) # "scalar" \/ TypeOf(step, symbols) = None
           THEN Reject
           ELSE /\ Emit(Uses(init, Symbols) \cup Uses(condition, symbols) \cup Uses(step, symbols), head)
                /\ scopes' = Append(head, [Scope("block", None) EXCEPT !.symbols = symbols])
                /\ UNCHANGED <<functions, file, emitted, status>>

\* The function is in the table of the first loop; its body sees the top level
\* as it is so far, and its parameters.
OpenFunction(f, params) ==
    LET last(n) == CHOOSE i \in DOMAIN params : params[i] = n
        block == [n \in Range(params) |-> Param(last(n))]
    IN  /\ Statement /\ AtTop /\ Len(scopes) < MaxDepth
        /\ f \in DOMAIN functions /\ functions[f] = Len(params)
        /\ \A i \in DOMAIN emitted : emitted[i] # f
        /\ IF \/ \E i \in DOMAIN params : params[i] \in DOMAIN Symbols
              \/ Cardinality(DOMAIN block) < Len(params)
           THEN Reject
           ELSE /\ scopes' = Append(scopes,
                       [symbols |-> Over(block, Symbols), block |-> block, opens |-> "function", name |-> f])
                /\ emitted' = Append(emitted, f)
                /\ UNCHANGED <<functions, file, outer, flaws, gaps, status>>

\* The end of a block, and of the for around it.
Close ==
    /\ status = "open" /\ ~AtTop
    /\ LET rest == SubSeq(scopes, 1, Len(scopes) - 1)
       IN  scopes' = IF rest[Len(rest)].opens = "for" THEN SubSeq(rest, 1, Len(rest) - 1) ELSE rest
    /\ UNCHANGED <<functions, file, emitted, outer, flaws, gaps, size, status>>

\* The end of the program: the C text is complete, and names its blocks do
\* not have are those of the file.
Finish ==
    /\ status = "open" /\ AtTop /\ Len(emitted) = Cardinality(DOMAIN functions)
    /\ status' = "accepted"
    /\ flaws' = flaws \cup (UNION {Verdict(FileScope(u.name, u.from), u.means) : u \in outer})
                      \cup (IF DOMAIN file \cap DOMAIN functions # {} THEN {"redefined"} ELSE {})
    /\ gaps' = gaps \cup (IF DOMAIN file \cap DOMAIN functions # {} THEN {"shared name"} ELSE {})
    /\ UNCHANGED <<functions, scopes, file, emitted, outer, size>>

TCNext ==
    \/ \E n \in Names : \/ \E form \in TensorForms : DeclareTensor(n, form)
                        \/ \E e \in Exprs : DeclareVar(n, e)
                        \/ \E init, step \in Targets, condition \in Exprs : OpenFor(n, init, condition, step)
                        \/ \E params \in ParamLists : OpenFunction(n, params)
    \/ \E target \in Targets, e \in Exprs : Assign(target, e)
    \/ \E a, b, c \in Names : Gemm(a, b, c)
    \/ \E e \in Exprs : \/ Expression(e, {"scalar", "tensor"}) \/ Expression(e, {"scalar"})
                        \/ OpenBlock(e)
    \/ Close \/ Finish

TCSpec == TCInit /\ [][TCNext]_tcVars
-----------------------------------------------------------------------------
\* A name that C finds is the declaration sema took it for, never another one
\* of the same type: nothing C accepts computes with another variable. It
\* depends on sema refusing every name that is already visible (sema.py:68, 103).
NoSilentCapture == "captured" \notin flaws

\* A program sema accepts becomes C that compiles unless it has one of five
\* features: a function uses a scalar of the top level, calls one printed after
\* it, a variable has the name of a function that is called, a tensor of the
\* top level that of any function, or an assignment has no place on its left.
CompilesUnlessGap == status = "accepted" /\ gaps = {} => flaws = {}

\* Every name in the C of a program the front end accepts is declared there
\* (maps-abi/compiler-target.md:21: "Generate RV32I-compatible C or assembly.").
AcceptedDeclares == status = "accepted" => "undeclared" \notin flaws
=============================================================================
