------------------------------ MODULE Enforcer ------------------------------
(***************************************************************************)
(* linking/enforce.c: the walk over the functions of a shared library that *)
(* replaces every misuse of open_it, close_it and the protected variables  *)
(* by a crash.  A library is [code, text, rela_dyn, rela_plt, funs]: bytes *)
(* at addresses, the addresses of text, the names at the slots of the      *)
(* relocation tables, and the entries of the functions in symbol order.    *)
(***************************************************************************)
EXTENDS Decode, Sequences

CONSTANT Libraries

VARIABLES
    lib,      \* the input
    code,     \* the output's code, as it is rewritten
    todo,     \* the entries still to be checked
    stack,    \* the running calls of check_function: [at, status]
    exit      \* "none" while enforce runs, then 0 or 1

vars == <<lib, code, todo, stack, exit>>

\* The names of the relocations; "" where there is none.
Name(rela, addr) == IF addr \in DOMAIN rela THEN rela[addr] ELSE ""
find_accessed_var_name(addr) == Name(lib.rela_dyn, addr)
find_called_fun_name(addr) == Name(lib.rela_plt, addr)
Protected(name) == name = "protected_"    \* starts_with(name, "protected_")

Init ==
    /\ lib \in Libraries
    /\ code = lib.code /\ todo = lib.funs
    /\ stack = << >> /\ exit = "none"

top == Head(stack)
ins == decode(code, top.at)
Walks(ops) == exit = "none" /\ stack # << >> /\ ins.op \in ops

\* The loop of enforce: every function from its entry, and closed.
NextFunction ==
    /\ exit = "none" /\ stack = << >> /\ todo # << >>
    /\ stack' = <<[at |-> Head(todo), status |-> 0]>>
    /\ todo' = Tail(todo)
    /\ UNCHANGED <<lib, code, exit>>

Finish ==
    /\ exit = "none" /\ stack = << >> /\ todo = << >>
    /\ exit' = "0" /\ UNCHANGED <<lib, code, todo, stack>>

Crash == code' = replace_with_crash(code, top.at, ins)
Proceed(status) == stack' = <<[at |-> top.at + ins.length, status |-> status]>> \o Tail(stack)
LeaveWalk == stack' = Tail(stack)

\* Not the code: protected variables are left to the caller.
OnceOpened(status) == status # 2
AccessAllowed(status) == status = 1

AccessVar ==
    /\ Walks({"MOV_ADDR_TO_REG_OP"})
    /\ IF Protected(find_accessed_var_name(ins.addr)) /\ ~AccessAllowed(top.status)
       THEN Crash ELSE UNCHANGED code
    /\ Proceed(top.status)
    /\ UNCHANGED <<lib, todo, exit>>

\* Not the code: a second open_it is let through.
OpenTwice(name, status) == CASE name = "open_it" -> 1 [] name = "close_it" /\ status = 1 -> 0 [] name = "" -> status [] OTHER -> 2

\* The status after open_it or close_it; 2 stands for a call to replace.
After(name, status) ==
    CASE name = "open_it" -> IF status = 0 THEN 1 ELSE 2
      [] name = "close_it" -> IF status = 1 THEN 0 ELSE 2
      [] OTHER -> status

Switch(name) ==
    IF After(name, top.status) = 2
    THEN Crash /\ Proceed(top.status)
    ELSE UNCHANGED code /\ Proceed(After(name, top.status))

\* What is called: the name is that of the slot that the procedure linkage
\* table jumps through.
jump_ins == decode(code, ins.addr)

Call ==
    /\ Walks({"CALL_OP"}) /\ jump_ins.op # "exit"
    /\ Switch(find_called_fun_name(jump_ins.addr))
    /\ UNCHANGED <<lib, todo, exit>>

\* A jump ends the walk, whatever its target does.
JmpToAddr ==
    /\ Walks({"JMP_TO_ADDR_OP"})
    /\ IF After(find_called_fun_name(ins.addr), top.status) = 2 THEN Crash ELSE UNCHANGED code
    /\ LeaveWalk
    /\ UNCHANGED <<lib, todo, exit>>

\* Not the code: the branch is taken for closed at its start.
Afresh(status) == 0
Inherited(status) == status

\* check_function calls itself for the target with its own copy of status.
MaybeJmp ==
    /\ Walks({"MAYBE_JMP_TO_ADDR_OP"})
    /\ stack' = <<[at |-> ins.addr, status |-> Inherited(top.status)],
                  [at |-> top.at + ins.length, status |-> top.status]>> \o Tail(stack)
    /\ UNCHANGED <<lib, code, todo, exit>>

Ret ==
    /\ Walks({"RET_OP"})
    /\ IF top.status = 1 THEN Crash ELSE UNCHANGED code
    /\ LeaveWalk
    /\ UNCHANGED <<lib, todo, exit>>

\* Not the code: "continue" in place of "break", past the step to the next instruction.
Continue ==
    /\ Walks({"OTHER_OP"})
    /\ UNCHANGED vars

Ignore ==
    /\ Walks({"OTHER_OP"})
    /\ Proceed(top.status)
    /\ UNCHANGED <<lib, code, todo, exit>>

\* decode meets bytes it does not know, those of a crash for instance, where
\* the walk stands or where a call goes.
GiveUp ==
    /\ Walks({"exit"}) \/ (Walks({"CALL_OP"}) /\ jump_ins.op = "exit")
    /\ exit' = "1" /\ UNCHANGED <<lib, code, todo, stack>>

Stopped == exit # "none" /\ UNCHANGED vars

Next ==
    \/ NextFunction \/ AccessVar \/ Call \/ JmpToAddr \/ MaybeJmp \/ Ret \/ Ignore
    \/ GiveUp \/ Finish \/ Stopped

Spec == Init /\ [][Next]_vars /\ WF_vars(Next)
=============================================================================
