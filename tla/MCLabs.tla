------------------------------- MODULE MCLabs -------------------------------
(***************************************************************************)
(* The programs of the other assignments for TLC: the driver of the        *)
(* allocator, enforce, matchlab and the kernels.  They share no state: a   *)
(* behaviour is one of one of them, and what does not run stays as it      *)
(* started.                                                                *)
(***************************************************************************)
EXTENDS MCEnforcer, MCHeap, MCMatcher

VARIABLE running

labsVars == <<running, driverVars, vars, matcherVars, kernelVars>>

Inputs(program, any, least) == IF running = program THEN any ELSE {least}

\* What runs has any input, and what does not the least.
LabsInit ==
    /\ running \in {"usemem", "enforce", "matchlab", "kernels"}
    /\ arg \in Inputs("usemem", Args, Arg("any", 0, 1, 0, FALSE)) /\ DriverInit
    /\ lib \in Inputs("enforce", Libraries, Assemble(<<S(<<"ret">>)>>))
    /\ code = lib.code /\ todo = lib.funs /\ stack = << >> /\ exit = "none"
    /\ argv \in Inputs("matchlab", Argv, <<>>) /\ MatcherFresh
    /\ job \in Inputs("kernels", Jobs, [kernel |-> "none"]) /\ KernelsFresh

StepOfDriver(D) ==
    /\ running = "usemem" /\ D
    /\ UNCHANGED <<running, vars, matcherVars, kernelVars>>
StepOfEnforcer ==
    /\ running = "enforce" /\ Next
    /\ UNCHANGED <<running, driverVars, matcherVars, kernelVars>>
StepOfMatcher ==
    /\ running = "matchlab" /\ MatcherNext
    /\ UNCHANGED <<running, driverVars, vars, kernelVars>>
StepOfKernels ==
    /\ running = "kernels" /\ KernelsNext
    /\ UNCHANGED <<running, driverVars, vars, matcherVars>>
Ended ==
    /\ (running = "matchlab" /\ MatcherEnded) \/ (running = "kernels" /\ KernelsEnded)
    /\ UNCHANGED labsVars

LabsNext == StepOfDriver(DriverNext) \/ StepOfEnforcer \/ StepOfMatcher \/ StepOfKernels \/ Ended

LabsSpec ==
    /\ LabsInit /\ [][LabsNext]_labsVars
    /\ WF_labsVars(StepOfDriver(DriverSteps)) /\ WF_labsVars(StepOfEnforcer)

\* Every test of usemem passes: see UseMem.
EveryTestPasses == running = "usemem" => Passes

\* Every walk of check_function ends: see SharedLibrary.
EveryWalkEnds == running = "enforce" => WalkEnds
=============================================================================
