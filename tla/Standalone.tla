----------------------------- MODULE Standalone ------------------------------
(***************************************************************************)
(* The parts of the repository that run on their own: four of the suites    *)
(* of `make test` (Makefile:462), one of them again on the tables it has,   *)
(* the sweep over their rows, the reader of pasted dumps, the making of a   *)
(* rig's descriptor, and the page that reads a rig's pointer.  They share   *)
(* nothing, so a behaviour here is a behaviour of one of them.             *)
(***************************************************************************)
EXTENDS ControlSuite, DispatchSuite, KbdTable, MouseSuite, ReplayLine, PastedDump, RigDescriptor, PointerBench

VARIABLE part   \* the one that runs

StandaloneInit ==
    /\ part \in {"cctest", "dispatchtest", "kbdtest", "cases_kbd", "mousetest", "shortreport", "add_descriptor",
               "gen_desc", "pointer-bench"}
    /\ CInit /\ DInit /\ KInit /\ TableInit /\ MInit /\ RInit /\ PInit /\ DescInit /\ BenchInit

StandaloneNext ==
    /\ UNCHANGED part
    /\ \/ part = "cctest" /\ CNext /\ UNCHANGED <<dvars, kvars, tableVars, mvars, replayVars, pvars, descVars, benchVars>>
       \/ part = "dispatchtest" /\ DNext /\ UNCHANGED <<cvars, kvars, tableVars, mvars, replayVars, pvars, descVars, benchVars>>
       \/ part = "kbdtest" /\ KNext /\ UNCHANGED <<cvars, dvars, tableVars, mvars, replayVars, pvars, descVars, benchVars>>
       \/ part = "cases_kbd" /\ TableNext /\ UNCHANGED <<cvars, dvars, kvars, mvars, replayVars, pvars, descVars, benchVars>>
       \/ part = "mousetest" /\ MNext /\ UNCHANGED <<cvars, dvars, kvars, tableVars, replayVars, pvars, descVars, benchVars>>
       \/ part = "shortreport" /\ RNext /\ UNCHANGED <<cvars, dvars, kvars, tableVars, mvars, pvars, descVars, benchVars>>
       \/ part = "add_descriptor" /\ PNext /\ UNCHANGED <<cvars, dvars, kvars, tableVars, mvars, replayVars, descVars, benchVars>>
       \/ part = "gen_desc" /\ DescNext /\ UNCHANGED <<cvars, dvars, kvars, tableVars, mvars, replayVars, pvars, benchVars>>
       \/ part = "pointer-bench" /\ BenchNext /\ UNCHANGED <<cvars, dvars, kvars, tableVars, mvars, replayVars, pvars, descVars>>

StandaloneSpec ==
    StandaloneInit
    /\ [][StandaloneNext]_<<part, cvars, dvars, kvars, tableVars, mvars, replayVars, pvars, descVars, benchVars>>
==============================================================================
