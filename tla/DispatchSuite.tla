---------------------------- MODULE DispatchSuite ----------------------------
(***************************************************************************)
(* src/dispatchtest.c, src/routing.c and the receivers of src/stubs.c: the  *)
(* report callback lifted from the firmware under test hands each report to *)
(* one of four recording receivers or to none, and the suite compares which *)
(* with the row, and asks whether a right answer was luck.                 *)
(*                                                                         *)
(* The callback is arbitrary: what it answers may depend on the report's    *)
(* first byte and on what earlier calls left in the interface it reads.    *)
(***************************************************************************)
EXTENDS Naturals

CONSTANTS
    Receivers,  \* the stubs: mouse, keyboard, consumer, system
    NULL,       \* harness_reached when none was called
    MaxCases    \* bound: rows of cases[]

VARIABLES
    step,               \* "row", "route", "judge", "probe", "returned"
    case,               \* the row: [boot: BOOLEAN, want: a receiver or NULL]
    slot,               \* global_state.iface[0][0]: as parsed, or used by an earlier call
    harness_reached,    \* the stubs' record
    got,                \* the row's answer
    misses, accidents,  \* main's failures and accidents
    rows,               \* rows left, at most
    callback,           \* what the callback under test does with this row
    misrouted, lucky    \* history: the rows it really misroutes, or routes right by luck

Answers == Receivers \cup {NULL}
Bytes == {"own", "changed"}     \* report[0], and report[0] ^ 0xA5
dvars == <<step, case, slot, harness_reached, got, misses, accidents, rows, callback, misrouted, lucky>>

Callbacks == [Bytes \X {"parsed", "used"} -> Answers]
Silent == [x \in Bytes \X {"parsed", "used"} |-> NULL]

DInit ==
    /\ step = "row" /\ case = [boot |-> FALSE, want |-> NULL] /\ callback = Silent
    /\ slot = "parsed" /\ harness_reached = NULL /\ got = NULL
    /\ misses = 0 /\ accidents = 0 /\ rows = MaxCases /\ misrouted = 0 /\ lucky = 0

\* The stub that is called notes it; none called leaves the record as it was.
Reached(before, answer) == IF answer = NULL THEN before ELSE answer

\* hid_route: the caller's interface is copied in afresh, the record cleared.
HidRouteInPlace(byte) ==
    /\ harness_reached' = Reached(NULL, callback[<<byte, slot>>])
    /\ slot' = "used"

HidRoute(byte) ==
    /\ harness_reached' = Reached(NULL, callback[<<byte, "parsed">>])
    /\ slot' = "used"

\* parse_iface, and the next row
NextCase ==
    /\ step = "row" /\ rows > 0
    /\ \E boot \in BOOLEAN, want \in Answers, f \in Callbacks :
          /\ case' = [boot |-> boot, want |-> want]
          /\ callback' = f
          /\ misrouted' = misrouted + (IF f[<<"own", "parsed">>] # want THEN 1 ELSE 0)
          /\ lucky' = lucky + (IF boot /\ want # NULL /\ f[<<"own", "parsed">>] = want
                                    /\ f[<<"changed", "parsed">>] # want THEN 1 ELSE 0)
    /\ rows' = rows - 1 /\ step' = "route"
    /\ UNCHANGED <<slot, harness_reached, got, misses, accidents>>

Route ==
    /\ step = "route"
    /\ HidRoute("own") /\ got' = harness_reached'
    /\ step' = "judge"
    /\ UNCHANGED <<case, misses, accidents, rows, callback, misrouted, lucky>>

\* What of a row goes out of scope with it
Leave == case' = [boot |-> FALSE, want |-> NULL] /\ callback' = Silent /\ got' = NULL

Misrouted ==
    /\ step = "judge" /\ got # case.want
    /\ misses' = misses + 1 /\ step' = "row" /\ Leave
    /\ UNCHANGED <<slot, harness_reached, accidents, rows, misrouted, lucky>>

\* routed_by_luck: only a boot report that reached somebody is tried again.
NotProbed ==
    /\ step = "judge" /\ got = case.want /\ (~case.boot \/ got = NULL)
    /\ step' = "row" /\ Leave
    /\ UNCHANGED <<slot, harness_reached, misses, accidents, rows, misrouted, lucky>>

Probe ==
    /\ step = "judge" /\ got = case.want /\ case.boot /\ got # NULL
    /\ HidRoute("changed")
    /\ accidents' = IF harness_reached' # got THEN accidents + 1 ELSE accidents
    /\ step' = "row" /\ Leave
    /\ UNCHANGED <<misses, rows, misrouted, lucky>>

Return ==
    /\ step = "row" /\ step' = "returned"
    /\ UNCHANGED <<case, slot, harness_reached, got, misses, accidents, rows, callback, misrouted, lucky>>

DNext == NextCase \/ Route \/ Misrouted \/ NotProbed \/ Probe \/ Return

DSpec == DInit /\ [][DNext]_dvars

DispatchStatus == IF misses > 0 THEN 1 ELSE 0

(***************************************************************************)
(* Properties                                                              *)
(***************************************************************************)
\* Each row is judged by what the callback does with that row's report and a freshly
\* parsed interface, whatever earlier rows and their probes left behind: neither a receiver
\* reached before nor an interface changed in passing fails a row, passes one, or makes luck
\* of it; and the suite passes exactly when no row is misrouted.
RoutesJudgedAlone ==
    /\ step \in {"row", "returned"} => misses = misrouted /\ accidents = lucky
    /\ step = "returned" => (DispatchStatus = 0) = (misrouted = 0)
==============================================================================
