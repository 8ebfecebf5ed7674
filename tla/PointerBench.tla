----------------------------- MODULE PointerBench ----------------------------
(***************************************************************************)
(* emu/pointer-bench.html: what the page keeps of the events a browser     *)
(* hands it, what each frame paints of that, and Reset between the two.     *)
(* Roundness, radius, aspect and the drawing are arithmetic on the samples  *)
(* and are left out.                                                       *)
(***************************************************************************)
EXTENDS Integers, Sequences, FiniteSets, FiniteSetsExt, Functions

CONSTANTS
    MAX_PTS,    \* samples of the path kept (600)
    LogCap,     \* rows of the wheel log kept (60)
    Window,     \* the rate counts the moves this old at most (1000 ms)
    Deltas,     \* what a wheel event may carry on an axis, 0 among them
    HidButtons, \* the buttons pressed, as HID numbers them
    MaxTime, MaxEvents

ASSUME BenchAssumption ==
    /\ MAX_PTS \in Nat \ {0} /\ LogCap \in Nat \ {0} /\ Window \in Nat
    /\ Deltas \subseteq Int /\ 0 \in Deltas /\ HidButtons \subseteq 1..6

VARIABLES
    clock,                  \* performance.now()
    pts, moveTimes,         \* samples kept, and when the last second's came
    channels,               \* ch: per axis [count, sum, min, max], min and max of nothing empty
    logRows, dirtyLog,
    btnCount, keyCount,
    held,                   \* the mask showHeld was last given, as a set of HID buttons
    down,                   \* the buttons really down: e.buttons
    screen,                 \* what the last frame painted, [rate, samples, log]
    painted,                \* nothing has come since
    ledger                  \* history: what has come since Reset, in order

benchVars == <<clock, pts, moveTimes, channels, logRows, dirtyLog, btnCount, keyCount, held, down, screen,
               painted, ledger>>

Axes == {"x", "y"}
NoEvents == [count |-> 0, sum |-> 0, min |-> <<>>, max |-> <<>>]
Blank == [rate |-> 0, samples |-> 0, log |-> <<>>]

\* The browser's number of a HID button, and the page's way back; a sixth is no cell's.
BrowserButton == <<0, 2, 1, 3, 4, 5>>
HID_BUTTON == [b \in 0..4 |-> <<1, 3, 2, 4, 5>>[b + 1]]

BenchInit ==
    /\ clock = 0 /\ pts = 0 /\ moveTimes = <<>>
    /\ channels = [a \in Axes |-> NoEvents] /\ logRows = <<>> /\ dirtyLog = FALSE
    /\ btnCount = [b \in 1..5 |-> 0] /\ keyCount = 0
    /\ held = {} /\ down = {} /\ screen = Blank /\ painted = FALSE /\ ledger = <<>>

Arrives(event) ==
    /\ Len(ledger) < MaxEvents
    /\ ledger' = Append(ledger, event) /\ painted' = FALSE
    /\ UNCHANGED <<clock, screen>>

(***************************************************************************)
(* The listeners                                                           *)
(***************************************************************************)
TrimMoveTimes(times, now) ==
    LET old == { i \in DOMAIN times : \A j \in 1..i : now - times[j] > Window }
    IN  SubSeq(times, Cardinality(old) + 1, Len(times))

MouseMove ==
    /\ Arrives([kind |-> "move", t |-> clock])
    /\ pts' = Min({pts + 1, MAX_PTS})
    /\ moveTimes' = TrimMoveTimes(Append(moveTimes, clock), clock)
    /\ UNCHANGED <<channels, logRows, dirtyLog, btnCount, keyCount, held, down>>

Bump(c, d) ==
    IF d = 0 THEN c
    ELSE [count |-> c.count + 1, sum |-> c.sum + d,
          min |-> IF c.min = <<>> THEN <<d>> ELSE <<Min({c.min[1], d})>>,
          max |-> IF c.max = <<>> THEN <<d>> ELSE <<Max({c.max[1], d})>>]

WheelTurns(dx, dy) ==
    /\ Arrives([kind |-> "wheel", x |-> dx, y |-> dy])
    /\ channels' = [x |-> Bump(channels.x, dx), y |-> Bump(channels.y, dy)]
    /\ LET newest == <<[x |-> dx, y |-> dy]>> \o logRows
       IN  logRows' = SubSeq(newest, 1, Min({Len(newest), LogCap}))
    /\ dirtyLog' = TRUE
    /\ UNCHANGED <<pts, moveTimes, btnCount, keyCount, held, down>>

MouseDown(b) ==
    /\ b \notin down /\ down' = down \cup {b}
    /\ Arrives([kind |-> "down", button |-> b])
    /\ btnCount' = IF BrowserButton[b] \in DOMAIN HID_BUTTON
                   THEN [btnCount EXCEPT ![HID_BUTTON[BrowserButton[b]]] = @ + 1] ELSE btnCount
    /\ held' = down'
    /\ UNCHANGED <<pts, moveTimes, channels, logRows, dirtyLog, keyCount>>

MouseUp(b) ==
    /\ b \in down /\ down' = down \ {b}
    /\ Arrives([kind |-> "up", button |-> b])
    /\ held' = down'
    /\ UNCHANGED <<pts, moveTimes, channels, logRows, dirtyLog, btnCount, keyCount>>

KeyDown(repeat) ==
    /\ Arrives([kind |-> "key", repeat |-> repeat])
    /\ keyCount' = IF repeat THEN keyCount ELSE keyCount + 1
    /\ UNCHANGED <<pts, moveTimes, channels, logRows, dirtyLog, btnCount, held, down>>

(***************************************************************************)
(* A frame                                                                 *)
(***************************************************************************)
PaintsUntrimmed ==
    /\ ~painted /\ painted' = TRUE
    /\ screen' = [rate |-> Len(moveTimes), samples |-> pts,
                  log |-> IF dirtyLog /\ logRows # <<>> THEN logRows ELSE screen.log]
    /\ dirtyLog' = FALSE
    /\ UNCHANGED <<clock, pts, moveTimes, channels, logRows, btnCount, keyCount, held, down, ledger>>

Paint ==
    /\ ~painted /\ painted' = TRUE
    /\ moveTimes' = TrimMoveTimes(moveTimes, clock)
    /\ screen' = [rate |-> Len(moveTimes'), samples |-> pts,
                  log |-> IF dirtyLog /\ logRows # <<>> THEN logRows ELSE screen.log]
    /\ dirtyLog' = FALSE
    /\ UNCHANGED <<clock, pts, channels, logRows, btnCount, keyCount, held, down, ledger>>

\* The log empties at once, the rest with the next frame.
Reset ==
    /\ pts' = 0 /\ logRows' = <<>> /\ moveTimes' = <<>>
    /\ channels' = [a \in Axes |-> NoEvents]
    /\ btnCount' = [b \in 1..5 |-> 0] /\ keyCount' = 0 /\ held' = {}
    /\ screen' = [screen EXCEPT !.log = <<>>]
    /\ ledger' = <<>> /\ painted' = FALSE
    /\ UNCHANGED <<clock, dirtyLog, down>>

TimeGoesBy ==
    /\ clock < MaxTime /\ clock' = clock + 1 /\ painted' = FALSE
    /\ UNCHANGED <<pts, moveTimes, channels, logRows, dirtyLog, btnCount, keyCount, held, down, screen, ledger>>

BenchNext ==
    \/ MouseMove \/ Paint \/ Reset \/ TimeGoesBy
    \/ \E dx, dy \in Deltas : WheelTurns(dx, dy)
    \/ \E b \in HidButtons : MouseDown(b) \/ MouseUp(b)
    \/ \E repeat \in BOOLEAN : KeyDown(repeat)

BenchSpec == BenchInit /\ [][BenchNext]_benchVars

(***************************************************************************)
(* Properties                                                              *)
(***************************************************************************)
Came(kind) == { i \in DOMAIN ledger : ledger[i].kind = kind }
TotalOf(axis) == SumFunction([i \in Came("wheel") |-> ledger[i][axis]])
Extremes(axis) == { ledger[i][axis] : i \in Came("wheel") } \ {0}

\* The bench reads what came since Reset and nothing else.  A painted rate is the moves of the
\* last second, in a pause too; the log painted is the newest wheel events, newest first, and
\* never rows from before Reset; counts, sums and extremes agree with those events, each
\* axis by itself; a press counts at the HID button whose lamp it lights; keys count once
\* however long they repeat.
BenchReadsWhatCame ==
    /\ painted =>
          /\ screen.rate = Cardinality({ i \in Came("move") : clock - ledger[i].t <= Window })
          /\ screen.samples = Min({Cardinality(Came("move")), MAX_PTS})
          /\ Len(screen.log) = Min({Cardinality(Came("wheel")), LogCap})
          /\ \A row \in DOMAIN screen.log : \E i \in Came("wheel") :
                /\ Cardinality({ j \in Came("wheel") : j >= i }) = row
                /\ screen.log[row] = [x |-> ledger[i].x, y |-> ledger[i].y]
    /\ \A a \in Axes :
          /\ channels[a].count = Cardinality({ i \in Came("wheel") : ledger[i][a] # 0 })
          /\ channels[a].sum = TotalOf(a)
          /\ Extremes(a) # {} => channels[a].min[1] = Min(Extremes(a)) /\ channels[a].max[1] = Max(Extremes(a))
    /\ \A b \in 1..5 : btnCount[b] = Cardinality({ i \in Came("down") : ledger[i].button = b })
    /\ Came("down") \cup Came("up") # {} => held = down
    /\ keyCount = Cardinality({ i \in Came("key") : ~ledger[i].repeat })
==============================================================================
