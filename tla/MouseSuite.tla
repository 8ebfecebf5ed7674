----------------------------- MODULE MouseSuite ------------------------------
(***************************************************************************)
(* src/mousetest.c: the reports of MouseCases decoded by the firmware under  *)
(* test from the descriptors of MouseDescriptors, then reports that carry    *)
(* no buttons, then reports too short to.  The tables are concrete here:     *)
(* what the suite is worth is which decoders they let through.              *)
(*                                                                         *)
(* The firmware's parser and decoder are external.  A tree decodes as the    *)
(* suite's comments say it should, or with one of the faults of Faults, and  *)
(* has or lacks what the Makefile probes for.                              *)
(***************************************************************************)
EXTENDS MouseCases, MouseDescriptors, FiniteSetsExt

VARIABLES
    doing,       \* "build", "devices", "fallback", "short", "exit"
    gates,       \* what the probes found of the tree, the HARNESS_ names it is built with
    fault,       \* what is wrong with its decode, "none" if nothing
    mfailures

mvars == <<doing, gates, fault, mfailures>>

Gates == {"FIELD_32", "BOUNDED_USAGES", "IFACE_MOUSE_BUTTONS", "BOUNDED_BOOT_MOUSE"}

Faults ==
    { "axes swapped", "pads swapped", "unsigned", "12 bits unsigned", "byte wide", "wheel a byte wide", "whole bytes",
      "ID counted as data", "ID unread", "first collection", "any collection", "padding unread",
      "unclaimed uncounted", "boot by descriptor", "zeros for buttons", "buttons never read", "zeros on short",
      "reads past the end" }

\* Faults of something only a tree with the gate has
GatedFaults(g) ==
    CASE g = "FIELD_32" -> {"32 bits masked to none"}
      [] g = "IFACE_MOUSE_BUTTONS" -> {"buttons of the union", "none held taken for none sent"}
      [] g = "BOUNDED_BOOT_MOUSE" -> {"zeros on short boot"}
      [] OTHER -> {}

(***************************************************************************)
(* hid_parser.c and mouse.c, external: one mouse_t per interface, which each *)
(* collection overwrites.                                                  *)
(***************************************************************************)
UsesReportId(d) == \E i \in DOMAIN d : d[i].id # 0

Claims(d, usage) == { i \in DOMAIN d : d[i].usage = usage /\ (d[i].pointer \/ fault = "any collection") }

Claim(d, usage) == IF fault = "first collection" THEN Min(Claims(d, usage)) ELSE Max(Claims(d, usage))

\* The bits of its report before a field
Offset(d, i) ==
    MapThenSumSet(LAMBDA j : d[j].bits,
                  { j \in 1..i - 1 : d[j].id = d[i].id /\ (fault # "unclaimed uncounted" \/ d[j].usage # "unclaimed") })

\* handle_buttons folds the constant padding after the buttons into them.
Size(d, i) ==
    IF fault = "byte wide" \/ (fault = "wheel a byte wide" /\ d[i].usage = "wheel") THEN 8
    ELSE IF d[i].usage = "buttons" /\ i < Len(d) /\ d[i + 1].usage = "constant" /\ fault # "padding unread"
    THEN d[i].bits + d[i + 1].bits
    ELSE d[i].bits

Data(d, r) == IF UsesReportId(d) /\ fault # "ID counted as data" /\ r # << >> THEN Tail(r) ELSE r

Bit(data, n) == (data[n \div 8 + 1] \div 2^(n % 8)) % 2

\* get_report_value: the bits, sign extended on the top one
Value(data, offset, size) ==
    LET from == IF fault = "whole bytes" THEN offset - (offset % 8) ELSE offset
        low  == MapThenSumSet(LAMBDA k : 2^k * Bit(data, from + k), 0..size - 2)
        top  == Bit(data, from + size - 1) = 1
    IN CASE size = 0 \/ (size = 32 /\ fault = "32 bits masked to none") -> 0
         [] size > 0 /\ top -> IF fault = "unsigned" \/ (fault = "12 bits unsigned" /\ size = 12)
                               THEN low + 2^(size - 1) ELSE low - 2^(size - 1)
         [] OTHER -> low

\* extract_value passes over a field of another report.
Carries(d, r, i) == UsesReportId(d) => r # << >> /\ (r[1] = d[i].id \/ fault = "ID unread")

Arrived(d, r, i) == Offset(d, i) + Size(d, i) <= 8 * Len(Data(d, r))

\* A field that did not arrive is not read.
Read(d, r, usage, otherwise) ==
    IF Claims(d, usage) # {} /\ Carries(d, r, Claim(d, usage)) /\ Arrived(d, r, Claim(d, usage))
    THEN Value(Data(d, r), Offset(d, Claim(d, usage)), Size(d, Claim(d, usage)))
    ELSE otherwise

\* The boot protocol's report is a struct of five bytes, whatever the descriptor says.
BootReport == InMouse(0, ButtonBits(8) \o XY(8) \o WheelPan)

Layout(d, boot) == IF boot /\ fault # "boot by descriptor" THEN BootReport ELSE d

\* What a report with no buttons says of them
Fallback(boot, r, held) ==
    CASE \/ fault = "zeros for buttons"
         \/ fault = "zeros on short" /\ Len(r) <= 1
         \/ fault = "zeros on short boot" /\ boot -> 0
      [] fault = "buttons of the union" \/ "IFACE_MOUSE_BUTTONS" \notin gates -> held.all
      [] OTHER -> held.iface

Buttons(d, boot, r, held) ==
    LET read == Read(Layout(d, boot), r, "buttons", Fallback(boot, r, held))
    IN CASE \/ fault = "buttons never read"
            \/ fault = "none held taken for none sent" /\ read = 0 -> Fallback(boot, r, held)
         [] OTHER -> IF boot THEN read % 256 ELSE read

\* extract_report_values, in the order x, y, wheel, pan, buttons
Extract(d, boot, r, held) ==
    LET v(usage) == Read(Layout(d, boot), r, usage, 0)
        axes == IF fault = "axes swapped" THEN << v("y"), v("x") >> ELSE << v("x"), v("y") >>
        pads == IF fault = "pads swapped" THEN << v("pan"), v("wheel") >> ELSE << v("wheel"), v("pan") >>
    IN axes \o pads \o << Buttons(d, boot, r, held) >>

\* ASan ends the run: the report's allocation is exactly its size.
Overread(d, boot, r) ==
    /\ fault = "reads past the end"
    /\ \E usage \in {"x", "y", "wheel", "pan", "buttons"} :
          LET l == Layout(d, boot)
          IN Claims(l, usage) # {} /\ Carries(l, r, Claim(l, usage)) /\ ~Arrived(l, r, Claim(l, usage))

(***************************************************************************)
(* The suite                                                               *)
(***************************************************************************)
MOUSE_MIN_LEN == 0
ReportRoom    == 12     \* sizeof(mouse_case_t.report)

Row(d, cases) == << [desc |-> d, boot |-> FALSE, cases |-> cases, needs |-> {}] >>
BootRow(d, cases) == << [desc |-> d, boot |-> TRUE, cases |-> cases, needs |-> {}] >>
Gated(g, row) == << [row[1] EXCEPT !.needs = {g}] >>

mouse_devices ==
       Row(d_gameball_trackball, m_gameball_cases) \o Row(d_kensington_expert_mouse, m_kensington_cases)
    \o Row(d_cherry_mw8c_mouse, m_kensington_cases) \o Row(d_cherry_mw8_mouse, m_cherry_mw8_cases)
    \o Row(d_mx518_mouse, m_mx518_cases) \o Row(d_kernel_multi_collection, m_kernel_multi_cases)
    \o Row(d_bolt_rx_iface1, m_bolt_rx_cases) \o Row(d_ultralink_mouse, m_ultralink_cases)
    \o Row(d_bolt_rx_touchpad, m_bolt_touchpad_cases) \o BootRow(d_boot_mouse, m_boot_protocol_cases)
    \o Row(d_sculpt_rx_mouse, m_sculpt_cases) \o Row(d_g502_mouse, m_g502_cases)
    \o Row(d_unifying_rx_iface1, m_unifying_cases) \o Row(d_unifying_rx_b_iface1, m_unifying_cases)
    \o Row(d_areson_trackball, m_ultralink_cases) \o Row(d_roccat_kone_mouse, m_ultralink_cases)
    \o Row(d_bitdo_retro_mouse, m_bitdo_mouse_cases) \o Row(d_ps2_converter_iface1, m_ps2_converter_cases)
    \o Row(d_issue26_mouse, m_issue26_cases) \o Gated("FIELD_32", Row(d_scimitar_iface0, m_scimitar_cases))
    \o Row(d_scimitar_boot_mouse, m_scimitar_boot_cases) \o Row(d_bolt_rx_v501_iface1, m_bolt_rx_cases)
    \o Row(d_issue99_mouse, m_issue99_cases) \o Row(d_fc660c_tmk_mouse, m_gameball_cases)
    \o Row(d_vial_qmk_iface2, m_vial_qmk_cases) \o Row(d_qmk_shared_endpoint, m_qmk_shared_mouse_cases)
    \o Row(d_mighty_mouse, m_mighty_mouse_cases)
    \o Gated("BOUNDED_USAGES", Row(d_magic_trackpad_mouse, m_magic_trackpad_cases))
    \o Row(d_keyboardio_mouse, m_keyboardio_mouse_cases)

\* A row whose gate is shut is kept out.
Devices == SelectSeq(mouse_devices, LAMBDA m : m.needs \subseteq gates)

\* What this interface was last seen holding, and what every device together holds
Holding(iface, all) == [iface |-> iface, all |-> all]

\* Buttons a report leaves out: << descriptor, report, held, wanted >>
fallback_cases ==
    { << d_kensington_expert_mouse, <<2,1,0,0>>, Holding(1, 7), 1 >>,
      << d_kensington_expert_mouse, <<2,1,0,0>>, Holding(0, 7), 0 >>,
      << d_gameball_trackball, <<0,20,0,0,0>>, Holding(1, 7), 0 >>,
      << d_ultralink_mouse, <<1,0,20,0,0,0,0,0>>, Holding(1, 7), 0 >> }

HELD == 1

\* Reports with no field in them to read: << descriptor, boot protocol, report >>
short_cases ==
    { << d_gameball_trackball, FALSE, << >> >>, << d_hires_mouse, FALSE, << >> >>, << d_hires_mouse, FALSE, <<1>> >> }
    \union IF "BOUNDED_BOOT_MOUSE" \in gates
           THEN { << d_boot_mouse, TRUE, << >> >>, << d_boot_mouse, TRUE, <<HELD>> >>,
                  << d_boot_mouse, TRUE, <<HELD, 5>> >> }
           ELSE {}

MInit == doing = "build" /\ gates = {} /\ fault = "none" /\ mfailures = 0

\* The probes read the tree's source.
BuildMouse ==
    /\ doing = "build" /\ doing' = "devices"
    /\ gates' \in SUBSET Gates
    /\ fault' \in {"none"} \union Faults \union UNION { GatedFaults(g) : g \in gates' }
    /\ UNCHANGED mfailures

\* The row may be decoded, and the decode comes back.
Runs(d, boot, r) == Len(r) \in MOUSE_MIN_LEN..ReportRoom /\ ~Overread(d, boot, r)

\* A row that does not look at the buttons
MovedOk(d, boot, c) ==
    Runs(d, boot, c[1]) /\ SubSeq(Extract(d, boot, c[1], Holding(0, 0)), 1, 4) = SubSeq(c[2], 1, 4)

DecodedOk(d, boot, c) == Runs(d, boot, c[1]) /\ Extract(d, boot, c[1], Holding(0, 0)) = c[2]

Failed(S, Ok(_)) == Cardinality({ c \in S : ~Ok(c) })

\* run_device for each entry: every one starts from a parse of its own.
RunDevices ==
    /\ doing = "devices"
    /\ doing' = IF "IFACE_MOUSE_BUTTONS" \in gates THEN "fallback" ELSE "short"
    /\ mfailures' = MapThenSumSet(LAMBDA m : Failed(Devices[m].cases, LAMBDA c :
                                     DecodedOk(Devices[m].desc, Devices[m].boot, c)), DOMAIN Devices)
    /\ UNCHANGED <<gates, fault>>

RunButtonFallback ==
    /\ doing = "fallback" /\ doing' = "short"
    /\ mfailures' = mfailures + Failed(fallback_cases, LAMBDA c :
                        Runs(c[1], FALSE, c[2]) /\ Extract(c[1], FALSE, c[2], c[3])[5] = c[4])
    /\ UNCHANGED <<gates, fault>>

\* Movement is judged only where no motion byte arrived.
NoMotion(d, boot, r) ==
    IF boot THEN Len(r) < 2 ELSE Len(r) <= IF UsesReportId(d) THEN 1 ELSE 0

KeptHeld(d, boot, r) ==
    LET v == Extract(d, boot, r, Holding(HELD, HELD))
    IN Runs(d, boot, r) /\ v[5] = HELD /\ (NoMotion(d, boot, r) => SubSeq(v, 1, 4) = <<0, 0, 0, 0>>)

RunShortReports ==
    /\ doing = "short" /\ doing' = "exit"
    /\ mfailures' = mfailures + Failed(short_cases, LAMBDA c : KeptHeld(c[1], c[2], c[3]))
    /\ UNCHANGED <<gates, fault>>

MNext == BuildMouse \/ RunDevices \/ RunButtonFallback \/ RunShortReports

MSpec == MInit /\ [][MNext]_mvars

(***************************************************************************)
(* Properties                                                              *)
(***************************************************************************)
\* The suite passes exactly the trees that read reports as the descriptors declare them,
\* whatever the probes left out: no row of a table is wrong about its descriptor, and each
\* fault shows in some row a tree with the means to have it runs.
MousePassIsEarned == doing = "exit" => (mfailures = 0 <=> fault = "none")
==============================================================================
