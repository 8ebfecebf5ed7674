------------------------------- MODULE KbdTable -------------------------------
(***************************************************************************)
(* src/kbdtest.c on the tables it has.  KbdSuite says what a pass means     *)
(* whatever the rows; here the rows are those of KbdCases, the keyboards    *)
(* those of KbdDescriptors, and the firmware decodes as the comments of     *)
(* cases_kbd.h say a tree of the lineage does, or with one of Wrongs.       *)
(***************************************************************************)
EXTENDS KbdSuite, Integers, FiniteSetsExt, SequencesExt

LOCAL INSTANCE KbdCases
LOCAL INSTANCE KbdDescriptors

VARIABLES
    progress,    \* "build", "devices", "exit"
    built,       \* the fixes the probes found
    bounded,     \* the walks they found to stop at the end of the report
    wrong,       \* what is wrong with the decode, "none" if nothing
    mismatches

tableVars == <<progress, built, bounded, wrong, mismatches>>

Walks == {"BITMAP", "KEY_ARRAY"}

\* A tree of one block bounds no bitmap (cases_kbd.h, k_bitdo_cases).
Bounds(t) == { b \in SUBSET Walks : t = 0 => "BITMAP" \notin b }

\* What a firmware probed as tree t may do wrong
Wrongs(t) ==
    {"no modifier", "ID counted as data", "stray ID kept", "boot by descriptor", "no shortcut", "five keys",
     "empty slots closed", "usages from 0", "bits from a byte", "last bit lost", "any block is NKRO",
     "reserved taken for granted", "constants uncounted"}
    \union (IF t >= 1 THEN {"as before the fix"} ELSE {})
    \union (IF t < 2 THEN {"key array kept"} ELSE {"primary keyboard"})

\* The tree whose answers it gives
Acts == IF wrong = "as before the fix" THEN built - 1 ELSE built

(***************************************************************************)
(* hid_parser.c, external: the fields of a collection at their places after *)
(* the report ID, and the keyboard_t a report is decoded by.               *)
(***************************************************************************)
Placed(fields) ==
    [i \in DOMAIN fields |->
        [kind |-> fields[i].kind, bits |-> fields[i].bits, low |-> fields[i].low, high |-> fields[i].high,
         at   |-> MapThenSumSet(LAMBDA j : fields[j].bits,
                                { j \in 1..i - 1 : wrong # "constants uncounted" \/ fields[j].kind # "constant" })]]

\* get_keyboard: before there was one per collection every collection wrote to the first.
Resolved(d, r) ==
    LET own == { c \in DOMAIN d.collections : d.collections[c].id = r[1] }
    IN IF d.ids /\ own # {} /\ wrong # "primary keyboard" THEN Min(own) ELSE 1

Keyboard(d, r) ==
    IF Acts >= 2
    THEN Placed(d.collections[Resolved(d, r)].fields)
    ELSE FlattenSeq([c \in DOMAIN d.collections |-> Placed(d.collections[c].fields)])

\* key_array: each field marks its bytes as an array's or clears its first.
Covers(field, n) ==
    IF field.kind = "array" THEN n \in field.at \div 8..(field.at + field.bits) \div 8 - 1
    ELSE field.kind # "constant" /\ n = field.at \div 8 /\ wrong # "key array kept"

Marked(kb) ==
    { n \in 0..MapThenSumSet(LAMBDA i : kb[i].bits, DOMAIN kb) \div 8 :
        \E i \in DOMAIN kb : /\ Covers(kb[i], n) /\ kb[i].kind = "array"
                             /\ ~\E j \in DOMAIN kb : j > i /\ Covers(kb[j], n) /\ kb[j].kind # "array" }

\* The fields an NKRO decode walks.  One block alone survived before the first fix, the last
\* large one; a usage range wider than its block is refused before the last.
NkroSize == IF wrong = "any block is NKRO" THEN 0 ELSE 32

Usable(block) == IF Acts >= 3 THEN block.high - block.low >= block.bits - 1 ELSE block.high - block.low = block.bits - 1

Blocks(kb) ==
    LET all   == SelectSeq(kb, LAMBDA f : f.kind = "bitmap")
        large == SelectSeq(all, LAMBDA f : f.bits > NkroSize)
        kept  == IF Acts >= 1 THEN all ELSE SubSeq(large, Max({1, Len(large)}), Len(large))
    IN SelectSeq(kept, Usable)

IsNkro(blocks) == MapThenSumSet(LAMBDA i : blocks[i].bits, DOMAIN blocks) > NkroSize

(***************************************************************************)
(* hid_report.c, external: extract_kbd_data                                *)
(***************************************************************************)
KeysReported == IF wrong = "five keys" THEN 5 ELSE 6

\* A report of six keys, the rest of the struct zero
Reports(modifier, keys) ==
    [modifier |-> IF wrong = "no modifier" THEN 0 ELSE modifier,
     keys     |-> [k \in 1..6 |-> IF k <= Len(keys) /\ k <= KeysReported THEN keys[k] ELSE 0]]

Payload(d, r) == IF d.ids /\ wrong # "ID counted as data" THEN Tail(r) ELSE r

\* The bits set, as places in the report
SetBits(data) ==
    UNION { { 8 * (n - 1) + b : b \in { k \in 0..7 : (data[n] \div 2^k) % 2 = 1 } }
              : n \in { m \in DOMAIN data : data[m] # 0 } }

\* _extract_kbd_boot: eight bytes from the front, or from behind a stray ID
FromBoot(r) ==
    LET from == IF Len(r) = 9 /\ wrong # "stray ID kept" THEN 1 ELSE 0
    IN Reports(r[from + 1], SubSeq(r, from + 3, from + 8))

\* _extract_kbd_nkro, extract_bit_variable
UsagesHeld(block, bits) ==
    LET from == IF wrong = "bits from a byte" THEN block.at - (block.at % 8) ELSE block.at
        last == from + block.bits - IF wrong = "last bit lost" THEN 2 ELSE 1
        low  == IF wrong = "usages from 0" THEN 0 ELSE block.low
    IN SelectSeq([u \in 1..last + 1 - from |-> low + u - 1], LAMBDA u : from + u - low \in bits)

FromNkro(blocks, data) ==
    Reports(data[1], FlattenSeq([b \in DOMAIN blocks |-> UsagesHeld(blocks[b], SetBits(data))]))

\* _extract_kbd_other: the bytes marked, in order
FromOther(kb, data) ==
    LET first == IF wrong = "reserved taken for granted" THEN 2 ELSE 1
        slots == SelectSeq([n \in 1..Len(data) |-> n - 1], LAMBDA n : n >= first /\ n \in Marked(kb))
        keys  == [k \in DOMAIN slots |-> data[slots[k] + 1]]
    IN Reports(data[1], IF wrong = "empty slots closed" THEN SelectSeq(keys, LAMBDA k : k # 0) ELSE keys)

ByBoot(d, boot, r) ==
    \/ boot /\ wrong # "boot by descriptor"
    \/ ~d.ids /\ Len(r) \in {8, 9} /\ wrong # "no shortcut" /\ ~IsNkro(Blocks(Keyboard(d, r)))

DecodesTo(d, boot, r) ==
    LET kb == Keyboard(d, r)
    IN CASE ByBoot(d, boot, r)                       -> FromBoot(r)
         [] ~ByBoot(d, boot, r) /\ IsNkro(Blocks(kb)) -> FromNkro(Blocks(kb), Payload(d, r))
         [] OTHER                                    -> FromOther(kb, Payload(d, r))

\* ASan ends the run where a walk that nothing bounds leaves the report.
LeavesReport(d, boot, r) ==
    LET kb     == Keyboard(d, r)
        blocks == Blocks(kb)
        size   == Len(Payload(d, r))
    IN /\ ~ByBoot(d, boot, r)
       /\ IF IsNkro(blocks)
          THEN "BITMAP" \notin bounded /\ \E i \in DOMAIN blocks : blocks[i].at + blocks[i].bits > 8 * size
          ELSE "KEY_ARRAY" \notin bounded /\ \E n \in Marked(kb) : n >= size

(***************************************************************************)
(* The suite                                                               *)
(***************************************************************************)
KBD_MIN_LEN == 8
REPORT_MAX  == 40

DEV(d, cases)      == << [desc |-> d, boot |-> FALSE, cases |-> cases, needs |-> {}] >>
BootDEV(d, cases)  == << [desc |-> d, boot |-> TRUE, cases |-> cases, needs |-> {}] >>
If(walk, entry)    == << [entry[1] EXCEPT !.needs = {walk}] >>

kbd_devices ==
       DEV(d_boot_keyboard, k_boot_cases) \o DEV(d_rpi_keyboard, k_rpi_cases)
    \o BootDEV(d_boot_keyboard, k_boot_protocol_cases) \o DEV(d_composite, k_composite_cases)
    \o DEV(d_nkro_keyboard, k_nkro_cases) \o DEV(d_keyboardio_keyboard, k_keyboardio_cases)
    \o DEV(d_superlight2_rx_keyboard, k_superlight2_cases) \o DEV(d_wooting_keyboard, k_wooting_cases)
    \o DEV(d_bolt_rx_keyboard, k_bolt_rx_cases) \o DEV(d_ultralink_keyboard, k_ultralink_kbd_cases)
    \o DEV(d_ultralink_iface1, k_ultralink_iface1_cases) \o DEV(d_ultralink_nkro_keyboard, k_ultralink_nkro_cases)
    \o If("BITMAP", DEV(d_bitdo_retro_iface2, k_bitdo_cases)) \o BootDEV(d_bitdo_retro_iface2, k_bitdo_boot_cases)
    \o DEV(d_kbd_with_bit_field, k_bit_field_cases) \o DEV(d_sculpt_rx_keyboard, k_sculpt_cases)
    \o DEV(d_apple_a2520_iface1, k_apple_a2520_cases) \o DEV(d_unifying_rx_keyboard, k_boot_cases)
    \o DEV(d_unifying_rx_b_keyboard, k_boot_cases) \o DEV(d_qmk_keyboard, k_boot_cases)
    \o DEV(d_ps2_converter_keyboard, k_boot_cases) \o DEV(d_cherry_mw8_keyboard, k_boot_cases)
    \o DEV(d_cherry_mw8c_keyboard, k_boot_cases) \o DEV(d_fc660c_tmk_keyboard, k_boot_cases)
    \o DEV(d_issue71_qmk_keyboard, k_boot_cases) \o DEV(d_roccat_kone_keyboard, k_boot_cases)
    \o DEV(d_g502_iface1, k_rid1_reserved_cases) \o DEV(d_zmk_corne, k_rid1_reserved_cases)
    \o DEV(d_superlight2_wired_keyboard, k_rid1_reserved_cases) \o DEV(d_strafe_bios_keyboard, k_strafe_bios_cases)
    \o DEV(d_strafe_iface0, k_strafe_cases) \o DEV(d_scimitar_iface0, k_scimitar_kbd_cases)
    \o DEV(d_bolt_rx_v501_keyboard, k_bolt_v501_cases) \o DEV(d_apple_a1243_keyboard, k_a1243_cases)
    \o DEV(d_blackdiamond75_keyboard, k_blackdiamond_cases) \o DEV(d_fc660c_tmk_nkro, k_fc660c_nkro_cases)
    \o DEV(d_adv360_pro, k_adv360_cases) \o DEV(d_qmk_shared_endpoint, k_qmk_shared_cases)
    \o DEV(d_keychron_dongle_keyboard, k_keychron_dongle_cases)
    \o If("KEY_ARRAY", DEV(d_areson_trackball, k_areson_kbd_cases))

\* An entry whose walk is unbounded is kept out.
Entered == SelectSeq(kbd_devices, LAMBDA e : e.needs \subseteq bounded)

TableInit == progress = "build" /\ built = 0 /\ bounded = {} /\ wrong = "none" /\ mismatches = 0

\* The probes read the tree's source.
Probed ==
    /\ progress = "build" /\ progress' = "devices"
    /\ built' \in Trees
    /\ bounded' \in Bounds(built')
    /\ wrong' \in {"none"} \union Wrongs(built')
    /\ UNCHANGED mismatches

EntryRowRuns(e, r) ==
    /\ Len(r.report) \in KBD_MIN_LEN..REPORT_MAX
    /\ ~Repeats(r)
    /\ ~LeavesReport(e.desc, e.boot, r.report)

\* A row that looks at the keys alone
EntryKeysOk(e, r) == EntryRowRuns(e, r) /\ DecodesTo(e.desc, e.boot, r.report).keys = Want(r, built)

EntryRowOk(e, r) ==
    /\ EntryRowRuns(e, r)
    /\ DecodesTo(e.desc, e.boot, r.report) = [modifier |-> r.modifier, keys |-> Want(r, built)]

\* run_device for each entry: every one starts from a parse of its own.
RunEntries ==
    /\ progress = "devices" /\ progress' = "exit"
    /\ mismatches' = MapThenSumSet(LAMBDA i : Cardinality({ r \in Entered[i].cases : ~EntryRowOk(Entered[i], r) }),
                                   DOMAIN Entered)
    /\ UNCHANGED <<built, bounded, wrong>>

TableNext == Probed \/ RunEntries

TableSpec == TableInit /\ [][TableNext]_tableVars

(***************************************************************************)
(* Properties                                                              *)
(***************************************************************************)
\* Each of the four columns is what its tree decodes, whatever the gates keep out, and no row
\* let in walks off its report; every wrong decoder, the tree before a fix among them, is
\* failed by some row that every tree with the means to be wrong in that way runs.
ColumnsAreTheTrees == progress = "exit" => (mismatches = 0 <=> wrong = "none")
===============================================================================
