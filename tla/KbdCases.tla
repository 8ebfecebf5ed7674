------------------------------ MODULE KbdCases -------------------------------
(***************************************************************************)
(* The tables of src/cases_kbd.h: the reports kbdtest decodes and what each *)
(* of the four trees of its lineage decodes them to, worked out by hand     *)
(* there.  A table is the set of its rows: every row is decoded from the    *)
(* same fresh state, so their order says nothing.                          *)
(***************************************************************************)
LOCAL INSTANCE Naturals
LOCAL INSTANCE Sequences

Zeros(n) == [i \in 1..n |-> 0]

\* An array that names its first elements only
Filled(s, n) == s \o Zeros(n - Len(s))

KeysHeld(s) == Filled(s, 6)    \* KEYS_IN_USB_REPORT

\* A row of two answers: main before #359, and a tree that keeps every NKRO block
Fixed(len, bytes, modifier, keys, fixed) ==
    [report |-> Filled(bytes, len), modifier |-> modifier, keys |-> KeysHeld(keys), keys_fixed |-> KeysHeld(fixed),
     keys_multi |-> KeysHeld(<< >>), keys_wide |-> KeysHeld(<< >>), has_multi |-> FALSE, has_wide |-> FALSE]

Same(len, bytes, modifier, keys) == Fixed(len, bytes, modifier, keys, keys)

\* ... of a third, for a tree with a keyboard_t per collection
Multi(row, keys) == [row EXCEPT !.has_multi = TRUE, !.keys_multi = KeysHeld(keys)]

\* ... of a fourth, for a tree that accepts wide usage ranges
Wide(row, keys) == [row EXCEPT !.has_wide = TRUE, !.keys_wide = KeysHeld(keys)]

k_boot_cases == {
    Same(8, <<0,0,4>>, 0, <<4>>), Same(8, <<2,0,4>>, 2, <<4>>), Same(8, <<0,0,4,5,6,7,8,9>>, 0, <<4,5,6,7,8,9>>),
    Same(8, <<255>>, 255, << >>), Same(8, << >>, 0, << >>) }

k_rpi_cases == {
    Same(8, <<0,0,4>>, 0, <<4>>), Same(8, <<5,0,76>>, 5, <<76>>), Same(9, <<1,2,0,4>>, 2, <<4>>) }

k_boot_protocol_cases == {
    Same(8, <<2,0,4>>, 2, <<4>>) }

k_composite_cases == {
    Same(8, <<1,0,4>>, 0, <<4>>), Same(8, <<1,5,76>>, 5, <<76>>), Same(8, <<1,0,4,5,6,7,8,9>>, 0, <<4,5,6,7,8,9>>) }

k_nkro_cases == {
    Same(32, <<1,0,16>>, 0, <<4>>), Same(32, <<1,2,48>>, 2, <<4,5>>), Same(32, <<1,0,240,31>>, 0, <<4,5,6,7,8,9>>),
    Same(32, <<1>> \o Zeros(30) \o <<128>>, 0, <<239>>) }

k_keyboardio_cases == {
    Same(36, Zeros(8) \o <<16>>, 0, <<4>>), Same(36, Zeros(8) \o <<96>>, 0, <<5,6>>),
    Same(36, Zeros(9) \o <<16>>, 0, <<12>>), Same(36, <<2>> \o Zeros(7) \o <<16>>, 2, <<4>>) }

k_superlight2_cases == {
    Same(17, <<1,0,1>>, 0, <<4>>), Same(17, <<1>> \o Zeros(14) \o <<128>>, 0, <<115>>),
    Fixed(17, <<1>> \o Zeros(15) \o <<1>>, 0, << >>, <<135>>) }

k_wooting_cases == {
    Fixed(28, <<0,1>>, 0, << >>, <<4>>), Fixed(28, Zeros(7) \o <<1>>, 0, << >>, <<51>>),
    Same(28, Zeros(22) \o <<1>>, 0, <<176>>), Same(28, <<2>>, 2, << >>), Fixed(28, <<2,1>>, 2, << >>, <<4>>) }

k_bolt_rx_cases == {
    Same(8, <<0,0,4>>, 0, <<4>>), Same(8, <<2,0,4>>, 2, <<4>>), Same(8, <<0,0,4,5,6,7,8,9>>, 0, <<4,5,6,7,8,9>>),
    Same(8, <<255>>, 255, << >>) }

k_ultralink_kbd_cases == {
    Same(8, <<7,0,4>>, 0, <<4>>), Same(8, <<7,2,4>>, 2, <<4>>), Same(8, <<7,0,4,5,6,7,8,9>>, 0, <<4,5,6,7,8,9>>) }

k_ultralink_iface1_cases == {
    Multi(Same(8, <<7,0,4>>, 0, << >>), <<4>>), Multi(Same(8, <<7,2,4>>, 2, << >>), <<4>>),
    Multi(Same(8, <<7,0,4,5,6,7,8,9>>, 0, <<5,6,7,8,9>>), <<4,5,6,7,8,9>>),
    Wide(Same(21, <<17,0,16>>, 0, << >>), <<4>>),
    Wide(Same(21, <<17>> \o Zeros(7) \o <<192,1>>, 0, << >>), <<54,55,56>>),
    Wide(Multi(Same(21, <<17>> \o Zeros(6) \o <<1>>, 0, <<0,0,0,0,1>>), << >>), <<40>>) }

k_ultralink_nkro_cases == {
    Wide(Same(21, <<17,0,16>>, 0, << >>), <<4>>), Wide(Same(21, <<17,2,16>>, 2, << >>), <<4>>),
    Wide(Same(21, <<17>> \o Zeros(19) \o <<128>>, 0, << >>), <<151>>) }

k_bit_field_cases == {
    Same(9, <<1,0,0,4>>, 0, <<4>>), Same(9, <<1,2,0,4>>, 2, <<4>>),
    Same(9, <<1,0,0,4,5,6,7,8,9>>, 0, <<4,5,6,7,8,9>>), Same(9, <<1,0,1,4>>, 0, <<4>>), Same(9, <<1>>, 0, << >>) }

k_bitdo_cases == {
    Multi(Same(9, <<1,0,0,4>>, 0, <<10,10>>), <<4>>), Multi(Same(9, <<1,2,0,4>>, 2, <<10,10>>), <<4>>),
    Multi(Same(9, <<1,0,0,4,5,6,7,8,9>>, 0, <<10,16,18,25,26,32>>), <<4,5,6,7,8,9>>),
    Multi(Same(17, <<12,0,16>>, 0, <<4,4>>), <<4>>),
    Multi(Same(17, <<12>> \o Zeros(7) \o <<192,1>>, 0, <<54,55,56,54,55,56>>), <<54,55,56>>),
    Multi(Same(17, <<12>> \o Zeros(6) \o <<1>>, 0, <<40,40>>), <<40>>) }

k_bitdo_boot_cases == {
    Same(9, <<1,0,0,4,5,6,7,8,9>>, 0, <<4,5,6,7,8,9>>), Same(17, <<12>> \o Zeros(7) \o <<192,1>>, 12, << >>),
    Same(17, <<12>> \o Zeros(6) \o <<1>>, 12, Zeros(5) \o <<1>>) }

k_sculpt_cases == {
    Same(8, <<0,0,4>>, 0, <<4>>), Same(8, <<8>>, 8, << >>), Same(8, <<5,0,76>>, 5, <<76>>) }

k_apple_a2520_cases == {
    Same(10, <<1,0,0,20>>, 0, <<20>>), Same(10, <<1,2,0,20>>, 2, <<20>>),
    Same(10, <<1>> \o Zeros(8) \o <<1>>, 0, << >>), Same(10, <<1>>, 0, << >>) }

k_rid1_reserved_cases == {
    Same(9, <<1,0,0,4>>, 0, <<4>>), Same(9, <<1,2,0,4>>, 2, <<4>>),
    Same(9, <<1,0,0,4,5,6,7,8,9>>, 0, <<4,5,6,7,8,9>>), Same(9, <<1,255>>, 255, << >>) }

k_strafe_bios_cases == {
    Same(9, <<0,0,7,8>>, 0, <<8>>), Same(9, <<64,0,39>>, 0, << >>), Same(8, <<0,0,7,8>>, 0, <<7,8>>),
    Same(8, <<64,0,39>>, 64, <<39>>) }

k_strafe_cases == {
    Same(22, <<1,0,128,2>>, 0, <<7,9>>), Same(21, <<1,0,16>>, 0, <<4>>), Same(21, <<1,2,16>>, 2, <<4>>),
    Same(21, <<1,0,240,31>>, 0, <<4,5,6,7,8,9>>), Same(21, <<1>> \o Zeros(19) \o <<128>>, 0, <<151>>) }

k_scimitar_kbd_cases == {
    Same(21, <<16,0,16>>, 0, <<4>>), Same(21, <<16,0,0,0,0,64>>, 0, <<30>>),
    Same(21, <<16>> \o Zeros(19) \o <<128>>, 0, <<151>>), Same(21, <<16,2>>, 2, << >>) }

k_bolt_v501_cases == {
    Same(16, <<0,1>>, 0, <<4>>), Same(16, Zeros(14) \o <<128>>, 0, <<115>>),
    Fixed(16, Zeros(15) \o <<1>>, 0, << >>, <<135>>), Fixed(16, Zeros(15) \o <<32>>, 0, << >>, <<144>>),
    Same(16, <<2,1>>, 2, <<4>>) }

k_a1243_cases == {
    Same(8, <<0,0,4>>, 0, <<4>>), Same(8, <<2,0,4>>, 2, <<4>>), Same(8, <<0,0,4,5,6,7,8>>, 0, <<4,5,6,7,8>>),
    Same(8, Zeros(7) \o <<1>>, 0, Zeros(5) \o <<1>>), Same(8, <<0,0,4,0,0,0,0,1>>, 0, <<4,0,0,0,0,1>>) }

k_blackdiamond_cases == {
    Same(30, <<0,0,16>>, 0, <<4>>), Same(30, <<2,0,16>>, 2, <<4>>), Same(30, <<0,0,240,31>>, 0, <<4,5,6,7,8,9>>),
    Same(30, Zeros(29) \o <<128>>, 0, <<223>>) }

k_fc660c_nkro_cases == {
    Same(32, <<0,16>>, 0, <<4>>), Same(32, <<2,16>>, 2, <<4>>), Same(32, Zeros(31) \o <<128>>, 0, <<247>>) }

k_adv360_cases == {
    Same(22, <<1,0,0,16>>, 0, <<4>>), Same(22, <<1,2,0,16>>, 2, <<4>>),
    Same(22, <<1>> \o Zeros(16) \o <<8>>, 0, <<115>>), Same(22, <<1>> \o Zeros(20) \o <<128>>, 0, <<151>>) }

k_qmk_shared_cases == {
    Same(32, <<6,0,16>>, 0, <<4>>), Same(32, <<6,2,48>>, 2, <<4,5>>), Same(32, <<6,0,240,31>>, 0, <<4,5,6,7,8,9>>),
    Same(32, <<6>> \o Zeros(30) \o <<128>>, 0, <<239>>) }

k_keychron_dongle_cases == {
    Same(10, <<1,0,0,17,0,0,7>>, 0, <<17,0,0,7>>), Same(10, <<1,0,0,14,7,9,13>>, 0, <<14,7,9,13>>),
    Wide(Same(21, <<12,0,16>>, 0, << >>), <<4>>), Wide(Same(21, <<12,2,16>>, 2, << >>), <<4>>),
    Wide(Same(21, <<12>> \o Zeros(19) \o <<128>>, 0, << >>), <<151>>) }

k_areson_kbd_cases == {
    Same(8, <<0,0,4>>, 0, << >>), Same(8, <<2,0,4>>, 0, << >>), Same(8, <<0,0,4,5,6,7,8,9>>, 0, <<5,6,7,8,9>>) }
==============================================================================
