--------------------------- MODULE KbdDescriptors ----------------------------
(***************************************************************************)
(* The keyboards of descriptors.h that cases_kbd.h has rows for, each as    *)
(* its keyboard collections, in order, and a collection as the input fields *)
(* it declares.  The other collections of an interface matter to a          *)
(* keyboard's reports only by whether they have report IDs.                *)
(***************************************************************************)
LOCAL INSTANCE Naturals
LOCAL INSTANCE Sequences

Part(kind, bits, low, high) == << [kind |-> kind, bits |-> bits, low |-> low, high |-> high] >>

Modifiers   == Part("modifier", 8, 224, 231)
Unread(n)   == Part("constant", n, 0, 0)      \* constant, or a usage no row of the parser's map claims
Reserved    == Unread(8)
KeySlots(n) == Part("array", 8 * n, 0, 255)
Bitmap(low, high, bits) == Part("bitmap", bits, low, high)
Exactly(low, high) == Bitmap(low, high, high + 1 - low)    \* a bit for each usage

Collection(id, fields) == << [id |-> id, fields |-> fields] >>

\* An interface without report IDs, and one with
Plain(fields) == [ids |-> FALSE, collections |-> Collection(0, fields)]
Numbered(collections) == [ids |-> TRUE, collections |-> collections]

BootLayout == Modifiers \o Reserved \o KeySlots(6)

d_boot_keyboard == Plain(BootLayout)
d_rpi_keyboard == Plain(BootLayout)
d_bolt_rx_keyboard == Plain(BootLayout)
d_sculpt_rx_keyboard == Plain(BootLayout)
d_unifying_rx_keyboard == Plain(BootLayout)
d_unifying_rx_b_keyboard == Plain(BootLayout)
d_qmk_keyboard == Plain(BootLayout)
d_ps2_converter_keyboard == Plain(BootLayout)
d_cherry_mw8_keyboard == Plain(BootLayout)
d_cherry_mw8c_keyboard == Plain(BootLayout)
d_fc660c_tmk_keyboard == Plain(BootLayout)
d_issue71_qmk_keyboard == Plain(BootLayout)
d_roccat_kone_keyboard == Plain(BootLayout)
d_strafe_bios_keyboard == Plain(BootLayout)
d_apple_a1243_keyboard == Plain(Modifiers \o Reserved \o KeySlots(5) \o Unread(8))
d_composite == Numbered(Collection(1, Modifiers \o KeySlots(6)))
d_g502_iface1 == Numbered(Collection(1, BootLayout))
d_zmk_corne == Numbered(Collection(1, BootLayout))
d_superlight2_wired_keyboard == Numbered(Collection(1, BootLayout))
d_apple_a2520_iface1 == Numbered(Collection(1, BootLayout \o Unread(8)))

\* The only collection of its interface that declares no ID
d_areson_trackball == Numbered(Collection(0, BootLayout))

d_nkro_keyboard == Numbered(Collection(1, Modifiers \o Exactly(0, 239)))
d_qmk_shared_endpoint == Numbered(Collection(6, Modifiers \o Exactly(0, 239)))
d_strafe_iface0 == Numbered(Collection(1, Modifiers \o Exactly(0, 151)))
d_scimitar_iface0 == Numbered(Collection(16, Modifiers \o Exactly(0, 151)))
d_adv360_pro == Numbered(Collection(1, Modifiers \o Reserved \o Exactly(0, 151)))
d_blackdiamond75_keyboard == Plain(Modifiers \o Reserved \o Exactly(0, 223))
d_fc660c_tmk_nkro == Plain(Modifiers \o Exactly(0, 247))
d_keyboardio_keyboard == Plain(Modifiers \o Unread(56) \o Unread(4) \o Exactly(4, 221) \o Unread(2))

d_superlight2_rx_keyboard ==
    Numbered(Collection(1, Modifiers \o Exactly(4, 115) \o Exactly(135, 139) \o Exactly(144, 146)))

d_bolt_rx_v501_keyboard == Plain(Modifiers \o Exactly(4, 115) \o Exactly(135, 139) \o Exactly(144, 146))

d_wooting_keyboard ==
    Plain(Modifiers \o Exactly(4, 49) \o Unread(2) \o Exactly(51, 155) \o Unread(7)
            \o Exactly(157, 164) \o Exactly(176, 221) \o Unread(2))

d_kbd_with_bit_field == Numbered(Collection(1, Modifiers \o Exactly(104, 111) \o KeySlots(6)))

d_ultralink_keyboard == Numbered(Collection(7, Modifiers \o KeySlots(6)))
d_ultralink_nkro_keyboard == Numbered(Collection(17, Modifiers \o Bitmap(0, 152, 152)))

d_ultralink_iface1 ==
    Numbered(Collection(7, Modifiers \o KeySlots(6)) \o Collection(17, Modifiers \o Bitmap(0, 152, 152)))

d_keychron_dongle_keyboard ==
    Numbered(Collection(1, BootLayout) \o Collection(12, Modifiers \o Bitmap(0, 152, 152)))

d_bitdo_retro_iface2 ==
    Numbered(Collection(1, BootLayout) \o Collection(12, Modifiers \o Exactly(0, 119))
               \o Collection(10, Modifiers \o Exactly(0, 119)))
==============================================================================
