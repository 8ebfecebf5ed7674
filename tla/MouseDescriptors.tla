-------------------------- MODULE MouseDescriptors ---------------------------
(***************************************************************************)
(* The pointing devices of descriptors.h, each as the fields its input      *)
(* reports declare in a mouse collection, in order.  A collection with no   *)
(* field of a mouse's is left out: its reports have an ID of their own.     *)
(***************************************************************************)
EXTENDS Naturals, Sequences

Declares(usage, bits) == << [usage |-> usage, bits |-> bits] >>

ButtonBits(n) == Declares("buttons", n)
Padding(n)    == Declares("constant", n)     \* constant, against no usage
Unclaimed(n)  == Declares("unclaimed", n)    \* a usage no row of the parser's map claims
XY(n)         == Declares("x", n) \o Declares("y", n)
Wheel(n)      == Declares("wheel", n)
Pan(n)        == Declares("pan", n)

In(pointer, id, fields) ==
    [i \in DOMAIN fields |-> [usage |-> fields[i].usage, bits |-> fields[i].bits, id |-> id, pointer |-> pointer]]

InMouse(id, fields)   == In(TRUE, id, fields)    \* in a mouse collection; ID 0 is none
Elsewhere(id, fields) == In(FALSE, id, fields)   \* in a consumer's, a digitizer's

WheelPan == Wheel(8) \o Pan(8)

d_gameball_trackball == InMouse(0, ButtonBits(5) \o Padding(3) \o XY(8) \o WheelPan)

d_kensington_expert_mouse ==
    InMouse(1, ButtonBits(5) \o Padding(3) \o WheelPan) \o InMouse(2, XY(12))

d_cherry_mw8c_mouse == InMouse(1, ButtonBits(5) \o Padding(3) \o WheelPan) \o InMouse(2, XY(12))

d_cherry_mw8_mouse == InMouse(3, ButtonBits(5) \o Padding(3) \o XY(12) \o WheelPan)

d_mx518_mouse == InMouse(0, ButtonBits(8) \o Padding(0) \o Unclaimed(16) \o Wheel(8) \o XY(12))

d_kernel_multi_collection ==
    LET mouse == ButtonBits(5) \o Padding(3) \o XY(12) \o WheelPan
    IN InMouse(1, mouse) \o InMouse(2, mouse)

d_bolt_rx_iface1 == InMouse(2, ButtonBits(16) \o XY(16) \o WheelPan)

d_ultralink_mouse == InMouse(1, ButtonBits(5) \o Padding(3) \o XY(16) \o WheelPan)

\* A finger at a time, five in all, then the scan; the button is on page 9.
d_bolt_rx_touchpad ==
    LET finger == Unclaimed(2 + 6 + 8) \o XY(12)
    IN Elsewhere(40, finger \o finger \o finger \o finger \o finger
                       \o Unclaimed(7) \o ButtonBits(1) \o Unclaimed(16))

d_boot_mouse == InMouse(0, ButtonBits(3) \o Padding(5) \o XY(8) \o Wheel(8))

d_hires_mouse == InMouse(1, ButtonBits(5) \o Padding(3) \o XY(16) \o WheelPan)

\* The consumer collection has an AC Pan of its own.
d_sculpt_rx_mouse ==
    InMouse(26, ButtonBits(5) \o Padding(3) \o XY(16) \o Wheel(16) \o Pan(16)) \o Elsewhere(31, Pan(16))

d_g502_mouse == InMouse(0, ButtonBits(16) \o XY(16) \o WheelPan)

d_unifying_rx_iface1 == InMouse(2, ButtonBits(16) \o XY(12) \o WheelPan)

d_unifying_rx_b_iface1 == InMouse(2, ButtonBits(16) \o XY(12) \o WheelPan)

\* Its keyboard's reports, which have no ID, come first.
d_areson_trackball == InMouse(1, ButtonBits(5) \o Padding(3) \o XY(16) \o WheelPan)

d_roccat_kone_mouse == InMouse(1, ButtonBits(5) \o Padding(3) \o XY(16) \o WheelPan)

d_bitdo_retro_mouse == InMouse(3, ButtonBits(5) \o Padding(3) \o XY(16) \o WheelPan)

d_ps2_converter_iface1 == InMouse(1, ButtonBits(5) \o Padding(3) \o XY(8) \o Wheel(8))

d_issue26_mouse == InMouse(0, ButtonBits(5) \o Padding(3) \o XY(12) \o WheelPan \o Unclaimed(8))

d_scimitar_iface0 == InMouse(1, ButtonBits(32) \o XY(16) \o Wheel(8))

d_scimitar_boot_mouse == InMouse(0, ButtonBits(5) \o Padding(3) \o XY(8) \o Wheel(8) \o Padding(24))

d_bolt_rx_v501_iface1 == InMouse(2, ButtonBits(16) \o XY(16) \o WheelPan)

d_issue99_mouse == InMouse(0, ButtonBits(3) \o Padding(5) \o XY(12) \o Wheel(8))

d_fc660c_tmk_mouse == InMouse(0, ButtonBits(5) \o Padding(3) \o XY(8) \o WheelPan)

d_vial_qmk_iface2 == InMouse(2, ButtonBits(5) \o Padding(3) \o XY(8) \o WheelPan)

d_qmk_shared_endpoint == InMouse(2, ButtonBits(8) \o XY(8) \o WheelPan)

\* X, Y, Z and Wheel are one field of four; a vendor's byte follows.
d_mighty_mouse == InMouse(0, ButtonBits(4) \o Padding(4) \o XY(8) \o Unclaimed(8) \o Wheel(8) \o Unclaimed(8))

d_magic_trackpad_mouse == InMouse(2, ButtonBits(3) \o Padding(5) \o XY(8) \o Padding(32))

d_keyboardio_mouse == InMouse(0, ButtonBits(8) \o XY(16) \o Wheel(8))
==============================================================================
