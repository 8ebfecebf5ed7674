----------------------------- MODULE MouseCases ------------------------------
(***************************************************************************)
(* src/cases_mouse.h: the reports mousetest decodes and what each decodes   *)
(* to, worked out by hand there.  A row is the bytes of one report and its  *)
(* values in the order x, y, wheel, pan, buttons.  A table is the set of    *)
(* its rows: every row is decoded from the same fresh state, so their order *)
(* says nothing.                                                           *)
(***************************************************************************)
EXTENDS Integers

m_gameball_cases == {
    << <<0,20,0,0,0>>, <<20,0,0,0,0>> >>, << <<0,236,0,0,0>>, <<-20,0,0,0,0>> >>,
    << <<0,0,20,0,0>>, <<0,20,0,0,0>> >>, << <<0,0,236,0,0>>, <<0,-20,0,0,0>> >>,
    << <<0,246,246,0,0>>, <<-10,-10,0,0,0>> >>, << <<0,127,0,0,0>>, <<127,0,0,0,0>> >>,
    << <<0,128,0,0,0>>, <<-128,0,0,0,0>> >>, << <<0,0,0,1,0>>, <<0,0,1,0,0>> >>,
    << <<0,0,0,255,0>>, <<0,0,-1,0,0>> >>, << <<0,0,0,251,0>>, <<0,0,-5,0,0>> >>, << <<0,0,0,0,1>>, <<0,0,0,1,0>> >>,
    << <<0,0,0,0,255>>, <<0,0,0,-1,0>> >>, << <<0,0,0,2,254>>, <<0,0,2,-2,0>> >>, << <<1,0,0,0,0>>, <<0,0,0,0,1>> >>,
    << <<2,0,0,0,0>>, <<0,0,0,0,2>> >>, << <<4,0,0,0,0>>, <<0,0,0,0,4>> >>, << <<8,0,0,0,0>>, <<0,0,0,0,8>> >>,
    << <<16,0,0,0,0>>, <<0,0,0,0,16>> >>, << <<31,0,0,0,0>>, <<0,0,0,0,31>> >>,
    << <<1,10,246,0,0>>, <<10,-10,0,0,1>> >>, << <<4,0,0,3,0>>, <<0,0,3,0,4>> >>,
    << <<31,127,129,2,254>>, <<127,-127,2,-2,31>> >> }

m_kensington_cases == {
    << <<1,1,0,0>>, <<0,0,0,0,1>> >>, << <<1,2,0,0>>, <<0,0,0,0,2>> >>, << <<1,31,0,0>>, <<0,0,0,0,31>> >>,
    << <<1,0,1,0>>, <<0,0,1,0,0>> >>, << <<1,0,255,0>>, <<0,0,-1,0,0>> >>, << <<1,0,0,1>>, <<0,0,0,1,0>> >>,
    << <<1,0,0,255>>, <<0,0,0,-1,0>> >>, << <<1,4,3,0>>, <<0,0,3,0,4>> >>, << <<2,1,0,0>>, <<1,0,0,0,0>> >>,
    << <<2,255,15,0>>, <<-1,0,0,0,0>> >>, << <<2,0,16,0>>, <<0,1,0,0,0>> >>, << <<2,0,240,255>>, <<0,-1,0,0,0>> >>,
    << <<2,255,7,0>>, <<2047,0,0,0,0>> >>, << <<2,1,8,0>>, <<-2047,0,0,0,0>> >>,
    << <<2,0,240,127>>, <<0,2047,0,0,0>> >>, << <<2,0,16,128>>, <<0,-2047,0,0,0>> >>,
    << <<2,100,192,249>>, <<100,-100,0,0,0>> >>, << <<2,0,8,0>>, <<-2048,0,0,0,0>> >> }

m_cherry_mw8_cases == {
    << <<3,1,0,0,0,0,0>>, <<0,0,0,0,1>> >>, << <<3,31,0,0,0,0,0>>, <<0,0,0,0,31>> >>,
    << <<3,0,1,0,0,0,0>>, <<1,0,0,0,0>> >>, << <<3,0,255,15,0,0,0>>, <<-1,0,0,0,0>> >>,
    << <<3,0,0,16,0,0,0>>, <<0,1,0,0,0>> >>, << <<3,0,0,240,255,0,0>>, <<0,-1,0,0,0>> >>,
    << <<3,0,255,23,128,0,0>>, <<2047,-2047,0,0,0>> >>, << <<3,0,1,248,127,0,0>>, <<-2047,2047,0,0,0>> >>,
    << <<3,0,0,0,0,1,0>>, <<0,0,1,0,0>> >>, << <<3,0,0,0,0,255,0>>, <<0,0,-1,0,0>> >>,
    << <<3,0,0,0,0,0,1>>, <<0,0,0,1,0>> >>, << <<3,0,0,0,0,0,255>>, <<0,0,0,-1,0>> >>,
    << <<3,1,10,96,255,0,0>>, <<10,-10,0,0,1>> >>, << <<3,31,255,23,128,127,129>>, <<2047,-2047,127,-127,31>> >> }

m_mx518_cases == {
    << <<1,0,0,0,0,0,0>>, <<0,0,0,0,1>> >>, << <<255,0,0,0,0,0,0>>, <<0,0,0,0,-1>> >>,
    << <<0,0,0,0,1,0,0>>, <<1,0,0,0,0>> >>, << <<0,0,0,0,255,15,0>>, <<-1,0,0,0,0>> >>,
    << <<0,0,0,0,0,16,0>>, <<0,1,0,0,0>> >>, << <<0,0,0,0,0,240,255>>, <<0,-1,0,0,0>> >>,
    << <<0,0,0,1,0,0,0>>, <<0,0,1,0,0>> >>, << <<0,0,0,255,0,0,0>>, <<0,0,-1,0,0>> >>,
    << <<0,0,0,0,255,23,128>>, <<2047,-2047,0,0,0>> >>, << <<0,0,0,0,1,248,127>>, <<-2047,2047,0,0,0>> >>,
    << <<1,0,0,0,10,96,255>>, <<10,-10,0,0,1>> >>, << <<0,255,255,0,1,0,0>>, <<1,0,0,0,0>> >>,
    << <<255,170,85,127,255,23,128>>, <<2047,-2047,127,0,-1>> >> }

m_kernel_multi_cases == {
    << <<2,1,0,0,0,0,0>>, <<0,0,0,0,1>> >>, << <<2,31,0,0,0,0,0>>, <<0,0,0,0,31>> >>,
    << <<2,0,1,0,0,0,0>>, <<1,0,0,0,0>> >>, << <<2,0,255,15,0,0,0>>, <<-1,0,0,0,0>> >>,
    << <<2,0,0,16,0,0,0>>, <<0,1,0,0,0>> >>, << <<2,0,0,240,255,0,0>>, <<0,-1,0,0,0>> >>,
    << <<2,0,255,23,128,0,0>>, <<2047,-2047,0,0,0>> >>, << <<2,0,0,0,0,1,0>>, <<0,0,1,0,0>> >>,
    << <<2,0,0,0,0,255,0>>, <<0,0,-1,0,0>> >>, << <<2,0,0,0,0,0,1>>, <<0,0,0,1,0>> >>,
    << <<2,0,0,0,0,0,255>>, <<0,0,0,-1,0>> >>, << <<2,31,255,23,128,127,129>>, <<2047,-2047,127,-127,31>> >>,
    << <<1,31,255,23,128,127,129>>, <<0,0,0,0,0>> >> }

m_bolt_rx_cases == {
    << <<2,0,0,20,0,0,0,0,0>>, <<20,0,0,0,0>> >>, << <<2,0,0,236,255,0,0,0,0>>, <<-20,0,0,0,0>> >>,
    << <<2,0,0,0,0,20,0,0,0>>, <<0,20,0,0,0>> >>, << <<2,0,0,0,0,236,255,0,0>>, <<0,-20,0,0,0>> >>,
    << <<2,0,0,255,127,1,128,0,0>>, <<32767,-32767,0,0,0>> >>, << <<2,0,0,0,0,0,0,1,0>>, <<0,0,1,0,0>> >>,
    << <<2,0,0,0,0,0,0,255,0>>, <<0,0,-1,0,0>> >>, << <<2,0,0,0,0,0,0,0,1>>, <<0,0,0,1,0>> >>,
    << <<2,0,0,0,0,0,0,0,255>>, <<0,0,0,-1,0>> >>, << <<2,1,0,0,0,0,0,0,0>>, <<0,0,0,0,1>> >>,
    << <<2,128,0,0,0,0,0,0,0>>, <<0,0,0,0,128>> >>, << <<2,0,128,0,0,0,0,0,0>>, <<0,0,0,0,-32768>> >>,
    << <<2,255,255,0,0,0,0,0,0>>, <<0,0,0,0,-1>> >> }

m_ultralink_cases == {
    << <<1,0,20,0,0,0,0,0>>, <<20,0,0,0,0>> >>, << <<1,0,236,255,0,0,0,0>>, <<-20,0,0,0,0>> >>,
    << <<1,0,0,0,20,0,0,0>>, <<0,20,0,0,0>> >>, << <<1,0,0,0,236,255,0,0>>, <<0,-20,0,0,0>> >>,
    << <<1,0,0,0,0,0,1,0>>, <<0,0,1,0,0>> >>, << <<1,0,0,0,0,0,0,1>>, <<0,0,0,1,0>> >>,
    << <<1,31,0,0,0,0,0,0>>, <<0,0,0,0,31>> >>, << <<1,31,255,127,1,128,127,129>>, <<32767,-32767,127,-127,31>> >> }

m_bolt_touchpad_cases == {
    << <<40,3,1,64,215,10,250,6>>, <<0,0,0,0,0>> >> }

m_boot_protocol_cases == {
    << <<0,20,0,0,0>>, <<20,0,0,0,0>> >>, << <<0,246,246,0,0>>, <<-10,-10,0,0,0>> >>,
    << <<0,0,0,1,255>>, <<0,0,1,-1,0>> >>, << <<7,0,0,0,0>>, <<0,0,0,0,7>> >> }

m_sculpt_cases == {
    << <<26,0,255,255,0,0,0,0,0,0>>, <<-1,0,0,0,0>> >>, << <<26,0,1,0,0,0,0,0,0,0>>, <<1,0,0,0,0>> >>,
    << <<26,0,0,0,255,255,0,0,0,0>>, <<0,-1,0,0,0>> >>, << <<26,0,0,0,1,0,0,0,0,0>>, <<0,1,0,0,0>> >>,
    << <<26,1,0,0,0,0,0,0,0,0>>, <<0,0,0,0,1>> >>, << <<26,2,0,0,0,0,0,0,0,0>>, <<0,0,0,0,2>> >>,
    << <<26,4,0,0,0,0,0,0,0,0>>, <<0,0,0,0,4>> >>, << <<26,8,0,0,0,0,0,0,0,0>>, <<0,0,0,0,8>> >>,
    << <<26,0,0,0,0,0,12,0,0,0>>, <<0,0,12,0,0>> >>, << <<26,0,0,0,0,0,244,255,0,0>>, <<0,0,-12,0,0>> >>,
    << <<26,0,0,0,0,0,0,0,253,255>>, <<0,0,0,-3,0>> >>, << <<26,0,0,0,0,0,0,0,3,0>>, <<0,0,0,3,0>> >>,
    << <<26,31,255,127,1,128,127,129,1,128>>, <<32767,-32767,-32385,-32767,31>> >> }

m_g502_cases == {
    << <<0,0,20,0,0,0,0,0>>, <<20,0,0,0,0>> >>, << <<0,0,236,255,0,0,0,0>>, <<-20,0,0,0,0>> >>,
    << <<0,0,0,0,20,0,0,0>>, <<0,20,0,0,0>> >>, << <<0,0,0,0,236,255,0,0>>, <<0,-20,0,0,0>> >>,
    << <<0,0,255,127,1,128,0,0>>, <<32767,-32767,0,0,0>> >>, << <<0,0,0,0,0,0,1,0>>, <<0,0,1,0,0>> >>,
    << <<0,0,0,0,0,0,255,0>>, <<0,0,-1,0,0>> >>, << <<0,0,0,0,0,0,0,1>>, <<0,0,0,1,0>> >>,
    << <<0,0,0,0,0,0,0,255>>, <<0,0,0,-1,0>> >>, << <<1,0,0,0,0,0,0,0>>, <<0,0,0,0,1>> >>,
    << <<128,0,0,0,0,0,0,0>>, <<0,0,0,0,128>> >>, << <<0,128,0,0,0,0,0,0>>, <<0,0,0,0,-32768>> >>,
    << <<255,255,0,0,0,0,0,0>>, <<0,0,0,0,-1>> >>, << <<1,0,10,0,246,255,0,0>>, <<10,-10,0,0,1>> >> }

m_unifying_cases == {
    << <<2,0,0,1,0,0,0,0>>, <<1,0,0,0,0>> >>, << <<2,0,0,255,15,0,0,0>>, <<-1,0,0,0,0>> >>,
    << <<2,0,0,0,16,0,0,0>>, <<0,1,0,0,0>> >>, << <<2,0,0,0,240,255,0,0>>, <<0,-1,0,0,0>> >>,
    << <<2,0,0,255,7,0,0,0>>, <<2047,0,0,0,0>> >>, << <<2,0,0,1,8,0,0,0>>, <<-2047,0,0,0,0>> >>,
    << <<2,0,0,0,240,127,0,0>>, <<0,2047,0,0,0>> >>, << <<2,0,0,0,16,128,0,0>>, <<0,-2047,0,0,0>> >>,
    << <<2,0,0,0,0,0,1,0>>, <<0,0,1,0,0>> >>, << <<2,0,0,0,0,0,255,0>>, <<0,0,-1,0,0>> >>,
    << <<2,0,0,0,0,0,0,1>>, <<0,0,0,1,0>> >>, << <<2,0,0,0,0,0,0,255>>, <<0,0,0,-1,0>> >>,
    << <<2,1,0,0,0,0,0,0>>, <<0,0,0,0,1>> >>, << <<2,128,0,0,0,0,0,0>>, <<0,0,0,0,128>> >>,
    << <<2,0,128,0,0,0,0,0>>, <<0,0,0,0,-32768>> >>, << <<2,255,255,0,0,0,0,0>>, <<0,0,0,0,-1>> >>,
    << <<2,31,0,255,23,128,127,129>>, <<2047,-2047,127,-127,31>> >> }

m_bitdo_mouse_cases == {
    << <<3,0,20,0,0,0,0,0>>, <<20,0,0,0,0>> >>, << <<3,0,236,255,0,0,0,0>>, <<-20,0,0,0,0>> >>,
    << <<3,0,0,0,20,0,0,0>>, <<0,20,0,0,0>> >>, << <<3,0,0,0,236,255,0,0>>, <<0,-20,0,0,0>> >>,
    << <<3,0,0,0,0,0,1,0>>, <<0,0,1,0,0>> >>, << <<3,0,0,0,0,0,0,1>>, <<0,0,0,1,0>> >>,
    << <<3,31,0,0,0,0,0,0>>, <<0,0,0,0,31>> >>, << <<3,31,255,127,1,128,127,129>>, <<32767,-32767,127,-127,31>> >> }

m_ps2_converter_cases == {
    << <<1,0,10,0,0>>, <<10,0,0,0,0>> >>, << <<1,0,246,0,0>>, <<-10,0,0,0,0>> >>,
    << <<1,0,0,10,0>>, <<0,10,0,0,0>> >>, << <<1,0,0,246,0>>, <<0,-10,0,0,0>> >>,
    << <<1,0,127,128,0>>, <<127,-128,0,0,0>> >>, << <<1,0,0,0,1>>, <<0,0,1,0,0>> >>,
    << <<1,0,0,0,255>>, <<0,0,-1,0,0>> >>, << <<1,1,0,0,0>>, <<0,0,0,0,1>> >>, << <<1,16,0,0,0>>, <<0,0,0,0,16>> >>,
    << <<1,31,0,0,0>>, <<0,0,0,0,31>> >>, << <<1,224,0,0,0>>, <<0,0,0,0,-32>> >>,
    << <<1,1,10,246,0>>, <<10,-10,0,0,1>> >> }

m_issue26_cases == {
    << <<0,1,0,0,0,0,0>>, <<1,0,0,0,0>> >>, << <<0,255,15,0,0,0,0>>, <<-1,0,0,0,0>> >>,
    << <<0,0,16,0,0,0,0>>, <<0,1,0,0,0>> >>, << <<0,0,240,255,0,0,0>>, <<0,-1,0,0,0>> >>,
    << <<0,255,23,128,0,0,0>>, <<2047,-2047,0,0,0>> >>, << <<0,0,0,0,1,0,0>>, <<0,0,1,0,0>> >>,
    << <<0,0,0,0,0,255,0>>, <<0,0,0,-1,0>> >>, << <<1,0,0,0,0,0,0>>, <<0,0,0,0,1>> >>,
    << <<31,0,0,0,0,0,0>>, <<0,0,0,0,31>> >>, << <<0,0,0,0,0,0,255>>, <<0,0,0,0,0>> >>,
    << <<31,255,23,128,127,129,170>>, <<2047,-2047,127,-127,31>> >> }

m_scimitar_cases == {
    << <<1,0,0,0,0,1,0,0,0,0,0>>, <<1,0,0,0,0>> >>, << <<1,0,0,0,0,255,255,0,0,0,0>>, <<-1,0,0,0,0>> >>,
    << <<1,0,0,0,0,0,0,255,255,0,0>>, <<0,-1,0,0,0>> >>, << <<1,0,0,0,0,0,0,1,0,0,0>>, <<0,1,0,0,0>> >>,
    << <<1,0,0,0,0,254,255,254,255,0,0>>, <<-2,-2,0,0,0>> >>, << <<1,2,0,0,0,255,255,0,0,0,0>>, <<-1,0,0,0,2>> >>,
    << <<1,2,0,0,0,0,0,255,255,0,0>>, <<0,-1,0,0,2>> >>, << <<1,0,0,0,0,0,0,0,0,1,0>>, <<0,0,1,0,0>> >>,
    << <<1,0,8,0,0,0,0,0,0,0,0>>, <<0,0,0,0,2048>> >> }

m_scimitar_boot_cases == {
    << <<0,20,0,0,0,0,0>>, <<20,0,0,0,0>> >>, << <<0,246,246,0,0,0,0>>, <<-10,-10,0,0,0>> >>,
    << <<0,0,0,1,0,0,0>>, <<0,0,1,0,0>> >>, << <<0,0,0,255,0,0,0>>, <<0,0,-1,0,0>> >>,
    << <<31,0,0,0,0,0,0>>, <<0,0,0,0,31>> >>, << <<0,0,0,0,255,255,255>>, <<0,0,0,0,0>> >>,
    << <<1,10,246,0,0,0,0>>, <<10,-10,0,0,1>> >> }

m_issue99_cases == {
    << <<0,1,0,0,0>>, <<1,0,0,0,0>> >>, << <<0,255,15,0,0>>, <<-1,0,0,0,0>> >>, << <<0,0,16,0,0>>, <<0,1,0,0,0>> >>,
    << <<0,0,240,255,0>>, <<0,-1,0,0,0>> >>, << <<0,0,8,0,0>>, <<-2048,0,0,0,0>> >>,
    << <<0,0,240,127,0>>, <<0,2047,0,0,0>> >>, << <<0,0,0,0,1>>, <<0,0,1,0,0>> >>,
    << <<0,0,0,0,255>>, <<0,0,-1,0,0>> >>, << <<4,0,0,0,0>>, <<0,0,0,0,4>> >>, << <<7,0,0,0,0>>, <<0,0,0,0,7>> >>,
    << <<248,0,0,0,0>>, <<0,0,0,0,-8>> >> }

m_vial_qmk_cases == {
    << <<2,0,10,0,0,0>>, <<10,0,0,0,0>> >>, << <<2,0,0,246,0,0>>, <<0,-10,0,0,0>> >>,
    << <<2,0,0,0,1,0>>, <<0,0,1,0,0>> >>, << <<2,0,0,0,0,255>>, <<0,0,0,-1,0>> >>,
    << <<2,1,0,0,0,0>>, <<0,0,0,0,1>> >>, << <<2,31,0,0,0,0>>, <<0,0,0,0,31>> >>,
    << <<2,224,0,0,0,0>>, <<0,0,0,0,-32>> >>, << <<2,0,0,0,0,0,0>>, <<0,0,0,0,0>> >> }

m_qmk_shared_mouse_cases == {
    << <<2,0,10,0,0,0>>, <<10,0,0,0,0>> >>, << <<2,0,0,246,0,0>>, <<0,-10,0,0,0>> >>,
    << <<2,0,0,0,255,0>>, <<0,0,-1,0,0>> >>, << <<2,0,0,0,0,1>>, <<0,0,0,1,0>> >>,
    << <<2,1,0,0,0,0>>, <<0,0,0,0,1>> >>, << <<2,128,0,0,0,0>>, <<0,0,0,0,-128>> >>,
    << <<2,255,0,0,0,0>>, <<0,0,0,0,-1>> >>, << <<2,31,127,129,2,254>>, <<127,-127,2,-2,31>> >> }

m_mighty_mouse_cases == {
    << <<0,10,0,0,0,0>>, <<10,0,0,0,0>> >>, << <<0,0,246,0,0,0>>, <<0,-10,0,0,0>> >>,
    << <<0,0,0,0,1,0>>, <<0,0,1,0,0>> >>, << <<0,0,0,0,255,0>>, <<0,0,-1,0,0>> >>,
    << <<0,0,0,127,0,0>>, <<0,0,0,0,0>> >>, << <<0,0,0,0,0,255>>, <<0,0,0,0,0>> >>,
    << <<1,0,0,0,0,0>>, <<0,0,0,0,1>> >>, << <<15,0,0,0,0,0>>, <<0,0,0,0,15>> >>,
    << <<240,0,0,0,0,0>>, <<0,0,0,0,-16>> >>, << <<15,127,129,85,255,170>>, <<127,-127,-1,0,15>> >> }

m_magic_trackpad_cases == {
    << <<2,0,10,0,0,0,0,0>>, <<10,0,0,0,0>> >>, << <<2,0,0,246,0,0,0,0>>, <<0,-10,0,0,0>> >>,
    << <<2,1,0,0,0,0,0,0>>, <<0,0,0,0,1>> >>, << <<2,7,0,0,0,0,0,0>>, <<0,0,0,0,7>> >>,
    << <<2,248,0,0,0,0,0,0>>, <<0,0,0,0,-8>> >>, << <<2,0,0,0,255,255,255,255>>, <<0,0,0,0,0>> >>,
    << <<2,1,10,246,0,0,0,0>>, <<10,-10,0,0,1>> >> }

m_keyboardio_mouse_cases == {
    << <<0,100,0,0,0,0>>, <<100,0,0,0,0>> >>, << <<0,0,0,200,0,0>>, <<0,200,0,0,0>> >>,
    << <<0,255,127,0,0,0>>, <<32767,0,0,0,0>> >>, << <<0,0,0,255,127,0>>, <<0,32767,0,0,0>> >>,
    << <<0,0,0,0,0,0>>, <<0,0,0,0,0>> >>, << <<0,0,0,0,0,1>>, <<0,0,1,0,0>> >>, << <<1,0,0,0,0,0>>, <<0,0,0,0,1>> >>,
    << <<128,0,0,0,0,0>>, <<0,0,0,0,-128>> >>, << <<255,0,0,0,0,0>>, <<0,0,0,0,-1>> >> }
==============================================================================
