---------------------------- MODULE MCKeyboardRig ----------------------------
EXTENDS KeyboardRig
==============================================================================
