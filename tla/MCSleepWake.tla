---- MODULE MCSleepWake ----
EXTENDS SleepWake
====
