---- MODULE MCSleepWakeHistory ----
EXTENDS SleepWakeHistory
====
