---- MODULE MCMonitoring ----
EXTENDS Monitoring
AllScreens == Screens
SomeScreens == {"active", "idle", "asking", "unknown"}
====
