---------------------------- MODULE MCReminders ----------------------------
EXTENDS Reminders, TLC

Devices == Permutations(Device)
=============================================================================
