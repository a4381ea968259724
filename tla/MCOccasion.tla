----------------------------- MODULE MCOccasion -----------------------------
EXTENDS Occasion

MCDays == {60, 14, 8, 0, -2}
MCLearned == {60, 14, -2}
MCRedates == {60}
MCPicked == {"get:gift", "send:gift", "wish", "plan"}
=============================================================================
