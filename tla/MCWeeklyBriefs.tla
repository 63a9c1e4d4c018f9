--------------------------- MODULE MCWeeklyBriefs ---------------------------
EXTENDS WeeklyBriefs

CONSTANT p1   \* a model value

=============================================================================
