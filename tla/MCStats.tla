------------------------------ MODULE MCStats -------------------------------
EXTENDS Stats

\* The clock is set back by more and by less than an interval, and forward.
MCShifts == {-2, -1, 2}
=============================================================================
