-------------------------- MODULE MCTeamDeliveries ---------------------------
EXTENDS TeamDeliveries

CONSTANTS t1, t2

\* One delivery follows another in t1, one runs beside them in t2.
MCThreadOf == [d \in 1..N |-> IF d = 2 THEN t2 ELSE t1]
==============================================================================
