------------------------------ MODULE MCLauncher ------------------------------
EXTENDS LauncherModel

MCInCategory == [all |-> Contents \cup {Absent}, some |-> {"hidden"}]
MCTitle == [p \in Paths |-> 9 - p]
MCVendor == [p \in Paths |-> IF p = 2 THEN 0 ELSE NoPosition]
MCGuess == [p1 |-> 1, p2 |-> 3]
MCAnnounced == [p1 |-> {1}, p2 |-> {2, NoPath}]
===============================================================================
