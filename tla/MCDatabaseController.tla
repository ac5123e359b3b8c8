------------------------ MODULE MCDatabaseController ------------------------
(* Small instances of DatabaseController for TLC.                          *)
EXTENDS DatabaseController, TLC

CONSTANTS h1, h2, p1, p2, p3, p4, legacy

Nothing == [role |-> NoPassword, owner |-> "none", granted |-> FALSE, repaired |-> FALSE]

\* A database made by hand, whose objects belong to somebody else.
OldDatabase == [Nothing EXCEPT !.owner = "other"]

\* A role of the right name as well, with a password of its own.
OldBoth == [OldDatabase EXCEPT !.role = legacy]

EmptyServers == {[h \in Hosts |-> Nothing]}

\* All servers hold the same.
LikeServers == {[h \in Hosts |-> s] : s \in {Nothing, OldDatabase, OldBoth}}

\* A role is there from the second run or the second incarnation on.
RolelessServers == [Hosts -> {Nothing, OldDatabase}]

AnyServers == [Hosts -> {Nothing, OldDatabase, OldBoth}]

PasswordSymmetry == Permutations(Passwords \ {legacy})

=============================================================================
