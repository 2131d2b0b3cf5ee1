--------------------------- MODULE MCSlotMigration ---------------------------
(* Small instances of the slot migration.                                   *)
EXTENDS SlotMigration, TLC

\* One migration, two writers at a time.
Writers == [ids |-> 4, writes |-> 2, busy |-> 2, tasks |-> 1, tries |-> 1, crashes |-> 0, lax |-> {}]

\* Two migrations and a crash.
Twice == [ids |-> 3, writes |-> 1, busy |-> 1, tasks |-> 2, tries |-> 1, crashes |-> 1, lax |-> {}]

\* Two migrations and two writes.
Back == [Twice EXCEPT !.ids = 4, !.writes = 2, !.crashes = 0]

\* A receiver that tries again, and a crash.
Again == [Twice EXCEPT !.tasks = 1, !.tries = 2]

\* One migration, one binlog.
Small == [ids |-> 3, writes |-> 1, busy |-> 1, tasks |-> 1, tries |-> 1, crashes |-> 0, lax |-> {}]

MCSettings == {Writers, Twice, Back, Again}
MCSettingsLive == {Small}
MCSettingsHalf == {[Small EXCEPT !.lax = {"half"}]}

Symmetry == Permutations(Clients)
=============================================================================
