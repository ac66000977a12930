---------------------------- MODULE MCMigrations ----------------------------
(***************************************************************************)
(* Databases of several releases, taken up and down through the revisions  *)
(* that create, fill, change and drop what others made, and installations  *)
(* from nothing with today's models.  A revision's number in the chain is  *)
(* Nr of the number in its file name.                                      *)
(***************************************************************************)
EXTENDS Migrations, Revisions

MCUndeclared == [job_tasks |-> JobTasks]

Nr(n) == IF n <= 8 THEN n ELSE n + 3

Plan(d, installed, release, goals, n) ==
    [dialect |-> d, installed |-> installed, release |-> release,
     agenda |-> goals, crashes |-> n]

\* On SQLite upgraded from the first release on, on PostgreSQL, which refuses
\* one of the revisions, made by the release it stands at.
Both(release, goals, n) ==
    {Plan("sqlite", 1, release, goals, n),
     Plan("postgresql", release, release, goals, n)}

MCPlans ==
    { Plan("sqlite", 1, 5, <<Nr(20), 5>>, 0),
      Plan("sqlite", 11, Nr(18), <<Nr(22), Nr(16), Nr(22)>>, 0),
      Plan("sqlite", 0, 0, <<Nr(52), Nr(30), Nr(48)>>, 0),
      Plan("postgresql", 0, 0, <<Nr(48), Nr(52)>>, 0),
      Plan("postgresql", 1, 5, <<Nr(10)>>, 0) }
    \cup Both(11, <<Nr(20), 11>>, 0)
    \cup Both(Nr(26), <<Nr(20), Nr(26)>>, 0)
    \cup Both(Nr(31), <<Nr(36), Nr(33), Nr(36)>>, 1)
    \cup Both(Nr(21), <<Nr(44), Nr(25)>>, 0)
    \cup Both(Nr(45), <<Nr(52), Nr(45), Nr(48)>>, 0)

FreshPlans == {Plan("sqlite", 0, 0, <<Nr(52)>>, 0)}
=============================================================================
