------------------------------ MODULE DDLGuard ------------------------------
(***************************************************************************)
(* What the lock ^%ydboctoocto("ddl") promises to the statements that go   *)
(* through run_query: any number of processes may be reading the schema    *)
(* (parsing a statement, or running the plan of a simple query), or one    *)
(* process may be changing it, never both.  QueryLock, which follows the   *)
(* lock calls of the code, implements this specification.                  *)
(***************************************************************************)
CONSTANT Proc

VARIABLES
    readers,  \* processes that rely on the schema standing still
    writers   \* processes that are changing the schema

vars == <<readers, writers>>

Init ==
    /\ readers = {}
    /\ writers = {}

Enter(p) ==
    /\ writers = {}
    /\ readers' = readers \cup {p}
    /\ UNCHANGED writers

Leave(p) ==
    /\ readers' = readers \ {p}
    /\ UNCHANGED writers

Begin(p) ==
    /\ readers = {}
    /\ writers = {}
    /\ writers' = {p}
    /\ UNCHANGED readers

End(p) ==
    /\ writers' = writers \ {p}
    /\ UNCHANGED readers

Next == \E p \in Proc : Enter(p) \/ Leave(p) \/ Begin(p) \/ End(p)

Spec == Init /\ [][Next]_vars
=============================================================================
