---------------------------- MODULE MCOrderStore ----------------------------
(* OrderStore on small instances.                                           *)
EXTENDS OrderStore, TLC

OneOwner == [u \in Uuids |-> CHOOSE user \in Users : TRUE]

(* Every uuid belongs to the one user, so uuids may be exchanged.           *)
UuidSymmetry == Permutations(Uuids)

(* The histories a property does not read, and the file when nothing may    *)
(* restart from it, change no behaviour: states that differ only in them    *)
(* count as one.                                                            *)
DurableView == <<proc, mem, db, file, tasks, queue, qfile, sync, reload, anc, claimed, dropped>>

=============================================================================
