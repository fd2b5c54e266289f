----------------------------- MODULE EpochMark -----------------------------
(***************************************************************************)
(* What an epoch store promises (agent/epoch.py, EpochStore): the highest  *)
(* sequence ever committed, nothing lower and nothing that never was.      *)
(* MemoryEpochStore is this to the letter; EpochFile shows how far a file  *)
(* that several processes may share comes to it.                           *)
(***************************************************************************)
EXTENDS Integers

CONSTANT Sequences

VARIABLE mark

NoEpoch == -1

Init == mark = NoEpoch

\* MemoryEpochStore.commit
Commit(s) == mark' = IF s > mark THEN s ELSE mark

Next == \E s \in Sequences : Commit(s)

Spec == Init /\ [][Next]_mark
=============================================================================
