-------------------------- MODULE EpochFile_proofs --------------------------
(* Proofs about the mark file, for any writers, sequences and faults.        *)
EXTENDS EpochFile, TLAPS

\* Every reachable state is well typed.
THEOREM Typing == Spec => []TypeOK
  <1> USE DEF locals, history, NoEpoch
  <1>1. Init => TypeOK
    <2>1. Init => undone \in BOOLEAN
      BY DEF Init
    <2>2. Init => TypeOK
      BY <2>1, BoundsAssumption DEF Init, TypeOK
    <2> QED
      BY <2>2
  <1>2. TypeOK /\ [Next]_vars => TypeOK'
    <2> SUFFICES ASSUME TypeOK, [Next]_vars
                 PROVE  TypeOK'
      OBVIOUS
    <2>1. faults < MaxFaults => faults + 1 \in 0..MaxFaults
      BY BoundsAssumption DEF TypeOK
    <2>2. \A s \in Sequences : s \in Texts /\ Parts(s) \subseteq Texts /\ Unreadable \in Texts
      BY DEF Texts, Parts
    <2>3. None \notin Texts
      <3>1. \A s \in Sequences : s \in Int /\ s \div 10 \in Int
        BY SetsAssumption
      <3> QED
        BY <3>1, ValuesAssumption DEF Texts, Parts
    <2>4. ASSUME NEW w \in Writers, NEW s \in Sequences, Check(w, s)
          PROVE  TypeOK'
      BY <2>4 DEF Check, Goes, TypeOK
    <2>5. ASSUME NEW w \in Writers, Create(w)
          PROVE  TypeOK'
      BY <2>2, <2>3, <2>5 DEF Create, Goes, Holds, TypeOK
    <2>6. ASSUME NEW w \in Writers, Write(w)
          PROVE  TypeOK'
      <3>1. PICK part \in Parts(goal[w]) : temp' = [temp EXCEPT ![w] = part]
        BY <2>6 DEF Write
      <3>2. goal[w] \in Sequences
        BY <2>6 DEF Write, Goes, TypeOK
      <3>3. part \in Texts /\ part # None
        BY <2>2, <2>3, <3>2
      <3> QED
        BY <2>6, <3>1, <3>3 DEF Write, Goes, TypeOK
    <2>7. ASSUME NEW w \in Writers, Sync(w)
          PROVE  TypeOK'
      <3>1. goal[w] \in Sequences
        BY <2>7 DEF Sync, Goes, TypeOK
      <3> QED
        BY <2>2, <2>3, <2>7, <3>1 DEF Sync, Goes, Holds, TypeOK
    <2>8. ASSUME NEW w \in Writers, Replace(w) \/ ReplaceRaises(w)
          PROVE  TypeOK'
      <3>1. temp[w] \in Texts /\ goal[w] \in Sequences
        BY <2>8 DEF Replace, ReplaceRaises, Goes, TypeOK
      <3>2. file' \in Texts /\ disk' \in Texts \cup {NoEpoch} /\ undone' \in BOOLEAN
        BY <2>8, <3>1 DEF Replace, ReplaceRaises, Renamed, Overtaken, TypeOK
      <3>3. CASE Replace(w)
        BY <3>1, <3>2, <3>3 DEF Replace, Renamed, Goes, Holds, TypeOK
      <3>4. CASE ReplaceRaises(w)
        BY <2>1, <3>2, <3>4 DEF ReplaceRaises, Renamed, Goes, Holds, Fault, TypeOK
      <3> QED
        BY <2>8, <3>3, <3>4
    <2>9. ASSUME NEW w \in Writers, CreateRaises(w)
          PROVE  TypeOK'
      BY <2>1, <2>9 DEF CreateRaises, Goes, Fault, TypeOK
    <2>10. ASSUME NEW w \in Writers, Raises(w)
           PROVE  TypeOK'
      BY <2>1, <2>10 DEF Raises, Fault, TypeOK
    <2>11. ASSUME NEW w \in Writers, Unlink(w) \/ UnlinkRaises(w)
           PROVE  TypeOK'
      BY <2>1, <2>11 DEF Unlink, UnlinkRaises, Goes, Holds, Fault, TypeOK
    <2>12. ASSUME NEW W \in SUBSET Writers, Die(W), file' \in {file, disk}, disk' = disk,
                  undone' \in BOOLEAN
           PROVE  TypeOK'
      BY <2>1, <2>12 DEF Die, Fault, TypeOK
    <2>14. ASSUME NEW w \in Writers, NEW s \in Sequences, Keep(w, s)
           PROVE  TypeOK'
      BY <2>14 DEF Keep, TypeOK
    <2>15. CASE PowerCut
      BY <2>12, <2>15 DEF PowerCut, TypeOK
    <2>16. ASSUME NEW w \in Writers, Crash(w)
           PROVE  TypeOK'
      BY <2>12, <2>16 DEF Crash, TypeOK
    <2>13. CASE UNCHANGED vars
      BY <2>13 DEF vars, TypeOK
    <2> QED
      BY <2>4, <2>5, <2>6, <2>7, <2>8, <2>9, <2>10, <2>11, <2>13, <2>14, <2>15, <2>16
      DEF Next
  <1> QED
    BY <1>1, <1>2, PTL DEF Spec

-----------------------------------------------------------------------------
(* What a rename puts in place *)

\* What each writer knows: the number it compared its sequence with is lower, and
\* what it is about to rename is that sequence, whole.
Knows(w) ==
  pc[w] # "idle" =>
    /\ seen[w] \in called \cup {NoEpoch} /\ goal[w] > seen[w]
    /\ pc[w] # "create" => goal[w] \in called
    /\ pc[w] = "replace" => temp[w] = goal[w]

IInv == NeverTruncated /\ \A w \in Writers : Knows(w)

\* IInv is inductive.
LEMMA Inductive == Spec => []IInv
  <1> USE DEF locals, history, NoEpoch, NeverTruncated, Knows
  <1>1. Init => IInv
    BY DEF Init, IInv
  <1>2. TypeOK /\ IInv /\ [Next]_vars => IInv'
    <2> SUFFICES ASSUME TypeOK, IInv, [Next]_vars
                 PROVE  IInv'
      OBVIOUS
    <2> USE DEF IInv, TypeOK
    <2>1. ASSUME NEW w \in Writers, NEW s \in Sequences, Check(w, s)
          PROVE  IInv'
      BY <2>1 DEF Check, Goes
    <2>2. ASSUME NEW w \in Writers, Create(w)
          PROVE  IInv'
      <3>1. /\ called \subseteq called' /\ goal[w] \in called'
            /\ pc[w] = "create" /\ pc' = [pc EXCEPT ![w] = "write"]
            /\ temp' = [temp EXCEPT ![w] = Unreadable]
            /\ UNCHANGED <<file, disk, goal, seen>>
        BY <2>2 DEF Create, Goes, Holds
      <3>2. ASSUME NEW v \in Writers
            PROVE  Knows(v)'
        <4>1. CASE v = w
          BY <3>1, <4>1
        <4>2. CASE v # w
          <5>1. Knows(v) /\ pc'[v] = pc[v] /\ temp'[v] = temp[v]
            BY <3>1, <4>2
          <5> QED
            BY <3>1, <5>1
        <4> QED
          BY <4>1, <4>2
      <3> QED
        BY <3>1, <3>2
    <2>3. ASSUME NEW w \in Writers, Write(w)
          PROVE  IInv'
      <3>1. PICK part \in Parts(goal[w]) : temp' = [temp EXCEPT ![w] = part]
        BY <2>3 DEF Write
      <3> QED
        BY <2>3, <3>1 DEF Write, Goes
    <2>4. ASSUME NEW w \in Writers, Sync(w)
          PROVE  IInv'
      BY <2>4 DEF Sync, Goes, Holds
    <2>5. ASSUME NEW w \in Writers, Replace(w) \/ ReplaceRaises(w)
          PROVE  IInv'
      <3>1. temp[w] \in called
        BY <2>5 DEF Replace, ReplaceRaises, Goes
      <3> QED
        BY <2>5, <3>1 DEF Replace, ReplaceRaises, Renamed, Goes, Holds
    <2>6. ASSUME NEW w \in Writers,
                 CreateRaises(w) \/ Raises(w) \/ Unlink(w) \/ UnlinkRaises(w)
          PROVE  IInv'
      BY <2>6 DEF CreateRaises, Raises, Unlink, UnlinkRaises, Goes, Holds
    <2>7. ASSUME NEW W \in SUBSET Writers, Die(W), file' \in {file, disk}, disk' = disk
          PROVE  IInv'
      BY <2>7 DEF Die
    <2>8. CASE UNCHANGED vars
      BY <2>8 DEF vars
    <2>9. ASSUME NEW w \in Writers, NEW s \in Sequences, Keep(w, s)
          PROVE  IInv'
      BY <2>9 DEF Keep
    <2> QED
      BY <2>1, <2>2, <2>3, <2>4, <2>5, <2>6, <2>7, <2>8, <2>9 DEF Next, Crash, PowerCut
  <1> QED
    BY <1>1, <1>2, Typing, PTL DEF Spec

\* read() never finds a part of a number, whoever dies when.
THEOREM NeverTruncatedHolds == Spec => []NeverTruncated
  <1>1. IInv => NeverTruncated
    BY DEF IInv
  <1> QED
    BY <1>1, Inductive, PTL

\* A rename, whether its call returns or raises.
Renames(w) == Replace(w) \/ ReplaceRaises(w)

\* It puts the whole sequence of its writer in place.
LEMMA RenamesGoal ==
  ASSUME TypeOK, IInv, NEW w \in Writers, Renames(w)
  PROVE  goal[w] \in Sequences /\ file' = goal[w] /\ goal[w] > seen[w]
  BY DEF TypeOK, IInv, Knows, Renames, Replace, ReplaceRaises, Renamed, Goes

\* By a writer whose mark nobody touched, it is one step of the maximum.
LEMMA UntouchedIsMaximum ==
  ASSUME TypeOK, IInv, NEW w \in Writers, Renames(w), ~Overtaken(w)
  PROVE  Mark!Next
  BY RenamesGoal DEF Overtaken, Mark!Next, Mark!Commit

\* Only a rename and a power cut change the mark.
LEMMA WhatMovesTheMark ==
  ASSUME [Next]_vars, file' # file
  PROVE  (\E w \in Writers : Renames(w)) \/ PowerCut
  BY DEF Next, vars, Keep, Check, Create, Write, Sync, CreateRaises, Raises, Unlink,
         UnlinkRaises, Crash, Renames

\* With any number of processes, the mark is the maximum of what was committed, but
\* for processes that overtake each other and power cuts.
THEOREM ActsAsMaximumHolds == Spec => ActsAsMaximum
  <1>1. TypeOK /\ IInv /\ [Next]_vars =>
          [ \/ Mark!Next
            \/ \E w \in Writers : Overtaken(w) /\ (Replace(w) \/ ReplaceRaises(w))
            \/ PowerCut ]_file
    BY UntouchedIsMaximum, WhatMovesTheMark DEF Renames
  <1> QED
    BY <1>1, Typing, Inductive, PTL DEF Spec, ActsAsMaximum

-----------------------------------------------------------------------------
(* What commit() has returned for *)

\* Where no rename was undone, the mark is at or above every sequence that commit() has
\* returned for, for any number of processes and faults.
THEOREM ReturnedIsRecordedHolds == Spec => []ReturnedIsRecorded
  <1> USE DEF ReturnedIsRecorded
  <1>1. Init => ReturnedIsRecorded
    BY DEF Init
  <1>2. TypeOK /\ IInv /\ ReturnedIsRecorded /\ [Next]_vars => ReturnedIsRecorded'
    <2> SUFFICES ASSUME TypeOK, IInv, ReturnedIsRecorded, [Next]_vars
                 PROVE  ReturnedIsRecorded'
      OBVIOUS
    <2>1. CASE UNCHANGED <<file, returned, undone>>
      BY <2>1
    <2>2. ASSUME NEW w \in Writers, NEW s \in Sequences, Keep(w, s)
          PROVE  ReturnedIsRecorded'
      BY <2>2 DEF Keep
    <2>3. ASSUME NEW w \in Writers, Renames(w), ~undone'
          PROVE  \A s \in returned' : s <= file'
      <3>1. undone' = (undone \/ Overtaken(w)) /\ returned' \subseteq returned \cup {goal[w]}
        BY <2>3 DEF Renames, Replace, ReplaceRaises, Renamed
      <3>2. ~undone /\ seen[w] = file
        BY <2>3, <3>1 DEF Overtaken
      <3>3. goal[w] \in Sequences /\ file' = goal[w] /\ goal[w] > file
        BY <2>3, <3>2, RenamesGoal
      <3>4. file \in Int
        <4>1. file \in Sequences \cup {NoEpoch}
          BY DEF TypeOK, IInv, NeverTruncated
        <4> QED
          BY <4>1, SetsAssumption DEF NoEpoch
      <3>6. goal[w] \in Int /\ returned \subseteq Int
        BY <3>3, SetsAssumption DEF TypeOK
      <3>5. ASSUME NEW s \in returned'
            PROVE  s <= file'
        <4>1. CASE s = goal[w]
          BY <3>3, <3>6, <4>1
        <4>2. CASE s \in returned
          <5>1. s <= file
            BY <3>2, <4>2
          <5> QED
            BY <3>3, <3>4, <3>6, <4>2, <5>1
        <4> QED
          BY <3>1, <3>5, <4>1, <4>2
      <3> QED
        BY <3>5
    <2>4. CASE PowerCut
      BY <2>4 DEF PowerCut, Die
    <2>5. ASSUME NEW w \in Writers, Crash(w)
          PROVE  ReturnedIsRecorded'
      BY <2>5 DEF Crash, Die
    <2>6. CASE UNCHANGED vars
      BY <2>1, <2>6 DEF vars, history
    <2>7. ASSUME NEW w \in Writers,
                 \/ \E s \in Sequences : Check(w, s)
                 \/ Create(w) \/ Write(w) \/ Sync(w)
                 \/ CreateRaises(w) \/ Raises(w) \/ Unlink(w) \/ UnlinkRaises(w)
          PROVE  ReturnedIsRecorded'
      BY <2>1, <2>7 DEF Check, Create, Write, Sync, CreateRaises, Raises, Unlink,
                        UnlinkRaises, history
    <2>8. ASSUME NEW w \in Writers, Renames(w)
          PROVE  ReturnedIsRecorded'
      BY <2>3, <2>8
    <2> QED
      BY <2>2, <2>4, <2>5, <2>6, <2>7, <2>8 DEF Next, Renames
  <1> QED
    BY <1>1, <1>2, Typing, Inductive, PTL DEF Spec

-----------------------------------------------------------------------------
(* One process *)

\* Nothing moves the mark between the read and the rename.
Alone(w) ==
  /\ disk = file /\ ~undone
  /\ pc[w] \in {"create", "write", "sync", "replace"} => ~Overtaken(w)

\* Alone is inductive where there is no other process and renames survive power cuts.
LEMMA StaysAlone ==
  ASSUME NEW w, Writers = {w}, RenameSurvivesPowerCut
  PROVE  Spec => []Alone(w)
  <1> USE DEF locals, history
  <1>1. Init => Alone(w)
    BY DEF Init, Alone
  <1>2. TypeOK /\ Alone(w) /\ [Next]_vars => Alone(w)'
    <2> SUFFICES ASSUME TypeOK, Alone(w), [Next]_vars
                 PROVE  Alone(w)'
      OBVIOUS
    <2> USE DEF Alone, Overtaken, TypeOK
    <2>1. CASE \E s \in Sequences : Check(w, s)
      BY <2>1 DEF Check, Goes
    <2>2. CASE Replace(w)
      BY <2>2 DEF Replace, Renamed, Goes
    <2>3. CASE Create(w) \/ Write(w) \/ Sync(w) \/ CreateRaises(w) \/ Raises(w)
      BY <2>3 DEF Create, Write, Sync, CreateRaises, Raises, Goes
    <2>4. CASE Crash(w) \/ PowerCut
      BY <2>4 DEF Crash, PowerCut, Die
    <2>5. CASE UNCHANGED vars
      BY <2>5 DEF vars
    <2>6. CASE \E s \in Sequences : Keep(w, s)
      BY <2>6 DEF Keep
    <2>7. CASE Unlink(w) \/ UnlinkRaises(w)
      BY <2>7 DEF Unlink, UnlinkRaises, Goes
    <2>8. CASE ReplaceRaises(w)
      BY <2>8 DEF ReplaceRaises, Renamed, Goes
    <2> QED
      BY <2>1, <2>2, <2>3, <2>4, <2>5, <2>6, <2>7, <2>8 DEF Next
  <1> QED
    BY <1>1, <1>2, Typing, PTL DEF Spec

\* With one process at a time, and renames that survive power cuts, the file is an
\* epoch store: it implements the maximum.
THEOREM OneWriterKeepsMaximum ==
  ASSUME NEW w, Writers = {w}, RenameSurvivesPowerCut
  PROVE  Spec => Mark!Spec
  <1>1. Init => Mark!Init
    BY DEF Init, Mark!Init, NoEpoch, Mark!NoEpoch
  <1>2. TypeOK /\ IInv /\ Alone(w) /\ [Next]_vars => [Mark!Next]_file
    <2> SUFFICES ASSUME TypeOK, IInv, Alone(w), [Next]_vars, file' # file
                 PROVE  Mark!Next
      OBVIOUS
    <2>1. ~PowerCut
      BY DEF PowerCut, Alone
    <2>2. Renames(w)
      BY <2>1, WhatMovesTheMark
    <2> QED
      BY <2>2, UntouchedIsMaximum DEF Alone, Renames, Replace, ReplaceRaises, Goes
  <1> QED
    BY <1>1, <1>2, StaysAlone, Typing, Inductive, PTL DEF Spec, Mark!Spec

\* And every sequence it has returned for is recorded, without exception.
THEOREM OneWriterRecordsWhatReturned ==
  ASSUME NEW w, Writers = {w}, RenameSurvivesPowerCut
  PROVE  Spec => [](\A s \in returned : s <= file)
  <1>1. Alone(w) /\ ReturnedIsRecorded => \A s \in returned : s <= file
    BY DEF Alone, ReturnedIsRecorded
  <1> QED
    BY <1>1, StaysAlone, ReturnedIsRecordedHolds, PTL
=============================================================================
