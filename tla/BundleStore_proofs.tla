------------------------- MODULE BundleStore_proofs -------------------------
(* Proofs about the bundle store, for every set of messages, every clock and *)
(* any number of faults.                                                     *)
EXTENDS BundleStore, TLAPS

\* The domain of sequences and of readable marks.
LEMMA MarksAreIntegers ==
  /\ Marks \ {Unreadable} \subseteq Int
  /\ \A b \in Bundles : b.sequence \in Int /\ b.sequence > NoEpoch
                        /\ b.sequence \in Marks \ {Unreadable}
  BY EnvelopesAssumption, UnreadableAssumption DEF Marks, Bundles, NoEpoch

-----------------------------------------------------------------------------
(* Types *)

\* Every reachable state is well typed.
THEOREM Typing == Spec => []TypeOK
  <1> USE DEF TypeOK
  <1>1. Init => TypeOK
    BY ClockAssumption, UnreadableAssumption DEF Init, Marks, NoEpoch
  <1>2. TypeOK /\ [Next]_vars => TypeOK'
    <2> SUFFICES ASSUME TypeOK, [Next]_vars
                 PROVE  TypeOK'
      OBVIOUS
    <2> USE DEF disk, process
    <2>1. CASE Tick
      BY <2>1, ClockAssumption DEF Tick
    <2>2. ASSUME NEW f \in FloorConfigs, Start(f)
          PROVE  TypeOK'
      BY <2>2 DEF Start
    <2>3. ASSUME NEW e \in Envelopes, Check(e)
          PROVE  TypeOK'
      BY <2>3 DEF Check
    <2>4. CASE Commit
      <3>1. pending \in Envelopes /\ pending.bundle.sequence \in Marks
        BY <2>4, MarksAreIntegers DEF Commit, Bundles
      <3> QED
        BY <2>4, <3>1 DEF Commit, Record
    <2>5. CASE CommitFails
      BY <2>5, ClockAssumption DEF CommitFails
    <2>6. CASE Install
      <3>1. /\ pending \in Envelopes
            /\ pending.bundle \in Bundles
            /\ pending.bundle.sequence \in Marks \ {Unreadable}
        BY <2>6, MarksAreIntegers DEF Install, Bundles
      <3> QED
        BY <2>6, <3>1 DEF Install
    <2>7. NoEpoch \in Marks \ {Unreadable} /\ Unreadable \in Marks
      BY UnreadableAssumption DEF Marks, NoEpoch
    <2>8. CASE Crash
      BY <2>7, <2>8, ClockAssumption DEF Crash, Stopped
    <2>9. CASE PowerCut
      BY <2>7, <2>9, ClockAssumption DEF PowerCut, Stopped
    <2>10. CASE Damage
      BY <2>7, <2>10, ClockAssumption DEF Damage
    <2>11. ASSUME NEW t \in 0..MaxTime, SetBack(t)
           PROVE  TypeOK'
      BY <2>11, ClockAssumption DEF SetBack
    <2>12. CASE UNCHANGED vars
      BY <2>12 DEF vars
    <2>13. CASE CommitLate
      <3>1. pending \in Envelopes /\ pending.bundle.sequence \in Marks
        BY <2>13, MarksAreIntegers DEF CommitLate, Bundles
      <3> QED
        BY <2>13, <3>1, ClockAssumption DEF CommitLate, Record
    <2> QED
      BY <2>1, <2>2, <2>3, <2>4, <2>5, <2>6, <2>8, <2>9, <2>10, <2>11, <2>12, <2>13
      DEF Next
  <1> QED
    BY <1>1, <1>2, PTL DEF Spec

-----------------------------------------------------------------------------
(* Rollback protection *)

\* The disk, the process and the history agree on how far the site has come.
DiskKnows ==
  /\ mark # Unreadable => \A b \in governed : b.sequence <= mark
  /\ synced = mark

ProcessKnows ==
  pc # "down" =>
    /\ \A b \in governed : b.sequence <= sequence
    /\ mark # Unreadable => sequence <= mark

AcceptAdvances ==
  /\ pc \in {"commit", "install"} => pending.bundle.sequence > sequence
  /\ pc = "install" /\ mark # Unreadable => pending.bundle.sequence <= mark

BundleIsNewest ==
  /\ bundle # None => bundle.sequence = sequence /\ bundle \in governed
  /\ pc = "down" => bundle = None

HistoryHasANewest ==
  governed # {} => \E b \in governed : \A c \in governed : c.sequence <= b.sequence

IInv ==
  /\ DiskKnows
  /\ ProcessKnows
  /\ AcceptAdvances
  /\ BundleIsNewest
  /\ HistoryHasANewest
  /\ OnePolicyPerSequence

\* IInv is inductive where a completed rename survives a power cut.
LEMMA Inductive ==
  ASSUME RenameSurvivesPowerCut
  PROVE  Spec => []IInv
  <1> USE DEF IInv, DiskKnows, ProcessKnows, AcceptAdvances, BundleIsNewest,
              HistoryHasANewest, OnePolicyPerSequence
  <1>1. Init => IInv
    BY DEF Init
  <1>2. TypeOK /\ IInv /\ [Next]_vars => IInv'
    <2> SUFFICES ASSUME TypeOK, IInv, [Next]_vars
                 PROVE  IInv'
      OBVIOUS
    <2> USE DEF disk, process
    <2>0. /\ \A b \in governed : b \in Bundles /\ b.sequence \in Int
          /\ sequence \in Int
          /\ mark # Unreadable => mark \in Int
          /\ pc \in {"commit", "install"} =>
               pending.bundle \in Bundles /\ pending.bundle.sequence \in Int
      BY MarksAreIntegers DEF TypeOK, Bundles
    <2>1. CASE Tick
      BY <2>1 DEF Tick
    <2>2. ASSUME NEW f \in FloorConfigs, Start(f)
          PROVE  IInv'
      BY <2>0, <2>2 DEF Start
    <2>3. ASSUME NEW e \in Envelopes, Check(e)
          PROVE  IInv'
      BY <2>0, <2>3 DEF Check, Admissible
    <2>4. CASE Commit
      <3>1. CASE pending.bundle.sequence <= mark
        BY <2>0, <2>4, <3>1 DEF Commit
      <3>2. CASE ~(pending.bundle.sequence <= mark)
        BY <2>0, <2>4, <3>2 DEF Commit, Record
      <3> QED
        BY <3>1, <3>2
    <2>5. CASE CommitFails
      BY <2>0, <2>5 DEF CommitFails
    <2>6. CASE Install
      <3>1. /\ governed' = governed \cup {pending.bundle}
            /\ bundle' = pending.bundle
            /\ sequence' = pending.bundle.sequence
            /\ pc = "install" /\ pc' = "idle"
            /\ UNCHANGED <<mark, synced>>
        BY <2>6 DEF Install
      <3>2. /\ \A b \in governed : b.sequence < pending.bundle.sequence
            /\ pending.bundle.sequence \in Int
        BY <2>0, <3>1
      <3> QED
        BY <2>0, <3>1, <3>2
    <2>7. CASE Crash
      BY <2>7 DEF Crash, Stopped
    <2>8. CASE PowerCut
      BY <2>8 DEF PowerCut, Stopped
    <2>9. CASE Damage
      BY <2>9 DEF Damage
    <2>10. ASSUME NEW t \in 0..MaxTime, SetBack(t)
           PROVE  IInv'
      BY <2>10 DEF SetBack
    <2>11. CASE UNCHANGED vars
      BY <2>11 DEF vars
    <2>12. CASE CommitLate
      BY <2>0, <2>12 DEF CommitLate, Record
    <2> QED
      BY <2>1, <2>2, <2>3, <2>4, <2>5, <2>6, <2>7, <2>8, <2>9, <2>10, <2>11, <2>12
      DEF Next
  <1> QED
    BY <1>1, <1>2, Typing, PTL DEF Spec

\* What is in force is the newest policy that ever was, across restarts, failed
\* commits and a damaged mark.
THEOREM NoRollbackHolds ==
  ASSUME RenameSurvivesPowerCut
  PROVE  Spec => []NoRollback
  <1>1. IInv => NoRollback
    BY DEF IInv, ProcessKnows, BundleIsNewest, NoRollback
  <1> QED
    BY <1>1, Inductive, PTL

\* No two policies with one sequence are ever both put in force.
THEOREM OnePolicyPerSequenceHolds ==
  ASSUME RenameSurvivesPowerCut
  PROVE  Spec => []OnePolicyPerSequence
  <1>1. IInv => OnePolicyPerSequence
    BY DEF IInv
  <1> QED
    BY <1>1, Inductive, PTL

-----------------------------------------------------------------------------
(* The nonce set *)

\* A nonce the process remembers came with a policy no newer than the one in force.
NoncesAreOld ==
  \A n \in nonces : \E e \in Envelopes : e.nonce = n /\ e.bundle.sequence <= sequence

\* Where no two policies of different sequence are sent under one nonce, the nonce
\* set is redundant: it refuses nothing that the sequence check would let through.
THEOREM NoncesOnlyRefuseTheOldHolds ==
  ASSUME \A e1, e2 \in Envelopes :
           e1.nonce = e2.nonce => e1.bundle.sequence = e2.bundle.sequence
  PROVE  Spec => []NoncesOnlyRefuseTheOld
  <1> DEFINE Inv == NoncesAreOld /\ (pc \in {"commit", "install"} =>
                                       pending.bundle.sequence > sequence)
                                /\ (pc = "down" => nonces = {})
  <1>1. Init => Inv
    BY DEF Init, NoncesAreOld
  <1>2. TypeOK /\ Inv /\ [Next]_vars => Inv'
    <2> SUFFICES ASSUME TypeOK, Inv, [Next]_vars
                 PROVE  Inv'
      OBVIOUS
    <2> USE DEF NoncesAreOld, disk, process
    <2>1. CASE Install
      <3>1. /\ pending \in Envelopes /\ pending.bundle.sequence \in Int
            /\ sequence \in Int
            /\ \A e \in Envelopes : e.bundle.sequence \in Int
        BY <2>1, MarksAreIntegers DEF Install, TypeOK, Bundles
      <3>2. /\ nonces' = nonces \cup {pending.nonce}
            /\ sequence' = pending.bundle.sequence
            /\ pc' = "idle"
        BY <2>1 DEF Install
      <3>3. pending.bundle.sequence > sequence
        BY <2>1 DEF Install
      <3> HIDE DEF Inv
      <3>4. ASSUME NEW n \in nonces
            PROVE  \E e \in Envelopes : e.nonce = n /\ e.bundle.sequence <= sequence'
        <4>1. PICK e \in Envelopes : e.nonce = n /\ e.bundle.sequence <= sequence
          BY <3>4 DEF Inv
        <4> QED
          BY <3>1, <3>2, <3>3, <4>1
      <3>5. NoncesAreOld'
        BY <3>1, <3>2, <3>4
      <3> QED
        BY <3>2, <3>5 DEF Inv
    <2>2. CASE \/ Tick \/ (\E f \in FloorConfigs : Start(f))
               \/ Commit \/ CommitFails \/ CommitLate \/ Damage
      BY <2>2 DEF Tick, Start, Commit, CommitFails, CommitLate, Damage
    <2>3. ASSUME NEW e \in Envelopes, Check(e)
          PROVE  Inv'
      BY <2>3 DEF Check, Admissible
    <2>4. CASE Crash \/ PowerCut
      BY <2>4 DEF Crash, PowerCut, Stopped
    <2>5. ASSUME NEW t \in 0..MaxTime, SetBack(t)
          PROVE  Inv'
      BY <2>5 DEF SetBack
    <2>6. CASE UNCHANGED vars
      BY <2>6 DEF vars
    <2> QED
      BY <2>1, <2>2, <2>3, <2>4, <2>5, <2>6 DEF Next
  <1>3. Inv => NoncesOnlyRefuseTheOld
    BY DEF NoncesAreOld, NoncesOnlyRefuseTheOld
  <1> QED
    BY <1>1, <1>2, <1>3, Typing, PTL DEF Spec

-----------------------------------------------------------------------------
(* The store keeps the promise of PolicyInForce *)

\* Newest is the sequence of whichever bundle of the history is newest.
LEMMA NewestIs ==
  ASSUME NEW b \in governed, TypeOK, IInv,
         \A c \in governed : c.sequence <= b.sequence
  PROVE  Newest = b.sequence
  <1> DEFINE m == CHOOSE x \in governed : \A c \in governed : c.sequence <= x.sequence
  <1>1. m \in governed /\ \A c \in governed : c.sequence <= m.sequence
    OBVIOUS
  <1>2. m.sequence \in Int /\ b.sequence \in Int
    BY <1>1, MarksAreIntegers DEF TypeOK
  <1>3. m.sequence = b.sequence
    BY <1>1, <1>2
  <1> QED
    BY <1>3 DEF Newest

\* Every behaviour of the store is one of the abstract specification: ever newer
\* policies, nothing to fall back to but the floor, and from there to the newest.
THEOREM KeepsPromiseHolds ==
  ASSUME RenameSurvivesPowerCut
  PROVE  Spec => KeepsPromise
  <1>1. Init => Promise!Init
    BY DEF Init, Promise!Init, InForce, Governs, Newest, NoEpoch, Promise!NoEpoch
  <1>2. TypeOK /\ IInv /\ IInv' /\ TypeOK' /\ [Next]_vars => [Promise!Next]_Promise!vars
    <2> SUFFICES ASSUME TypeOK, TypeOK', IInv, IInv', [Next]_vars
                 PROVE  [Promise!Next]_Promise!vars
      OBVIOUS
    <2> USE DEF Promise!Next, Promise!vars, Promise!FallBack, Promise!Return, Promise!Adopt
    <2>1. CASE Install
      <3>1. /\ governed' = governed \cup {pending.bundle}
            /\ bundle' = pending.bundle
            /\ pending.bundle \in Bundles
        BY <2>1 DEF Install, TypeOK, Bundles
      <3>2. \A c \in governed' : c.sequence <= pending.bundle.sequence
        BY <2>1, <3>1 DEF IInv, ProcessKnows, Install
      <3>3. Newest' = pending.bundle.sequence
        <4>1. \A b \in governed' : b.sequence \in Int
          BY MarksAreIntegers DEF TypeOK
        <4> DEFINE m == CHOOSE x \in governed' : \A c \in governed' : c.sequence <= x.sequence
        <4>2. m \in governed' /\ \A c \in governed' : c.sequence <= m.sequence
          BY <3>1, <3>2
        <4>3. m.sequence = pending.bundle.sequence
          BY <3>1, <3>2, <4>1, <4>2
        <4> QED
          BY <3>1, <4>3 DEF Newest
      <3>4. pending.bundle.sequence > Newest
        <4>1. CASE governed = {}
          BY <3>1, <4>1, MarksAreIntegers DEF Newest
        <4>2. CASE governed # {}
          <5>1. PICK b \in governed : \A c \in governed : c.sequence <= b.sequence
            BY <4>2 DEF IInv, HistoryHasANewest
          <5>2. /\ b.sequence <= sequence
                /\ sequence < pending.bundle.sequence
                /\ b.sequence \in Int /\ sequence \in Int
            BY <2>1, <5>1, MarksAreIntegers
            DEF IInv, ProcessKnows, AcceptAdvances, Install, TypeOK
          <5>3. Newest = b.sequence
            BY <5>1, NewestIs
          <5> QED
            BY <3>1, <5>2, <5>3, MarksAreIntegers
        <4> QED
          BY <4>1, <4>2
      <3>5. InForce' \in {pending.bundle, None}
        BY <3>1 DEF InForce
      <3> QED
        BY <3>1, <3>3, <3>4, <3>5
    <2>2. CASE ~Install /\ Next
      <3>1. governed' = governed /\ (bundle' = bundle \/ bundle' = None)
        BY <2>2 DEF Next, Tick, SetBack, Start, Check, Commit, CommitFails, CommitLate,
                    Crash, PowerCut, Damage, Stopped, process
      <3>2. Newest' = Newest
        BY <3>1 DEF Newest
      <3>3. InForce' \in {InForce, None} \/ (InForce = None /\ InForce' = bundle)
        BY <3>1 DEF InForce, Governs
      <3>4. CASE InForce' \in {InForce, None}
        BY <3>2, <3>4
      <3>5. CASE InForce = None /\ InForce' = bundle /\ bundle # None
        <4>1. /\ bundle \in governed /\ bundle \in Bundles
              /\ \A c \in governed : c.sequence <= bundle.sequence
          BY <3>5 DEF IInv, BundleIsNewest, ProcessKnows, TypeOK
        <4>2. Newest = bundle.sequence
          BY <4>1, NewestIs
        <4> QED
          BY <3>2, <3>5, <4>1, <4>2
      <3> QED
        BY <3>3, <3>4, <3>5
    <2>3. CASE UNCHANGED vars
      BY <2>3 DEF vars, process, InForce, Governs, Newest
    <2> QED
      BY <2>1, <2>2, <2>3
  <1> QED
    BY <1>1, <1>2, Inductive, Typing, PTL DEF Spec, KeepsPromise, Promise!Spec

-----------------------------------------------------------------------------
(* The store and its epoch store *)

Mark == INSTANCE EpochMark WITH Sequences <- {b.sequence : b \in Bundles}

\* Under the store, whatever fails, the mark is an EpochMark until the medium under it
\* fails: crashes, power cuts and restarts never take it back, and it takes no value but
\* the sequence of a message.  This is what EpochFile shows of one process and its file,
\* so the two may be put together.
THEOREM MarkIsAMaximum ==
  ASSUME RenameSurvivesPowerCut
  PROVE  Spec => /\ Mark!Init
                 /\ [][Mark!Next \/ (mark # Unreadable /\ mark' = Unreadable)]_mark
  <1>1. Init => Mark!Init
    BY DEF Init, Mark!Init, NoEpoch, Mark!NoEpoch
  <1>2. TypeOK /\ IInv /\ [Next]_vars =>
          [Mark!Next \/ (mark # Unreadable /\ mark' = Unreadable)]_mark
    <2> SUFFICES ASSUME TypeOK, IInv, [Next]_vars, mark' # mark
                 PROVE  Mark!Next \/ (mark # Unreadable /\ mark' = Unreadable)
      OBVIOUS
    <2>1. CASE Commit \/ CommitLate
      <3>1. /\ pending.bundle \in Bundles
            /\ mark' = pending.bundle.sequence
            /\ ~(pending.bundle.sequence <= mark) \/ pending.bundle.sequence > mark
            /\ mark # Unreadable
        BY <2>1 DEF Commit, CommitLate, Record, disk, TypeOK, Bundles
      <3>2. mark \in Int /\ pending.bundle.sequence \in Int
        BY <3>1, MarksAreIntegers DEF TypeOK
      <3>3. Mark!Commit(pending.bundle.sequence)
        BY <3>1, <3>2 DEF Mark!Commit
      <3> QED
        BY <3>1, <3>3 DEF Mark!Next
    <2>2. CASE Damage
      BY <2>2 DEF Damage
    <2>3. CASE PowerCut
      BY <2>3 DEF PowerCut, IInv, DiskKnows
    <2>4. CASE ~Commit /\ ~CommitLate /\ ~Damage /\ ~PowerCut
      BY <2>4 DEF Next, Tick, SetBack, Start, Check, CommitFails, Install, Crash, vars, disk
    <2> QED
      BY <2>1, <2>2, <2>3, <2>4
  <1> QED
    BY <1>1, <1>2, Inductive, Typing, PTL DEF Spec
=============================================================================
