------------------------- MODULE ReceiptLog_proofs -------------------------
(* Proofs about the receipt log, for any number of records and faults.       *)
EXTENDS ReceiptLog, TLAPS

\* Every receipt that record() makes is a receipt.
LEMMA DraftIsReceipt ==
  ASSUME TypeOK, NEW i \in Nat
  PROVE  Draft(i) \in Receipts
  <1>1. Site \in Sites
    BY DEF Sites
  <1>2. seq + 1 \in Nat /\ prev \in Nat
    BY DEF TypeOK
  <1> QED
    BY <1>1, <1>2 DEF Draft, Receipt, Receipts

\* Every reachable state is well typed, whatever the faults.
THEOREM Typing == Spec => []TypeOK
  <1>1. Init => TypeOK
    <2>1. <<>> \in Seq(Receipts \cup {Garbage}) /\ ForeignLog \in Seq(Receipts \cup {Garbage})
      BY LogsAssumption
    <2>2. Init => lines \in Seq(Receipts \cup {Garbage})
      BY <2>1 DEF Init
    <2>3. 0 \in Nat /\ 0 \in 0..MaxRecords /\ 0 \in 0..MaxFaults
      BY BoundsAssumption
    <2>4. Init => seq = 0 /\ prev = 0 /\ made = 0 /\ happened = {} /\ faults = 0
      BY DEF Init, Genesis
    <2> QED
      BY <2>2, <2>3, <2>4 DEF Init, TypeOK
  <1>2. TypeOK /\ [Next]_vars => TypeOK'
    <2> SUFFICES ASSUME TypeOK, [Next]_vars
                 PROVE  TypeOK'
      OBVIOUS
    <2> DEFINE Line == Receipts \cup {Garbage}
    <2> USE DEF file, head, trouble
    <2>1. /\ \A line \in Line : Append(lines, line) \in Seq(Line)
          /\ \A n \in 0..Len(lines) : SubSeq(lines, 1, n) \in Seq(Line)
          /\ \A n \in DOMAIN lines : lines[n] \in Line
          /\ DOMAIN lines = 1..Len(lines) /\ Len(lines) \in Nat
          /\ \A n \in 0..Len(lines) : n < Len(lines) => n + 1 \in DOMAIN lines
      BY DEF TypeOK
    <2>2. made < MaxRecords => made + 1 \in 0..MaxRecords /\ Draft(made + 1) \in Receipts
      BY BoundsAssumption, DraftIsReceipt DEF TypeOK
    <2>3. /\ faults < MaxFaults => faults + 1 \in 0..MaxFaults
          /\ Genesis \in Nat
      BY BoundsAssumption DEF TypeOK, Genesis
    <2>4. CASE Recover
      <3>1. CASE lines = <<>>
        BY <2>3, <2>4, <3>1 DEF Recover, TypeOK
      <3>2. CASE lines # <<>>
        <4>1. Len(lines) \in DOMAIN lines
          BY <2>1, <3>2
        <4>2. lines[Len(lines)] \in Receipts
          BY <2>1, <2>4, <4>1 DEF Recover, Recoverable, Verifies
        <4>3. lines[Len(lines)].seq \in Nat /\ lines[Len(lines)].id \in Nat
          BY <4>2 DEF Receipts
        <4> QED
          BY <2>4, <3>2, <4>3 DEF Recover, TypeOK
      <3> QED
        BY <3>1, <3>2
    <2>5. CASE AppendLine
      <3>1. Joined(Draft(made + 1)) \in Line
        BY <2>2, <2>5 DEF Joined, AppendLine, TypeOK
      <3> QED
        BY <2>1, <2>2, <2>5, <3>1 DEF AppendLine, Written, TypeOK
    <2>6. CASE Advance
      <3>1. Draft(made) \in Receipts /\ made \in Nat
        BY BoundsAssumption, DraftIsReceipt DEF TypeOK
      <3> QED
        BY <2>6, <3>1 DEF Advance, TypeOK
    <2>7. CASE AppendRefused
      BY <2>2, <2>3, <2>7 DEF AppendRefused, AppendRaises, Fault, FaultKinds, TypeOK
    <2>8. CASE AppendTorn
      BY <2>2, <2>3, <2>8 DEF AppendTorn, AppendRaises, Fault, FaultKinds, TypeOK
    <2>9. CASE AppendLate
      <3>1. Joined(Draft(made + 1)) \in Line
        BY <2>2, <2>9 DEF Joined, AppendLate, AppendRaises, TypeOK
      <3> QED
        BY <2>1, <2>2, <2>3, <2>9, <3>1 DEF AppendLate, AppendRaises, Fault, FaultKinds, Written, TypeOK
    <2>10. CASE Crash
      BY <2>3, <2>10 DEF Crash, Gone, Fault, FaultKinds, TypeOK
    <2>11. ASSUME NEW n \in 0..Len(lines), PowerCut(n)
           PROVE  TypeOK'
      <3>1. tail' \in Receipts \cup {None, Garbage}
        BY <2>1, <2>11 DEF PowerCut
      <3> QED
        BY <2>1, <2>3, <2>11, <3>1 DEF PowerCut, Gone, Fault, FaultKinds, TypeOK
    <2>12. CASE UNCHANGED vars
      BY <2>12 DEF vars, TypeOK
    <2> QED
      BY <2>4, <2>5, <2>6, <2>7, <2>8, <2>9, <2>10, <2>11, <2>12 DEF Next
  <1> QED
    BY <1>1, <1>2, PTL DEF Spec

-----------------------------------------------------------------------------
(* The log of a site verifies while lines are written whole or not at all *)

\* The id the next receipt must link to, after the first n lines.
LinkAfter(n) == IF n = 0 THEN Genesis ELSE lines[n].id

\* The head of the chain fits the log, or lags it by the line just written.
HeadFits ==
  /\ pc = "idle" => seq = Len(lines) /\ prev = LinkAfter(Len(lines))
  /\ pc = "appended" => /\ Len(lines) = seq + 1
                        /\ lines[seq + 1] = Draft(made)

Unbroken ==
  /\ tail = None
  /\ Verifies(lines)
  /\ HeadFits

IInv == Whole => Unbroken

\* What happened has happened.
LEMMA TroubleStays ==
  ASSUME [Next]_vars
  PROVE  happened \subseteq happened'
  BY DEF Next, vars, trouble, Recover, AppendLine, Advance, AppendRefused, AppendTorn,
         AppendLate, AppendRaises, Crash, PowerCut, Fault

\* IInv is inductive: appends that fail half way are what it does not speak of.
LEMMA Inductive == Spec => []IInv
  <1>1. Init => IInv
    BY ForeignLogAssumption DEF Init, IInv, Unbroken, Verifies, HeadFits
  <1>2. TypeOK /\ IInv /\ [Next]_vars => IInv'
    <2> SUFFICES ASSUME TypeOK, IInv, [Next]_vars, Whole'
                 PROVE  Unbroken'
      BY DEF IInv
    <2>a. Whole /\ Unbroken
      BY TroubleStays DEF IInv, Whole
    <2> USE <2>a DEF Unbroken, file, head, trouble
    <2>1. /\ lines \in Seq(Receipts \cup {Garbage})
          /\ DOMAIN lines = 1..Len(lines) /\ Len(lines) \in Nat
      BY DEF TypeOK
    <2>2. CASE Recover
      <3>1. CASE lines = <<>>
        BY <2>2, <3>1 DEF Recover, HeadFits, LinkAfter
      <3>2. CASE lines # <<>>
        <4>1. Len(lines) \in DOMAIN lines
          BY <2>1, <3>2
        <4>2. lines[Len(lines)].seq = Len(lines)
          BY <2>2, <4>1 DEF Recover, Recoverable, Verifies, Linked
        <4> QED
          BY <2>1, <2>2, <3>2, <4>1, <4>2 DEF Recover, HeadFits, LinkAfter
      <3> QED
        BY <3>1, <3>2
    <2>3. CASE AppendLine
      <3>1. /\ lines' = Append(lines, Draft(made')) /\ tail' = None
            /\ pc = "idle" /\ pc' = "appended" /\ made' \in Nat
            /\ UNCHANGED <<seq, prev>>
        BY <2>3, BoundsAssumption DEF AppendLine, Written, Joined, TypeOK
      <3>2. Draft(made') \in Receipts
        BY <3>1, DraftIsReceipt
      <3>3. /\ Len(lines') = Len(lines) + 1
            /\ DOMAIN lines' = 1..(Len(lines) + 1)
            /\ \A i \in 1..Len(lines) : lines'[i] = lines[i]
            /\ lines'[Len(lines) + 1] = Draft(made')
        BY <2>1, <3>1, <3>2
      <3>4. /\ Draft(made').seq = Len(lines) + 1
            /\ Draft(made').prev = LinkAfter(Len(lines))
            /\ Draft(made') # Garbage
        BY <3>1, <3>2, LogsAssumption DEF HeadFits, Draft, Receipt
      <3>5. ASSUME NEW i \in DOMAIN lines'
            PROVE  lines'[i] # Garbage /\ lines'[i].seq = i
                   /\ lines'[i].prev = IF i = 1 THEN Genesis ELSE lines'[i - 1].id
        <4>1. CASE i \in 1..Len(lines)
          <5>1. lines[i] # Garbage /\ lines[i].seq = i
                /\ lines[i].prev = IF i = 1 THEN Genesis ELSE lines[i - 1].id
            BY <2>1, <4>1 DEF Verifies, Linked
          <5> QED
            BY <2>1, <3>3, <4>1, <5>1
        <4>2. CASE i = Len(lines) + 1
          BY <2>1, <3>3, <3>4, <4>2 DEF LinkAfter
        <4> QED
          BY <2>1, <3>3, <4>1, <4>2
      <3>6. Verifies(lines')
        BY <3>5 DEF Verifies, Linked
      <3>7. Draft(made)' = Draft(made')
        BY <3>1 DEF Draft
      <3> QED
        BY <2>1, <3>1, <3>3, <3>6, <3>7 DEF HeadFits
    <2>4. CASE Advance
      <3>1. /\ pc = "appended" /\ pc' = "idle"
            /\ seq' = seq + 1 /\ prev' = made
            /\ UNCHANGED <<lines, tail>>
        BY <2>4 DEF Advance
      <3>2. seq \in Nat /\ lines[Len(lines)].id = made
        BY <3>1 DEF HeadFits, Draft, Receipt, TypeOK
      <3> QED
        BY <2>1, <3>1, <3>2 DEF HeadFits, LinkAfter
    <2>5. CASE AppendRefused
      BY <2>5 DEF AppendRefused, AppendRaises, HeadFits, LinkAfter
    <2>6. CASE AppendTorn \/ AppendLate
      BY <2>6 DEF AppendTorn, AppendLate, AppendRaises, Fault, Whole
    <2>7. CASE Crash
      BY <2>7 DEF Crash, Gone, HeadFits
    <2>8. ASSUME NEW n \in 0..Len(lines), PowerCut(n)
          PROVE  Unbroken'
      <3>1. lines' = SubSeq(lines, 1, n) /\ tail' = None /\ pc' = "down"
        BY <2>8 DEF PowerCut, Gone, Fault, Whole
      <3>2. DOMAIN lines' = 1..n /\ \A i \in 1..n : lines'[i] = lines[i]
        BY <2>1, <3>1
      <3>3. Verifies(lines')
        <4> SUFFICES ASSUME NEW i \in 1..n
                     PROVE  lines'[i] # Garbage /\ Linked(lines', i)
          BY <3>2 DEF Verifies
        <4>1. lines[i] # Garbage /\ Linked(lines, i)
          BY <2>1 DEF Verifies
        <4> QED
          BY <2>1, <3>2, <4>1 DEF Linked
      <3> QED
        BY <3>1, <3>3 DEF HeadFits
    <2>9. CASE UNCHANGED vars
      BY <2>9 DEF vars, HeadFits, LinkAfter, Draft
    <2> QED
      BY <2>2, <2>3, <2>4, <2>5, <2>6, <2>7, <2>8, <2>9 DEF Next
  <1> QED
    BY <1>1, <1>2, Typing, PTL DEF Spec

\* The log verifies at every moment, whatever crashes, refused appends and power cuts
\* between lines there were.
THEOREM LogVerifiesHolds == Spec => []LogVerifies
  <1>1. IInv => LogVerifies
    BY DEF IInv, Unbroken, LogVerifies
  <1> QED
    BY <1>1, Inductive, PTL

\* The chain continues from the last line of the log.
THEOREM HeadIsLogEndHolds == Spec => []HeadIsLogEnd
  <1>1. TypeOK /\ IInv => HeadIsLogEnd
    <2> SUFFICES ASSUME TypeOK, IInv, Whole, pc = "idle"
                 PROVE  IF lines = <<>> THEN seq = 0 /\ prev = Genesis
                        ELSE lines[Len(lines)].seq = seq /\ lines[Len(lines)].id = prev
      BY DEF HeadIsLogEnd
    <2>1. lines \in Seq(Receipts \cup {Garbage}) /\ seq = Len(lines)
          /\ prev = LinkAfter(Len(lines))
      BY DEF TypeOK, IInv, Unbroken, HeadFits
    <2>2. CASE lines = <<>>
      BY <2>1, <2>2 DEF LinkAfter
    <2>3. CASE lines # <<>>
      <3>1. Len(lines) \in DOMAIN lines /\ Len(lines) # 0
        BY <2>1, <2>3
      <3>2. lines[Len(lines)].seq = Len(lines)
        BY <3>1 DEF IInv, Unbroken, Verifies, Linked
      <3> QED
        BY <2>1, <2>3, <3>1, <3>2 DEF LinkAfter
    <2> QED
      BY <2>2, <2>3
  <1> QED
    BY <1>1, Inductive, Typing, PTL

-----------------------------------------------------------------------------
(* A returned receipt stays where it is *)


\* A receipt that record() has returned stays in the log at its number, while no
\* power cut takes lines out of the file and no append fails half way.
THEOREM AckedStaysRecordedHolds == Spec => []AckedStaysRecorded
  <1>1. Init => AckedStaysRecorded
    BY DEF Init, AckedStaysRecorded
  <1>2. TypeOK /\ IInv /\ AckedStaysRecorded /\ [Next]_vars => AckedStaysRecorded'
    <2> SUFFICES ASSUME TypeOK, IInv, AckedStaysRecorded, [Next]_vars,
                        happened' \subseteq {"crash", "refused"}, NEW r \in acked'
                 PROVE  r.seq \in DOMAIN lines' /\ lines'[r.seq] = r
      BY DEF AckedStaysRecorded
    <2>a. /\ happened \subseteq {"crash", "refused"}
          /\ Unbroken
          /\ \A k \in acked : k.seq \in DOMAIN lines /\ lines[k.seq] = k
      BY TroubleStays DEF IInv, Whole, AckedStaysRecorded
    <2> USE DEF file, head, trouble
    <2>1. /\ lines \in Seq(Receipts \cup {Garbage})
          /\ DOMAIN lines = 1..Len(lines) /\ Len(lines) \in Nat
      BY DEF TypeOK
    <2>2. CASE AppendLine
      <3>1. lines' = Append(lines, Draft(made')) /\ acked' = acked
            /\ Draft(made') \in Receipts
        BY <2>2, <2>a, BoundsAssumption, DraftIsReceipt
        DEF AppendLine, Written, Joined, Unbroken, TypeOK
      <3>2. \A i \in DOMAIN lines : i \in DOMAIN lines' /\ lines'[i] = lines[i]
        BY <2>1, <3>1
      <3> QED
        BY <2>a, <3>1, <3>2
    <2>3. CASE Advance
      <3>1. /\ acked' = acked \cup {Draft(made)} /\ UNCHANGED lines
            /\ Draft(made).seq = seq + 1
            /\ Len(lines) = seq + 1 /\ lines[seq + 1] = Draft(made)
        BY <2>3, <2>a DEF Advance, Unbroken, HeadFits, Draft, Receipt
      <3>2. seq + 1 \in DOMAIN lines
        BY <2>1, <3>1 DEF TypeOK
      <3> QED
        BY <2>a, <3>1, <3>2
    <2>4. CASE Recover \/ AppendRefused \/ Crash \/ UNCHANGED vars
      BY <2>4, <2>a DEF Recover, AppendRefused, AppendRaises, Crash, vars
    <2>5. ASSUME AppendTorn \/ AppendLate \/ \E n \in 0..Len(lines) : PowerCut(n)
          PROVE  FALSE
      BY <2>5 DEF AppendTorn, AppendLate, AppendRaises, PowerCut, Fault
    <2> QED
      BY <2>2, <2>3, <2>4, <2>5 DEF Next
  <1> QED
    BY <1>1, <1>2, Inductive, Typing, PTL DEF Spec

-----------------------------------------------------------------------------
(* Whatever fails: nothing is doubled, reordered or mixed *)

\* A line, or what is left of one, that this site wrote after every line of log.
After(line, log) ==
  line = Garbage \/ /\ line.site = Site /\ line.id <= made
                    /\ \A i \in DOMAIN log : log[i] = Garbage \/ log[i].id < line.id

\* The log is the one that was found and nobody can go on with, or it is of this
\* site, in the order of the calls.
InOrder ==
  \/ lines = ForeignLog /\ ForeignLog # <<>> /\ pc = "down"
  \/ /\ \A i \in DOMAIN lines :
          lines[i] # Garbage => lines[i].site = Site /\ lines[i].id <= made
     /\ NeverReordered
     /\ tail = None \/ After(tail, lines)

\* A line put after all others keeps the order.
LEMMA AppendKeepsOrder ==
  ASSUME TypeOK, InOrder, pc # "down", NEW line \in Receipts \cup {Garbage},
         made' \in Nat, made <= made',
         \/ line = Garbage
         \/ /\ line.site = Site /\ line.id <= made'
            /\ \A i \in DOMAIN lines : lines[i] = Garbage \/ lines[i].id < line.id,
         lines' = Append(lines, line), tail' = None
  PROVE  InOrder'
  <1>1. /\ lines \in Seq(Receipts \cup {Garbage}) /\ Len(lines) \in Nat
        /\ DOMAIN lines = 1..Len(lines) /\ DOMAIN lines' = 1..(Len(lines) + 1)
        /\ \A i \in DOMAIN lines : lines'[i] = lines[i]
        /\ lines'[Len(lines) + 1] = line
    BY DEF TypeOK
  <1>2. /\ made \in Nat
        /\ \A i \in DOMAIN lines : lines[i] # Garbage => lines[i].id \in Nat
    BY <1>1, BoundsAssumption DEF TypeOK, Receipts
  <1>3. \A i \in DOMAIN lines' :
          lines'[i] # Garbage => lines'[i].site = Site /\ lines'[i].id <= made'
    BY <1>1, <1>2 DEF InOrder
  <1>4. NeverReordered'
    <2> SUFFICES ASSUME NEW i \in DOMAIN lines', NEW j \in DOMAIN lines',
                        i < j, lines'[i] # Garbage, lines'[j] # Garbage
                 PROVE  lines'[i].id < lines'[j].id
      BY DEF NeverReordered
    <2>1. i \in DOMAIN lines
      BY <1>1
    <2>2. CASE j \in DOMAIN lines
      BY <1>1, <2>1, <2>2 DEF InOrder, NeverReordered
    <2>3. CASE j = Len(lines) + 1
      BY <1>1, <2>1, <2>3
    <2> QED
      BY <1>1, <2>2, <2>3
  <1> QED
    BY <1>3, <1>4 DEF InOrder

\* InOrder is inductive under every fault.
LEMMA OrderIsInductive == Spec => []InOrder
  <1>1. Init => InOrder
    BY DEF Init, InOrder, NeverReordered
  <1>2. TypeOK /\ InOrder /\ [Next]_vars => InOrder'
    <2> SUFFICES ASSUME TypeOK, InOrder, [Next]_vars
                 PROVE  InOrder'
      OBVIOUS
    <2> USE DEF file, head, trouble
    <2>1. /\ lines \in Seq(Receipts \cup {Garbage})
          /\ DOMAIN lines = 1..Len(lines) /\ Len(lines) \in Nat
          /\ made \in Nat
          /\ tail \in Receipts \cup {None, Garbage}
          /\ \A i \in DOMAIN lines : lines[i] # Garbage => lines[i] \in Receipts
      BY BoundsAssumption DEF TypeOK
    <2>2. Draft(made + 1) \in Receipts /\ Draft(made + 1).site = Site
          /\ Draft(made + 1).id = made + 1
      BY <2>1, DraftIsReceipt DEF Draft, Receipt
    <2>3. pc # "down" =>
            \A i \in DOMAIN lines : lines[i] = Garbage \/ lines[i].id < made + 1
      BY <2>1 DEF InOrder, Receipts
    <2>4. ASSUME pc # "down", made' = made + 1, Written(Draft(made'))
          PROVE  InOrder'
      <3>1. lines' = Append(lines, Joined(Draft(made'))) /\ tail' = None
        BY <2>4 DEF Written
      <3>2. CASE tail = None
        <4>1. Joined(Draft(made')) = Draft(made + 1)
          BY <2>4, <3>2 DEF Joined
        <4> QED
          BY <2>1, <2>2, <2>3, <2>4, <3>1, <4>1, AppendKeepsOrder
      <3>3. CASE tail # None
        <4>1. Joined(Draft(made')) = tail /\ After(tail, lines)
          BY <2>4, <3>3 DEF Joined, InOrder
        <4>2. tail = Garbage \/ tail.id <= made'
          BY <2>1, <2>4, <3>3, <4>1 DEF After, Receipts
        <4> QED
          BY <2>1, <2>4, <3>1, <3>3, <4>1, <4>2, AppendKeepsOrder DEF After
      <3> QED
        BY <3>2, <3>3
    <2>5. CASE Recover
      <3>1. UNCHANGED <<lines, tail, made>>
        BY <2>5 DEF Recover
      <3>2. ~(lines = ForeignLog /\ ForeignLog # <<>>)
        <4> SUFFICES ASSUME lines = ForeignLog, ForeignLog # <<>>
                     PROVE  FALSE
          OBVIOUS
        <4>1. 1 \in DOMAIN lines
          BY <2>1
        <4> QED
          BY <2>5, <4>1, ForeignLogAssumption DEF Recover, Recoverable
      <3> QED
        BY <3>1, <3>2 DEF InOrder, NeverReordered, After
    <2>6. CASE AppendLine
      BY <2>4, <2>6 DEF AppendLine
    <2>7. CASE AppendLate
      BY <2>4, <2>7 DEF AppendLate, AppendRaises
    <2>8. CASE Advance
      BY <2>8 DEF Advance, InOrder, NeverReordered, After
    <2>9. CASE AppendRefused
      <3>1. UNCHANGED <<lines, tail, pc>> /\ made' = made + 1 /\ pc = "idle"
        BY <2>9 DEF AppendRefused, AppendRaises
      <3>2. \A i \in DOMAIN lines : lines[i] # Garbage => lines[i].id \in Nat
        BY <2>1 DEF Receipts
      <3>3. tail \notin {None, Garbage} => tail.id \in Nat
        BY <2>1 DEF Receipts
      <3> QED
        BY <2>1, <3>1, <3>2, <3>3 DEF InOrder, NeverReordered, After
    <2>10. CASE AppendTorn
      <3>1. UNCHANGED <<lines, pc>> /\ made' = made + 1 /\ pc = "idle"
            /\ tail' \in {Garbage, Draft(made + 1), tail} /\ (tail # None => tail' = tail)
            /\ (tail = None => tail' # None)
        BY <2>10, <2>2, LogsAssumption DEF AppendTorn, AppendRaises
      <3>2. \A i \in DOMAIN lines : lines[i] # Garbage => lines[i].id \in Nat
        BY <2>1 DEF Receipts
      <3>3. tail \notin {None, Garbage} => tail.id \in Nat
        BY <2>1 DEF Receipts
      <3>4. After(tail, lines)'
        BY <2>1, <2>2, <2>3, <3>1, <3>2, <3>3 DEF InOrder, After
      <3> QED
        BY <2>1, <3>1, <3>2, <3>4 DEF InOrder, NeverReordered
    <2>11. CASE Crash
      BY <2>11 DEF Crash, InOrder, NeverReordered, After
    <2>12. ASSUME NEW n \in 0..Len(lines), PowerCut(n)
           PROVE  InOrder'
      <3>1. /\ lines' = SubSeq(lines, 1, n) /\ made' = made /\ pc # "down"
            /\ tail' # None => n < Len(lines) /\ tail' \in {Garbage, lines[n + 1]}
        BY <2>12 DEF PowerCut
      <3>2. DOMAIN lines' = 1..n /\ \A i \in 1..n : lines'[i] = lines[i] /\ i \in DOMAIN lines
        BY <2>1, <3>1
      <3>3. n < Len(lines) => n + 1 \in DOMAIN lines
        BY <2>1
      <3>4. tail' = None \/ After(tail, lines)'
        BY <2>1, <3>1, <3>2, <3>3 DEF InOrder, After, NeverReordered
      <3> QED
        BY <2>1, <3>1, <3>2, <3>4 DEF InOrder, NeverReordered
    <2>13. CASE UNCHANGED vars
      BY <2>13 DEF vars, InOrder, NeverReordered, After
    <2> QED
      BY <2>5, <2>6, <2>7, <2>8, <2>9, <2>10, <2>11, <2>12, <2>13 DEF Next
  <1> QED
    BY <1>1, <1>2, Typing, PTL DEF Spec

\* Whatever fails, the log never holds a receipt twice or out of order.
THEOREM NeverReorderedHolds == Spec => []NeverReordered
  <1>1. InOrder => NeverReordered
    BY ForeignLogAssumption DEF InOrder, NeverReordered
  <1> QED
    BY <1>1, OrderIsInductive, PTL

\* Whatever fails, no log holds the receipts of two sites.
THEOREM OneSitePerLogHolds == Spec => []OneSitePerLog
  <1>1. InOrder => OneSitePerLog
    BY ForeignLogAssumption DEF InOrder, OneSitePerLog
  <1> QED
    BY <1>1, OrderIsInductive, PTL
=============================================================================
