----------------------------- MODULE ReceiptLog -----------------------------
(***************************************************************************)
(* agent/receipts.py over adapters/file_sink.py: the audit trail on disk.  *)
(*                                                                         *)
(* A record() call makes a receipt, hands its line to the sink and only    *)
(* then advances the head of the chain; the process may die in between.    *)
(* The sink appends to a file it never reads or repairs while it runs, and *)
(* flushes without an fsync.                                               *)
(*                                                                         *)
(*   receipt  [site, seq, prev, id]                                        *)
(*            id numbers the record() calls and stands for the hash: a     *)
(*            receipt carries the clock and the decision of its call.  Two *)
(*            calls within one second on one decision may make equal bytes;*)
(*            they count as two here.  Kind, outcome and decision are left *)
(*            out: no code here reads them.                                *)
(*   line     a receipt, or Garbage: a line that does not decode           *)
(*   tail     what follows the last newline: None, Garbage (part of a      *)
(*            line) or a receipt (a whole line that lacks its newline)     *)
(***************************************************************************)
EXTENDS Integers, Sequences

CONSTANTS
  Site,        \* the site whose receipts these are
  ForeignLog,  \* a log written by another site, as it might be found on the disk
  MaxRecords,  \* bound on the calls of record()
  MaxFaults,   \* bound on the number of faults
  None, Garbage

\* crash    the process dies
\* refused  append() raises and has written nothing
\* torn     append() raises in the middle of a line
\* late     append() raises although its line is in the file
\* lost     a power cut loses lines the system had not written out
\* cut      a power cut that also leaves a part of the first line it loses
FaultKinds == {"crash", "refused", "torn", "late", "lost", "cut"}

ASSUME BoundsAssumption == MaxFaults \in Nat /\ MaxRecords \in Nat

Sites == {Site} \cup {ForeignLog[k].site : k \in DOMAIN ForeignLog}
Receipts == [site : Sites, seq : Nat, prev : Nat, id : Nat]

ASSUME LogsAssumption ==
  /\ ForeignLog \in Seq(Receipts)
  /\ None # Garbage /\ {None, Garbage} \cap Receipts = {}

VARIABLES
  lines,   \* the complete lines of the file
  tail,    \* what follows them
  pc,      \* "down", "idle", or "appended": inside record(), the line written
  seq,     \* self._seq
  prev,    \* self._prev_hash
  made,    \* history: how many receipts record() has made
  acked,   \* history: the receipts record() has returned
  happened,  \* history: the kinds of fault there were
  faults     \* how many

file == <<lines, tail>>
head == <<seq, prev>>
trouble == <<happened, faults>>
vars == <<file, pc, head, made, acked, trouble>>

Genesis == 0  \* GENESIS_HASH, no receipt's hash

Receipt(s, n, p, i) == [site |-> s, seq |-> n, prev |-> p, id |-> i]

TypeOK ==
  /\ lines \in Seq(Receipts \cup {Garbage})
  /\ tail \in Receipts \cup {None, Garbage}
  /\ pc \in {"down", "idle", "appended"}
  /\ seq \in Nat /\ prev \in Nat
  /\ made \in 0..MaxRecords
  /\ acked \subseteq Receipts
  /\ happened \subseteq FaultKinds
  /\ faults \in 0..MaxFaults

-----------------------------------------------------------------------------
(* Reading a log *)

\* verify_chain: contiguous numbers from 1, each linked to its predecessor.
Linked(log, i) ==
  /\ log[i].seq = i
  /\ log[i].prev = IF i = 1 THEN Genesis ELSE log[i - 1].id

\* Every line decodes (read_chain), and the receipts form one chain.
Verifies(log) ==
  /\ \A i \in DOMAIN log : log[i] # Garbage
  /\ \A i \in DOMAIN log : Linked(log, i)

\* The checks of recover(): one site, one chain.
Recoverable(log) ==
  /\ Verifies(log)
  /\ \A i \in DOMAIN log : log[i].site = Site

\* What another site left there is a log of its own.
ASSUME ForeignLogAssumption ==
  /\ Verifies(ForeignLog)
  /\ \A i, j \in DOMAIN ForeignLog :
       /\ ForeignLog[i].site # Site /\ ForeignLog[i].site = ForeignLog[j].site
       /\ i < j => ForeignLog[i].id < ForeignLog[j].id

-----------------------------------------------------------------------------

Init ==
  /\ lines \in {<<>>, ForeignLog}
  /\ tail = None
  /\ pc = "down" /\ seq = 0 /\ prev = Genesis
  /\ made = 0 /\ acked = {} /\ happened = {} /\ faults = 0

\* Mutant: a chain built without recovering its head.
RecoverFromNothing ==
  /\ pc = "down"
  /\ Recoverable(lines)
  /\ pc' = "idle"
  /\ seq' = 0 /\ prev' = Genesis
  /\ UNCHANGED <<file, made, acked, trouble>>
\* Mutant: whose log it is is not looked at.
RecoverAnySite ==
  /\ pc = "down"
  /\ Verifies(lines)
  /\ pc' = "idle"
  /\ seq' = Len(lines) /\ prev' = (IF lines = <<>> THEN Genesis ELSE lines[Len(lines)].id)
  /\ UNCHANGED <<file, made, acked, trouble>>
\* Mutant: a new chain has no predecessor at all.
RecoverWithoutGenesis ==
  /\ pc = "down"
  /\ Recoverable(lines)
  /\ pc' = "idle"
  /\ seq' = Len(lines) /\ prev' = (IF lines = <<>> THEN None ELSE lines[Len(lines)].id)
  /\ UNCHANGED <<file, made, acked, trouble>>
\* ReceiptChain.recover over FileReceiptSink.read_all, which leaves the torn tail
\* out of what it returns and in the file.  Both sinks of the repository have a read_all;
\* the empty history of one without (receipts.py:166) is no case here.
Recover ==
  /\ pc = "down"
  /\ Recoverable(lines)
  /\ pc' = "idle"
  /\ IF lines = <<>> THEN seq' = 0 /\ prev' = Genesis
     ELSE LET last == lines[Len(lines)] IN seq' = last.seq /\ prev' = last.id
  /\ UNCHANGED <<file, made, acked, trouble>>

\* The receipt this call of record() makes.
Draft(i) == Receipt(Site, seq + 1, prev, i)

\* What a line written after the tail reads as: base64 decoding stops at the padding
\* of the first part, and a part of a line spoils the whole.
Joined(line) == IF tail = None THEN line ELSE tail

\* Mutant: the sink writes a line again when it is not sure of the first time.
WrittenTwice(line) == lines' = Append(Append(lines, Joined(line)), line) /\ tail' = None
Written(line) == lines' = Append(lines, Joined(line)) /\ tail' = None

\* record(), up to the return of append().
AppendLine ==
  /\ pc = "idle"
  /\ made < MaxRecords
  /\ made' = made + 1
  /\ Written(Draft(made'))
  /\ pc' = "appended"
  /\ UNCHANGED <<head, acked, trouble>>

\* record(), the rest: the head moves on and the receipt is returned.
Advance ==
  /\ pc = "appended"
  /\ pc' = "idle"
  /\ seq' = seq + 1
  /\ prev' = made
  /\ acked' = acked \cup {Draft(made)}
  /\ UNCHANGED <<file, made, trouble>>

Fault(kind) ==
  /\ faults < MaxFaults
  /\ faults' = faults + 1
  /\ happened' = happened \cup {kind}

\* append() raises during a call of record(), which passes it on: the head stays.
AppendRaises(kind) ==
  /\ pc = "idle"
  /\ made < MaxRecords
  /\ made' = made + 1
  /\ Fault(kind)
  /\ UNCHANGED <<pc, acked>>

\* Mutant: the head moves on before the line is written.
RefusedAdvances ==
  /\ AppendRaises("refused")
  /\ seq' = seq + 1 /\ prev' = made'
  /\ UNCHANGED file
AppendRefused == AppendRaises("refused") /\ UNCHANGED <<file, head>>

AppendTorn ==
  /\ AppendRaises("torn")
  /\ tail' \in (IF tail = None THEN {Garbage, Draft(made')} ELSE {tail})
  /\ UNCHANGED <<lines, head>>

AppendLate ==
  /\ AppendRaises("late")
  /\ Written(Draft(made'))
  /\ UNCHANGED head

\* The process is gone with its head; the head of the next is what it recovers.
Gone == pc' = "down" /\ seq' = 0 /\ prev' = Genesis

Crash ==
  /\ pc # "down"
  /\ Fault("crash")
  /\ Gone
  /\ UNCHANGED <<file, made, acked>>

\* A power cut leaves the first n lines and, where it tears one, a part of the next.
PowerCut(n) ==
  /\ pc # "down"
  /\ Gone
  /\ lines' = SubSeq(lines, 1, n)
  /\ \/ Fault("lost") /\ tail' = None
     \/ Fault("cut") /\ n < Len(lines) /\ tail' \in {Garbage, lines[n + 1]}
  /\ UNCHANGED <<made, acked>>

Next ==
  \/ Recover
  \/ AppendLine
  \/ Advance
  \/ AppendRefused
  \/ AppendTorn
  \/ AppendLate
  \/ Crash
  \/ \E n \in 0..Len(lines) : PowerCut(n)

Spec == Init /\ [][Next]_vars

\* The supervisor starts the agent again, and a call that was entered is carried on.
FairSpec == Spec /\ WF_vars(Recover) /\ WF_vars(Advance)

-----------------------------------------------------------------------------
(* Properties *)

\* The log a site writes verifies at every moment (verify_chain, spec/protocol.md
\* 4.3), contiguous and linked, as long as each append is made whole or not at all:
\* crashes, refused calls and power cuts between lines do not hurt it.
Whole == happened \subseteq {"crash", "refused", "lost"}
LogVerifies == Whole => Verifies(lines)

\* The chain goes on from the last line of the log, after a restart too
\* (receipts.py:156-178): it neither starts over nor leaves a gap.
HeadIsLogEnd ==
  Whole /\ pc = "idle" =>
    IF lines = <<>> THEN seq = 0 /\ prev = Genesis
    ELSE lines[Len(lines)].seq = seq /\ lines[Len(lines)].id = prev

\* No log holds the receipts of two sites (receipts.py:170-174), whatever failed.
OneSitePerLog ==
  \A i, j \in DOMAIN lines :
    Garbage \notin {lines[i], lines[j]} => lines[i].site = lines[j].site

\* A receipt that record() has returned stays in the log, at its number: no crash,
\* refused call or restart removes it or puts another in its place.
AckedStaysRecorded ==
  happened \subseteq {"crash", "refused"} =>
    \A r \in acked : r.seq \in DOMAIN lines /\ lines[r.seq] = r

\* Whatever fails, the log never holds a receipt twice or out of order
\* (receipts.py:3-6): what is lost is lost, and nothing older comes after it.
NeverReordered ==
  \A i, j \in DOMAIN lines :
    (i < j /\ Garbage \notin {lines[i], lines[j]}) => lines[i].id < lines[j].id

\* A site that stopped can always go on with its own log.
Resumes == (pc = "down" /\ lines # ForeignLog) ~> (pc = "idle" \/ ~Whole)

-----------------------------------------------------------------------------
(* What the documents say and the code does not do *)

\* file_sink.py:3-5: "a torn tail from a power cut can be identified and discarded
\* while the rest of the chain still verifies".
TornTailIsHarmless == happened \subseteq {"cut"} => Verifies(lines)
=============================================================================
