----------------------------- MODULE EpochFile -----------------------------
(***************************************************************************)
(* agent/epoch.py: the high-water mark in a file, call by call.            *)
(*                                                                         *)
(* Nothing locks the file, and nothing keeps a second agent (one started   *)
(* by hand, or by a supervisor that gave up on the first) from using it,   *)
(* so each writer is a process with a commit() of its own.  Any call may   *)
(* raise, before or after it has had its effect, the one that cleans up    *)
(* included; a process may die between any two, and a power cut stops them *)
(* all and takes back what was not synced.                                 *)
(*                                                                         *)
(* A text is known by the number it reads as.  A part of a decimal numeral *)
(* is a lower number, or nothing at all, which is Unreadable.              *)
(***************************************************************************)
EXTENDS Integers, FiniteSets

CONSTANTS
  Writers,
  Sequences,    \* what commit() is called with
  RenameSurvivesPowerCut,  \* os.replace is durable without an fsync of the directory
  MaxFaults,    \* bound on calls that raise, processes that die and power cuts
  None, Unreadable

ASSUME BoundsAssumption == MaxFaults \in Nat
ASSUME SetsAssumption == IsFiniteSet(Writers) /\ Sequences \subseteq Nat
ASSUME FileSystemAssumption == RenameSurvivesPowerCut \in BOOLEAN
ASSUME ValuesAssumption == None # Unreadable /\ {None, Unreadable} \cap Int = {}

VARIABLES
  file,    \* what read() finds
  disk,    \* what it finds after a power cut
  pc,      \* of each writer: "idle", or what its commit() does next
  goal,    \* its sequence
  seen,    \* what its read() returned
  temp,    \* its temporary file, or None
  called,    \* history: every sequence a file was written for
  returned,  \* history: every sequence commit() has returned for
  undone,    \* history: a process overtook another, or a power cut took a mark back
  faults

locals == <<pc, goal, seen, temp>>
history == <<called, returned, undone>>
vars == <<file, disk, locals, history, faults>>

NoEpoch == -1

\* What may be left of a numeral that was not synced.
Parts(s) == {Unreadable, s \div 10, s}

Texts == Sequences \cup UNION {Parts(s) : s \in Sequences}

TypeOK ==
  /\ file \in Texts \cup {NoEpoch} /\ disk \in Texts \cup {NoEpoch}
  /\ pc \in [Writers -> {"idle", "create", "write", "sync", "replace", "unlink"}]
  /\ goal \in [Writers -> Sequences \cup {NoEpoch}]
  /\ seen \in [Writers -> Texts \cup {NoEpoch}]
  /\ temp \in [Writers -> Texts \cup {None}]
  /\ \A w \in Writers : /\ pc[w] # "idle" => goal[w] \in Sequences
                        /\ pc[w] \in {"idle", "create"} => temp[w] = None
                        /\ pc[w] \in {"write", "sync", "replace"} => temp[w] # None
  /\ called \subseteq Sequences
  /\ returned \subseteq Sequences
  /\ undone \in BOOLEAN
  /\ faults \in 0..MaxFaults

-----------------------------------------------------------------------------

Init ==
  /\ file = NoEpoch /\ disk = NoEpoch
  /\ pc = [w \in Writers |-> "idle"]
  /\ goal = [w \in Writers |-> NoEpoch]
  /\ seen = [w \in Writers |-> NoEpoch]
  /\ temp = [w \in Writers |-> None]
  /\ called = {} /\ returned = {} /\ undone = FALSE
  /\ faults = 0

Goes(w, from, to) == pc[w] = from /\ pc' = [pc EXCEPT ![w] = to]

Holds(w, text) == temp' = [temp EXCEPT ![w] = text]

\* commit(s) of a sequence the mark has reached: it is left alone.
Keep(w, s) ==
  /\ pc[w] = "idle"
  /\ file # Unreadable /\ s <= file
  /\ returned' = returned \cup {s}
  /\ UNCHANGED <<file, disk, locals, called, undone, faults>>

\* Mutant: the mark is replaced whatever it is.
CheckBlindly(w, s) ==
  /\ file # Unreadable
  /\ Goes(w, "idle", "create")
  /\ goal' = [goal EXCEPT ![w] = s]
  /\ seen' = [seen EXCEPT ![w] = file]
  /\ UNCHANGED <<file, disk, temp, history, faults>>
\* commit(s) of a newer sequence: the read and the comparison.
Check(w, s) ==
  /\ file # Unreadable /\ s > file
  /\ Goes(w, "idle", "create")
  /\ goal' = [goal EXCEPT ![w] = s]
  /\ seen' = [seen EXCEPT ![w] = file]
  /\ UNCHANGED <<file, disk, temp, history, faults>>

\* tempfile.mkstemp
Create(w) ==
  /\ Goes(w, "create", "write")
  /\ Holds(w, Unreadable)
  /\ called' = called \cup {goal[w]}
  /\ UNCHANGED <<file, disk, goal, seen, returned, undone, faults>>

\* Mutant: nobody waits for the text to reach the disk.
WriteUnsynced(w) ==
  /\ Goes(w, "write", "replace")
  /\ temp' \in {[temp EXCEPT ![w] = part] : part \in Parts(goal[w])}
  /\ UNCHANGED <<file, disk, goal, seen, history, faults>>
\* file.write and flush: how much of it a power cut would leave is not known.
Write(w) ==
  /\ Goes(w, "write", "sync")
  /\ temp' \in {[temp EXCEPT ![w] = part] : part \in Parts(goal[w])}
  /\ UNCHANGED <<file, disk, goal, seen, history, faults>>

\* os.fsync
Sync(w) ==
  /\ Goes(w, "sync", "replace")
  /\ Holds(w, goal[w])
  /\ UNCHANGED <<file, disk, goal, seen, history, faults>>

\* w replaces a mark that is not the one it compared its sequence with.
Overtaken(w) == seen[w] # file

\* os.replace: what is on the disk takes the name of the mark.
Renamed(w) ==
  /\ file' = temp[w]
  /\ disk' \in (IF RenameSurvivesPowerCut THEN {file'} ELSE {file', disk})
  /\ Holds(w, None)
  /\ undone' = (undone \/ Overtaken(w))
  /\ UNCHANGED <<goal, seen, called>>

\* commit() returns.
Replace(w) ==
  /\ Goes(w, "replace", "idle")
  /\ Renamed(w)
  /\ returned' = returned \cup {goal[w]}
  /\ UNCHANGED faults

Fault == faults < MaxFaults /\ faults' = faults + 1

\* The exception (an interrupt, or an error reported late) comes when the rename is done:
\* what missing_ok is for.
ReplaceRaises(w) ==
  /\ Goes(w, "replace", "unlink")
  /\ Renamed(w)
  /\ Fault
  /\ UNCHANGED returned

\* mkstemp raises: there is no file yet, and nothing that would remove it.
CreateRaises(w) ==
  /\ Goes(w, "create", "idle")
  /\ Fault
  /\ UNCHANGED <<file, disk, goal, seen, temp, history>>

\* Any call under the try raises without effect.
Raises(w) ==
  /\ pc[w] \in {"write", "sync", "replace"}
  /\ pc' = [pc EXCEPT ![w] = "unlink"]
  /\ Fault
  /\ UNCHANGED <<file, disk, goal, seen, temp, history>>

\* Mutant: the file is taken for one that is still there.
UnlinkTwice(w) ==
  /\ Goes(w, "unlink", "idle")
  /\ UNCHANGED <<file, disk, goal, seen, temp, history, faults>>
\* Mutant: the exception is swallowed, and commit() returns.
UnlinkSwallows(w) ==
  /\ Goes(w, "unlink", "idle")
  /\ Holds(w, None)
  /\ returned' = returned \cup {goal[w]}
  /\ UNCHANGED <<file, disk, goal, seen, called, undone, faults>>
\* unlink(missing_ok=True), and the exception goes to the caller.
Unlink(w) ==
  /\ Goes(w, "unlink", "idle")
  /\ Holds(w, None)
  /\ UNCHANGED <<file, disk, goal, seen, history, faults>>

\* unlink raises as well, and its exception goes to the caller: the temporary file, if
\* there is one, stays where it is and nobody knows it.
UnlinkRaises(w) ==
  /\ Goes(w, "unlink", "idle")
  /\ Holds(w, None)
  /\ Fault
  /\ UNCHANGED <<file, disk, goal, seen, history>>

\* The processes in W are gone; their temporary files stay where they are.
Die(W) ==
  /\ pc' = [w \in Writers |-> IF w \in W THEN "idle" ELSE pc[w]]
  /\ temp' = [w \in Writers |-> IF w \in W THEN None ELSE temp[w]]
  /\ Fault
  /\ UNCHANGED <<goal, seen, called, returned>>

Crash(w) == Die({w}) /\ UNCHANGED <<file, disk, undone>>

PowerCut ==
  /\ Die(Writers)
  /\ file' = disk
  /\ undone' = (undone \/ disk # file)
  /\ UNCHANGED disk

Next ==
  \/ \E w \in Writers :
       \/ \E s \in Sequences : Keep(w, s) \/ Check(w, s)
       \/ Create(w)
       \/ Write(w)
       \/ Sync(w)
       \/ Replace(w)
       \/ ReplaceRaises(w)
       \/ CreateRaises(w)
       \/ Raises(w)
       \/ Unlink(w)
       \/ UnlinkRaises(w)
       \/ Crash(w)
  \/ PowerCut

Spec == Init /\ [][Next]_vars

-----------------------------------------------------------------------------
(* Properties *)

\* "Either the old mark or the new one, never a truncated number that would read as a
\* lower epoch" (epoch.py:65-67): whoever dies at whatever moment, read() finds a
\* number that some commit() was called with.
NeverTruncated == {file, disk} \subseteq called \cup {NoEpoch}

Mark == INSTANCE EpochMark WITH mark <- file

\* The file acts as the maximum EpochStore asks for (epoch.py:41-42), one step of
\* which is the rename, unless another process replaced the mark in between; a power
\* cut may take back what the disk does not have yet.
ActsAsMaximum ==
  [][ \/ Mark!Next
      \/ \E w \in Writers : Overtaken(w) /\ (Replace(w) \/ ReplaceRaises(w))
      \/ PowerCut ]_file

\* A sequence is "written down, atomically, before the bundle carrying it takes effect"
\* (epoch.py:8-9), which is when commit() returns: the mark is at or above it from then on,
\* whatever raises or dies in other calls and whatever a call that raised has done already,
\* as long as nobody overtook anybody and no power cut took a rename back.
ReturnedIsRecorded == ~undone => \A s \in returned : s <= file
=============================================================================
