# Pilotfish in TLA+

A verification development for Pilotfish: TLA+ modules of the authority and the messages it sends,
of the agent, its policy store, its audit log, its decision core and of the simulator, the TLC runs
that check them on small instances, and TLAPS proofs of the properties that matter most for every
value of the constants. Paths below are relative to the repository; line numbers are those of the
modelled commit. `PROJECT.json` lists components, runs, mutants, the map from definitions to lines,
findings, hazards and theorems.

## The system

Pilotfish decides which access links of a site each traffic class *may* use. An authority signs
policy bundles; a site verifies one, collects evidence about its links, takes links out of the
permitted sets rule by rule, hands the decision to a dataplane, reads back what is in force, and
leaves signed receipts of all of it. A site without a valid bundle runs on its signed floor.

| component | state it keeps | operations | talks to |
|---|---|---|---|
| decision core (`core/`) | none | `decide`, nine rules, `as_of`, `latest`, `floor_bundle` | called by the cycle |
| bundle store (`agent/bundle_store.py`) | floor, bundle, sequence, nonces (memory) | `__init__`, `accept`, `current` | mark file, transport, cycle |
| high-water mark (`agent/epoch.py`) | one number in a file | `read`, `commit` | file system |
| receipt chain (`agent/receipts.py`) | number and hash of the last receipt (memory) | `record`, `recover`, `read_chain`, `verify_chain` | sink |
| file sink (`adapters/file_sink.py`) | the log file | `append`, `read_all` | file system |
| agent cycle (`agent/cycle.py`) | none between calls | `run_once` | store, source, dataplane, chain |
| SDK (`sdk/`) | none | protocols of source, dataplane, sink; errors | implemented outside |
| authority (`authority/signer.py`, `cli.py`) | none | sign a bundle or a floor | its output reaches the store |
| codecs (`protocol/`) | none | encode, decode, sign, verify | everything signed |
| simulator (`sim/`) | true state of links, selector state, measures | `run`, four selectors, oracle | the agent itself |

Everything is sequential Python; there is no thread, lock or callback of Pilotfish's own. What is
hard comes from outside: the process dies between two durable steps, a power cut takes back what was
not synced, any call that leaves the program may raise before, during or after its effect, messages
and readings come twice, late, out of order or from the future, the clock moves between calls,
forwards or back, a second process may share a file, and policies lapse. What each component must
get right:

- **decision core**: rules only take links out; missing or ageing evidence never admits a link;
  the floor keeps what classes declare.
- **store and mark**: what governs is the newest policy the site ever adopted, through restarts; one
  policy per sequence; nothing but the floor to fall back to; a new policy gets in eventually.
- **authority and codecs**: what governs is what an operator wrote, whole or not at all; nothing locks
  a site out of what is signed for it, but for the nonce that all outputs of `sign-bundle` share, until
  a restart; a floor fits the site that starts on it.
- **chain and sink**: the chain goes on where the log ends; nothing acknowledged is lost, doubled or
  reordered; a log stays verifiable and of one site.
- **cycle**: the log tells the truth about the dataplane; nothing is in force that was not
  announced; one policy per decision; a lapse takes effect.
- **simulator**: selectors choose only what is up; the oracle and the policy agree on what is
  allowed; degraded means out of contact.

## The modules

| module | models | kind |
|---|---|---|
| `Policy` | `core/`: the evidence snapshot, the rules, `decide`, the floor | operators |
| `Eligibility` | what `decide` answers under a moving clock and a changing snapshot | state machine |
| `PolicyInForce` | what a site promises about the policy it is under | abstract specification |
| `BundleStore` | `bundle_store.py` and `epoch.py`, with crashes | refines `PolicyInForce` |
| `EpochMark` | what an epoch store promises: a maximum (`MemoryEpochStore`) | abstract specification |
| `EpochFile` | `FileEpochStore` call by call, by several processes | compared with `EpochMark` |
| `Messages` | `protocol/messages.py`, `protocol/envelope.py` | operators |
| `Distribution` | `signer.py`, `cli.py`, a transport and a site | composes `Messages` and `BundleStore`, refines `BundleStore` |
| `ReceiptLog` | `receipts.py` over `file_sink.py`, with crashes | state machine |
| `AgentCycle` | `cycle.py` with store, source, dataplane and log around it | composes `Policy` and `PolicyInForce` |
| `Simulation` | `sim/`: event loop, links, selectors, oracle, on `Policy` | state machine |
| `MC*` | instances for TLC | |
| `*_proofs` | theorems and their proofs | |

Conventions. A definition preceded by a comment that starts with "Mutant" is a plausible wrong
version of the definition that follows; it belongs to no specification and is there to show that a
property can fail. Variables marked *history* record the past for the properties; no guard reads
them. `faults` and the `Max...` constants bound what the environment does, never the program; the
bound `MaxRecords` limits how often `record` is called.

**Policy.** Operators translate methods one to one. Evidence is a function from positions of the
tuple to readings, because `latest` breaks ties by position. Hashes stand for what they hash.
Numbers are integers; NaN and infinities are left out because the constructors refuse them.

**Eligibility.** State: the clock and the snapshot. `Report` adds a reading of any date in `Stamps`,
`Silence` removes all readings of a quantity, `Tick` moves the clock. The answers for every bundle
of `Bundles` are recomputed in each state, as the code does at each cycle.

**BundleStore.** `mark` is what `FileEpochStore.read` finds, `synced` what it would find after a
power cut; `bundle`, `sequence`, `nonces`, `floor` are the attributes of the object; `pc` says where
inside `accept` the process is. `Start` is `__init__`; `Check` is `accept` up to line 153, a refusal
being a stuttering step as it changes nothing; `Commit`, `CommitFails` and `CommitLate`, which
raises although the rename is made, are line 159; `Install` is lines 161-164. `Crash` loses the
memory, `PowerCut` the memory and an unsynced rename, `Damage` makes the mark unreadable. `Current`
is `current`. The clock may be set back (`SetBack`), so a policy that had lapsed may return:
`PolicyInForce` lets the newest one return (`Return`) and no other.

**EpochFile.** Each process has a `commit` of its own: `Keep` and `Check` are the read and the two
outcomes of the comparison, `Create`, `Write`, `Sync`, `Replace` the calls of lines 90-96. `CreateRaises`
is outside the try block; `Raises` is any call in it that fails without effect, `ReplaceRaises` an
exception when the rename is made, and both lead to the cleanup, `Unlink` or `UnlinkRaises`, which
leaves the temporary file behind, as the death of a process does; nothing in the code ever looks at
such a file. `file` is what `read` finds, `disk` what it finds after a power cut, which leaves any part
of what was not synced. `returned` (what `commit` has returned for) and `undone` (a rename was
overtaken or taken back) are history. `BundleStore` takes a commit as one rename; `ActsAsMaximum` says
that it may.

**Messages.** One operator per function. Bytes stand for the value they encode. Time counts half
seconds, so that what `int()` drops of a time exists; a signature is the pair of its key and what it
covers, so it cannot be forged. `DecodeBundle` answers a set, empty where the code raises.

**Distribution.** A job is a policy file, a key and an issuer. `SignBundle` is `sign-bundle`, which
looks at the clock twice and overwrites its output; `Deliver` hands the output to `accept`;
`DeliverMail` hands it one of `Mail`: old copies, messages under other keys, messages put together
from fields of others. `Read` and `ReadFloor` are what `accept` and `_install_floor` find in the
bytes; every output of `sign-bundle` has `DefaultNonce`, what comes by mail may have a nonce that
somebody passed to `publish`. The rest of the site is an instance of `BundleStore`, whose
`Envelopes` and `FloorConfigs` are here the results of signing, encoding and decoding.
`AuthorityKinds` and `SiteKinds` are the rules each side's version knows.

**ReceiptLog.** `lines` and `tail` are the file; `seq` and `prev` the head in memory. `AppendLine` is
`record` up to the return of `append`, `Advance` the rest; `AppendRefused`, `AppendTorn`, `AppendLate`
are an `append` that raises before, in the middle of and after its line. `Recover` is `recover` over
`read_all`. A receipt's `id` stands for its hash. One module
serves every kind of fault: `happened` records which have occurred, and each property names the kinds
it holds under. `Joined` is what base64 decoding makes of a line
written behind a tail.

**AgentCycle.** `pc` names the next thing `run_once` does: observe, decide and record, attempt,
apply, read back, report. Every call may raise under the fault kinds in `Faults`. `Accept` may
happen between any two steps; the store is taken by the promise `BundleStore` is shown to keep: it
starts, adopts and falls back as `PolicyInForce` does (`Store!Init`, `Store!Adopt`,
`Store!FallBack`). `InForce` is recomputed from the newest bundle and the clock, so that a policy
returns when the clock is set back (`SetBack`) without a step of its own. `Adapter` says what a
dataplane does with classes a decision does not name: `NoopDataplane` replaces its whole state, the
protocol does not demand it, so TLC checks "merges", the harder case, and the proofs cover both.
`log` keeps the receipts of the last cycle that recorded any.

**Simulation.** `Happen` applies one event, `Step` is one round of the loop. The governed selector
is `Policy!Permitted` under the bundle renewed at each step in contact. `frame` holds what the last
step chose and measured; sums over a run are not kept. The clock counts steps, a link carries one
unit per class and step, and the allowance is `Allowance` units. The evidence of a step has a
position for every link and quantity, empty where the link does not report it. `ClassOrder` is the
order of a decision, sorted by id; `DeclaredOrder` that of the loop in `run.py`, which decides which
class finds the allowance spent.

## The runs

Passing runs:

| run | properties | what it shows |
|---|---|---|
| `eligibility` | TypeOK, PermittedWasSeenUp, FloorKeepsDeclaredConstraints, AgeingContracts, SilenceNeverAdmits | time and silence only take links out; permitted links were seen up; the floor keeps declared constraints |
| `bundle_store` | TypeOK, NoRollback, OnePolicyPerSequence, NoncesOnlyRefuseTheOld, KeepsPromise, PolicyArrives | the store implements its promise through every crash, and an offered policy is recorded or overtaken in the end |
| `epoch_file` | TypeOK, NeverTruncated, ReturnedIsRecorded, ActsAsMaximum | two processes on one mark file, dying anywhere, with calls that raise, the cleanup included: never a part of a number, never a lower one unless one process overtakes the other, and what `commit` returned for is recorded |
| `receipt_log` | TypeOK, LogVerifies, AckedStaysRecorded, HeadIsLogEnd, NeverReordered, OneSitePerLog, Resumes | under every fault, what each kind of fault leaves true: the log verifies, nothing acknowledged is lost, doubled, reordered or mixed, and the chain resumes |
| `agent_cycle` | TypeOK, EnforcedIsTrue, NothingInForceUnrecorded, DecisionIsOfOnePolicy, LogNeverRollsBack, AttemptIsAnswered, LapseTakesEffect | the log and the dataplane agree, whatever call fails, and a lapsed policy gives way to the floor |
| `distribution` | TypeOK, GovernedAsWritten, FloorFitsTheSite, FileArrives | from a file to the policy in force: faithful, whole, for this site, and in the end, unless the nonce all outputs share keeps it out until a restart |
| `simulation` | TypeOK, PermittedMeansAllowed, DegradedIffOutOfContact, ServesWhenItCan, ChosenIsUp, DwellDamps | the governed selector against the oracle, and the three baselines |

Violation runs; each shows one sentence of the documents or comments that the code does not meet
(quoted in `PROJECT.json` under "findings"):

| run | what happens |
|---|---|
| `evidence_hash` | two readings with one timestamp: one evidence hash, two decisions |
| `cli_nonce` | (`MCDistribution` without faults) bundles signed by the command line share a nonce; the second is refused until a restart |
| `torn_tail` | the line after a torn tail is spoilt, and the log cannot be recovered |
| `whole_truth` | a class the new decision does not name keeps its links, and the receipt says ENFORCED |
| `stays_inside` | a class permitted nothing is sent where the first class may go |

### Sentences the models take from the code

Where a document or comment says more than the code does, the modules follow the code. These
differences have no run of their own:

- `core/models.py:121-123` says a fast clock makes the permitted set smaller. `as_of` drops the
  reading dated too far ahead, and `latest` answers with the older one it would have superseded,
  which may say "up" where the dropped one said "down" (`AsOf`, `Latest`).
- `core/bundle.py:79` and `:107` say the floor refuses metered paths. `MeteredRule` refuses them
  only to classes that do not tolerate them (`Metered`, `FloorClassRules`).
- `spec/protocol.md:129` says the floor must never be less restrictive than ordinary policy. It has
  no rule for quota, freshness or directives, so it permits what those refused (`FloorBundle`).
- The design (lines 113-114) calls POLICY_BUNDLE idempotent. After a restart the bundle the site ran
  under is refused, since its sequence is on disk and the bundle is not (`Admissible`).
- `agent/epoch.py:3-6` promises a mark that survives a power cut. `commit` does not sync the
  directory; with `RenameSurvivesPowerCut = FALSE` the invariant `NoRollback` of run `bundle_store`
  fails.
- `spec/protocol.md:72-73` asks for the time to be inside the validity window. `accept` does not
  look at `issued_at` of the bundle (`Admissible`).
- `agent/receipts.py:3-6` says gaps are visible. An append that fails after the text and before the
  newline leaves a tail that swallows the next receipt, and the log still verifies (`AppendTorn`,
  `Joined`); one that raises after its line leads to two receipts of one number (`AppendLate`).
- The design (lines 271-272) says each cycle writes three receipts. `readback` is called outside the
  try block (`ReadbackRaises`), which `AttemptIsAnswered` therefore excepts.
- `sdk/errors.py:3-7` says the cycle catches aged evidence and continues on the floor. What
  `observe` raises ends the cycle (`ObserveRaises`).
- `spec/protocol.md:29-31` asks for messages with extra fields to be refused. The decoders index the
  fields they know and ignore what follows (`DecodeBundle`); only the envelope counts them.
- `bundle_store.py:107` says `accept` raises rather than installing a doubtful bundle, and its
  refusals are `BundleUnverified`. A rule of unknown kind leaves it as `UnknownRuleKind`, a
  malformed payload as whatever the decoder raised; either way nothing is installed (`Read`).
- `messages.py:243` makes a batch of observations a snapshot. Its times have lost their fraction, so
  the evidence hash of the other side is another, and two readings of one second have become a tie
  (`DecodeObservation`, `Latest`).
- `agent/epoch.py:41-42` asks for the highest sequence ever committed. Two processes that share the
  file may overtake each other, the lower sequence landing last (`Overtaken`), and each may govern
  under another bundle of one sequence; nothing locks the file.
- Renewing a policy needs a higher sequence in its file: `sign-bundle` never bumps it, and a site
  refuses a second signing of the same sequence (`LoadBundle`, `Admissible`).
- `sim/run.py:109-110` says nothing available and nothing allowed are never one number. A selector
  that sees no live link answers None, which is booked as refused (`Frame`).

### Bounds, and why they are enough

- `eligibility`: two links and readings of liveness and measurement around their thresholds, three
  slots in the snapshot (a tie or an overtaking needs two, a third is noise), stamps on both sides
  of the skew allowance; policies with every kind of rule.
- `bundle_store`: three sequences, two policies sharing one, one delivered in two envelopes, one
  stamped ahead of the clock, and envelopes that fail each check; time 4, so that policies expire
  and stamps become credible, and a clock that may be set back to any earlier time; three faults, so
  that a crash, a restart and another fault meet.
- `epoch_file`: two writers (a third can only overtake as the second does), the sequences 3, 12 and
  21, the last two of which have parts that read as lower numbers; three faults, so that a power
  cut, a death and a call that raises meet; renames that do not survive a power cut.
- `receipt_log`: up to six `record` calls and three faults of any kinds: two lives after the first,
  with a fault in each.
- `distribution`: two files, one strict and with a directive, one lenient, with every optional field
  present in one and absent in another; a message with a rule the site does not know, one under
  another key and every exchange of one field between messages; four floors, three of which must not
  start; time 4 and two faults.
- `agent_cycle`: two links, two policies, the later one stricter, both of which lapse within two
  ticks, and a floor without the class; two faults of nine kinds, a clock that is set back among
  them. Cycles are not bounded: the log keeps only the last cycle, so the state space is finite.
- `simulation`: three link types, two classes, ten kinds of event of which four happen, six steps;
  dwell and validity of two steps, so that both expire and restart within a run; noise on the
  satellite, the one link whose noise crosses a limit; an unencrypted link and a class that needs
  encryption.

`CHECK_DEADLOCK FALSE` is set where the system really stops: a store or log that refuses to start,
the bound on records, a mark file no sequence exceeds, the end of a simulation.

### Fairness

`BundleStore`: the supervisor restarts the agent (`Start`), a call that was entered goes on (`Commit`,
`Install`), time passes, and the transport goes on offering each message (`Check`). All weak: nothing
in the code disables them for a moment and enables them again, except a message overtaken or
expired, which the property allows for. `ReceiptLog`: `Recover` and `Advance`. `AgentCycle`: time
passes, `run_once` is called again and again and goes on once entered. Faults have no fairness and
are finitely many. No fairness is assumed of the environment's other actions. `PolicyArrives` excepts
a mark that has become unreadable, from which the code does not recover by design.
`Distribution`: operators sign each file again and again and the transport offers each output
(`SignBundle`, `Deliver`), besides what is assumed of the store; other mail comes or not. Time is
bounded, so at its end files go on being signed at a standing clock: `FileArrives` shows that stamps,
sequences and what a site has seen under other nonces never lock it out, not that it is quick. It
excepts a site that remembers the default nonce for ever, as it does when it has accepted one output
of `sign-bundle` and is not restarted: nothing in the code makes it forget, and run `cli_nonce` shows the
refusal. `EpochFile` and `Simulation` have safety
properties only.

## The proofs

TLAPS 1.4.5 checks every step; nothing is omitted or assumed beyond the named ASSUMEs of the modules
(which TLC evaluates in the runs) and the hypotheses below.

- `Eligibility_proofs`: typing, and the four safety and action properties, for all bundles,
  readings, stamps and slots. The invariant behind the action properties is typing alone: ages grow
  with the clock (`AgeNeverShrinks`), so a rule that excludes goes on excluding
  (`ExclusionPersists`), and with fewer readings of a quantity it excludes at least as much
  (`FewerReadingsExclude`).
- `BundleStore_proofs`: typing, `NoRollback`, `OnePolicyPerSequence` and the refinement of
  `PolicyInForce`, under the hypothesis `RenameSurvivesPowerCut` (without it TLC finds a rollback),
  and `NoncesOnlyRefuseTheOld` under the hypothesis that envelopes with one nonce carry one sequence
  (the run `cli_nonce` shows it is needed). `NoRollback` is not inductive: the inductive invariant
  `IInv` adds that the disk knows a mark at least as high as everything that governed, that the
  process knows it too, and that an `accept` under way goes strictly above it. `MarkIsAMaximum` puts
  store and file together: what the store takes its mark for, one rename per commit, is `EpochMark`,
  which `EpochFile_proofs` shows one process and its file to implement.
- `EpochFile_proofs`: every property of run `epoch_file`, for any number of processes and faults.
  The inductive invariant `IInv` says that whatever has a name, or is about to get it, is a whole
  number some commit was called with. `OneWriterKeepsMaximum` is the refinement of `EpochMark` for
  one process and renames that survive power cuts; under the same hypotheses
  `OneWriterRecordsWhatReturned` is `ReturnedIsRecorded` without its exceptions, since `Alone`
  (nothing was undone, and what is seen is what is there) is inductive.
- `ReceiptLog_proofs`: typing and the five safety properties of run `receipt_log`, for all faults,
  each property naming those it holds under. The first invariant, `IInv`, says that as long as
  appends are made whole or not at all the file has no tail, verifies, and fits the head, also
  between `AppendLine` and `Advance`. The second, `InOrder`, holds through torn and late appends as
  well: receipts of one site, in the order of their calls, none of them later than the draft in
  hand.
- `Messages_proofs`: the codecs for all inputs. `WholeOrNotAtAll`: a bundle decodes to itself up to
  the fraction of its times, or, with a rule the reader does not know, not at all.
  `DecisionsRehash`: a receipt read back has the hash it was written with. `EvidenceAgesOnTheWire`:
  sending a reading never makes it fresher. `DirectiveIsItsRule`, `SignedVerifies`,
  `SignatureCoversEverything`. The hypotheses `IsPolicy`, `IsLink`, `IsClass`, `IsRule` say only
  that the records have their fields.
- `Distribution_proofs`: `ImplementsStore` (`Spec => Store!Spec`), so the theorems about
  `BundleStore` hold of the site that real files and messages reach, under their hypotheses;
  `GovernedAsWritten`, from the round trips of `Messages_proofs`, `SignatureAssumption` (signatures
  under the trusted key are taken from what was signed with it) and `FilesAssumption` (files name
  whole seconds); `FloorFitsTheSite` for a site that presents its links. `StoreProofs` is an instance
  of `BundleStore_proofs` whose constants are the results of signing and decoding; its assumptions
  are proved of them (`StoreAssumptionsHold`, from `FilesAssumption`, `MailAssumption` and
  `SiteAssumption`, which say that sequences are naturals and that mail consists of messages), so
  typing, `NoRollback`, `OnePolicyPerSequence` and `PolicyInForce` are theorems of the whole
  pipeline. `NoncesOnlyRefuseTheOld` is none: with the one nonce of `sign-bundle` it is false, as run
  `cli_nonce` shows.
- `Simulation_proofs`: all six properties of run `simulation`, for any fleet, noise, dwell time and
  pattern of events. Typing, `ChosenIsUp` and `ServesWhenItCan` follow from what the selectors see
  (`WhatIsSeen`: a link is observed up exactly if it is up and not silent, and has one reading of
  each quantity it reports) and from the least of a finite set of candidates (`LeastExists`, by a
  minimal set of smaller members, since induction over sets is out of reach). The same lemma
  gives `LatestAnswersOnce`: `latest` is never silent or ambiguous about what a snapshot holds. In
  `PermittedMeansAllowed` the rules that exclude by reports and the oracle that charges by the truth
  meet: what a class declares, its limit on latency included, a rule enforces (`PolicyAssumption`,
  true of the policy of `scenarios.py:36-58`), and a class whose permitted set is not empty is given
  a link of that set (`ServedFromItsOwn`). What remains are a latency whose report met the limit,
  and a spent allowance on the floor. A class that is permitted nothing is not covered: run
  `stays_inside` shows where it goes, under a policy in force. `FleetAssumption` says that
  links and classes are keyed by their ids and that the static list names every link
  (`report.py:22`), `EventsAssumption` that events name links that exist.
  `DegradedIffOutOfContact`, whose invariant `Fresh` ties the store to the last
  contact, and `DwellDamps`, whose invariant `Dwelling` says that the dwell clock of the held link
  never starts before the classes moved to it. `NoneIsNoFrame` says that None is no record.
- `AgentCycle_proofs`: typing and the other five safety properties of run `agent_cycle`, for all
  policies, snapshots, faults and both adapters. The invariant relates the program counter to the
  receipts written so far (`Progress`), the last ENFORCED receipt to the dataplane (`Truthful`), the
  dataplane to what was announced (`Recorded`), and the sequences of log, cycle and store (`Ranks`).

Only model-checked: liveness (`PolicyArrives`, `FileArrives`, `Resumes`, `LapseTakesEffect`), which is
beyond this prover.

## What is not modelled

- **Canonical CBOR and Ed25519** (`protocol/canonical.py` and the libraries): bytes stand for the
  value they encode, a signature for its key and what it covers.
- **What is no policy file, no message**: input that JSON, CBOR or a constructor refuses raises
  before anything changes; the models start where it decodes.
- **`verify-bundle`, `keygen`** (`cli.py`): they change nothing a site sees. Nor does anything call
  the codecs of observation batches and directives, or `PolicyAuthorityClient`: the codecs are
  operators with theorems, the client is a protocol without code.
- **Scenario tables and report** (`sim/scenarios.py`, `sim/report.py`): data and layout. Of the
  simulator's measures, sums over a run, overage cost and LTE congestion are left out.
- **Sinks and logs of another kind**: both sinks of the repository have `read_all`. A chain over one
  without it starts at number 1 each time (`receipts.py:166`); a log of this site under another key
  is refused at the start, since nothing in it verifies. Neither is a behaviour of `ReceiptLog`.
- **Store, cycle and log in one state machine**: the cycle takes the store by the promise
  `BundleStore` is proved to keep, and the sink by an append that works or raises, which is what
  `ReceiptLog` refines into bytes. A fault of the machine is therefore met by each alone.

## Left to do

1. `Site`: store, cycle and log in one process, sharing crashes and power cuts, against the abstractions
   each uses of the others.
2. `Simulation`: sums of the measures over a run, and the real scenarios as sequences of events.
3. Proofs: that `Site` implements the promises its parts are taken by; a link leaves the permitted set
   when its quota is spent, over a whole run of the simulator.
