----------------------------- MODULE MllaStage -----------------------------
(***************************************************************************)
(* The workers that load files: the given corpus at the start (LoadStage)  *)
(* and, round after round, what the MLLA agents produce (MllaStage).       *)
(*                                                                         *)
(* The worker that StageCounter lets in starts the agents, a process of up *)
(* to three hours.  Every five seconds until it ends, and once more after  *)
(* it, that worker collects what the agents left in the output directory.  *)
(* The agents write an artefact's files and then touch its .done file.     *)
(*                                                                         *)
(* The last collection comes after set_interval, when the counter may be   *)
(* on again: two workers may then collect from one directory.  There is no *)
(* lock; a file is claimed by the rename that takes it away.               *)
(***************************************************************************)
EXTENDS StageCounter, FiniteSets

CONSTANTS
  Seeds,    \* files of the given corpus directory when the fuzzer starts
  Blobs,    \* inputs the agents may write
  Scripts,  \* generators and mutators the agents may write
  BadScripts, \* those whose .json does not parse
  Reports,  \* bug candidate reports the agents may write
  Yields,   \* bound: sets of artefacts one behaviour's agents may write
  Cap,      \* input_per_worker: inputs of one batch
  Nothing   \* no report is held

Artefacts == Blobs \cup Scripts \cup Reports
Files     == Seeds \cup Artefacts
Inputs    == Seeds \cup Blobs

ASSUME MllaAssumption ==
  /\ Cap \in Nat \ {0} /\ Nothing \notin Files /\ Workers # {}
  /\ Seeds \cap Artefacts = {} /\ Blobs \cap (Scripts \cup Reports) = {}
  /\ Scripts \cap Reports = {} /\ BadScripts \subseteq Scripts
  /\ Yields \subseteq SUBSET Artefacts

VARIABLES
  disk,      \* files where their writer put them
  marked,    \* artefacts with a .done file
  written, announced,  \* history: artefacts ever written, ever marked
  agents,    \* each worker's agents process
  pc, phase, \* each worker: where it is, and what it collects for
  names,     \* markers a worker has listed and not looked at (glob)
  list,      \* paths a worker is still to load
  block,     \* inputs loaded for the worker's next batch
  held,      \* report the worker has taken
  executed,  \* history: how often each input was run
  usable,    \* scripts in MllaBlobGen
  applied    \* reports in the fuzzdb

diskVars   == <<disk, marked, written, announced>>
workVars   == <<names, list, block, held, executed, usable, applied>>
vars       == <<counterVars, diskVars, agents, pc, phase, workVars>>

TypeOK ==
  /\ CounterTypeOK
  /\ disk \subseteq Files /\ marked \subseteq Artefacts
  /\ written \subseteq Artefacts /\ announced \subseteq written
  /\ agents \in [Workers -> {"none", "generator", "full", "ended"}]
  /\ pc \in [Workers -> {"seeds", "perform", "cmd", "poll", "end", "report", "take", "apply",
                         "drop", "scripts", "glob", "unmark", "claim", "run", "blobgen"}]
  /\ phase \in [Workers -> {"start", "poll", "final"}]
  /\ names \in [Workers -> SUBSET Blobs] /\ list \in [Workers -> SUBSET Inputs]
  /\ block \in [Workers -> SUBSET Inputs] /\ held \in [Workers -> Reports \cup {Nothing}]
  /\ executed \in [Inputs -> Nat]
  /\ usable \subseteq Scripts /\ applied \subseteq Reports

Init ==
  /\ CounterInit
  /\ disk = Seeds /\ marked = {} /\ written = {} /\ announced = {}
  /\ agents = [w \in Workers |-> "none"]
  /\ pc = [w \in Workers |-> "seeds"] /\ phase = [w \in Workers |-> "start"]
  /\ names = [w \in Workers |-> {}] /\ list = [w \in Workers |-> {}]
  /\ block = [w \in Workers |-> {}] /\ held = [w \in Workers |-> Nothing]
  /\ executed = [f \in Inputs |-> 0]
  /\ usable = {} /\ applied = {}

At(w, here, there) == pc[w] = here /\ pc' = [pc EXCEPT ![w] = there]

-----------------------------------------------------------------------------
(* The agents. *)

Running(w) == agents[w] \in {"generator", "full"}

\* store_artifact_files, and finalize of a report: the content first
Write(w, a) ==
  /\ Running(w) /\ a \notin written
  /\ \E y \in Yields : written \cup {a} \subseteq y
  /\ disk' = disk \cup {a} /\ written' = written \cup {a}
  /\ UNCHANGED <<counterVars, marked, announced, agents, pc, phase, workVars>>

\* the .done file before the content
Announce_First(w, a) ==
  /\ Running(w) /\ a \notin announced
  /\ marked' = marked \cup {a} /\ announced' = announced \cup {a}
  /\ UNCHANGED <<counterVars, disk, written, agents, pc, phase, workVars>>

\* then the .done file
Announce(w, a) ==
  /\ Running(w) /\ a \in written \ announced
  /\ marked' = marked \cup {a} /\ announced' = announced \cup {a}
  /\ UNCHANGED <<counterVars, disk, written, agents, pc, phase, workVars>>

\* the agents finish, fail, or are ended by "timeout 3h"
AgentsEnd(w) ==
  /\ Running(w)
  /\ agents' = [agents EXCEPT ![w] = "ended"]
  /\ UNCHANGED <<counterVars, diskVars, pc, phase, workVars>>

-----------------------------------------------------------------------------
(* LoadStage: list, claim by renaming, run a batch. *)

\* run_seed, LoadStage::perform: every worker lists the same directory.
ListSeeds(w) ==
  /\ At(w, "seeds", "claim")
  /\ list' = [list EXCEPT ![w] = Seeds \cap disk]
  /\ UNCHANGED <<counterVars, diskVars, agents, phase, names, block, held, executed, usable, applied>>

\* load that copies the file
Claim_Copy(w) ==
  /\ pc[w] = "claim" /\ Cardinality(block[w]) < Cap
  /\ \E f \in list[w] : /\ f \in disk
                        /\ block' = [block EXCEPT ![w] = @ \cup {f}]
                        /\ list' = [list EXCEPT ![w] = @ \ {f}]
  /\ UNCHANGED <<counterVars, diskVars, agents, pc, phase, names, held, executed, usable, applied>>

\* load: the rename succeeds, the file is read into a slot
Claim(w) ==
  /\ pc[w] = "claim" /\ Cardinality(block[w]) < Cap
  /\ \E f \in list[w] : /\ f \in disk
                        /\ disk' = disk \ {f}
                        /\ block' = [block EXCEPT ![w] = @ \cup {f}]
                        /\ list' = [list EXCEPT ![w] = @ \ {f}]
  /\ UNCHANGED <<counterVars, marked, written, announced, agents, pc, phase, names, held, executed,
                 usable, applied>>

\* load: another worker has renamed it
ClaimFails(w) ==
  /\ pc[w] = "claim" /\ Cardinality(block[w]) < Cap
  /\ \E f \in list[w] : f \notin disk /\ list' = [list EXCEPT ![w] = @ \ {f}]
  /\ UNCHANGED <<counterVars, diskVars, agents, pc, phase, names, block, held, executed, usable, applied>>

\* load returns, with inputs: max_load is reached or the list is at its end
Loaded(w) ==
  /\ block[w] # {} /\ (Cardinality(block[w]) = Cap \/ list[w] = {})
  /\ At(w, "claim", "run")
  /\ UNCHANGED <<counterVars, diskVars, agents, phase, workVars>>

\* load_and_perform that calls load once
RunBatch_Once(w) ==
  /\ At(w, "run", "claim")
  /\ executed' = [f \in Inputs |-> executed[f] + (IF f \in block[w] THEN 1 ELSE 0)]
  /\ block' = [block EXCEPT ![w] = {}]
  /\ list' = [list EXCEPT ![w] = {}]
  /\ UNCHANGED <<counterVars, diskVars, agents, phase, names, held, usable, applied>>

\* execute_loaded_inputs, and set_mode of the next round
RunBatch(w) ==
  /\ At(w, "run", "claim")
  /\ executed' = [f \in Inputs |-> executed[f] + (IF f \in block[w] THEN 1 ELSE 0)]
  /\ block' = [block EXCEPT ![w] = {}]
  /\ UNCHANGED <<counterVars, diskVars, agents, phase, names, list, held, usable, applied>>

AfterLoad == [start |-> "perform", poll |-> "poll", final |-> "blobgen"]

\* load_and_perform returns
AllLoaded(w) ==
  /\ block[w] = {} /\ list[w] = {}
  /\ At(w, "claim", AfterLoad[phase[w]])
  /\ UNCHANGED <<counterVars, diskVars, agents, phase, workVars>>

Load(w) ==
  ListSeeds(w) \/ Claim(w) \/ ClaimFails(w) \/ Loaded(w) \/ RunBatch(w) \/ AllLoaded(w)

-----------------------------------------------------------------------------
(* MllaStage::perform *)

\* need_run says no at the first look, or at the second
Skip(w) ==
  /\ At(w, "perform", "blobgen")
  /\ \/ cpc[w] = "out" /\ ~on /\ UNCHANGED counterVars
     \/ MissRun(w)
  /\ UNCHANGED <<diskVars, agents, phase, workVars>>

LookOn(w) ==
  /\ pc[w] = "perform" /\ SeeOn(w)
  /\ UNCHANGED <<diskVars, agents, pc, phase, workVars>>

Enter(w) ==
  /\ At(w, "perform", "cmd") /\ TakeRun(w)
  /\ UNCHANGED <<diskVars, agents, phase, workVars>>

\* prepare_mlla_cmd, and the thread that runs the command
Spawn(w) ==
  /\ At(w, "cmd", "poll")
  /\ agents' = [agents EXCEPT ![w] = IF firstRun THEN "generator" ELSE "full"]
  /\ phase' = [phase EXCEPT ![w] = "poll"]
  /\ UNCHANGED <<counterVars, diskVars, workVars>>

\* while !runner.is_finished(): sleep, load_mlla_result
Poll(w) ==
  /\ Running(w) /\ At(w, "poll", "report")
  /\ UNCHANGED <<counterVars, diskVars, agents, phase, workVars>>

Join(w) ==
  /\ agents[w] = "ended" /\ At(w, "poll", "end")
  /\ UNCHANGED <<counterVars, diskVars, agents, phase, workVars>>

\* perform that does not collect after the agents have ended
SetInterval_Last(w) ==
  /\ \/ SkipInterval(w) /\ pc[w] = "end" /\ UNCHANGED pc
     \/ (AtOnce(w) \/ StartInterval(w)) /\ At(w, "end", "blobgen")
  /\ UNCHANGED <<diskVars, agents, phase, workVars>>

\* set_interval(counter, true), then load_mlla_result for the last time
SetInterval(w) ==
  /\ \/ SkipInterval(w) /\ pc[w] = "end" /\ UNCHANGED <<pc, phase>>
     \/ /\ AtOnce(w) \/ StartInterval(w)
        /\ At(w, "end", "report")
        /\ phase' = [phase EXCEPT ![w] = "final"]
  /\ UNCHANGED <<diskVars, agents, workVars>>

\* The end of perform.  What generate and mutate do to the block is WorkerExec's.
BlobGen(w) ==
  /\ At(w, "blobgen", "perform")
  /\ UNCHANGED <<counterVars, diskVars, agents, phase, workVars>>

Perform(w) ==
  \/ Skip(w) \/ LookOn(w) \/ Enter(w) \/ Spawn(w) \/ Poll(w) \/ Join(w)
  \/ SetInterval(w) \/ BlobGen(w)

-----------------------------------------------------------------------------
(* load_mlla_result *)

ReportFrame == UNCHANGED <<counterVars, written, announced, agents, phase, names, list, block,
                           executed, usable>>

\* get_bcda_result: the first report with a .done file
FindReport(w) ==
  /\ At(w, "report", "take")
  /\ \E r \in Reports \cap disk \cap marked : held' = [held EXCEPT ![w] = r]
  /\ UNCHANGED <<disk, marked, applied>> /\ ReportFrame

NoReport(w) ==
  /\ At(w, "report", "scripts") /\ Reports \cap disk \cap marked = {}
  /\ UNCHANGED <<disk, marked, held, applied>> /\ ReportFrame

\* get_bcda_result that moves the report away with its .done file
TakeReport_File(w) ==
  /\ At(w, "take", "apply")
  /\ marked' = marked \ {held[w]} /\ disk' = disk \ {held[w]}
  /\ UNCHANGED <<held, applied>> /\ ReportFrame

\* get_bcda_result removes the .done file; another worker may have done so
TakeReport(w) ==
  /\ At(w, "take", "apply")
  /\ marked' = marked \ {held[w]}
  /\ UNCHANGED <<disk, held, applied>> /\ ReportFrame

\* load_bcda_result; the file is gone if another worker was quicker
ApplyReport(w) ==
  /\ \/ /\ held[w] \in disk /\ At(w, "apply", "drop")
        /\ applied' = applied \cup {held[w]}
        /\ UNCHANGED held
     \/ /\ held[w] \notin disk /\ At(w, "apply", "scripts")
        /\ held' = [held EXCEPT ![w] = Nothing]
        /\ UNCHANGED applied
  /\ UNCHANGED <<disk, marked>> /\ ReportFrame

DropReport(w) ==
  /\ At(w, "drop", "scripts")
  /\ disk' = disk \ {held[w]}
  /\ held' = [held EXCEPT ![w] = Nothing]
  /\ UNCHANGED <<marked, applied>> /\ ReportFrame

\* load_script takes a script that has its .done file, which is removed
\* first, and renames it; one that does not load is left without its mark.
NewScripts == Scripts \cap disk \cap marked
Loadable == NewScripts \ BadScripts

\* load_mlla_scripts, under the write lock of blob_gen
LoadScripts(w) ==
  /\ At(w, "scripts", "glob")
  /\ usable' = usable \cup Loadable
  /\ disk' = disk \ Loadable /\ marked' = marked \ NewScripts
  /\ UNCHANGED <<counterVars, written, announced, agents, phase, names, list, block, held, executed, applied>>

\* get_generated_blobs: the .done files are listed
ListMarkers(w) ==
  /\ At(w, "glob", "unmark")
  /\ names' = [names EXCEPT ![w] = Blobs \cap marked]
  /\ UNCHANGED <<counterVars, diskVars, agents, phase, list, block, held, executed, usable, applied>>

\* get_generated_blobs: each is removed, and its blob noted if it is there
Unmark(w) ==
  /\ pc[w] = "unmark"
  /\ \E b \in names[w] : /\ marked' = marked \ {b}
                         /\ names' = [names EXCEPT ![w] = @ \ {b}]
                         /\ list' = [list EXCEPT ![w] = @ \cup ({b} \cap disk)]
  /\ UNCHANGED <<counterVars, disk, written, announced, agents, pc, phase, block, held, executed,
                 usable, applied>>

AllUnmarked(w) ==
  /\ names[w] = {} /\ At(w, "unmark", "claim")
  /\ UNCHANGED <<counterVars, diskVars, agents, phase, workVars>>

Collect(w) ==
  \/ FindReport(w) \/ NoReport(w) \/ TakeReport(w) \/ ApplyReport(w) \/ DropReport(w)
  \/ LoadScripts(w) \/ ListMarkers(w) \/ Unmark(w) \/ AllUnmarked(w)

-----------------------------------------------------------------------------

Worker(w) == Load(w) \/ Perform(w) \/ Collect(w)

Agents(w) == AgentsEnd(w) \/ \E a \in Artefacts : Write(w, a) \/ Announce(w, a)

\* the sleeping thread of set_interval
Sleeper ==
  /\ IntervalOver
  /\ UNCHANGED <<diskVars, agents, pc, phase, workVars>>

Next == (\E w \in Workers : Worker(w) \/ Agents(w)) \/ Sleeper

Spec == Init /\ [][Next]_vars

\* Worker threads loop for ever, sleeping threads wake up, and "timeout 3h"
\* ends the agents.  Nothing makes the agents write anything.
FairSpec ==
  /\ Spec
  /\ \A w \in Workers : WF_vars(Worker(w)) /\ WF_vars(AgentsEnd(w))
  /\ WF_vars(Sleeper)

-----------------------------------------------------------------------------
(* Properties. *)

\* One agents process at most: they share a work and an output directory, and
\* after the first run the next may begin at once (set_interval's place in
\* perform).
OneAgents == \A v, w \in Workers : Running(v) /\ Running(w) => v = w

\* No input is run twice, although workers list one directory at the same time
\* and the same .done file may be seen by two (load's rename).
RunOnce ==
  \A f \in Inputs : executed[f] + Cardinality({w \in Workers : f \in block[w]}) <= 1

\* No file of the given corpus and no announced blob is lost: until it is in a
\* batch it is on disk, and marked or on some worker's list (perform's
\* read_dir, get_generated_blobs, load_and_perform's loop over the rest).
InputKept ==
  \A f \in Seeds \cup (Blobs \cap announced) :
    \/ executed[f] > 0
    \/ \E w \in Workers : f \in block[w]
    \/ /\ f \in disk
       /\ \/ f \in marked
          \/ \E w \in Workers : f \in Seeds /\ pc[w] = "seeds"
          \/ \E w \in Workers : f \in names[w] \cup list[w]

\* No announced report is lost: it can still be found, or a worker holds it
\* with its file in place, or it is in the fuzzdb (get_bcda_result,
\* load_mlla_result's removal after loading).
ReportKept ==
  \A r \in Reports \cap announced :
    \/ r \in applied
    \/ r \in disk /\ (r \in marked \/ \E w \in Workers : held[w] = r)

\* Nothing the agents announced, and no given seed, is lost or run twice while
\* workers collect from one directory at the same time (load, get_bcda_result,
\* get_generated_blobs).
NothingLost == RunOnce /\ InputKept /\ ReportKept

\* Every input, and every script that loads, is used in the end, those
\* announced just before the last agents process ends included (the
\* load_mlla_result after the loop of perform).
AllUsed ==
  /\ \A f \in Inputs : f \in Seeds \cup announced ~> executed[f] > 0
  /\ \A s \in Scripts \ BadScripts : s \in announced ~> [](s \in usable)
=============================================================================
