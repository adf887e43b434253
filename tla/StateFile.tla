----------------------------- MODULE StateFile -----------------------------
(***************************************************************************)
(* Saving the state file and starting from it (kp_state_save and           *)
(* kp_state_load, src/src/state/state.c), with the process killed or the   *)
(* power lost between any two steps of a save.  A file is its lines; the   *)
(* save writes a temporary file, syncs it and renames it over the old one. *)
(*                                                                         *)
(* The file system is external: a rename is atomic, and is on the disk at  *)
(* the latest when a later sync returns; data not synced may be cut short. *)
(***************************************************************************)
EXTENDS StateFormat

CONSTANTS
  Changes,       \* tables the daemon may come to have in memory
  Stored,        \* tables the file may hold when the daemon first starts
  Priority,      \* executables in the priority pool
  SeedExes,      \* what seeding finds, all of them priority
  Outcomes,      \* Outcomes[step]: how the steps of a save can end, TRUE for success
  NoFile

Steps == {"open", "write", "sync", "rename"}

ASSUME TablesAssumption == \A t \in Changes \cup Stored : t \in Tables /\ WellFormed(t)
ASSUME SeedsAssumption  == SeedExes \subseteq Priority \cap Exes
ASSUME StepsAssumption  == Outcomes \in [Steps -> SUBSET BOOLEAN]
ASSUME NoFileAssumption == NoFile \notin Seq(Lines)

VARIABLES
  tables,        \* what kp_state holds
  dirty,         \* kp_state->dirty
  modelDirty,    \* kp_state->model_dirty
  phase,            \* "down", "run", or the next step of a save
  then,          \* phase after the save: "run", or "down" when stopping
  tmp,           \* the temporary file, NoFile if there is none
  tmpSynced,     \* fsync(fd) of it returned 0
  main,          \* the state file, NoFile if there is none
  mainSynced,    \* its data is on the disk
  former,        \* the state file a power failure may bring back
  aside          \* history: a state file was renamed to .broken

memory == <<tables, dirty, modelDirty>>
temp   == <<tmp, tmpSynced>>
state  == <<main, mainSynced, former, aside>>
savingVars   == <<memory, phase, then, temp, state>>

SavingTypeOK ==
  /\ tables \in Tables /\ {main, former, tmp} \subseteq Seq(Lines) \cup {NoFile}
  /\ \A flag \in {dirty, modelDirty, tmpSynced, mainSynced, aside} : flag \in BOOLEAN
  /\ phase \in {"down", "run"} \cup Steps /\ then \in {"down", "run"}
  /\ phase = "write" => tmp = <<>>
  /\ phase \in {"sync", "rename"} => tmp = Write(tables)
  /\ phase = "down" => tables = NoTables
  /\ WellFormed(tables)
  /\ main # NoFile => WellFormed(Read(main))

SavingInit ==
  /\ tables = NoTables /\ dirty = FALSE /\ modelDirty = FALSE
  /\ phase = "down" /\ then = "run"
  /\ tmp = NoFile /\ tmpSynced = FALSE
  /\ main \in {Write(t) : t \in Stored} \cup {NoFile}
  /\ mainSynced = TRUE /\ former = main
  /\ aside = FALSE

-----------------------------------------------------------------------------
(* Starting.                                                               *)

\* The pairs of S, each in one order.
Pairs(S) ==
  LET q == SetToSeq(S)
  IN {<<q[k[1]], q[k[2]]>> : k \in {l \in (DOMAIN q) \X (DOMAIN q) : l[1] < l[2]}}

\* kp_seed_from_sources: each executable found is chained to those before it.
Seeded(t) ==
  LET found == SeedExes \ t.exes
  IN [t EXCEPT !.exes = @ \cup found,
               !.chains = @ \cup (t.exes \X found) \cup Pairs(found)]

\* kp_markov_build_priority_mesh: the priority pairs that have no chain get one.
Meshed(t) ==
  LET missing == {p \in Pairs(t.exes \cap Priority) :
                    {p, <<p[2], p[1]>>} \cap t.chains = {}}
  IN [t EXCEPT !.chains = @ \cup missing]

\* The tables a start makes of a file.  An error in the file does not undo what
\* was read before it.
Loaded(lines) ==
  LET t == Read(lines) IN
  IF IsCorrupt(lines) \/ t.exes = {} THEN Seeded(t) ELSE t

\* kp_state_load; main() then has the tables saved at once.  The file is set
\* aside with a rename.
Start ==
  /\ phase = "down"
  /\ tables' = Meshed(IF main = NoFile THEN Seeded(NoTables) ELSE Loaded(main))
  /\ IF main # NoFile /\ IsCorrupt(main)
       THEN main' = NoFile /\ mainSynced' = TRUE /\ aside' = TRUE
       ELSE UNCHANGED <<main, mainSynced, aside>>
  /\ dirty' = TRUE /\ modelDirty' = FALSE /\ phase' = "open" /\ then' = "run"
  /\ UNCHANGED <<temp, former>>

\* kp_state_tick: the scan changes nothing that is saved, and sets both flags.
Tick ==
  /\ phase = "run"
  /\ dirty' = TRUE /\ modelDirty' = TRUE
  /\ UNCHANGED <<tables, phase, then, temp, state>>

\* kp_state_tick2: the model is updated.
Tick2 ==
  /\ phase = "run" /\ modelDirty
  /\ tables' \in Changes /\ modelDirty' = FALSE
  /\ UNCHANGED <<dirty, phase, then, temp, state>>

-----------------------------------------------------------------------------
(* kp_state_save.                                                          *)

Forget == tables' = NoTables /\ modelDirty' = FALSE

\* The autosave timer or SIGUSR2 when next is "run"; the end of main() when it
\* is "down".
Save(next) ==
  /\ phase = "run"
  /\ IF dirty THEN phase' = "open" /\ then' = next /\ UNCHANGED memory
     ELSE /\ phase' = next /\ UNCHANGED <<dirty, then>>
          /\ IF next = "down" THEN Forget ELSE UNCHANGED <<tables, modelDirty>>
  /\ UNCHANGED <<temp, state>>

\* The save is over, whether it worked or not.
Done ==
  /\ phase' = then /\ dirty' = FALSE
  /\ IF then = "down" THEN Forget ELSE UNCHANGED <<tables, modelDirty>>
  /\ UNCHANGED then

\* open(), truncating what an earlier save left.
OpenTmpKeepsOld ==
  /\ phase = "open"
  /\ \/ /\ TRUE \in Outcomes["open"]
        /\ tmp' = (IF tmp = NoFile THEN <<>> ELSE tmp) /\ tmpSynced' = FALSE /\ phase' = "write"
        /\ UNCHANGED <<memory, then>>
     \/ /\ FALSE \in Outcomes["open"] /\ Done /\ UNCHANGED temp
  /\ UNCHANGED state
OpenTmp ==
  /\ phase = "open"
  /\ \/ /\ TRUE \in Outcomes["open"]
        /\ tmp' = <<>> /\ tmpSynced' = FALSE /\ phase' = "write"
        /\ UNCHANGED <<memory, then>>
     \/ /\ FALSE \in Outcomes["open"] /\ Done /\ UNCHANGED temp
  /\ UNCHANGED state

\* kp_state_write_to_channel; a file that could not be written is unlinked.
WriteOut ==
  /\ phase = "write"
  /\ \/ /\ TRUE \in Outcomes["write"]
        /\ tmp' = Write(tables) /\ phase' = "sync" /\ UNCHANGED <<memory, then>>
     \/ /\ FALSE \in Outcomes["write"] /\ tmp' = NoFile /\ Done
  /\ UNCHANGED <<tmpSynced, state>>

\* fsync(); a failure is logged and ignored.
Sync ==
  /\ phase = "sync"
  /\ tmpSynced' \in Outcomes["sync"]
  /\ former' = IF tmpSynced' THEN main ELSE former
  /\ phase' = "rename"
  /\ UNCHANGED <<memory, then, tmp, main, mainSynced, aside>>

\* rename(), or the file is unlinked.
RenameUnsynced ==
  /\ phase = "rename"
  /\ \/ TRUE \in Outcomes["rename"] /\ main' = tmp /\ mainSynced' = FALSE
     \/ FALSE \in Outcomes["rename"] /\ UNCHANGED <<main, mainSynced>>
  /\ tmp' = NoFile /\ Done
  /\ UNCHANGED <<tmpSynced, former, aside>>
Rename ==
  /\ phase = "rename"
  /\ \/ TRUE \in Outcomes["rename"] /\ main' = tmp /\ mainSynced' = tmpSynced
     \/ FALSE \in Outcomes["rename"] /\ UNCHANGED <<main, mainSynced>>
  /\ tmp' = NoFile /\ Done
  /\ UNCHANGED <<tmpSynced, former, aside>>

-----------------------------------------------------------------------------
(* What may happen at any time.                                            *)

Off == phase' = "down" /\ Forget /\ dirty' = FALSE /\ UNCHANGED then

Killed == phase # "down" /\ Off /\ UNCHANGED <<temp, state>>

\* What a file not synced may be cut down to; a cut within a line is left out.
Cut(lines) == {SubSeq(lines, 1, n) : n \in 0..Len(lines)}

PowerLoss ==
  /\ Off /\ tmp' = NoFile
  /\ main' \in {former} \cup (IF mainSynced \/ main = NoFile THEN {main} ELSE Cut(main))
  /\ former' = main' /\ mainSynced' = TRUE
  /\ UNCHANGED <<tmpSynced, aside>>

\* The system writes everything to the disk.
Flush ==
  /\ mainSynced' = TRUE /\ former' = main
  /\ UNCHANGED <<memory, phase, then, temp, main, aside>>

SavingNext ==
  \/ Start \/ Tick \/ Tick2 \/ Save("run") \/ Save("down")
  \/ OpenTmp \/ WriteOut \/ Sync \/ Rename
  \/ Killed \/ PowerLoss \/ Flush

SavingSpec == SavingInit /\ [][SavingNext]_savingVars

\* The timers go on firing and a save goes on; an error of the disk does not
\* come every time.  Nothing makes the daemon start again after it went down.
Fairness ==
  /\ WF_savingVars(Tick) /\ WF_savingVars(Save("run")) /\ WF_savingVars(Sync)
  /\ SF_savingVars(OpenTmp /\ phase' = "write") /\ SF_savingVars(WriteOut /\ phase' = "sync")
  /\ SF_savingVars(Rename /\ main' = tmp)
FairSavingSpec == SavingSpec /\ Fairness

-----------------------------------------------------------------------------
(* Properties.                                                             *)

Content(lines) == IF lines = NoFile THEN NoFile ELSE Read(lines)

Kept == INSTANCE SavedTables
           WITH now <- tables, last <- Content(main), former <- Content(former)

\* Saving keeps what it promises: whenever the process is killed, the power is
\* lost or a step of kp_state_save fails, what can be read from the state file
\* is the whole of what a save wrote, the last one, or after a power failure
\* the one before.
Promise == Kept!Spec

\* As long as the daemon runs, the file keeps catching up with the memory,
\* although the second tick changes the tables without setting dirty and a save
\* that fails clears it.
SavesGoOn == []<>(phase = "down" \/ Content(main) = tables)

\* state_io.c:666: the times of preloaded applications are read after line 1,
\* so a file the daemon wrote itself is never set aside as corrupt.
NeverSetAside == ~aside
=============================================================================
