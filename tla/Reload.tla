------------------------------- MODULE Reload -------------------------------
(***************************************************************************)
(* The daemon's copies of what a user configures, and the classes and      *)
(* families it derives from them: composes Lists, whose commands edit the  *)
(* files, with Families.  A start (src/src/daemon/main.c) and a reload     *)
(* (sig_handler_sync in src/src/daemon/signals.c) read one file after      *)
(* another while commands go on editing; the blacklist is not read again   *)
(* when it has the time of change noted at the last reading.               *)
(*                                                                         *)
(* The way of a SIGHUP from the handler to the main loop is in Signals,    *)
(* the writing of the state file in StateFile, the chains that a change of *)
(* class makes in ExeModel: here a signal is a flag and a save one step.   *)
(***************************************************************************)
EXTENDS Lists, Families

ConfRecords ==
  [valid    : BOOLEAN,            \* parses, and every key has its type
   listed   : BOOLEAN,            \* manualapps names apps.list
   families : FamilyTables]

CONSTANTS
  Runnable,      \* the executables that processes run
  FirstStates,   \* what may be in the state file at first
  Weight,        \* how many of the events of the daemon's life a command stands for
  MaxEvents      \* bound on these events

Classes   == {"priority", "observation"}
NoClasses == <<>>
PoolTables == UNION {[known -> Classes] : known \in SUBSET Paths}

StateFiles ==
  {file \in [pool : PoolTables, launched : SUBSET Paths, families : FamilyTables] :
     file.launched \subseteq DOMAIN file.pool}

\* Every family is one that some preheat.conf has, unless its name had been freed.
FromConfs(table) ==
  \A id \in DOMAIN table \ {Junk} :
    \E c \in Confs : id \in DOMAIN c.families /\ table[id] = c.families[id]

ASSUME ReloadAssumption ==
  /\ Confs \subseteq ConfRecords /\ Runnable \subseteq Paths
  /\ FirstStates \subseteq StateFiles
  /\ \A first \in FirstStates : FromConfs(first.families)

VARIABLES
  stage,      \* what the daemon does next, "down" if it does not run
  starting,   \* before kp_signals_init: SIGHUP has its default effect
  hup,        \* pending_sighup
  manual,     \* kp_conf->system.manual_apps_loaded
  black,      \* blacklist.entries
  noted,      \* blacklist.last_modified
  pool,       \* class of every executable known
  launched,   \* executables with weighted_launches
  dirty,      \* kp_state->dirty
  saved,      \* the state file
  reloaded,   \* history: a reload was served since the start
  fresh,      \* history: discovered since the lists were applied
  touched,    \* history: on a list, or discovered, since the start
  events      \* bound: scans, autosaves, summaries and ends so far

memory     == <<manual, black, noted, pool, launched, dirty, reloaded, fresh, touched>>
daemonVars == <<stage, starting, hup, memory, saved>>
vars       == <<listVars, familyVars, daemonVars, events>>

Known == DOMAIN pool

DaemonTypeOK ==
  /\ stage \in {"down", "stat", "read", "sync", "signals", "load", "idle"}
  /\ {starting, hup, dirty, reloaded} \subseteq BOOLEAN
  /\ manual \subseteq Paths /\ black \subseteq PlainNames
  /\ noted \in 0..MaxTime \cup {NoTime}
  /\ pool \in PoolTables /\ launched \subseteq Known
  /\ fresh \subseteq touched
  /\ saved \in StateFiles

TypeOK == ListsTypeOK /\ FamiliesTypeOK /\ DaemonTypeOK

Forgotten ==
  /\ stage' = "down" /\ starting' = FALSE /\ hup' = FALSE
  /\ manual' = {} /\ black' = {} /\ noted' = NoTime
  /\ pool' = NoClasses /\ launched' = {} /\ dirty' = FALSE
  /\ reloaded' = FALSE /\ fresh' = {} /\ touched' = {}
  /\ families' = NoFamilies /\ freed' = {}

Init ==
  /\ ListsInit /\ FamiliesInit
  /\ stage = "down" /\ starting = FALSE /\ hup = FALSE
  /\ manual = {} /\ black = {} /\ noted = NoTime
  /\ pool = NoClasses /\ launched = {} /\ dirty = FALSE
  /\ saved \in FirstStates
  /\ reloaded = FALSE /\ fresh = {} /\ touched = {} /\ events = 0

-----------------------------------------------------------------------------
(* What the files say.                                                     *)

\* load_manual_apps_file: lines that are no path are skipped.
ManualListed ==
  IF conf.listed
  THEN {resolve_binary_path(p) : p \in EntriesOf("apps.list") \cap Paths} \ {NoPath}
  ELSE {}

\* load_blacklist_file: lines with a slash are skipped.
BlackListed == EntriesOf("blacklist") \cap PlainNames

\* kp_blacklist_contains, by base name.
Blacklisted(e) == FileAt[e].base \in black

-----------------------------------------------------------------------------
(* Reading the files, at a start and at a reload.                          *)

\* main: kp_config_load ends the start when preheat.conf is invalid.  The table of
\* families does not exist yet.
Start ==
  /\ stage = "down" /\ conf.valid
  /\ stage' = "stat" /\ starting' = TRUE
  /\ manual' = ManualListed
  /\ UNCHANGED <<listVars, familyVars, hup, black, noted, pool, launched, dirty,
                 saved, reloaded, fresh, touched>>

\* As if a reload kept what it had loaded before.
ReloadConfigAppends ==
  /\ stage = "idle" /\ hup
  /\ stage' = "stat" /\ hup' = FALSE /\ reloaded' = TRUE
  /\ IF conf.valid THEN manual' = manual \cup ManualListed /\ LoadFamilies(conf.families)
     ELSE UNCHANGED <<manual, familyVars>>
  /\ UNCHANGED <<listVars, starting, black, noted, pool, launched, dirty, saved,
                 fresh, touched>>

\* sig_handler_sync: an invalid file leaves the settings and the list as they were.
\* Families that are replaced are freed; a name freed twice may end the daemon.
ReloadConfig ==
  /\ stage = "idle" /\ hup
  /\ stage' = "stat" /\ hup' = FALSE /\ reloaded' = TRUE
  /\ IF conf.valid THEN manual' = ManualListed /\ LoadFamilies(conf.families)
     ELSE UNCHANGED <<manual, familyVars>>
  /\ UNCHANGED <<listVars, starting, black, noted, pool, launched, dirty, saved,
                 fresh, touched>>

AfterBlacklist == IF starting THEN "signals" ELSE "sync"

\* kp_blacklist_init and kp_blacklist_reload, which keeps what it has if the time of
\* change is the one noted.  load_blacklist_file notes the time first and reads the
\* lines next.  (A reload asks for the time twice; here, once.)
Stat ==
  LET i == link["blacklist"]
  IN  /\ stage = "stat"
      /\ IF ~starting /\ i # NoInode /\ disk[i].time = noted
         THEN stage' = "sync" /\ UNCHANGED <<black, noted>>
         ELSE /\ black' = {}
              /\ IF i = NoInode THEN stage' = AfterBlacklist /\ UNCHANGED noted
                 ELSE stage' = "read" /\ noted' = disk[i].time
      /\ UNCHANGED <<listVars, familyVars, starting, hup, manual, pool, launched,
                     dirty, saved, reloaded, fresh, touched>>

Read ==
  /\ stage = "read"
  /\ stage' = AfterBlacklist
  /\ black' = BlackListed
  /\ UNCHANGED <<listVars, familyVars, starting, hup, manual, noted, pool, launched,
                 dirty, saved, reloaded, fresh, touched>>

-----------------------------------------------------------------------------
(* Applying them.                                                          *)

\* kp_state_save.
SaveIf(isDirty, classes, launches) ==
  IF isDirty
  THEN \E table \in FamiliesWritten :
         saved' = [pool |-> classes, launched |-> launches, families |-> table]
  ELSE UNCHANGED saved

Listed(known) ==
  manual \cup {e \in known : is_manual_app(e, manual) \/ Blacklisted(e)}

\* As if the manual list were applied last.
SyncedListLast(classes) ==
  [e \in DOMAIN classes \cup manual |->
     IF e \in manual THEN "priority"
     ELSE IF Blacklisted(e) THEN "observation"
     ELSE classes[e]]

\* kp_state_register_manual_apps: the list first, the blacklist last.
Synced(classes) ==
  [e \in DOMAIN classes \cup manual |->
     IF Blacklisted(e) THEN "observation"
     ELSE IF e \in manual THEN "priority"
     ELSE classes[e]]

\* It makes the tables dirty when it changes a class, for a while or to stay, and
\* not when it registers an executable.
SyncChanges ==
  \/ \E e \in manual : e \in Known /\ pool[e] # "priority"
  \/ \E e \in Known \cup manual : Blacklisted(e) /\ (e \in manual \/ pool[e] # "observation")

Sync ==
  /\ stage = "sync"
  /\ stage' = "idle"
  /\ pool' = Synced(pool)
  /\ SaveIf(dirty \/ SyncChanges, Synced(pool), launched)
  /\ dirty' = FALSE
  /\ fresh' = {}
  /\ touched' = touched \cup Listed(Known)
  /\ UNCHANGED <<listVars, familyVars, starting, hup, manual, black, noted, launched,
                 reloaded>>

\* kp_signals_init: from here on a SIGHUP is noted.
Handle ==
  /\ stage = "signals"
  /\ stage' = "load" /\ starting' = FALSE
  /\ UNCHANGED <<listVars, familyVars, hup, memory, saved>>

\* kp_stats_reclassify_all.
Reclassified(known) == [e \in known |-> ClassOf(e, manual)]

\* kp_seed_from_sources finds applications that are used when none is known.
Seeds == IF DOMAIN saved.pool = {} THEN SUBSET Runnable ELSE {{}}

\* kp_state_load, then the classes anew, the lists, and the save that is forced.
Load ==
  \E seeded \in Seeds :
    LET known   == DOMAIN saved.pool \cup seeded
        classes == Synced(Reclassified(known))
    IN  /\ stage = "load"
        /\ stage' = "idle"
        /\ pool' = classes /\ launched' = saved.launched \cup seeded
        /\ ReadFamilies(saved.families)
        /\ saved' = [saved EXCEPT !.pool = classes, !.launched = launched']
        /\ touched' = Listed(known)
        /\ UNCHANGED <<listVars, starting, hup, manual, black, noted, dirty,
                       reloaded, fresh>>

-----------------------------------------------------------------------------
(* The rest of the daemon's life.                                          *)

\* A tick makes the tables dirty, and gives weight to some of what runs.
Scan(seen) ==
  /\ stage = "idle"
  /\ launched' = launched \cup (seen \cap Known)
  /\ dirty' = TRUE
  /\ UNCHANGED <<listVars, familyVars, stage, starting, hup, manual, black, noted,
                 pool, saved, reloaded, fresh, touched>>

\* The tick after it registers what was new, with the class its memory happens to
\* hold.
Discover(e) ==
  /\ stage = "idle" /\ e \notin Known
  /\ \E class \in Classes :
       pool' = [k \in Known \cup {e} |-> IF k = e THEN class ELSE pool[k]]
  /\ fresh' = fresh \cup {e}
  /\ touched' = touched \cup {e}
  /\ UNCHANGED <<listVars, familyVars, stage, starting, hup, manual, black, noted,
                 launched, dirty, saved, reloaded>>

\* kp_state_autosave: evicts what has little weight and has not run for long (which
\* executables these are is ExeModel's), on the manual list or not.
Autosave ==
  /\ stage = "idle"
  /\ \E gone \in SUBSET Known :
       LET classes == [e \in Known \ gone |-> pool[e]]
       IN  /\ pool' = classes
           /\ launched' = launched \ gone
           /\ SaveIf(dirty, classes, launched')
           /\ fresh' = fresh \ gone
           /\ touched' = touched \ gone
  /\ dirty' = FALSE
  /\ UNCHANGED <<listVars, familyVars, stage, starting, hup, manual, black, noted,
                 reloaded>>

Priority == {e \in Known : pool[e] = "priority"}

\* kp_stats_dump_to_file.
Dump ==
  /\ stage = "idle"
  /\ FreeNames(launched)
  /\ UNCHANGED <<listVars, daemonVars>>

\* A name is freed that was freed before: by a dump or by a reload.
Abort ==
  /\ stage = "idle"
  /\ \/ Counted(launched) \cap freed # {}
     \/ hup /\ conf.valid /\ FreedTwiceBy(conf.families)
  /\ Forgotten
  /\ UNCHANGED <<listVars, saved>>

Stop ==
  /\ stage = "idle"
  /\ SaveIf(dirty, pool, launched)
  /\ Forgotten
  /\ UNCHANGED listVars

Kill ==
  /\ stage # "down"
  /\ Forgotten
  /\ UNCHANGED <<listVars, saved>>

\* The signal at the end of a command.  It ends a daemon that is starting.
Signal(p) ==
  /\ Signalled(p)
  /\ IF starting
     THEN Forgotten /\ UNCHANGED saved
     ELSE /\ hup' = (stage # "down")
          /\ UNCHANGED <<familyVars, stage, starting, memory, saved>>

Works == Start \/ ReloadConfig \/ Stat \/ Read \/ Handle \/ Sync \/ Load

Happens ==
  \/ \E seen \in SUBSET Runnable : Scan(seen)
  \/ \E e \in Runnable : Discover(e)
  \/ Autosave \/ Dump \/ Abort \/ Stop \/ Kill

Next ==
  \/ ListsNext /\ UNCHANGED <<familyVars, daemonVars, events>>
       /\ Weight * commands' + events <= MaxEvents
  \/ \E p \in Ctls : Signal(p) /\ UNCHANGED events
  \/ Works /\ UNCHANGED events
  \/ Happens /\ events' = events + 1
       /\ Weight * commands + events < MaxEvents

Spec == Init /\ [][Next]_vars

-----------------------------------------------------------------------------
(* Properties.                                                             *)

\* No signal is on its way, no command is in the middle, none was killed between
\* its edit and its signal.
Served ==
  stage = "idle" /\ ~hup /\ ~abandoned /\ \A p \in Ctls : ctl[p].step = "idle"

\* However commands, reloads and starts interleave, once all is served the daemon
\* has what the files say: the manual list unless preheat.conf is invalid, the
\* blacklist unless it was last edited in the second of the edit that was read
\* before, the members of every family that preheat.conf names once there was a
\* reload.
FilesInForce ==
  /\ TypeOK
  /\ Served =>
       /\ conf.valid => manual = ManualListed
       /\ \/ black = BlackListed
          \/ link["blacklist"] # NoInode /\ disk[link["blacklist"]].time = noted
       /\ conf.valid /\ reloaded =>
            \A id \in DOMAIN Configured(conf.families) :
              id \in DOMAIN families /\ families[id] = conf.families[id]

\* What the commands do to the lists: see OnlyResetsRemove and ResetsRemoveAll.
EditsKept == [][OnlyResetsRemove /\ ResetsRemoveAll]_vars

\* The classes between two reloads: the blacklist wins over the manual list, the
\* manual list over the rules, for everything but what was discovered since; what
\* was on no list since the start has the class of the rules.
PoolsFollow ==
  stage = "idle" =>
    \A e \in Known :
      /\ e \notin fresh /\ Blacklisted(e) => pool[e] = "observation"
      /\ e \notin fresh /\ e \in manual /\ ~Blacklisted(e) => pool[e] = "priority"
      /\ e \notin touched => pool[e] = Unlisted(e)

\* Whatever reloads, restarts and earlier summaries have made of the families, the
\* summary leaves out no launched executable of the priority pool, and counts none
\* twice, unless it is in two families of some configurations, or a family was
\* saved under a name that the summary had freed.
FamiliesNaming(e) ==
  {id \in FamilyIds : \E c \in Confs : id \in DOMAIN c.families /\ e \in c.families[id]}

SummaryCountsOnce ==
  stage = "idle" =>
    \A e \in launched :
      LET rows == {row \in Rows(launched, Priority) : e \in row.exes}
      IN  /\ e \in Priority => rows # {}
          /\ Cardinality(rows) > 1 =>
               Cardinality(FamiliesNaming(e)) > 1 \/ Junk \in DOMAIN families
=============================================================================
