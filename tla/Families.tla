------------------------------ MODULE Families ------------------------------
(***************************************************************************)
(* Application families: executables whose launches are counted together   *)
(* (src/src/state/state_family.c).  They come from the [families] section  *)
(* of preheat.conf, which is read when the table of families exists, that  *)
(* is at a reload but not at the start, and from the state file.  A family *)
(* that the configuration drops stays.  The summary of the statistics      *)
(* (src/src/daemon/stats.c) gives families and executables one row each,   *)
(* and frees the names of its rows, which for a family is its own.         *)
(*                                                                         *)
(* The reverse index exe_to_family is left out: nothing reads it.          *)
(***************************************************************************)
EXTENDS AppPaths

CONSTANTS
  FamilyIds,    \* names of families
  Junk          \* what a freed name may read as

ASSUME FamiliesAssumption == IsFiniteSet(FamilyIds) /\ Junk \notin FamilyIds

VARIABLES
  families,     \* name -> the executables that are its members
  freed         \* the families whose name the summary has freed

familyVars == <<families, freed>>

NoFamilies == <<>>
FamilyTables == UNION {[ids -> SUBSET Paths] : ids \in SUBSET (FamilyIds \cup {Junk})}

FamiliesTypeOK ==
  families \in FamilyTables /\ freed \subseteq DOMAIN families

FamiliesInit == families = NoFamilies /\ freed = {}

-----------------------------------------------------------------------------
\* load_families_from_config: a family without members is skipped, one of a name
\* that is in the table replaces it.
Configured(section) ==
  [id \in {i \in DOMAIN section : section[i] # {}} |-> section[id]]

Overlaid(table, over) ==
  [id \in DOMAIN table \cup DOMAIN over |->
     IF id \in DOMAIN over THEN over[id] ELSE table[id]]

\* The families that are replaced are freed, with names that may be freed already.
FreedTwiceBy(section) == freed \cap DOMAIN Configured(section) # {}

LoadFamilies(section) ==
  /\ families' = Overlaid(families, Configured(section))
  /\ freed' = freed \ DOMAIN Configured(section)

\* write_family writes a name that was freed as it is by then: unchanged, as
\* something else, or as something that cannot be read.  The last takes the
\* families that follow it in the file away with it.
FamiliesWritten ==
  IF freed = {} THEN {families}
  ELSE {[id \in kept |-> families[id]] : kept \in {k \in SUBSET DOMAIN families :
                                                     DOMAIN families \ k # {}}}
       \cup {families}
       \cup {[id \in (DOMAIN families \ {was}) \cup {Junk} |->
                IF id = Junk THEN families[was] ELSE families[id]] : was \in freed}

\* read_family, into an empty table.
ReadFamilies(saved) == families' = saved /\ freed' = {}

-----------------------------------------------------------------------------
(* The rows of kp_stats_get_summary, for executables known with launches.  *)

Counted(launched) == {id \in DOMAIN families : families[id] \cap launched # {}}

\* As if the members of a family that has a row were not noted.
ProcessedNone(launched) == {}

Processed(launched) == UNION {families[id] : id \in Counted(launched)}

\* A row is what it is named after and the executables whose launches it adds up.
Rows(launched, priority) ==
  {[name |-> id, exes |-> families[id] \cap launched] : id \in Counted(launched)}
  \cup {[name |-> e, exes |-> {e}] :
          e \in (launched \cap priority) \ Processed(launched)}

\* Afterwards the names of all rows are freed.
FreeNames(launched) ==
  freed' = freed \cup Counted(launched) /\ UNCHANGED families
=============================================================================
