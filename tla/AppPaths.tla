------------------------------ MODULE AppPaths ------------------------------
(***************************************************************************)
(* Which executable a name stands for, and what class it is put in when no *)
(* list says otherwise.  preheat-ctl turns the name a user types into a    *)
(* path (src/tools/ctl_state.c), the daemon turns a line of the manual     *)
(* list into a binary (src/src/config/config.c), the Exec= of a desktop    *)
(* file into a binary (src/src/utils/desktop.c), and a binary into a class *)
(* (src/src/daemon/stats.c, src/src/utils/pattern.c).  Text is not         *)
(* modelled: a path is an element of Paths, and what the file system and   *)
(* the files say of it is in the constants.                                *)
(***************************************************************************)
EXTENDS Naturals, SequencesExt

CONSTANTS
  Paths,         \* absolute paths
  PlainNames,    \* names without a slash
  NoPath,
  Located,       \* for a plain name, the first of /usr/bin, /bin and
                 \* /usr/local/bin that has it
  FileAt,        \* what is at a path, see FileRecords
  DesktopFiles,  \* the desktop files of the directories that are scanned
  Patterns,      \* excluded_patterns, each the set of the paths it matches
  UserDirs       \* user_app_paths, see DirectoryPrefixes

Names == Paths \cup PlainNames

FileRecords ==
  [target   : Paths \cup {NoPath},               \* realpath(3)
   trusted  : BOOLEAN,                           \* under a trusted prefix
   kind     : {"elf", "script", "other"},
   execs    : Seq(Paths),                        \* the programs its exec lines
                                                 \* start, found along PATH
   shebang  : Paths \cup {NoPath},               \* the interpreter it names
   segments : Seq(STRING),                       \* its path, cut at the slashes
   base     : PlainNames]                        \* basename(3)

\* A prefix is the directory's segments and whether a slash follows.
DirectoryPrefixes == [dir : Seq(STRING), slash : BOOLEAN]

DesktopRecords == [hidden : BOOLEAN,
                   exec : Paths \cup {NoPath},   \* past env and its variables
                   snap : Paths \cup {NoPath}]   \* what a snap wrapper runs

ASSUME AppPathsAssumption ==
  /\ NoPath \notin Names
  /\ Paths \cap PlainNames = {}
  /\ Located \in [PlainNames -> Paths \cup {NoPath}]
  /\ DOMAIN FileAt = Paths
  /\ \A p \in Paths : /\ FileAt[p].target \in Paths \cup {NoPath}
                      /\ FileAt[p].base \in PlainNames
                      /\ FileAt[p].shebang \in Paths \cup {NoPath}
                      /\ FileAt[p].execs \in Seq(Paths)
                      /\ FileAt[p].target # NoPath =>
                           FileAt[FileAt[p].target].target = FileAt[p].target
  /\ \A d \in DesktopFiles : {d.exec, d.snap} \subseteq Paths \cup {NoPath}

CanonicalOr(path, otherwise) ==
  IF path = NoPath \/ FileAt[path].target = NoPath THEN otherwise
  ELSE FileAt[path].target

-----------------------------------------------------------------------------
(* preheat-ctl: the path a user's name is written as.                      *)

resolve_app_name(name) ==
  LET found == IF name \in Paths THEN name ELSE Located[name]
  IN  IF found = NoPath THEN name ELSE CanonicalOr(found, found)

-----------------------------------------------------------------------------
(* The daemon: the binary a path of the manual list stands for.            *)

\* A path that resolves to a binary which the daemon accepts.
IsTrustedElf(path) ==
  LET real == CanonicalOr(path, NoPath)
  IN  real # NoPath /\ FileAt[real].trusted /\ FileAt[real].kind = "elf"

\* The first program a wrapper's exec lines start that is accepted.
parse_script_for_exec(script) ==
  LET execs == FileAt[script].execs
      first == SelectInSeq(execs, IsTrustedElf)
  IN  IF first = 0 THEN NoPath ELSE CanonicalOr(execs[first], NoPath)

extract_interpreter(script) ==
  IF IsTrustedElf(FileAt[script].shebang)
  THEN CanonicalOr(FileAt[script].shebang, NoPath)
  ELSE NoPath

resolve_binary_path(path) ==
  LET real == CanonicalOr(path, NoPath)
  IN  IF real = NoPath \/ ~FileAt[real].trusted \/ FileAt[real].kind = "other"
      THEN NoPath
      ELSE IF FileAt[real].kind = "elf" THEN real
      ELSE IF parse_script_for_exec(real) # NoPath THEN parse_script_for_exec(real)
      ELSE extract_interpreter(real)

-----------------------------------------------------------------------------
(* The class of a binary that no list names.                               *)

\* A snap's wrapper links to the snap runner, so it is looked through first.
resolve_exec_path(d) ==
  IF d.snap # NoPath THEN d.snap ELSE CanonicalOr(d.exec, d.exec)

DesktopApps ==
  {resolve_exec_path(d) : d \in {f \in DesktopFiles : ~f.hidden}} \ {NoPath}

kp_pattern_matches_any(path) == \E pattern \in Patterns : path \in pattern

\* A prefix must end where a segment of the path ends: one written with a slash
\* at its end is in front of no file's path.
kp_path_in_directories(path) ==
  \E prefix \in UserDirs :
    ~prefix.slash /\ IsPrefix(prefix.dir, FileAt[path].segments)

\* classify_app_pool without the manual list.
Unlisted(path) ==
  LET real == CanonicalOr(path, path)
  IN  IF \/ real \in DesktopApps
         \/ ~kp_pattern_matches_any(real) /\ kp_path_in_directories(real)
      THEN "priority"
      ELSE "observation"

is_manual_app(path, manual) ==
  \E listed \in manual : CanonicalOr(listed, listed) = CanonicalOr(path, path)

\* classify_app_pool.
ClassOf(path, manual) ==
  IF is_manual_app(path, manual) THEN "priority" ELSE Unlisted(path)
=============================================================================
