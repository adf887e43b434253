------------------------------- MODULE Lists -------------------------------
(***************************************************************************)
(* The files a user configures the daemon by, and the commands of          *)
(* preheat-ctl that edit them (src/tools/ctl_cmd_apps.c, ctl_config.c).    *)
(* promote and demote append a line, reset copies a list without a line to *)
(* a temporary file and renames that over the list.  Nothing locks, and    *)
(* all resets of a list share one temporary name, so the files are modelled *)
(* as names for inodes: a command that has one open keeps it when the name *)
(* goes.  An edit ends with a SIGHUP for the daemon, unless preheat-ctl is *)
(* killed before.                                                          *)
(*                                                                         *)
(* A line is an entry, and all entries are equally long: closing a file    *)
(* writes the lines buffered over those that were there.                   *)
(***************************************************************************)
EXTENDS AppPaths

CONSTANTS
  Ctls,          \* preheat-ctl processes
  Commands,      \* what they may be asked, see CommandRecords
  MaxCommands,   \* bound on the commands given
  Inodes,        \* enough for every name, every open file, and one more
  NoInode,
  MaxTime,       \* bound on the clock
  Confs,         \* contents of preheat.conf, see ConfRecords
  FirstLists     \* lines of the lists at first, empty for no list

NoTime == 0 - 1

\* configure stands for an editor, and preheat-ctl reload after it.
CommandRecords ==
  [op : {"promote", "demote", "reset"}, what : Names] \cup
  [op : {"configure"}, what : Confs]

ListNames == {"apps.list", "blacklist"}

ASSUME ListsAssumption ==
  /\ Commands \subseteq CommandRecords
  /\ IsFiniteSet(Ctls) /\ IsFiniteSet(Inodes) /\ NoInode \notin Inodes
  /\ Cardinality(Inodes) > 4 + Cardinality(Ctls)
  /\ {MaxCommands, MaxTime} \subseteq Nat
  /\ FirstLists \subseteq [ListNames -> Seq(Names)]

VARIABLES
  disk,        \* inode -> its lines and the second of its last change
  link,        \* list -> the inode it names
  temp,        \* list -> the inode of its temporary name
  conf,        \* preheat.conf
  ctl,         \* process -> the command it is in the middle of
  commands,    \* commands given so far
  now,         \* the clock, in seconds
  abandoned    \* history: a command was killed and no SIGHUP was sent since

listVars == <<disk, link, temp, conf, ctl, commands, now, abandoned>>

CtlRecords ==
  [step   : {"idle", "append", "open", "write", "rename", "signal"},
   op     : {"none", "promote", "demote", "reset", "configure"},
   what   : Names \cup {NoPath},
   file   : ListNames,                \* the list it edits
   copy   : Seq(Names),               \* the lines it has read
   out    : Inodes \cup {NoInode},    \* the temporary file it has open
   shared : BOOLEAN]                  \* history: another process opened, renamed
                                      \* or removed that file

Command(op, step, what, file) ==
  [step |-> step, op |-> op, what |-> what, file |-> file,
   copy |-> <<>>, out |-> NoInode, shared |-> FALSE]

Idle == Command("none", "idle", NoPath, "apps.list")

Nothing == [lines |-> <<>>, time |-> 0]

LinesOf(f) == IF link[f] = NoInode THEN <<>> ELSE disk[link[f]].lines
EntriesOf(f) == ToSet(LinesOf(f))

Used == ({link[f] : f \in ListNames} \cup {temp[f] : f \in ListNames}
          \cup {ctl[p].out : p \in Ctls}) \ {NoInode}
Fresh == CHOOSE i \in Inodes : i \notin Used

\* An inode that nothing names goes.
Reclaimed == disk' = [i \in Inodes |-> IF i \in Used' THEN disk[i] ELSE Nothing]

ListsTypeOK ==
  /\ disk \in [Inodes -> [lines : Seq(Names), time : 0..MaxTime]]
  /\ link \in [ListNames -> Inodes \cup {NoInode}]
  /\ temp \in [ListNames -> Inodes \cup {NoInode}]
  /\ conf \in Confs
  /\ ctl \in [Ctls -> CtlRecords]
  /\ now \in 0..MaxTime /\ commands \in 0..MaxCommands /\ abandoned \in BOOLEAN

FirstInode == CHOOSE inode \in [ListNames -> Inodes] : IsInjective(inode)

ListsInit ==
  /\ \E first \in FirstLists :
       /\ link = [f \in ListNames |-> IF first[f] = <<>> THEN NoInode ELSE FirstInode[f]]
       /\ disk = [i \in Inodes |->
            IF \E f \in ListNames : link[f] = i
            THEN [Nothing EXCEPT !.lines = first[CHOOSE f \in ListNames : link[f] = i]]
            ELSE Nothing]
  /\ temp = [f \in ListNames |-> NoInode]
  /\ conf \in Confs /\ conf.valid
  /\ ctl = [p \in Ctls |-> Idle]
  /\ commands = 0 /\ now = 0 /\ abandoned = FALSE

-----------------------------------------------------------------------------
Begin(p, c) ==
  /\ ctl[p].step = "idle"
  /\ commands < MaxCommands /\ commands' = commands + 1
  /\ c \in Commands
  /\ UNCHANGED <<disk, link, temp, now, abandoned>>

\* cmd_promote and cmd_demote: add_to_config_file appends what the list does not
\* have yet.
Add(p, c) ==
  LET entry == resolve_app_name(c.what)
      file  == IF c.op = "demote" THEN "blacklist" ELSE "apps.list"
      step  == IF entry \in EntriesOf(file) THEN "signal" ELSE "append"
  IN  /\ c.op \in {"promote", "demote"}
      /\ Begin(p, c)
      /\ ctl' = [ctl EXCEPT ![p] = Command(c.op, step, entry, file)]
      /\ UNCHANGED conf

\* cmd_reset takes the name as it was typed.
Reset(p, c) ==
  /\ c.op = "reset"
  /\ Begin(p, c)
  /\ ctl' = [ctl EXCEPT ![p] = Command(c.op, "open", c.what, "apps.list")]
  /\ UNCHANGED conf

Configure(p, c) ==
  /\ c.op = "configure"
  /\ Begin(p, c)
  /\ ctl' = [ctl EXCEPT ![p] = Command(c.op, "signal", NoPath, "apps.list")]
  /\ conf' = c.what

Step(p, from, to) ==
  ctl[p].step = from /\ ctl' = [ctl EXCEPT ![p].step = to]

AppendEntry(p) ==
  LET f == ctl[p].file
      i == IF link[f] = NoInode THEN Fresh ELSE link[f]
  IN  /\ Step(p, "append", "signal")
      /\ disk' = [disk EXCEPT ![i] = [lines |-> Append(LinesOf(f), ctl[p].what),
                                      time  |-> now]]
      /\ link' = [link EXCEPT ![f] = i]
      /\ UNCHANGED <<temp, conf, commands, now, abandoned>>

\* The directory cannot be made, or the file not opened: no signal is sent.
AppendFails(p) ==
  /\ ctl[p].step = "append"
  /\ ctl' = [ctl EXCEPT ![p] = Idle]
  /\ UNCHANGED <<disk, link, temp, conf, commands, now, abandoned>>

\* cmd_reset goes on to the second list, whatever became of the first.
AfterList(p) ==
  IF ctl[p].file = "apps.list"
  THEN [ctl[p] EXCEPT !.step = "open", !.file = "blacklist", !.copy = <<>>,
                      !.out = NoInode, !.shared = FALSE]
  ELSE [ctl[p] EXCEPT !.step = "signal", !.copy = <<>>, !.out = NoInode,
                      !.shared = FALSE]

\* remove_from_config_file: there is no such list, or it or its temporary file
\* cannot be opened.  (A rename within the directory is taken to succeed.)
NoList(p) ==
  /\ ctl[p].step = "open"
  /\ ctl' = [ctl EXCEPT ![p] = AfterList(p)]
  /\ UNCHANGED <<disk, link, temp, conf, commands, now, abandoned>>

\* It opens the list, empties or makes the temporary file, and reads the list.
OpenTemp(p) ==
  LET f == ctl[p].file
      i == IF temp[f] = NoInode THEN Fresh ELSE temp[f]
      met == {q \in Ctls : ctl[q].out = i}
  IN  /\ ctl[p].step = "open" /\ link[f] # NoInode
      /\ disk' = [disk EXCEPT ![i] = [lines |-> <<>>, time |-> now]]
      /\ temp' = [temp EXCEPT ![f] = i]
      /\ ctl' = [q \in Ctls |->
           IF q = p THEN [ctl[p] EXCEPT !.step = "write", !.copy = LinesOf(f),
                                        !.out = i, !.shared = met # {}]
           ELSE IF q \in met THEN [ctl[q] EXCEPT !.shared = TRUE]
           ELSE ctl[q]]
      /\ UNCHANGED <<link, conf, commands, now, abandoned>>

\* As if the copying stopped at the line to remove.
KeptBefore(p) ==
  SubSeq(ctl[p].copy, 1, Len(ctl[p].copy) - Cardinality(
    {i \in DOMAIN ctl[p].copy : \E j \in 1..i : ctl[p].copy[j] = ctl[p].what}))

\* The loop over the lines of a list.
Without(lines, entry) ==
  LET kept[n \in 0..Len(lines)] ==
        IF n = 0 THEN <<>>
        ELSE IF lines[n] = entry THEN kept[n - 1]
        ELSE Append(kept[n - 1], lines[n])
  IN  kept[Len(lines)]

Kept(p) == Without(ctl[p].copy, ctl[p].what)

\* Closing the temporary file writes what was buffered, from its start on.
Written(old, new) ==
  new \o SubSeq(old, Len(new) + 1, Len(old))

CloseTemp(p) ==
  LET i == ctl[p].out
  IN  /\ Step(p, "write", "rename")
      /\ disk' = [disk EXCEPT ![i] =
           [lines |-> Written(disk[i].lines, Kept(p)),
            time  |-> IF Kept(p) = <<>> THEN disk[i].time ELSE now]]
      /\ UNCHANGED <<link, temp, conf, commands, now, abandoned>>

\* Nothing was removed: the temporary name goes.  Something was: it becomes the
\* list, if it is still there.  The file that has the name by then may be the one
\* another reset is writing.
Replace(p) ==
  LET f == ctl[p].file
      met == {q \in Ctls : ctl[q].out = temp[f] /\ temp[f] # NoInode}
  IN  /\ ctl[p].step = "rename"
      /\ ctl' = [q \in Ctls |->
           IF q = p THEN AfterList(p)
           ELSE IF q \in met THEN [ctl[q] EXCEPT !.shared = TRUE]
           ELSE ctl[q]]
      /\ temp' = [temp EXCEPT ![f] = NoInode]
      /\ link' = IF Kept(p) = ctl[p].copy \/ temp[f] = NoInode THEN link
                 ELSE [link EXCEPT ![f] = temp[f]]
      /\ Reclaimed
      /\ UNCHANGED <<conf, commands, now, abandoned>>

\* The last step of every command; who receives the signal is the daemon's.
Signalled(p) ==
  /\ ctl[p].step = "signal"
  /\ ctl' = [ctl EXCEPT ![p] = Idle]
  /\ abandoned' = FALSE
  /\ UNCHANGED <<disk, link, temp, conf, commands, now>>

\* preheat-ctl is killed: what it buffered is lost, its temporary file stays.
KillCtl(p) ==
  /\ ctl[p].step # "idle"
  /\ ctl' = [ctl EXCEPT ![p] = Idle]
  /\ abandoned' = (abandoned \/ ctl[p].step # "append")
  /\ UNCHANGED <<link, temp, conf, commands, now>>
  /\ Reclaimed

Elapse ==
  /\ now < MaxTime
  /\ now' = now + 1
  /\ UNCHANGED <<disk, link, temp, conf, ctl, commands, abandoned>>

ListsNext ==
  \/ \E p \in Ctls, c \in Commands : Add(p, c) \/ Reset(p, c) \/ Configure(p, c)
  \/ \E p \in Ctls :
       \/ AppendEntry(p) \/ AppendFails(p)
       \/ NoList(p) \/ OpenTemp(p) \/ CloseTemp(p) \/ Replace(p)
       \/ KillCtl(p)
  \/ Elapse

-----------------------------------------------------------------------------
(* Properties.                                                             *)

\* A line leaves a list only by a reset: as the line it was asked to remove, as
\* one that was appended after the reset had read the list, or because another
\* reset opened, renamed or removed the temporary file of this one.
OnlyResetsRemove ==
  \A f \in ListNames : \A entry \in EntriesOf(f) \ EntriesOf(f)' :
    \E p \in Ctls :
      /\ ctl[p].op = "reset" /\ ctl[p].file = f
      /\ \/ ctl[p].what = entry
         \/ entry \notin ToSet(ctl[p].copy)
         \/ ctl[p].shared

\* A reset that found its line and whose temporary file was its own until the end
\* has removed the line, every copy of it, when it goes on to its next list.
ResetsRemoveAll ==
  \A p \in Ctls, f \in ListNames :
    ( /\ ctl[p].step = "rename" /\ ctl[p].file = f /\ ctl'[p] = AfterList(p)
      /\ ~ctl[p].shared /\ ctl[p].what \in ToSet(ctl[p].copy) )
    => \A entry \in EntriesOf(f)' : entry # ctl[p].what
=============================================================================
