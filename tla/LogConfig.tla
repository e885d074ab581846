----------------------------- MODULE LogConfig -----------------------------
(***************************************************************************)
(* The log levels of bf_sys_log.c.  They live in a zlog configuration      *)
(* file: bf_sys_log_init copies the user's to zlog-cfg-cur, once and for   *)
(* all processes to come, and the level_set functions run grep, sed and    *)
(* echo on the copy and have zlog load it again.  No lock orders them.     *)
(*                                                                         *)
(* A file is the set of its rules; a rule [mod, out, level] sends what     *)
(* module mod logs at a zlog level of at least level to output out.  A     *)
(* copy that was cut short may end in the middle of a line, Garbage, with  *)
(* which zlog refuses the file.                                            *)
(***************************************************************************)
EXTENDS Integers, FiniteSets

CONSTANTS
  Threads,
  Modules,
  Longer,       \* Longer[m]: the modules whose names go on after m's, as BF_PIPE does after BF_PI
  Settings,     \* the <<module, output, level>> that clients ask of bf_sys_log_level_set
  SyslogLevels, \* and of bf_sys_syslog_level_set
  TraceLevels,
  UserRules,    \* the rules of the user's file
  NameLen,      \* the length of its name
  Garbage, Absent, Null

Outputs == {"stdout", "file", "syslog"}

(* zlog's levels, as the rules of zlog_cfg_level_name name them.           *)
CfgLevel == <<120, 100, 80, 40, 20>>

Rules == [mod : Modules \cup {"*"}, out : Outputs, level : {CfgLevel[l] : l \in 1 .. 5}]

(* No file, and none loaded: a set that is not one of rules. *)
NoFile == {Absent}

(* A longer name would cut the command of bf_sys_syslog_level_set within   *)
(* its quotes, and from 235 on a cp that fails goes unnoticed.             *)
ASSUME LogAssumption ==
  /\ "*" \notin Modules
  /\ Longer \in [Modules -> SUBSET Modules] /\ \A m \in Modules : m \notin Longer[m]
  /\ Settings \subseteq Modules \X {"stdout", "file"} \X (1 .. 5)
  /\ SyslogLevels \subseteq 1 .. 5
  /\ UserRules \subseteq Rules /\ Garbage \notin Rules
  /\ Absent \notin Rules \cup {Garbage}
  /\ Null \notin {"zlog-cfg-cur", "zlog-cfg"}
  /\ 0 \in TraceLevels
  /\ NameLen \in 1 .. 46

VARIABLES
  zlog_cur_log_file,
  disk,    \* the two files
  conf,    \* the rules that zlog works by
  bf_sys_trace_level,
  opened,  \* the last bf_sys_log_init has returned 0, and there was no close
  pc, arg,
  seen,    \* what sed -i is going to put in the place of the file
  solo,    \* the file before the only call there is, if nothing has gone wrong in it
  torn     \* a crash has cut the copy short

files == <<zlog_cur_log_file, disk>>
calls == <<pc, arg, seen>>
levels == <<bf_sys_trace_level, opened>>
vars  == <<files, conf, levels, calls, solo, torn>>

Cur  == "zlog-cfg-cur"
User == "zlog-cfg"

NoArg == [mod |-> "*", out |-> "syslog", level |-> 0]

PCs == {"idle", "copy", "zlog_init", "grep", "sed", "rename", "append", "reload"}

TypeOK ==
  /\ zlog_cur_log_file \in {Cur, User, Null}
  /\ disk \in [{Cur, User} -> (SUBSET (Rules \cup {Garbage})) \cup {NoFile}]
  /\ conf \in (SUBSET Rules) \cup {NoFile}
  /\ bf_sys_trace_level \in [Modules -> TraceLevels]
  /\ opened \in BOOLEAN
  /\ pc \in [Threads -> PCs]
  /\ arg \in [Threads -> Rules \cup {NoArg}]
  /\ seen \in [Threads -> SUBSET Rules]
  /\ solo \in (SUBSET Rules) \cup {NoFile}
  /\ torn \in BOOLEAN

Init ==
  /\ zlog_cur_log_file = Null
  /\ disk = [f \in {Cur, User} |-> IF f = User THEN UserRules ELSE NoFile]
  /\ conf = NoFile
  /\ bf_sys_trace_level = [m \in Modules |-> 0]
  /\ opened = FALSE
  /\ pc = [t \in Threads |-> "idle"]
  /\ arg = [t \in Threads |-> NoArg]
  /\ seen = [t \in Threads |-> {}]
  /\ solo = NoFile /\ torn = FALSE

-----------------------------------------------------------------------------
(* Logging *)

(* bf_get_zlog_level *)
ZlogLevel(l) == IF l \in 1 .. 5 THEN <<120, 100, 80, 40, 20>>[l] ELSE 20

LogsTo(c, m, out, l) == \E r \in c : r.mod \in {m, "*"} /\ r.out = out /\ ZlogLevel(l) >= r.level

WouldLog(c, m, l) == c # NoFile /\ \E out \in Outputs : LogsTo(c, m, out, l)

(* bf_sys_log_is_log_enabled, bf_sys_log_and_trace *)
IsLogEnabled(m, l) == l <= bf_sys_trace_level[m] \/ WouldLog(conf, m, l)

-----------------------------------------------------------------------------
(* Opening and closing, which clients keep apart from all other calls *)

Quiet == \A t \in Threads : pc[t] = "idle"

(* A mutant: a file that ends in the middle of a line is loaded. *)
Valid_Garbage(file) == file # NoFile

(* What zlog accepts. *)
Valid(file) == file # NoFile /\ Garbage \notin file

Goto(t, from, to) == pc[t] = from /\ pc' = [pc EXCEPT ![t] = to]

(* What bf_sys_log_init does last, whatever has become of zlog. *)
TraceInit == \E l \in TraceLevels : bf_sys_trace_level' = [m \in Modules |-> l]

InitCall(t) ==
  /\ Quiet
  /\ Goto(t, "idle", IF disk[Cur] = NoFile THEN "copy" ELSE "zlog_init")
  /\ zlog_cur_log_file' \in {Cur, Null}
  /\ UNCHANGED <<disk, conf, levels, arg, seen, solo, torn>>

Copy(t) ==
  /\ Goto(t, "copy", "zlog_init")
  /\ disk' = [disk EXCEPT ![Cur] = disk[User]]
  /\ UNCHANGED <<zlog_cur_log_file, conf, levels, arg, seen, solo, torn>>

(* cp fails: the user's own file will be edited. *)
CopyFails(t) ==
  /\ Goto(t, "copy", "zlog_init")
  /\ zlog_cur_log_file' \in {User, Null}
  /\ UNCHANGED <<disk, conf, levels, arg, seen, solo, torn>>

(* No memory for the command. *)
CopyGivenUp(t) ==
  /\ Goto(t, "copy", "idle")
  /\ TraceInit
  /\ opened' = FALSE
  /\ UNCHANGED <<files, conf, arg, seen, solo, torn>>

(* zlog_init fails if it has succeeded before and there was no zlog_fini.  *)
ZlogInit(t) ==
  /\ Goto(t, "zlog_init", "idle")
  /\ opened' = /\ zlog_cur_log_file # Null /\ conf = NoFile
               /\ Valid(disk[zlog_cur_log_file])
  /\ conf' = IF opened' THEN disk[zlog_cur_log_file] ELSE conf
  /\ TraceInit
  /\ UNCHANGED <<files, arg, seen, solo, torn>>

Close ==
  /\ Quiet
  /\ conf' = NoFile /\ opened' = FALSE
  /\ zlog_cur_log_file' = Null
  /\ UNCHANGED <<disk, bf_sys_trace_level, calls, solo, torn>>

-----------------------------------------------------------------------------
(* Setting levels: any number of calls at once, while the log is open *)

Matches(m, r) == r.mod \in {m} \cup Longer[m]

(* A mutant: sed takes the rules to every output for those to one. *)
Edited_EveryOutput(file, a) ==
  IF a.out = "syslog" THEN {r \in file : r.out # "syslog"}
  ELSE {IF r.out # "syslog" /\ Matches(a.mod, r) THEN [a EXCEPT !.out = r.out] ELSE r : r \in file}

(* A mutant: sed deletes the rules, as it does for syslog. *)
Edited_Deletes(file, a) ==
  IF a.out = "syslog" THEN {r \in file : r.out # "syslog"}
  ELSE {r \in file : ~(r.out = a.out /\ Matches(a.mod, r))}

(* sed 's/MOD.* >stdout/MOD.LEVEL >stdout/', likewise for a file's rules, and sed /syslog/d *)
Edited(file, a) ==
  IF a.out = "syslog" THEN {r \in file : r.out # "syslog"}
  ELSE {IF r.out = a.out /\ Matches(a.mod, r) THEN a ELSE r : r \in file}

(* grep -q: a rule to stdout, or any rule. *)
Greps(file, a) ==
  \E r \in file : r.mod # "*" /\ Matches(a.mod, r) /\ (a.out = "stdout" => r.out = "stdout")

SetCall(t, a, first) ==
  /\ opened
  /\ \A u \in Threads : pc[u] \notin {"copy", "zlog_init"}
  /\ Goto(t, "idle", first)
  /\ arg' = [arg EXCEPT ![t] = a]
  /\ solo' = IF Quiet /\ first # "reload" THEN disk[zlog_cur_log_file] ELSE NoFile
  /\ UNCHANGED <<files, conf, levels, seen, torn>>

(* If system() cannot start a shell, bf_sys_log_level_set goes on and bf_sys_syslog_level_set gives up. *)
LevelSet(t) ==
  \E s \in Settings, first \in {"grep", "reload"} :
    SetCall(t, [mod |-> s[1], out |-> s[2], level |-> CfgLevel[s[3]]], first)

SyslogLevelSet(t) ==
  \E l \in SyslogLevels : SetCall(t, [mod |-> "*", out |-> "syslog", level |-> CfgLevel[l]], "sed")

(* `grep && sed || echo' for stdout, `grep && sed' for a file. *)
Otherwise(a) == IF a.out = "stdout" THEN "append" ELSE "reload"

Grep(t) ==
  /\ Goto(t, "grep", IF Greps(disk[zlog_cur_log_file], arg[t]) THEN "sed" ELSE Otherwise(arg[t]))
  /\ UNCHANGED <<files, conf, levels, arg, seen, solo, torn>>

Sed(t) ==
  /\ Goto(t, "sed", "rename")
  /\ seen' = [seen EXCEPT ![t] = Edited(disk[zlog_cur_log_file], arg[t])]
  /\ UNCHANGED <<files, conf, levels, arg, solo, torn>>

SedFails(t) ==
  /\ Goto(t, "sed", Otherwise(arg[t]))
  /\ solo' = NoFile
  /\ UNCHANGED <<files, conf, levels, arg, seen, torn>>

(* `sed && echo' for syslog. *)
Rename(t) ==
  /\ Goto(t, "rename", IF arg[t].out = "syslog" THEN "append" ELSE "reload")
  /\ disk' = [disk EXCEPT ![zlog_cur_log_file] = seen[t]]
  /\ seen' = [seen EXCEPT ![t] = {}]
  /\ UNCHANGED <<zlog_cur_log_file, conf, levels, arg, solo, torn>>

(* Whether bf_sys_syslog_level_set's command fits its 100 bytes: 58 and twice the name. *)
Fits(file) == 58 + 2 * (IF file = Cur THEN 12 ELSE NameLen) < 100

(* A command that is cut has echo write to some other place. *)
Append(t) ==
  /\ Goto(t, "append", "reload")
  /\ disk' = IF arg[t].out = "syslog" /\ ~Fits(zlog_cur_log_file) THEN disk
             ELSE [disk EXCEPT ![zlog_cur_log_file] = @ \cup {arg[t]}]
  /\ UNCHANGED <<zlog_cur_log_file, conf, levels, arg, seen, solo, torn>>

(* A mutant: zlog loads the user's file again. *)
Reload_UsersFile(t) ==
  /\ Goto(t, "reload", "idle")
  /\ conf' = IF Valid(disk[User]) THEN disk[User] ELSE conf
  /\ arg' = [arg EXCEPT ![t] = NoArg]
  /\ solo' = NoFile
  /\ UNCHANGED <<files, levels, seen, torn>>

Reload(t) ==
  /\ Goto(t, "reload", "idle")
  /\ conf' = IF Valid(disk[zlog_cur_log_file]) THEN disk[zlog_cur_log_file] ELSE conf
  /\ arg' = [arg EXCEPT ![t] = NoArg]
  /\ solo' = NoFile
  /\ UNCHANGED <<files, levels, seen, torn>>

TraceLevelSet ==
  /\ \E m \in Modules, l \in TraceLevels :
       bf_sys_trace_level' = [bf_sys_trace_level EXCEPT ![m] = l]
  /\ UNCHANGED <<files, conf, opened, calls, solo, torn>>

-----------------------------------------------------------------------------
(* The process dies, and cp with it; the files stay.                       *)
Crash ==
  /\ disk' \in IF \E t \in Threads : pc[t] = "copy"
                 THEN {[disk EXCEPT ![Cur] = c] :
                         c \in (SUBSET (disk[User] \cup {Garbage})) \cup {NoFile}}
                 ELSE {disk}
  /\ torn' = (torn \/ (disk'[Cur] # disk[Cur] /\ disk'[Cur] # disk[User]))
  /\ zlog_cur_log_file' = Null /\ conf' = NoFile /\ opened' = FALSE
  /\ bf_sys_trace_level' = [m \in Modules |-> 0]
  /\ pc' = [t \in Threads |-> "idle"]
  /\ arg' = [t \in Threads |-> NoArg]
  /\ seen' = [t \in Threads |-> {}]
  /\ solo' = NoFile

OpenOrClose == Close \/ \E t \in Threads : InitCall(t) \/ Copy(t) \/ CopyFails(t) \/ CopyGivenUp(t) \/ ZlogInit(t)

Set(t) ==
  \/ LevelSet(t) \/ SyslogLevelSet(t) \/ Grep(t) \/ Sed(t) \/ SedFails(t)
  \/ Rename(t) \/ Append(t) \/ Reload(t)

Next == OpenOrClose \/ TraceLevelSet \/ Crash \/ \E t \in Threads : Set(t)

Spec == Init /\ [][Next]_vars

-----------------------------------------------------------------------------
(* What is loaded is what the next process would load: every call that has *)
(* changed the file has had zlog load it, and after a crash bf_sys_log_init *)
(* finds all the changes, be they in the copy or in the user's own file.   *)
NextStart == IF disk[Cur] = NoFile THEN disk[User] ELSE disk[Cur]

NextStartLoadsTheSame == Quiet /\ conf # NoFile => conf = NextStart

(* The user sent some module's logs to some output: they still go there.   *)
(* Not if the module's name goes on after another's, nor to syslog.        *)
KeepsUserRules(file) ==
  \A r \in {u \in UserRules : \A m \in Modules : u.mod \notin Longer[m]} :
    r.out # "syslog" => \E q \in file : q.mod = r.mod /\ q.out = r.out

(* What the user sent to an output still goes there, at whatever level,    *)
(* through concurrent edits, lost updates and crashes; except after a copy *)
(* that was cut short.                                                     *)
UserRulesSurvive == conf # NoFile /\ ~torn => KeepsUserRules(conf)

-----------------------------------------------------------------------------
Returns(t) == pc[t] = "reload" /\ pc'[t] = "idle" /\ conf' # NoFile

(* The rules of file that the call with argument a is not about. *)
Others(file, a) ==
  {r \in file : IF a.out = "syslog" THEN r.out # "syslog"
                ELSE r.out # a.out \/ r.mod = "*" \/ ~Matches(a.mod, r)}

(* The levels and modules that the call switches on. *)
LevelsOn(a) == {on \in (1 .. 5) \X Modules : a.mod \in {on[2], "*"} /\ CfgLevel[on[1]] >= a.level}

(* A rule for all modules stays on beside that of a call for one module.   *)
ForAll(c, a) == {r \in c : r.mod = "*" /\ a.mod # "*"}

LevelIs(c, a) ==
  \A l \in 1 .. 5, m \in Modules :
    a.mod \in {m, "*"} =>
      (LogsTo(c, m, a.out, l) <=> <<l, m>> \in LevelsOn(a) \/ LogsTo(ForAll(c, a), m, a.out, l))

(* A call that meets no other and whose commands run gives the module the  *)
(* level it asks for, at the output it asks for, and leaves the rest alone *)
(* but for modules with longer names.  It creates no rule to a file.       *)
SoloCallTakesEffect ==
  [][\A t \in Threads :
       Returns(t) /\ solo # NoFile
         => LET a == arg[t] IN
            /\ \/ LevelIs(conf', a) /\ \A on \in LevelsOn(a) : IsLogEnabled(on[2], on[1])'
               \/ a.out = "file" /\ ~\E r \in solo : r.out = "file" /\ Matches(a.mod, r)
               \/ a.out = "syslog" /\ ~Fits(zlog_cur_log_file)
            /\ Others(conf', a) = Others(solo, a)]_vars

(* `add a line in cfg file if it does not exist, else modify it' (299): a  *)
(* call that meets no other touches no other module's rules.               *)
OnlyItsModule ==
  [][\A t \in Threads :
       Returns(t) /\ solo # NoFile /\ arg[t].out # "syslog"
         => {r \in conf' : r.mod # arg[t].mod} = {r \in solo : r.mod # arg[t].mod}]_vars
=============================================================================
