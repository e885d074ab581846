--------------------------- MODULE LogConfigProofs ---------------------------
(***************************************************************************)
(* Proofs about LogConfig, for any threads, modules, settings and user's   *)
(* rules.  That the next process loads what is loaded now rests on which   *)
(* file is edited: the copy if there is one and the user's own if there is *)
(* none, and on every change of it being followed by a reload, the last    *)
(* of which has not come yet while any call is about to append or reload.  *)
(* That no user's rule is lost rests on sed, which replaces the level of a *)
(* rule and never its module and output, unless a name goes on after       *)
(* another's, and on all that the lost updates put back being such files.  *)
(***************************************************************************)
EXTENDS LogConfig, TLAPS

Opening == \E t \in Threads : pc[t] \in {"copy", "zlog_init"}

Setting(t) == pc[t] \in {"grep", "sed", "rename", "append", "reload"}

(* What the level_set functions ask for. *)
Requests == {a \in Rules : IF a.out = "syslog" THEN a.mod = "*" ELSE a.mod \in Modules}

(* The file in use is the one the next process will use. *)
ReadsNext ==
  /\ zlog_cur_log_file = User => disk[Cur] = NoFile
  /\ zlog_cur_log_file = Cur  => disk[Cur] # NoFile

(* Who opens the log is alone, and knows whether there is a copy. *)
InitAlone ==
  \A t \in Threads :
    pc[t] \in {"copy", "zlog_init"} =>
      /\ \A u \in Threads \ {t} : pc[u] = "idle"
      /\ IF pc[t] = "copy" THEN disk[Cur] = NoFile /\ zlog_cur_log_file # User ELSE ReadsNext

(* Levels are set while the log is open, in a whole file. *)
FileInUse ==
  /\ disk[User] # NoFile
  /\ opened /\ ~Opening =>
       /\ conf # NoFile /\ zlog_cur_log_file # Null
       /\ ReadsNext /\ Garbage \notin disk[zlog_cur_log_file]
  /\ \A t \in Threads : Setting(t) => opened /\ arg[t] \in Requests

(* Where zlog is behind the file, a reload is coming. *)
Settled == conf # NoFile => conf = NextStart \/ \E t \in Threads : pc[t] \in {"append", "reload"}

(* The user's rules are wherever they may come to be loaded from. *)
RulesKept ==
  ~torn =>
    /\ KeepsUserRules(disk[User])
    /\ disk[Cur] # NoFile => KeepsUserRules(disk[Cur])
    /\ conf # NoFile => KeepsUserRules(conf)
    /\ \A t \in Threads : pc[t] = "rename" => KeepsUserRules(seen[t])

IInv == TypeOK /\ InitAlone /\ FileInUse /\ Settled /\ RulesKept

-----------------------------------------------------------------------------
(* There being no file is no file of rules. *)
LEMMA NoFileIsNone ==
  /\ NoFile \notin SUBSET (Rules \cup {Garbage})
  /\ NoFile \notin SUBSET Rules
  /\ Null \notin {Cur, User} /\ Cur # User
BY LogAssumption DEF NoFile, Cur, User

(* What the level_set functions ask for is a request. *)
LEMMA SettingsAreRequests ==
  /\ \A s \in Settings : [mod |-> s[1], out |-> s[2], level |-> CfgLevel[s[3]]] \in Requests
  /\ \A l \in SyslogLevels : [mod |-> "*", out |-> "syslog", level |-> CfgLevel[l]] \in Requests
<1>1. \A s \in Settings : s[1] \in Modules /\ s[2] \in {"stdout", "file"} /\ s[3] \in 1 .. 5
  BY LogAssumption
<1>2. \A l \in SyslogLevels : l \in 1 .. 5 BY LogAssumption
<1> QED BY <1>1, <1>2 DEF Requests, Rules, Outputs

(* sed makes rules of rules, and of a file that keeps the user's rules one *)
(* that does: what it rewrites to an output had the name rewritten, or one *)
(* that goes on after it.                                                  *)
LEMMA EditedKeeps ==
  ASSUME NEW file \in SUBSET Rules, NEW a \in Requests
  PROVE  /\ Edited(file, a) \in SUBSET Rules
         /\ KeepsUserRules(file) => KeepsUserRules(Edited(file, a))
<1>1. Edited(file, a) \in SUBSET Rules BY DEF Edited, Requests
<1>2. ASSUME KeepsUserRules(file),
             NEW r \in {u \in UserRules : \A m \in Modules : u.mod \notin Longer[m]},
             r.out # "syslog"
      PROVE  \E q \in Edited(file, a) : q.mod = r.mod /\ q.out = r.out
  <2>1. PICK q \in file : q.mod = r.mod /\ q.out = r.out BY <1>2 DEF KeepsUserRules
  <2>2. CASE a.out = "syslog" BY <2>1, <2>2, <1>2 DEF Edited
  <2>3. CASE a.out # "syslog" /\ ~(q.out = a.out /\ Matches(a.mod, q))
    BY <2>1, <2>3 DEF Edited
  <2>4. CASE a.out # "syslog" /\ q.out = a.out /\ Matches(a.mod, q)
    <3>1. a \in Edited(file, a) BY <2>4 DEF Edited
    <3>2. a.mod = r.mod BY <2>1, <2>4, <1>2, LogAssumption DEF Matches, Requests
    <3> QED BY <2>1, <2>4, <3>1, <3>2
  <2> QED BY <2>2, <2>3, <2>4
<1> QED BY <1>1, <1>2 DEF KeepsUserRules

(* While a thread sets a level the log is open, and the file whole. *)
LEMMA SettingFacts ==
  ASSUME IInv, NEW t \in Threads, Setting(t)
  PROVE  /\ opened /\ ~Opening /\ conf # NoFile
         /\ zlog_cur_log_file \in {Cur, User} /\ ReadsNext
         /\ disk[zlog_cur_log_file] \in SUBSET Rules
         /\ arg[t] \in Requests
<1>1. opened /\ arg[t] \in Requests BY DEF IInv, FileInUse
<1>2. ~Opening BY DEF IInv, InitAlone, Opening, Setting
<1>3. /\ conf # NoFile /\ zlog_cur_log_file # Null
      /\ ReadsNext /\ Garbage \notin disk[zlog_cur_log_file]
  BY <1>1, <1>2 DEF IInv, FileInUse
<1>4. zlog_cur_log_file \in {Cur, User} BY <1>3 DEF IInv, TypeOK
<1>5. disk[zlog_cur_log_file] # NoFile BY <1>3, <1>4 DEF ReadsNext, IInv, FileInUse
<1>6. disk[zlog_cur_log_file] \in SUBSET (Rules \cup {Garbage})
  BY <1>4, <1>5 DEF IInv, TypeOK
<1> QED BY <1>1, <1>2, <1>3, <1>4, <1>6

(* Adding a rule loses none. *)
LEMMA AppendedKeeps ==
  ASSUME NEW file, NEW a, KeepsUserRules(file)
  PROVE  KeepsUserRules(file \cup {a})
BY DEF KeepsUserRules

-----------------------------------------------------------------------------
(* At first there is the user's file and no copy of it. *)
LEMMA InvariantHoldsInitially == Init => IInv
<1> SUFFICES ASSUME Init PROVE IInv OBVIOUS
<1>1. TypeOK
  <2>1. disk \in [{Cur, User} -> (SUBSET (Rules \cup {Garbage})) \cup {NoFile}]
    <3>1. UserRules \in (SUBSET (Rules \cup {Garbage})) \cup {NoFile} BY LogAssumption
    <3>2. disk = [f \in {Cur, User} |-> IF f = User THEN UserRules ELSE NoFile] BY DEF Init
    <3> QED BY <3>1, <3>2
  <2>2. /\ pc \in [Threads -> PCs] /\ arg \in [Threads -> Rules \cup {NoArg}]
        /\ seen \in [Threads -> SUBSET Rules]
    BY DEF Init, PCs
  <2>3. bf_sys_trace_level \in [Modules -> TraceLevels] BY LogAssumption DEF Init
  <2>4. /\ zlog_cur_log_file \in {Cur, User, Null}
        /\ conf \in (SUBSET Rules) \cup {NoFile} /\ solo \in (SUBSET Rules) \cup {NoFile}
    BY DEF Init
  <2>5. opened \in BOOLEAN /\ torn \in BOOLEAN BY DEF Init
  <2> QED BY <2>1, <2>2, <2>3, <2>4, <2>5 DEF TypeOK
<1>2. InitAlone BY DEF Init, InitAlone
<1>3. FileInUse BY LogAssumption, NoFileIsNone DEF Init, FileInUse, Setting
<1>4. Settled BY DEF Init, Settled
<1>5. RulesKept BY NoFileIsNone DEF Init, RulesKept, KeepsUserRules
<1> QED BY <1>1, <1>2, <1>3, <1>4, <1>5 DEF IInv
-----------------------------------------------------------------------------
(* The steps of bf_sys_log_init: the copy, if there is to be one, is what   *)
(* the next process would otherwise have read.                             *)
LEMMA InitStep ==
  ASSUME IInv, NEW t \in Threads,
         InitCall(t) \/ Copy(t) \/ CopyFails(t) \/ CopyGivenUp(t) \/ ZlogInit(t)
  PROVE  IInv'
<1> USE NoFileIsNone DEF IInv, levels, files, Goto
<1>1. CASE InitCall(t)
  <2> USE <1>1 DEF InitCall, Quiet
  <2>1. TypeOK' BY DEF TypeOK, PCs
  <2>2. InitAlone' BY DEF TypeOK, InitAlone, ReadsNext
  <2>3. FileInUse'
    <3>1. Opening' BY DEF TypeOK, Opening
    <3>2. \A u \in Threads : ~Setting(u)' BY DEF TypeOK, Setting
    <3> QED BY <3>1, <3>2 DEF FileInUse
  <2>4. Settled' BY DEF TypeOK, Settled, NextStart
  <2>5. RulesKept' BY DEF TypeOK, RulesKept
  <2> QED BY <2>1, <2>2, <2>3, <2>4, <2>5
<1>2. CASE Copy(t)
  <2> USE <1>2 DEF Copy
  <2>1. disk[Cur] = NoFile /\ zlog_cur_log_file # User /\ (\A u \in Threads \ {t} : pc[u] = "idle")
    BY DEF InitAlone
  <2>2. disk'[Cur] = disk[User] /\ disk'[User] = disk[User] BY DEF TypeOK
  <2>3. TypeOK' BY DEF TypeOK, PCs
  <2>4. InitAlone' BY <2>1, <2>2 DEF TypeOK, InitAlone, ReadsNext, FileInUse
  <2>5. FileInUse'
    <3>1. Opening' BY DEF TypeOK, Opening
    <3>2. \A u \in Threads : ~Setting(u)' BY <2>1 DEF TypeOK, Setting
    <3> QED BY <2>2, <3>1, <3>2 DEF FileInUse
  <2>6. Settled' BY <2>1, <2>2 DEF TypeOK, Settled, NextStart
  <2>7. RulesKept' BY <2>1, <2>2 DEF TypeOK, RulesKept
  <2> QED BY <2>3, <2>4, <2>5, <2>6, <2>7
<1>3. CASE CopyFails(t)
  <2> USE <1>3 DEF CopyFails
  <2>1. disk[Cur] = NoFile /\ (\A u \in Threads \ {t} : pc[u] = "idle") BY DEF InitAlone
  <2>2. TypeOK' BY DEF TypeOK, PCs
  <2>3. InitAlone' BY <2>1 DEF TypeOK, InitAlone, ReadsNext
  <2>4. FileInUse'
    <3>1. Opening' BY DEF TypeOK, Opening
    <3>2. \A u \in Threads : ~Setting(u)' BY <2>1 DEF TypeOK, Setting
    <3> QED BY <3>1, <3>2 DEF FileInUse
  <2>5. Settled' BY <2>1 DEF TypeOK, Settled, NextStart
  <2>6. RulesKept' BY <2>1 DEF TypeOK, RulesKept
  <2> QED BY <2>2, <2>3, <2>4, <2>5, <2>6
<1>4. CASE CopyGivenUp(t)
  <2> USE <1>4 DEF CopyGivenUp, TraceInit
  <2>1. \A u \in Threads : pc'[u] = "idle" BY DEF TypeOK, InitAlone
  <2>2. TypeOK' BY DEF TypeOK, PCs
  <2>3. InitAlone' BY <2>1 DEF InitAlone
  <2>4. FileInUse' BY <2>1 DEF FileInUse, Setting
  <2>5. Settled' BY <2>1 DEF TypeOK, InitAlone, Settled, NextStart
  <2>6. RulesKept' BY <2>1 DEF RulesKept
  <2> QED BY <2>2, <2>3, <2>4, <2>5, <2>6
<1>5. CASE ZlogInit(t)
  <2> USE <1>5 DEF ZlogInit, TraceInit
  <2>1. \A u \in Threads : pc'[u] = "idle" BY DEF TypeOK, InitAlone
  <2>2. ReadsNext /\ \A u \in Threads : pc[u] \notin {"append", "reload"} BY DEF InitAlone
  <2>3. UNCHANGED <<zlog_cur_log_file, disk, arg, seen, solo, torn>> OBVIOUS
  <2>4. \/ opened' = FALSE /\ conf' = conf
        \/ /\ opened' = TRUE /\ conf' = disk[zlog_cur_log_file]
           /\ zlog_cur_log_file \in {Cur, User}
           /\ disk[zlog_cur_log_file] # NoFile /\ Garbage \notin disk[zlog_cur_log_file]
    BY DEF Valid, TypeOK
  <2>5. TypeOK'
    <3>1. bf_sys_trace_level' \in [Modules -> TraceLevels] OBVIOUS
    <3>2. opened' \in BOOLEAN BY <2>4
    <3>3. conf' \in (SUBSET Rules) \cup {NoFile} BY <2>4 DEF TypeOK
    <3>4. pc' \in [Threads -> PCs] BY DEF TypeOK, PCs
    <3> QED BY <2>3, <3>1, <3>2, <3>3, <3>4 DEF TypeOK
  <2>6. InitAlone' BY <2>1 DEF InitAlone
  <2>7. FileInUse' BY <2>1, <2>2, <2>3, <2>4 DEF FileInUse, Setting, ReadsNext
  <2>8. Settled' BY <2>1, <2>2, <2>3, <2>4 DEF Settled, NextStart, ReadsNext
  <2>9. RulesKept' BY <2>1, <2>3, <2>4 DEF RulesKept
  <2> QED BY <2>5, <2>6, <2>7, <2>8, <2>9
<1> QED BY <1>1, <1>2, <1>3, <1>4, <1>5
(* A call of a level_set function begins, with the log open. *)
LEMMA SetCallStep ==
  ASSUME IInv, NEW t \in Threads, LevelSet(t) \/ SyslogLevelSet(t)
  PROVE  IInv'
<1>1. PICK a \in Requests, first \in {"grep", "sed", "reload"} : SetCall(t, a, first)
  BY SettingsAreRequests DEF LevelSet, SyslogLevelSet
<1> USE NoFileIsNone, <1>1 DEF IInv, levels, files, Goto, SetCall
<1>2. opened /\ ~Opening BY DEF Opening
<1>3. disk[zlog_cur_log_file] \in SUBSET Rules
  BY <1>2 DEF FileInUse, ReadsNext, TypeOK
<1>4. UNCHANGED <<zlog_cur_log_file, disk, conf, bf_sys_trace_level, opened, seen, torn>>
  OBVIOUS
<1>5. TypeOK'
  <2>1. solo' \in (SUBSET Rules) \cup {NoFile} BY <1>3
  <2>2. arg' \in [Threads -> Rules \cup {NoArg}] BY DEF TypeOK, Requests
  <2>3. pc' \in [Threads -> PCs] BY DEF TypeOK, PCs
  <2> QED BY <1>4, <2>1, <2>2, <2>3 DEF TypeOK
<1>6. InitAlone' BY <1>2, <1>4 DEF InitAlone, TypeOK
<1>7. FileInUse'
  <2>1. \A u \in Threads : Setting(u)' => opened' /\ arg'[u] \in Requests
    BY <1>2, <1>4 DEF FileInUse, TypeOK, Setting
  <2> QED BY <1>2, <1>4, <2>1 DEF FileInUse, ReadsNext
<1>8. Settled' BY <1>4 DEF Settled, NextStart, TypeOK
<1>9. RulesKept' BY <1>4 DEF RulesKept, TypeOK
<1> QED BY <1>5, <1>6, <1>7, <1>8, <1>9

(* Moving on within a call keeps what does not depend on the files. *)
LEMMA SettingGoesOn ==
  ASSUME IInv, NEW t \in Threads, Setting(t),
         NEW next \in {"idle", "grep", "sed", "rename", "append", "reload"},
         pc' = [pc EXCEPT ![t] = next],
         \/ next # "idle" /\ arg' = arg
         \/ next = "idle" /\ arg' = [arg EXCEPT ![t] = NoArg],
         opened' = opened
  PROVE  /\ ~Opening' /\ InitAlone' /\ pc' \in [Threads -> PCs]
         /\ arg' \in [Threads -> Rules \cup {NoArg}]
         /\ \A u \in Threads : Setting(u)' => opened' /\ arg'[u] \in Requests
<1>1. ~Opening BY SettingFacts
<1>2. ~Opening' BY <1>1 DEF Opening, IInv, TypeOK
<1>3. InitAlone' BY <1>2 DEF InitAlone, Opening
<1>4. pc' \in [Threads -> PCs] /\ arg' \in [Threads -> Rules \cup {NoArg}]
  BY DEF IInv, TypeOK, PCs
<1>5. \A u \in Threads : Setting(u)' => opened' /\ arg'[u] \in Requests
  BY DEF IInv, TypeOK, FileInUse, Setting
<1> QED BY <1>2, <1>3, <1>4, <1>5

(* The commands of a call before it changes the file: what sed will put in *)
(* its place is rules, and the user's are among them.                      *)
LEMMA CommandStep ==
  ASSUME IInv, NEW t \in Threads, Grep(t) \/ Sed(t) \/ SedFails(t)
  PROVE  IInv'
<1> USE DEF levels, files, Goto
<1>1. Setting(t) BY DEF Grep, Sed, SedFails, Setting
<1>2. PICK next \in {"sed", "rename", "append", "reload"} :
        /\ pc' = [pc EXCEPT ![t] = next]
        /\ next = "rename" => seen' = [seen EXCEPT ![t] = Edited(disk[zlog_cur_log_file], arg[t])]
        /\ next # "rename" => seen' = seen
  BY DEF Grep, Sed, SedFails, Otherwise
<1>3. pc[t] \in {"grep", "sed"} BY DEF Grep, Sed, SedFails
<1>4. UNCHANGED <<zlog_cur_log_file, disk, conf, bf_sys_trace_level, opened, arg, torn>>
  BY DEF Grep, Sed, SedFails
<1>5. solo' \in {solo, NoFile} BY DEF Grep, Sed, SedFails
<1>6. /\ disk[zlog_cur_log_file] \in SUBSET Rules /\ arg[t] \in Requests
      /\ zlog_cur_log_file \in {Cur, User} /\ ReadsNext
  BY <1>1, SettingFacts
<1>7. Edited(disk[zlog_cur_log_file], arg[t]) \in SUBSET Rules BY <1>6, EditedKeeps
<1>8. /\ ~Opening' /\ InitAlone' /\ pc' \in [Threads -> PCs]
      /\ arg' \in [Threads -> Rules \cup {NoArg}]
      /\ \A u \in Threads : Setting(u)' => opened' /\ arg'[u] \in Requests
  BY <1>1, <1>2, <1>4, SettingGoesOn
<1>9. TypeOK'
  <2>1. seen' \in [Threads -> SUBSET Rules] BY <1>2, <1>7 DEF IInv, TypeOK
  <2> QED BY <1>4, <1>5, <1>8, <2>1 DEF IInv, TypeOK
<1>10. FileInUse'
  <2>1. ~Opening BY <1>1, SettingFacts
  <2> QED BY <1>4, <1>8, <2>1 DEF IInv, FileInUse, ReadsNext
<1>11. Settled'
  <2>1. \A u \in Threads : pc[u] \in {"append", "reload"} => pc'[u] \in {"append", "reload"}
    BY <1>2, <1>3 DEF IInv, TypeOK
  <2> QED BY <1>4, <2>1 DEF IInv, Settled, NextStart
<1>12. RulesKept'
  <2> SUFFICES ASSUME ~torn PROVE RulesKept' BY <1>4 DEF RulesKept
  <2>1. KeepsUserRules(disk[zlog_cur_log_file])
    BY <1>6, NoFileIsNone DEF IInv, RulesKept
  <2>2. KeepsUserRules(Edited(disk[zlog_cur_log_file], arg[t])) BY <1>6, <2>1, EditedKeeps
  <2>3. \A u \in Threads : pc'[u] = "rename" => KeepsUserRules(seen'[u])
    BY <1>2, <2>2 DEF IInv, TypeOK, RulesKept
  <2> QED BY <1>4, <2>3 DEF IInv, RulesKept
<1> QED BY <1>8, <1>9, <1>10, <1>11, <1>12 DEF IInv

(* The file is changed, to rules that keep the user's, with a reload coming. *)
LEMMA FileStep ==
  ASSUME IInv, NEW t \in Threads, Rename(t) \/ Append(t)
  PROVE  IInv'
<1> USE DEF levels, files, Goto
<1>1. Setting(t) BY DEF Rename, Append, Setting
<1>2. PICK next \in {"append", "reload"} : pc' = [pc EXCEPT ![t] = next]
  BY DEF Rename, Append
<1>3. UNCHANGED <<zlog_cur_log_file, conf, bf_sys_trace_level, opened, arg, solo, torn>>
  BY DEF Rename, Append
<1>4. /\ disk[zlog_cur_log_file] \in SUBSET Rules /\ arg[t] \in Requests
      /\ zlog_cur_log_file \in {Cur, User} /\ ReadsNext /\ ~Opening /\ opened /\ conf # NoFile
  BY <1>1, SettingFacts
<1>5. PICK file \in SUBSET Rules :
        /\ disk' = [disk EXCEPT ![zlog_cur_log_file] = file]
        /\ ~torn => KeepsUserRules(file)
  <2>1. ~torn => KeepsUserRules(disk[zlog_cur_log_file])
    BY <1>4, NoFileIsNone DEF IInv, RulesKept
  <2>2. CASE Rename(t)
    BY <2>2 DEF Rename, IInv, TypeOK, RulesKept
  <2>3. CASE Append(t)
    <3>1. CASE disk' = disk BY <3>1, <2>1, <1>4 DEF IInv, TypeOK
    <3>2. CASE disk' = [disk EXCEPT ![zlog_cur_log_file] = @ \cup {arg[t]}]
      <4>1. disk[zlog_cur_log_file] \cup {arg[t]} \in SUBSET Rules BY <1>4 DEF Requests
      <4>2. ~torn => KeepsUserRules(disk[zlog_cur_log_file] \cup {arg[t]})
        BY <2>1, AppendedKeeps
      <4> QED BY <3>2, <4>1, <4>2, <1>4 DEF IInv, TypeOK
    <3> QED BY <2>3, <3>1, <3>2 DEF Append
  <2> QED BY <2>2, <2>3
<1>6. /\ seen' \in [Threads -> SUBSET Rules]
      /\ \A u \in Threads : pc'[u] = "rename" => pc[u] = "rename" /\ seen'[u] = seen[u]
  BY <1>2 DEF Rename, Append, IInv, TypeOK
<1>7. /\ ~Opening' /\ InitAlone' /\ pc' \in [Threads -> PCs]
      /\ arg' \in [Threads -> Rules \cup {NoArg}]
      /\ \A u \in Threads : Setting(u)' => opened' /\ arg'[u] \in Requests
  BY <1>1, <1>2, <1>3, SettingGoesOn
<1>8. file # NoFile /\ Garbage \notin file BY NoFileIsNone, LogAssumption
<1>9. TypeOK'
  <2>1. disk' \in [{Cur, User} -> (SUBSET (Rules \cup {Garbage})) \cup {NoFile}]
    BY <1>5 DEF IInv, TypeOK
  <2> QED BY <1>3, <1>6, <1>7, <2>1 DEF IInv, TypeOK
<1>10. FileInUse'
  <2>1. disk'[User] # NoFile BY <1>5, <1>8 DEF IInv, TypeOK, FileInUse
  <2>2. ReadsNext' /\ Garbage \notin disk'[zlog_cur_log_file]
    BY <1>3, <1>4, <1>5, <1>8, NoFileIsNone DEF IInv, TypeOK, ReadsNext
  <2> QED BY <1>3, <1>4, <1>7, <2>1, <2>2, NoFileIsNone DEF FileInUse
<1>11. Settled' BY <1>2 DEF IInv, TypeOK, Settled
<1>12. RulesKept'
  <2> SUFFICES ASSUME ~torn PROVE RulesKept' BY <1>3 DEF RulesKept
  <2>2. \A f \in {Cur, User} : disk'[f] = disk[f] \/ KeepsUserRules(disk'[f])
    BY <1>5 DEF IInv, TypeOK
  <2>3. /\ KeepsUserRules(disk'[User])
        /\ disk'[Cur] # NoFile => KeepsUserRules(disk'[Cur])
    BY <2>2 DEF IInv, RulesKept
  <2>4. \A u \in Threads : pc'[u] = "rename" => KeepsUserRules(seen'[u])
    BY <1>6 DEF IInv, RulesKept
  <2> QED BY <1>3, <2>3, <2>4 DEF IInv, RulesKept
<1> QED BY <1>7, <1>9, <1>10, <1>11, <1>12 DEF IInv
(* zlog catches up with the file. *)
LEMMA ReloadStep ==
  ASSUME IInv, NEW t \in Threads, Reload(t)
  PROVE  IInv'
<1> USE DEF levels, files, Goto
<1>1. Setting(t) BY DEF Reload, Setting
<1>2. UNCHANGED <<zlog_cur_log_file, disk, bf_sys_trace_level, opened, seen, torn>>
  BY DEF Reload
<1>3. /\ disk[zlog_cur_log_file] \in SUBSET Rules
      /\ zlog_cur_log_file \in {Cur, User} /\ ReadsNext /\ ~Opening
  BY <1>1, SettingFacts
<1>4. conf' = disk[zlog_cur_log_file] /\ conf' # NoFile
  BY <1>3, NoFileIsNone, LogAssumption DEF Reload, Valid
<1>5. /\ ~Opening' /\ InitAlone' /\ pc' \in [Threads -> PCs]
      /\ arg' \in [Threads -> Rules \cup {NoArg}]
      /\ \A u \in Threads : Setting(u)' => opened' /\ arg'[u] \in Requests
  BY <1>1, <1>2, SettingGoesOn DEF Reload
<1>6. TypeOK' BY <1>2, <1>3, <1>4, <1>5 DEF IInv, TypeOK, Reload
<1>7. FileInUse' BY <1>2, <1>3, <1>4, <1>5 DEF IInv, FileInUse, ReadsNext
<1>8. Settled' BY <1>2, <1>3, <1>4 DEF Settled, NextStart, ReadsNext
<1>9. RulesKept'
  <2>1. \A u \in Threads : pc'[u] = "rename" => pc[u] = "rename"
    BY DEF Reload, IInv, TypeOK
  <2> QED BY <1>2, <1>3, <1>4, <2>1 DEF IInv, RulesKept
<1> QED BY <1>5, <1>6, <1>7, <1>8, <1>9 DEF IInv

(* Trace levels are not in the files; bf_sys_log_close changes no file. *)
LEMMA OtherStep ==
  ASSUME IInv, TraceLevelSet \/ Close
  PROVE  IInv'
<1> USE NoFileIsNone DEF IInv, levels, files, calls
<1>1. CASE TraceLevelSet
  <2>1. UNCHANGED <<zlog_cur_log_file, disk, conf, opened, pc, arg, seen, solo, torn>>
    BY <1>1 DEF TraceLevelSet
  <2>2. TypeOK' BY <1>1, <2>1 DEF TraceLevelSet, TypeOK
  <2>3. InitAlone' BY <2>1 DEF InitAlone, ReadsNext
  <2>4. FileInUse' BY <2>1 DEF FileInUse, ReadsNext, Opening, Setting
  <2>5. Settled' /\ RulesKept' BY <2>1 DEF Settled, NextStart, RulesKept
  <2> QED BY <2>2, <2>3, <2>4, <2>5
<1>2. CASE Close
  <2>1. /\ \A t \in Threads : pc[t] = "idle"
        /\ zlog_cur_log_file' = Null /\ conf' = NoFile /\ opened' = FALSE
        /\ UNCHANGED <<disk, bf_sys_trace_level, pc, arg, seen, solo, torn>>
    BY <1>2 DEF Close, Quiet
  <2>2. TypeOK'
    <3>1. opened' \in BOOLEAN BY <2>1
    <3> QED BY <2>1, <3>1 DEF TypeOK
  <2>3. InitAlone' BY <2>1 DEF InitAlone
  <2>4. FileInUse' BY <2>1 DEF FileInUse, Setting
  <2>5. Settled' /\ RulesKept' BY <2>1 DEF Settled, RulesKept
  <2> QED BY <2>2, <2>3, <2>4, <2>5
<1> QED BY <1>1, <1>2

(* A crash leaves the files, or a copy that is partial or complete. *)
LEMMA CrashStep ==
  ASSUME IInv, Crash
  PROVE  IInv'
<1> USE NoFileIsNone DEF IInv
<1>1. /\ zlog_cur_log_file' = Null /\ conf' = NoFile /\ opened' = FALSE
      /\ \A t \in Threads : pc'[t] = "idle"
      /\ pc' \in [Threads -> PCs] /\ arg' \in [Threads -> Rules \cup {NoArg}]
      /\ seen' \in [Threads -> SUBSET Rules]
  BY DEF Crash, PCs
<1>2. PICK c \in (SUBSET (Rules \cup {Garbage})) \cup {NoFile} :
        /\ disk' = [disk EXCEPT ![Cur] = c]
        /\ c # disk[Cur] => disk[Cur] = NoFile
  <2>1. CASE \E t \in Threads : pc[t] = "copy"
    <3>1. PICK c \in (SUBSET (disk[User] \cup {Garbage})) \cup {NoFile} :
            disk' = [disk EXCEPT ![Cur] = c]
      BY <2>1 DEF Crash
    <3>2. disk[Cur] = NoFile BY <2>1 DEF InitAlone
    <3>3. disk[User] \in SUBSET (Rules \cup {Garbage}) BY DEF TypeOK, FileInUse
    <3> QED BY <3>1, <3>2, <3>3
  <2>2. CASE ~\E t \in Threads : pc[t] = "copy"
    BY <2>2 DEF Crash, TypeOK
  <2> QED BY <2>1, <2>2
<1>3. disk'[User] = disk[User] /\ disk'[Cur] = c BY <1>2 DEF TypeOK
<1>4. TypeOK'
  <2>1. disk' \in [{Cur, User} -> (SUBSET (Rules \cup {Garbage})) \cup {NoFile}]
    BY <1>2 DEF TypeOK
  <2>2. bf_sys_trace_level' \in [Modules -> TraceLevels] BY LogAssumption DEF Crash
  <2>3. opened' \in BOOLEAN /\ torn' \in BOOLEAN BY Zenon DEF Crash, TypeOK
  <2>4. solo' = NoFile BY DEF Crash
  <2> QED BY <1>1, <2>1, <2>2, <2>3, <2>4 DEF TypeOK
<1>5. InitAlone' BY <1>1 DEF InitAlone
<1>6. FileInUse' BY <1>1, <1>3 DEF FileInUse, Setting
<1>7. Settled' BY <1>1 DEF Settled
<1>8. RulesKept'
  <2>1. ~torn' => ~torn /\ (disk'[Cur] = disk[Cur] \/ disk'[Cur] = disk[User])
    BY DEF Crash
  <2> QED BY <1>1, <1>3, <2>1 DEF RulesKept
<1> QED BY <1>4, <1>5, <1>6, <1>7, <1>8

(* IInv holds in every reachable state, for any threads, modules and rules. *)
THEOREM Invariance == Spec => []IInv
<1>1. Init => IInv BY InvariantHoldsInitially
<1>2. IInv /\ [Next]_vars => IInv'
  <2> SUFFICES ASSUME IInv, [Next]_vars PROVE IInv' OBVIOUS
  <2>1. CASE OpenOrClose BY <2>1, InitStep, OtherStep DEF OpenOrClose
  <2>2. CASE TraceLevelSet BY <2>2, OtherStep
  <2>3. CASE Crash BY <2>3, CrashStep
  <2>4. ASSUME NEW t \in Threads, Set(t) PROVE IInv'
    BY <2>4, SetCallStep, CommandStep, FileStep, ReloadStep DEF Set
  <2>5. CASE UNCHANGED vars
    <3>1. UNCHANGED <<zlog_cur_log_file, disk, conf, bf_sys_trace_level, opened,
                      pc, arg, seen, solo, torn>>
      BY <2>5 DEF vars, files, levels, calls
    <3> QED BY <3>1 DEF IInv, TypeOK, InitAlone, FileInUse, Settled, RulesKept,
                        Opening, Setting, ReadsNext, NextStart
  <2> QED BY <2>1, <2>2, <2>3, <2>4, <2>5 DEF Next
<1> QED BY <1>1, <1>2, PTL DEF Spec

-----------------------------------------------------------------------------
(* The types: what zlog works by is always rules, though the copy may end  *)
(* in the middle of a line, and the same of what sed writes.               *)
THEOREM TypeCorrectness == Spec => []TypeOK
<1>1. IInv => TypeOK BY DEF IInv
<1> QED BY <1>1, Invariance, PTL

(* Between calls, what is loaded is what the next process will load. *)
THEOREM LevelsOutliveTheProcess == Spec => []NextStartLoadsTheSame
<1>1. IInv => NextStartLoadsTheSame BY DEF IInv, Settled, NextStartLoadsTheSame, Quiet
<1> QED BY <1>1, Invariance, PTL

(* Whatever calls edit the file at once, every module the user sent to an  *)
(* output is still sent there.                                             *)
THEOREM TheUsersRulesSurvive == Spec => []UserRulesSurvive
<1>1. IInv => UserRulesSurvive BY DEF IInv, RulesKept, UserRulesSurvive
<1> QED BY <1>1, Invariance, PTL

-----------------------------------------------------------------------------
(* What a call that meets no other makes of the file it finds, if name is  *)
(* the name of the file.                                                   *)

Edits(file, a) == a.out = "syslog" \/ Greps(file, a)

Result(file, a, name) ==
  IF a.out = "syslog" THEN Edited(file, a) \cup (IF Fits(name) THEN {a} ELSE {})
  ELSE IF Greps(file, a) THEN Edited(file, a)
  ELSE IF a.out = "stdout" THEN file \cup {a} ELSE file

(* How far a call has come that found the file solo and met no other. *)
HasCome(t) ==
  LET file == disk[zlog_cur_log_file]
      a    == arg[t]
  IN  /\ pc[t] = "grep"   => file = solo /\ a.out # "syslog"
      /\ pc[t] = "sed"    => file = solo /\ Edits(solo, a)
      /\ pc[t] = "rename" => file = solo /\ Edits(solo, a) /\ seen[t] = Edited(solo, a)
      /\ pc[t] = "append" => IF a.out = "syslog" THEN file = Edited(solo, a)
                             ELSE file = solo /\ a.out = "stdout" /\ ~Greps(solo, a)
      /\ pc[t] = "reload" => file = Result(solo, a, zlog_cur_log_file)

(* A call that has met no other is the only one there is. *)
SoloFits ==
  solo # NoFile =>
    \E t \in Threads : /\ Setting(t) /\ HasCome(t)
                       /\ \A u \in Threads \ {t} : pc[u] = "idle"

(* The argument of a call that begins, and where its commands begin. *)
LEMMA CallBegins ==
  ASSUME IInv, NEW t \in Threads, LevelSet(t) \/ SyslogLevelSet(t)
  PROVE  \E a \in Requests, first \in {"grep", "sed", "reload"} :
           /\ SetCall(t, a, first)
           /\ first = "sed" => a.out = "syslog"
           /\ first = "grep" => a.out # "syslog"
<1>1. CASE LevelSet(t)
  <2>1. PICK s \in Settings, first \in {"grep", "reload"} :
          SetCall(t, [mod |-> s[1], out |-> s[2], level |-> CfgLevel[s[3]]], first)
    BY <1>1 DEF LevelSet
  <2>2. s[2] # "syslog" BY LogAssumption
  <2> QED BY <2>1, <2>2, SettingsAreRequests
<1>2. CASE SyslogLevelSet(t) BY <1>2, SettingsAreRequests DEF SyslogLevelSet
<1> QED BY <1>1, <1>2

LEMMA SetCallFits ==
  ASSUME IInv, NEW t \in Threads, LevelSet(t) \/ SyslogLevelSet(t)
  PROVE  SoloFits'
<1>1. PICK a \in Requests, first \in {"grep", "sed", "reload"} :
        /\ SetCall(t, a, first)
        /\ first = "sed" => a.out = "syslog"
        /\ first = "grep" => a.out # "syslog"
  BY CallBegins
<1> SUFFICES ASSUME solo' # NoFile
             PROVE  /\ Setting(t)' /\ HasCome(t)'
                    /\ \A u \in Threads \ {t} : pc'[u] = "idle"
  BY DEF SoloFits
<1>2. /\ Quiet /\ first # "reload" /\ solo' = disk[zlog_cur_log_file]
      /\ pc' = [pc EXCEPT ![t] = first] /\ arg' = [arg EXCEPT ![t] = a]
      /\ UNCHANGED <<zlog_cur_log_file, disk>>
  BY <1>1 DEF SetCall, Goto, files
<1>3. pc'[t] = first /\ arg'[t] = a /\ \A u \in Threads \ {t} : pc'[u] = "idle"
  BY <1>2 DEF IInv, TypeOK, Quiet
<1> QED BY <1>1, <1>2, <1>3 DEF Setting, HasCome, Edits

(* Each command of the call does its part. *)
LEMMA CommandFits ==
  ASSUME IInv, SoloFits, NEW t \in Threads,
         Grep(t) \/ Sed(t) \/ SedFails(t) \/ Rename(t) \/ Append(t)
  PROVE  SoloFits'
<1> SUFFICES ASSUME solo' # NoFile
             PROVE  /\ Setting(t)' /\ HasCome(t)'
                    /\ \A u \in Threads \ {t} : pc'[u] = "idle"
  BY DEF SoloFits
<1>1. /\ ~SedFails(t) /\ UNCHANGED <<solo, zlog_cur_log_file, arg>>
  BY DEF Grep, Sed, SedFails, Rename, Append, files
<1>2. HasCome(t) /\ \A u \in Threads \ {t} : pc[u] = "idle"
  BY <1>1 DEF SoloFits, Grep, Sed, Rename, Append, Goto
<1>3. zlog_cur_log_file \in {Cur, User}
  <2>1. Setting(t) BY <1>1 DEF Setting, Grep, Sed, Rename, Append, Goto
  <2> QED BY <2>1, SettingFacts
<1>4. \A u \in Threads \ {t} : pc'[u] = "idle"
  BY <1>1, <1>2 DEF Grep, Sed, Rename, Append, Goto, IInv, TypeOK
<1>5. CASE Grep(t)
  <2>1. pc[t] = "grep" /\ UNCHANGED <<disk, seen>> BY <1>5 DEF Grep, Goto, files
  <2>2. disk[zlog_cur_log_file] = solo /\ arg[t].out # "syslog" BY <1>2, <2>1 DEF HasCome
  <2>3. pc'[t] = IF Greps(solo, arg[t]) THEN "sed" ELSE Otherwise(arg[t])
    BY <1>5, <2>2 DEF Grep, Goto, IInv, TypeOK
  <2> QED BY <1>1, <1>4, <2>1, <2>2, <2>3 DEF Setting, HasCome, Otherwise, Edits, Result
<1>6. CASE Sed(t)
  <2>1. pc[t] = "sed" /\ UNCHANGED disk BY <1>6 DEF Sed, Goto, files
  <2>2. disk[zlog_cur_log_file] = solo /\ Edits(solo, arg[t]) BY <1>2, <2>1 DEF HasCome
  <2>3. pc'[t] = "rename" /\ seen'[t] = Edited(solo, arg[t])
    BY <1>6, <2>2 DEF Sed, Goto, IInv, TypeOK
  <2> QED BY <1>1, <1>4, <2>1, <2>2, <2>3 DEF Setting, HasCome
<1>7. CASE Rename(t)
  <2>1. pc[t] = "rename" BY <1>7 DEF Rename, Goto
  <2>2. Edits(solo, arg[t]) /\ seen[t] = Edited(solo, arg[t]) BY <1>2, <2>1 DEF HasCome
  <2>3. /\ pc'[t] = IF arg[t].out = "syslog" THEN "append" ELSE "reload"
        /\ disk'[zlog_cur_log_file] = Edited(solo, arg[t])
    BY <1>3, <1>7, <2>2 DEF Rename, Goto, IInv, TypeOK
  <2> QED BY <1>1, <1>4, <2>2, <2>3 DEF Setting, HasCome, Edits, Result
<1>8. CASE Append(t)
  <2>1. pc[t] = "append" /\ pc'[t] = "reload" BY <1>8 DEF Append, Goto, IInv, TypeOK
  <2>2. disk'[zlog_cur_log_file] =
          IF arg[t].out = "syslog" /\ ~Fits(zlog_cur_log_file)
            THEN disk[zlog_cur_log_file] ELSE disk[zlog_cur_log_file] \cup {arg[t]}
    BY <1>3, <1>8 DEF Append, IInv, TypeOK
  <2>3. disk'[zlog_cur_log_file] = Result(solo, arg[t], zlog_cur_log_file)
    BY <1>2, <2>1, <2>2 DEF HasCome, Result
  <2> QED BY <1>1, <1>4, <2>1, <2>3 DEF Setting, HasCome
<1> QED BY <1>1, <1>5, <1>6, <1>7, <1>8

(* SoloFits holds in every reachable state. *)
LEMMA SoloInvariance == Spec => []SoloFits
<1>1. Init => SoloFits BY DEF Init, SoloFits
<1>2. IInv /\ SoloFits /\ [Next]_vars => SoloFits'
  <2> SUFFICES ASSUME IInv, SoloFits, [Next]_vars PROVE SoloFits' OBVIOUS
  <2>1. CASE OpenOrClose
    <3>1. solo' = solo BY <2>1 DEF OpenOrClose, Close, InitCall, Copy, CopyFails,
                                  CopyGivenUp, ZlogInit
    <3>2. solo = NoFile
      <4>1. CASE Close BY <4>1 DEF Close, Quiet, SoloFits, Setting
      <4>2. ASSUME NEW t \in Threads,
                   InitCall(t) \/ Copy(t) \/ CopyFails(t) \/ CopyGivenUp(t) \/ ZlogInit(t)
            PROVE  solo = NoFile
        <5>1. \A u \in Threads : ~Setting(u)
          BY <4>2 DEF InitCall, Copy, CopyFails, CopyGivenUp, ZlogInit, Goto, Quiet,
                      Setting, IInv, InitAlone
        <5> QED BY <5>1 DEF SoloFits
      <4> QED BY <2>1, <4>1, <4>2 DEF OpenOrClose
    <3> QED BY <3>1, <3>2 DEF SoloFits
  <2>2. CASE TraceLevelSet
    <3>1. UNCHANGED <<zlog_cur_log_file, disk, pc, arg, seen, solo>>
      BY <2>2 DEF TraceLevelSet, files, calls
    <3> QED BY <3>1 DEF SoloFits, Setting, HasCome
  <2>3. CASE Crash BY <2>3 DEF Crash, SoloFits
  <2>4. ASSUME NEW t \in Threads, Set(t) PROVE SoloFits'
    <3>1. CASE Reload(t) BY <3>1 DEF Reload, SoloFits
    <3> QED BY <2>4, <3>1, SetCallFits, CommandFits DEF Set
  <2>5. CASE UNCHANGED vars
    <3>1. UNCHANGED <<zlog_cur_log_file, disk, pc, arg, seen, solo>>
      BY <2>5 DEF vars, files, calls
    <3> QED BY <3>1 DEF SoloFits, Setting, HasCome
  <2> QED BY <2>1, <2>2, <2>3, <2>4, <2>5 DEF Next
<1> QED BY <1>1, <1>2, Invariance, PTL DEF Spec

-----------------------------------------------------------------------------
(* What the call makes of the file gives the module its level there, or    *)
(* the file has no rule to edit, or the command is cut short.              *)

(* The rules to the output that decide about a module the call is for.     *)
LEMMA ResultDecides ==
  ASSUME NEW file \in SUBSET Rules, NEW a \in Requests, NEW name,
         ~(a.out = "file" /\ ~\E r \in file : r.out = "file" /\ Matches(a.mod, r)),
         ~(a.out = "syslog" /\ ~Fits(name))
  PROVE  /\ a \in Result(file, a, name)
         /\ \A r \in Result(file, a, name), m \in Modules :
              r.out = a.out /\ a.mod \in {m, "*"} /\ r.mod \in {m, "*"}
                => r = a \/ r \in ForAll(Result(file, a, name), a)
<1>1. "*" \notin Modules /\ \A m \in Modules : Longer[m] \subseteq Modules
  BY LogAssumption
<1>2. CASE a.out = "syslog" BY <1>2 DEF Result, Edited
<1>3. CASE a.out # "syslog" /\ Greps(file, a)
  <2>1. a.mod \in Modules /\ a.mod # "*" BY <1>1, <1>3 DEF Requests
  <2>2. PICK r \in file : r.out = a.out /\ Matches(a.mod, r)
    BY <1>3 DEF Greps, Requests, Rules, Outputs
  <2>3. Result(file, a, name) = Edited(file, a) BY <1>3 DEF Result
  <2>4. a \in Edited(file, a) BY <1>3, <2>2 DEF Edited
  <2>5. ASSUME NEW q \in Edited(file, a), q.out = a.out, q.mod = a.mod PROVE q = a
    BY <1>3, <2>5 DEF Edited, Matches
  <2> QED BY <2>1, <2>3, <2>4, <2>5 DEF ForAll
<1>4. CASE a.out # "syslog" /\ ~Greps(file, a)
  <2>1. a.mod \in Modules /\ a.mod # "*" BY <1>1, <1>4 DEF Requests
  <2>2. a.out = "stdout"
    <3>1. \A r \in file : Matches(a.mod, r) => r.mod # "*" BY <1>1, <2>1 DEF Matches
    <3> QED BY <1>4, <3>1 DEF Greps, Requests, Rules, Outputs
  <2>3. Result(file, a, name) = file \cup {a} BY <1>4, <2>2 DEF Result
  <2>4. \A q \in file : q.out = a.out => q.mod # a.mod
    BY <1>4, <2>1, <2>2 DEF Greps, Matches
  <2> QED BY <2>1, <2>3, <2>4 DEF ForAll
<1> QED BY <1>2, <1>3, <1>4

LEMMA ResultGivesLevel ==
  ASSUME NEW file \in SUBSET Rules, NEW a \in Requests, NEW name,
         ~(a.out = "file" /\ ~\E r \in file : r.out = "file" /\ Matches(a.mod, r)),
         ~(a.out = "syslog" /\ ~Fits(name))
  PROVE  /\ LevelIs(Result(file, a, name), a)
         /\ \A on \in LevelsOn(a) : LogsTo(Result(file, a, name), on[2], a.out, on[1])
<1> DEFINE c == Result(file, a, name)
<1>1. a \in c /\ \A r \in c, m \in Modules :
                  r.out = a.out /\ a.mod \in {m, "*"} /\ r.mod \in {m, "*"}
                    => r = a \/ r \in ForAll(c, a)
  BY ResultDecides
<1> HIDE DEF c
<1>2. \A l \in 1 .. 5 : ZlogLevel(l) = CfgLevel[l] BY DEF ZlogLevel, CfgLevel
<1>3. \A on \in LevelsOn(a) : LogsTo(c, on[2], a.out, on[1])
  BY <1>1, <1>2 DEF LevelsOn, LogsTo
<1>4. ASSUME NEW l \in 1 .. 5, NEW m \in Modules, a.mod \in {m, "*"}
      PROVE  LogsTo(c, m, a.out, l)
               <=> <<l, m>> \in LevelsOn(a) \/ LogsTo(ForAll(c, a), m, a.out, l)
  <2>1. <<l, m>> \in LevelsOn(a) <=> CfgLevel[l] >= a.level BY <1>4 DEF LevelsOn
  <2>2. <<l, m>> \in LevelsOn(a) => LogsTo(c, m, a.out, l) BY <1>3
  <2>3. LogsTo(ForAll(c, a), m, a.out, l) => LogsTo(c, m, a.out, l) BY DEF ForAll, LogsTo
  <2>4. ASSUME LogsTo(c, m, a.out, l)
        PROVE  CfgLevel[l] >= a.level \/ LogsTo(ForAll(c, a), m, a.out, l)
    <3>1. PICK r \in c : r.mod \in {m, "*"} /\ r.out = a.out /\ ZlogLevel(l) >= r.level
      BY <2>4 DEF LogsTo
    <3>2. r = a \/ r \in ForAll(c, a) BY <1>1, <1>4, <3>1
    <3> QED BY <1>2, <3>1, <3>2 DEF LogsTo
  <2> QED BY <2>1, <2>2, <2>3, <2>4
<1> QED BY <1>3, <1>4 DEF LevelIs, c

(* The rules the call is not about stay as they are. *)
LEMMA ResultLeavesOthers ==
  ASSUME NEW file \in SUBSET Rules, NEW a \in Requests, NEW name
  PROVE  Others(Result(file, a, name), a) = Others(file, a)
<1>1. a.out # "syslog" => a.mod # "*" /\ Matches(a.mod, a)
  BY LogAssumption DEF Requests, Matches
<1>2. CASE a.out = "syslog" BY <1>2 DEF Others, Result, Edited
<1>3. CASE a.out # "syslog"
  <2> DEFINE about(r) == r.out = a.out /\ Matches(a.mod, r)
             c        == Result(file, a, name)
  <2>1. /\ \A r \in file : ~about(r) => r \in c
        /\ \A r \in c : r = a \/ r \in file
    BY <1>3 DEF Result, Edited
  <2>2. about(a) /\ a.mod # "*" BY <1>1, <1>3
  <2>3. \A r \in file : about(r) => r.mod # "*"
    BY <1>3, LogAssumption DEF Matches, Requests
  <2> HIDE DEF c
  <2>4. \A r : r \in c /\ (~about(r) \/ r.mod = "*")
               <=> r \in file /\ (~about(r) \/ r.mod = "*")
    <3> HIDE DEF about
    <3> QED BY <2>1, <2>2, <2>3
  <2>5. \A f : Others(f, a) = {r \in f : ~about(r) \/ r.mod = "*"}
    <3> TAKE f
    <3>1. \A r : (r.out # a.out \/ r.mod = "*" \/ ~Matches(a.mod, r))
                  <=> (~about(r) \/ r.mod = "*")
      OBVIOUS
    <3> HIDE DEF about
    <3> QED BY <1>3, <3>1 DEF Others
  <2> HIDE DEF about
  <2>6. Others(c, a) = Others(file, a) BY <2>4, <2>5
  <2> QED BY <2>6 DEF c
<1> QED BY <1>2, <1>3

(* If no name goes on after the module's, it touches no other's rules. *)
LEMMA ResultLeavesModules ==
  ASSUME NEW file \in SUBSET Rules, NEW a \in Requests, NEW name,
         a.out # "syslog", Longer[a.mod] = {}
  PROVE  {r \in Result(file, a, name) : r.mod # a.mod} = {r \in file : r.mod # a.mod}
<1>1. \A r : Matches(a.mod, r) <=> r.mod = a.mod BY DEF Matches
<1>2. \A r : r \in Result(file, a, name) /\ r.mod # a.mod <=> r \in file /\ r.mod # a.mod
  BY <1>1 DEF Result, Edited
<1> QED BY <1>2

(* A call that returns, and met no other, has made of the file what it     *)
(* should, and zlog works by that.                                         *)
LEMMA SoloReturn ==
  ASSUME IInv, SoloFits, Next, NEW t \in Threads, Returns(t), solo # NoFile
  PROVE  /\ solo \in SUBSET Rules /\ arg[t] \in Requests
         /\ conf' = Result(solo, arg[t], zlog_cur_log_file)
<1>1. pc[t] = "reload" /\ Setting(t) BY DEF Returns, Setting
<1>2. HasCome(t) BY <1>1 DEF SoloFits, Setting
<1>3. disk[zlog_cur_log_file] = Result(solo, arg[t], zlog_cur_log_file)
  BY <1>1, <1>2 DEF HasCome
<1>4. arg[t] \in Requests /\ disk[zlog_cur_log_file] \in SUBSET Rules
  BY <1>1, SettingFacts
<1>5. Reload(t)
  <2>1. ~OpenOrClose
    BY <1>1, SettingFacts DEF OpenOrClose, Close, InitCall, Copy, CopyFails, CopyGivenUp,
                              ZlogInit, Goto, Quiet, Opening
  <2>2. ~TraceLevelSet BY <1>1 DEF TraceLevelSet, calls, Returns
  <2>3. ~Crash BY DEF Crash, Returns
  <2>4. PICK u \in Threads : Set(u) BY <2>1, <2>2, <2>3 DEF Next
  <2>5. u = t
    <3>1. \E x : pc' = [pc EXCEPT ![u] = x]
      BY <2>4 DEF Set, LevelSet, SyslogLevelSet, SetCall, Grep, Sed, SedFails, Rename,
                  Append, Reload, Goto
    <3> QED BY <1>1, <3>1 DEF Returns, IInv, TypeOK
  <2> QED
    BY <1>1, <2>4, <2>5 DEF Set, LevelSet, SyslogLevelSet, SetCall, Grep, Sed, SedFails,
                            Rename, Append, Goto
<1>6. conf' = disk[zlog_cur_log_file]
  BY <1>4, <1>5, NoFileIsNone, LogAssumption DEF Reload, Valid
<1>7. solo \in SUBSET Rules BY DEF IInv, TypeOK
<1> QED BY <1>3, <1>4, <1>6, <1>7

-----------------------------------------------------------------------------
(* A call that meets no other, and whose commands run, has the effect that *)
(* was asked for, for any module, output, level and file.                  *)
THEOREM ACallAloneTakesEffect == Spec => SoloCallTakesEffect
<1>1. IInv /\ SoloFits /\ [Next]_vars =>
        [\A t \in Threads :
           Returns(t) /\ solo # NoFile
             => LET a == arg[t] IN
                /\ \/ LevelIs(conf', a) /\ \A on \in LevelsOn(a) : IsLogEnabled(on[2], on[1])'
                   \/ a.out = "file" /\ ~\E r \in solo : r.out = "file" /\ Matches(a.mod, r)
                   \/ a.out = "syslog" /\ ~Fits(zlog_cur_log_file)
                /\ Others(conf', a) = Others(solo, a)]_vars
  <2> SUFFICES ASSUME IInv, SoloFits, Next, NEW t \in Threads, Returns(t), solo # NoFile
               PROVE  /\ \/ /\ LevelIs(conf', arg[t])
                            /\ \A on \in LevelsOn(arg[t]) : IsLogEnabled(on[2], on[1])'
                         \/ /\ arg[t].out = "file"
                            /\ ~\E r \in solo : r.out = "file" /\ Matches(arg[t].mod, r)
                         \/ arg[t].out = "syslog" /\ ~Fits(zlog_cur_log_file)
                      /\ Others(conf', arg[t]) = Others(solo, arg[t])
    OBVIOUS
  <2>1. /\ solo \in SUBSET Rules /\ arg[t] \in Requests
        /\ conf' = Result(solo, arg[t], zlog_cur_log_file)
    BY SoloReturn
  <2>2. Others(conf', arg[t]) = Others(solo, arg[t]) BY <2>1, ResultLeavesOthers
  <2>3. ASSUME ~(/\ arg[t].out = "file"
                 /\ ~\E r \in solo : r.out = "file" /\ Matches(arg[t].mod, r)),
               ~(arg[t].out = "syslog" /\ ~Fits(zlog_cur_log_file))
        PROVE  /\ LevelIs(conf', arg[t])
               /\ \A on \in LevelsOn(arg[t]) : IsLogEnabled(on[2], on[1])'
    <3>1. /\ LevelIs(conf', arg[t])
          /\ \A on \in LevelsOn(arg[t]) : LogsTo(conf', on[2], arg[t].out, on[1])
      BY <2>1, <2>3, ResultGivesLevel
    <3>2. arg[t].out \in Outputs BY <2>1 DEF Requests, Rules
    <3>3. conf' # NoFile BY DEF Returns
    <3>4. ASSUME NEW on \in LevelsOn(arg[t]) PROVE IsLogEnabled(on[2], on[1])'
      <4>1. WouldLog(conf', on[2], on[1]) BY <3>1, <3>2, <3>3 DEF WouldLog
      <4> QED BY <4>1 DEF IsLogEnabled
    <3> QED BY <3>1, <3>4
  <2> QED BY <2>2, <2>3
<1> QED BY <1>1, Invariance, SoloInvariance, PTL DEF Spec, SoloCallTakesEffect

(* bf_sys_log_level_set touches the rules of another module only because   *)
(* of a name that goes on after the module's: without such names, a call   *)
(* that meets no other leaves those rules alone.                           *)
THEOREM OnlyLongerNamesAreTouched ==
  ASSUME \A m \in Modules : Longer[m] = {}
  PROVE  Spec => OnlyItsModule
<1>1. IInv /\ SoloFits /\ [Next]_vars =>
        [\A t \in Threads :
           Returns(t) /\ solo # NoFile /\ arg[t].out # "syslog"
             => {r \in conf' : r.mod # arg[t].mod} = {r \in solo : r.mod # arg[t].mod}]_vars
  <2> SUFFICES ASSUME IInv, SoloFits, Next, NEW t \in Threads, Returns(t),
                      solo # NoFile, arg[t].out # "syslog"
               PROVE  {r \in conf' : r.mod # arg[t].mod} = {r \in solo : r.mod # arg[t].mod}
    OBVIOUS
  <2>1. /\ solo \in SUBSET Rules /\ arg[t] \in Requests
        /\ conf' = Result(solo, arg[t], zlog_cur_log_file)
    BY SoloReturn
  <2>2. Longer[arg[t].mod] = {} BY <2>1 DEF Requests
  <2> QED BY <2>1, <2>2, ResultLeavesModules
<1> QED BY <1>1, Invariance, SoloInvariance, PTL DEF Spec, OnlyItsModule
=============================================================================
