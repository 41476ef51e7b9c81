----------------------------- MODULE Installer -----------------------------
(***************************************************************************)
(* `arbiter init` and `arbiter uninstall` (cmd/arbiter/init.go,            *)
(* uninstall.go).  init scaffolds the project's rules.md and policy.yaml   *)
(* and merges arbiter's hooks and its MCP server into the user's           *)
(* settings.json; uninstall takes them out again.  Several commands may    *)
(* run at once, the user and Claude Code write the same files, and any     *)
(* command may die between two of its steps.                               *)
(*                                                                         *)
(* Abstraction.  settings.json is the hooks of each event, the MCP servers *)
(* and `rest`, a number that stands for everything else in it; an event    *)
(* without hooks and one with an empty list are the same.  A hook entry is *)
(* the set of its commands.  os.WriteFile is two steps, for it truncates   *)
(* the file before it writes; what a write over somebody else's content    *)
(* leaves depends on the two lengths.  Settings have the shape that Claude *)
(* Code documents; of another (hooks that are no object, an event that is  *)
(* no list) the commands drop what they do not expect.                     *)
(***************************************************************************)
EXTENDS Naturals, Sequences, FiniteSets

CONSTANTS
  Commands,      (* invocations of arbiter: [op, force, hooks, mcp, dryRun]   *)
  Requests,      (* the command lines they may have                          *)
  Events,        (* hook events                                              *)
  Arbiter,       (* a command containing "arbiter hook "; the server's key   *)
  Mine,          (* a command, a server and a text of the user's             *)
  MaxSecond,     (* bound: seconds                                           *)
  MaxSaves       (* bound: saves of a file by the user                        *)

ASSUME InstallerAssumption ==
  /\ Arbiter # Mine
  /\ MaxSecond \in Nat /\ MaxSaves \in Nat
  /\ Requests # {}
  /\ Requests \subseteq [op: {"init", "uninstall"}, force: BOOLEAN, hooks: BOOLEAN,
                         mcp: BOOLEAN, dryRun: BOOLEAN]

Docs == {"rules", "policy"}
Seconds == 0..MaxSecond

VARIABLES
  file,         (* settings.json                                             *)
  backups,      (* settings.json.arbiter-backup-<second>                     *)
  project,      (* per document: "absent", "empty", "torn", "mine" or        *)
                (* "template"                                                *)
  second,
  pc, req, doc, (* per command: where it is, its flags, the document at hand *)
  raw,          (* per command: what it read                                 *)
  slot,         (* per command: the second in its backup's name              *)
  saves,        (* saves by the user so far, for the bound                   *)
  saved,        (* history: the settings the user saved last                 *)
  overtaken,    (* history: that save fell between a command's read and write*)
  collided,     (* history: a backup since then took the name of another     *)
  alone         (* history: per command: nobody else has run since it started*)

proc == <<pc, req, doc, raw, slot>>
vars == <<file, backups, project, second, proc, saves, saved, overtaken, collided, alone>>

-----------------------------------------------------------------------------
(* Settings *)

Settings == [hooks: [Events -> Seq(SUBSET {Arbiter, Mine})],
             servers: SUBSET {Arbiter, Mine}, rest: Nat]

Blank == [hooks |-> [e \in Events |-> <<>>], servers |-> {}, rest |-> 0]

Whole(s) == [kind |-> "whole", data |-> s]
Absent == [kind |-> "absent", data |-> Blank]
Empty == [kind |-> "empty", data |-> Blank]
Torn == [kind |-> "torn", data |-> Blank]
Contents == [kind: {"absent", "empty", "torn", "whole"}, data: Settings]

(* What is in a file after out has been written at its beginning. *)
WrittenOver(old, out) == IF old = Empty THEN {Whole(out)} ELSE {Whole(out), Torn}

ArbiterEntries(list) == {i \in DOMAIN list : Arbiter \in list[i]}

(* The entries without arbiter's, in their order. *)
Others(list) ==
  LET filtered[n \in 0..Len(list)] ==
        IF n = 0 THEN <<>>
        ELSE IF Arbiter \in list[n] THEN filtered[n - 1] ELSE Append(filtered[n - 1], list[n])
  IN  filtered[Len(list)]

(* appendHookOnce without its check: a mutant. *)
AppendHook(list) == Append(list, {Arbiter})

AppendHookOnce(list) ==
  IF ArbiterEntries(list) # {} THEN list ELSE Append(list, {Arbiter})

Merge(s, mcp) ==
  [s EXCEPT !.hooks = [e \in Events |-> AppendHookOnce(s.hooks[e])],
            !.servers = IF mcp THEN @ \cup {Arbiter} ELSE @]

(* Uninstall that leaves the MCP server: a mutant of Strip. *)
StripHooks(s) == [s EXCEPT !.hooks = [e \in Events |-> Others(s.hooks[e])]]

(* An entry goes as a whole, with the user's commands that share it. *)
Strip(s) ==
  [s EXCEPT !.hooks = [e \in Events |-> Others(s.hooks[e])],
            !.servers = @ \ {Arbiter}]

HasArbiter(s) == Arbiter \in s.servers \/ \E e \in Events : ArbiterEntries(s.hooks[e]) # {}

Out(c) == IF req[c].op = "init" THEN Merge(raw[c].data, req[c].mcp) ELSE Strip(raw[c].data)

-----------------------------------------------------------------------------
Running(c) == pc[c] \notin {"idle", "done", "failed"}
HasRead(c) == pc[c] \in {"backup", "fillBackup", "open", "fill"}

Goto(c, where) == pc' = [pc EXCEPT ![c] = where]

unchangedSettings == <<file, backups, slot, raw, collided>>
outside == <<second, req, saves, saved, overtaken, alone>>

-----------------------------------------------------------------------------
(* A command starts: another one in flight means neither is alone. *)
Start(c) ==
  /\ pc[c] = "idle"
  /\ \E r \in Requests :
       /\ req' = [req EXCEPT ![c] = r]
       /\ Goto(c, IF r.op = "init" THEN "look" ELSE "read")
  /\ alone' = [d \in Commands |->
                 IF d = c THEN \A other \in Commands : ~Running(other)
                 ELSE alone[d] /\ ~Running(d)]
  /\ UNCHANGED <<file, backups, project, second, doc, raw, slot, saves, saved, overtaken,
                 collided>>

(* init that merges into what it has not read: a mutant of AfterDoc. *)
MergeUnread(c) ==
  IF doc[c] = "rules" THEN doc' = [doc EXCEPT ![c] = "policy"] /\ Goto(c, "look")
  ELSE doc' = doc /\ Goto(c, IF req[c].hooks THEN "merge" ELSE "done")

(* scaffoldArbiterDirWithBody: rules.md first, then policy.yaml. *)
AfterDoc(c) ==
  IF doc[c] = "rules" THEN doc' = [doc EXCEPT ![c] = "policy"] /\ Goto(c, "look")
  ELSE doc' = doc /\ Goto(c, IF req[c].hooks THEN "read" ELSE "done")

(* Whether writeIfMissing leaves the document at hand alone. *)
Present(c) == project[doc[c]] # "absent" /\ ~req[c].force

SkipDoc(c) ==
  /\ pc[c] = "look" /\ Present(c)
  /\ AfterDoc(c)
  /\ UNCHANGED <<unchangedSettings, project, outside>>

ToWriteDoc(c) ==
  /\ pc[c] = "look" /\ ~Present(c)
  /\ Goto(c, "openDoc")
  /\ UNCHANGED <<unchangedSettings, project, doc, outside>>

OpenDoc(c) ==
  /\ pc[c] = "openDoc"
  /\ project' = [project EXCEPT ![doc[c]] = "empty"]
  /\ Goto(c, "fillDoc")
  /\ UNCHANGED <<unchangedSettings, doc, outside>>

FillDoc(c) ==
  /\ pc[c] = "fillDoc"
  /\ project' = [project EXCEPT ![doc[c]] = "template"]
  /\ AfterDoc(c)
  /\ UNCHANGED <<unchangedSettings, outside>>

-----------------------------------------------------------------------------
(* Init that makes no backup: a mutant of InitNext. *)
InitNoBackup(content) == IF content.kind = "torn" THEN "failed" ELSE "open"

(* writeClaudeSettings: an empty file is no error and gets no backup. *)
InitNext(content) ==
  CASE content.kind = "torn" -> "failed"
    [] content.kind = "whole" -> "backup"
    [] OTHER -> "open"

(* runUninstall: nothing to remove, or a dry run, ends it without a write. *)
UninstallNext(content, dryRun) ==
  IF content.kind \in {"torn", "empty"} THEN "failed"
  ELSE IF content.kind = "absent" \/ ~HasArbiter(content.data) \/ dryRun THEN "done"
  ELSE "backup"

Read(c) ==
  /\ pc[c] = "read"
  /\ raw' = [raw EXCEPT ![c] = file]
  /\ Goto(c, IF req[c].op = "init" THEN InitNext(file) ELSE UninstallNext(file, req[c].dryRun))
  /\ UNCHANGED <<file, backups, project, doc, slot, collided, outside>>

(* The name of a backup has the second in it and nothing finer. *)
Backup(c) ==
  /\ pc[c] = "backup"
  /\ slot' = [slot EXCEPT ![c] = second]
  /\ backups' = [backups EXCEPT ![second] = Empty]
  /\ collided' = (collided \/ backups[second] # Absent)
  /\ Goto(c, "fillBackup")
  /\ UNCHANGED <<file, project, doc, raw, outside>>

FillBackup(c) ==
  /\ pc[c] = "fillBackup"
  /\ \E content \in WrittenOver(backups[slot[c]], raw[c].data) :
       backups' = [backups EXCEPT ![slot[c]] = content]
  /\ Goto(c, "open")
  /\ UNCHANGED <<file, project, doc, raw, slot, collided, outside>>

Open(c) ==
  /\ pc[c] = "open"
  /\ file' = Empty
  /\ Goto(c, "fill")
  /\ UNCHANGED <<backups, project, doc, raw, slot, collided, outside>>

Fill(c) ==
  /\ pc[c] = "fill"
  /\ file' \in WrittenOver(file, Out(c))
  /\ Goto(c, "done")
  /\ UNCHANGED <<backups, project, doc, raw, slot, collided, outside>>

-----------------------------------------------------------------------------
(* A command is killed, or a write of its fails after a part.  What it had  *)
(* opened stays as it is, or half written.                                  *)
Die(c) ==
  /\ Running(c)
  /\ Goto(c, "failed")
  /\ file' = file \/ (pc[c] = "fill" /\ file' = Torn)
  /\ \/ backups' = backups
     \/ pc[c] = "fillBackup" /\ backups' = [backups EXCEPT ![slot[c]] = Torn]
  /\ \/ project' = project
     \/ pc[c] = "fillDoc" /\ project' = [project EXCEPT ![doc[c]] = "torn"]
  /\ UNCHANGED <<doc, raw, slot, collided, outside>>

(* The user, or Claude Code on her behalf, changes the settings and saves   *)
(* them; what is no settings file is started anew.                          *)
UserSaves ==
  /\ saves < MaxSaves
  /\ saves' = saves + 1
  /\ LET base == IF file.kind = "whole" THEN file.data ELSE Blank
         named == [base EXCEPT !.rest = saves + 1, !.servers = @ \cup {Mine}] IN
       \E e \in Events :
         \/ saved' = named
         \/ saved' = [named EXCEPT !.hooks[e] = Append(@, {Mine})]
         \/ \E i \in DOMAIN named.hooks[e] :
              saved' = [named EXCEPT !.hooks[e][i] = @ \cup {Mine}]
  /\ file' = Whole(saved')
  /\ overtaken' = (\E c \in Commands : HasRead(c))
  /\ collided' = FALSE
  /\ alone' = [c \in Commands |-> alone[c] /\ ~Running(c)]
  /\ UNCHANGED <<backups, project, second, proc>>

UserWritesDoc(d) ==
  /\ saves < MaxSaves /\ project[d] # "mine"
  /\ saves' = saves + 1
  /\ project' = [project EXCEPT ![d] = "mine"]
  /\ alone' = [c \in Commands |-> alone[c] /\ ~Running(c)]
  /\ UNCHANGED <<file, backups, second, proc, saved, overtaken, collided>>

Tick ==
  /\ second < MaxSecond
  /\ second' = second + 1
  /\ UNCHANGED <<file, backups, project, proc, saves, saved, overtaken, collided, alone>>

-----------------------------------------------------------------------------
Init ==
  /\ saved \in {Blank, [Blank EXCEPT !.hooks = [e \in Events |-> <<{Mine}>>]]}
  /\ file \in {Absent, Whole(saved)}
  /\ file = Absent => saved = Blank
  /\ backups = [s \in Seconds |-> Absent]
  /\ project = [d \in Docs |-> "absent"]
  /\ second = 0
  /\ pc = [c \in Commands |-> "idle"]
  /\ req = [c \in Commands |-> CHOOSE r \in Requests : TRUE]
  /\ doc = [c \in Commands |-> "rules"]
  /\ raw = [c \in Commands |-> Absent]
  /\ slot = [c \in Commands |-> 0]
  /\ saves = 0
  /\ overtaken = FALSE
  /\ collided = FALSE
  /\ alone = [c \in Commands |-> FALSE]

Step(c) ==
  \/ Start(c)
  \/ SkipDoc(c) \/ ToWriteDoc(c) \/ OpenDoc(c) \/ FillDoc(c)
  \/ Read(c) \/ Backup(c) \/ FillBackup(c) \/ Open(c) \/ Fill(c)
  \/ Die(c)

Next ==
  \/ \E c \in Commands : Step(c)
  \/ UserSaves
  \/ \E d \in Docs : UserWritesDoc(d)
  \/ Tick

Spec == Init /\ [][Next]_vars

-----------------------------------------------------------------------------
(* Properties *)

TypeOK ==
  /\ file \in Contents
  /\ backups \in [Seconds -> Contents]
  /\ project \in [Docs -> {"absent", "empty", "torn", "mine", "template"}]
  /\ second \in Seconds
  /\ pc \in [Commands -> {"idle", "look", "openDoc", "fillDoc", "read", "backup",
                          "fillBackup", "open", "fill", "done", "failed"}]
  /\ req \in [Commands -> Requests]
  /\ doc \in [Commands -> Docs]
  /\ raw \in [Commands -> Contents]
  /\ slot \in [Commands -> Seconds]
  /\ saves \in 0..MaxSaves
  /\ saved \in Settings
  /\ overtaken \in BOOLEAN /\ collided \in BOOLEAN
  /\ alone \in [Commands -> BOOLEAN]

(* What the user saved last is in settings.json or in a backup, as she saved *)
(* it, whichever commands ran, overlapped, failed half way or were killed.   *)
(* Two things alone can lose it: a save between a command's read and its     *)
(* write, and two backups within a second.                                   *)
UserWorkIsRecoverable ==
  \/ saved = Blank
  \/ Whole(saved) \in {file} \cup {backups[s] : s \in Seconds}
  \/ overtaken \/ collided

(* However many commands ran, and in whichever order their steps fell, no    *)
(* event runs arbiter twice.                                                 *)
HookedOnce ==
  \A e \in Events : Cardinality(ArbiterEntries(file.data.hooks[e])) <= 1

(* The user's keys, servers and hook entries, the last in their order. *)
SameForTheUser(old, new) ==
  /\ new.rest = old.rest
  /\ new.servers \ {Arbiter} = old.servers \ {Arbiter}
  /\ \A e \in Events : Others(new.hooks[e]) = Others(old.hooks[e])

Installed(s) == \A e \in Events : ArbiterEntries(s.hooks[e]) # {}

Succeeds(c) == pc[c] # "done" /\ pc'[c] = "done" /\ alone[c]

Settled(c, new) ==
  /\ new.kind = "whole" => SameForTheUser(raw'[c].data, new.data)
  /\ req[c].op = "init" /\ req[c].hooks =>
       /\ new.kind = "whole" /\ Installed(new.data)
       /\ req[c].mcp => Arbiter \in new.data.servers
  /\ req[c].op = "uninstall" =>
       IF req[c].dryRun THEN new = raw'[c]
       ELSE new.kind = "absent" \/ ~HasArbiter(new.data)

KeepsItsWord(c) ==
  /\ (req[c].op = "init" /\ ~req[c].hooks) \/ Settled(c, file')
  /\ req[c].op = "init" => \A d \in Docs :
       /\ project'[d] # "absent"
       /\ project'[d] \in {"empty", "torn"} => \E other \in Commands : pc[other] = "failed"

(* A command that ends well and met nobody on its way has done what it says, *)
(* whatever earlier commands left behind: init has hooked every event and    *)
(* registered the server, uninstall has left nothing of arbiter's, and       *)
(* neither has touched what the user keeps in entries of her own.  The       *)
(* documents are there; one that is empty or torn is left over from a        *)
(* command that died.                                                        *)
SuccessIsReal == [][\A c \in Commands : Succeeds(c) => KeepsItsWord(c)]_vars
=============================================================================
