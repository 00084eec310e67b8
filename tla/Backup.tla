------------------------------- MODULE Backup --------------------------------
(***************************************************************************)
(* The backup and restore-drill commands of AvIT-Data: several invocations *)
(* run at the same time, against the live database or a file that another  *)
(* one made, and any of them may fail or be killed at any point.           *)
(*                                                                         *)
(* An invocation copies its source into a private temporary file, then     *)
(* publishes it under its target path by two hard links: the file, then    *)
(* its manifest.  A file at a path is the record of who linked it and what *)
(* it holds; the SHA-256 of a file stands for its content.                 *)
(*                                                                         *)
(* An operator whose comment starts with "Mistake:" is no part of the      *)
(* specification: it is the operator after it with one plausible bug.      *)
(***************************************************************************)
EXTENDS Naturals

CONSTANTS
  Jobs,       \* invocations of the two commands
  Paths,      \* file paths that are used as targets, or sources
  Live,       \* the path of the live database, never a target
  None,       \* no file, no manifest, nothing copied
  MaxVersion  \* bound: changes of the live database

ASSUME BackupAssumption ==
  /\ Live \notin Paths
  /\ MaxVersion \in Nat

\* A state of the database, and whether it has its recovery_guard row.
Contents == [version : 0 .. MaxVersion, guard : BOOLEAN]

ASSUME NoneAssumption ==
  /\ None \notin Contents
  /\ None \notin [by : Jobs, content : Contents]
  /\ None \notin Paths \cup {Live}

VARIABLES
  live,    \* version of the live database
  file,    \* the files at the target paths
  mani,    \* the manifests beside them
  phase,   \* where each invocation stands
  kind,    \* "backup" or "restore"
  source,  \* the source path it was given
  target,  \* the target path it was given
  copy,    \* its temporary file
  linked,  \* published: the links it made and has not removed
  lineage  \* history: the invocations its copy has passed through, itself included

args == <<kind, source, target>>
vars == <<live, file, mani, phase, args, copy, linked, lineage>>

Phases  == {"new", "started", "verified", "copied", "target", "complete",
            "done", "cleaning", "failed", "killed"}
Running == {"started", "verified", "copied", "target", "complete"}
Entry   == [by : Jobs, content : Contents]
-----------------------------------------------------------------------------
(* Reading a source.                                                       *)

\* The manifest at path s vouches for the file at s.
Vouched(s) == s \in Paths /\ mani[s] # None /\ file[s] # None
              /\ mani[s].content = file[s].content

Readable(s) == s = Live \/ (s \in Paths /\ file[s] # None)

ContentOf(s) == IF s = Live THEN [version |-> live, guard |-> FALSE] ELSE file[s].content

Ancestry(s) == IF s = Live THEN {} ELSE lineage[file[s].by]

\* Mistake: the mark is what the command asks for, not what the source has.
MarkedAnew(c, k) == [c EXCEPT !.guard = (k = "restore")]

\* The mark of a restored copy is put into the temporary file.
Marked(c, k) == [c EXCEPT !.guard = @ \/ k = "restore"]
-----------------------------------------------------------------------------
(* One invocation.                                                         *)

Goto(i, from, to) == phase[i] = from /\ phase' = [phase EXCEPT ![i] = to]

\* Nothing may exist at the target, nor a manifest for it.
Begin(i, k, s, t) ==
  /\ Goto(i, "new", "started")
  /\ s # t /\ Readable(s)
  /\ file[t] = None /\ mani[t] = None
  /\ kind' = [kind EXCEPT ![i] = k]
  /\ source' = [source EXCEPT ![i] = s]
  /\ target' = [target EXCEPT ![i] = t]
  /\ UNCHANGED <<live, file, mani, copy, linked, lineage>>

\* A restore accepts only a complete backup.
Verify(i) ==
  /\ Goto(i, "started", "verified")
  /\ kind[i] = "restore" => Vouched(source[i])
  /\ UNCHANGED <<live, file, mani, args, copy, linked, lineage>>

\* The online backup reads one snapshot; the copy is checked and marked.
Copy(i) ==
  /\ Goto(i, "verified", "copied")
  /\ Readable(source[i])
  /\ copy' = [copy EXCEPT ![i] = Marked(ContentOf(source[i]), kind[i])]
  /\ lineage' = [lineage EXCEPT ![i] = {i} \cup Ancestry(source[i])]
  /\ UNCHANGED <<live, file, mani, args, linked>>

\* link() fails when something appeared at the target meanwhile.
LinkTarget(i) ==
  /\ Goto(i, "copied", "target")
  /\ file[target[i]] = None
  /\ file' = [file EXCEPT ![target[i]] = [by |-> i, content |-> copy[i]]]
  /\ linked' = [linked EXCEPT ![i] = @ \cup {"file"}]
  /\ UNCHANGED <<live, mani, args, copy, lineage>>

LinkManifest(i) ==
  /\ Goto(i, "target", "complete")
  /\ mani[target[i]] = None
  /\ mani' = [mani EXCEPT ![target[i]] = [by |-> i, content |-> copy[i]]]
  /\ linked' = [linked EXCEPT ![i] = @ \cup {"manifest"}]
  /\ UNCHANGED <<live, file, args, copy, lineage>>

\* Mistake: a command that could not link its manifest reports success.
FinishWithoutManifest(i) ==
  /\ phase[i] \in {"target", "complete"}
  /\ phase' = [phase EXCEPT ![i] = "done"]
  /\ UNCHANGED <<live, file, mani, args, copy, linked, lineage>>

\* Mistake: what was published is refreshed in place.
FinishRefreshed(i) ==
  /\ Goto(i, "complete", "done")
  /\ Readable(source[i])
  /\ LET c == Marked(ContentOf(source[i]), kind[i])
     IN  /\ copy' = [copy EXCEPT ![i] = c]
         /\ file' = [file EXCEPT ![target[i]].content = c]
         /\ mani' = [mani EXCEPT ![target[i]].content = c]
  /\ UNCHANGED <<live, args, linked, lineage>>

\* The deadline is looked at once more.
Finish(i) ==
  /\ Goto(i, "complete", "done")
  /\ UNCHANGED <<live, file, mani, args, copy, linked, lineage>>

\* An error or the deadline, anywhere before the end.
Fail(i) ==
  /\ phase[i] \in Running
  /\ phase' = [phase EXCEPT ![i] = "cleaning"]
  /\ UNCHANGED <<live, file, mani, args, copy, linked, lineage>>

\* The links are removed in the reverse of their order, ...
RemoveManifest(i) ==
  /\ phase[i] = "cleaning" /\ "manifest" \in linked[i]
  /\ mani' = [mani EXCEPT ![target[i]] = None]
  /\ linked' = [linked EXCEPT ![i] = @ \ {"manifest"}]
  /\ UNCHANGED <<live, file, phase, args, copy, lineage>>

\* Mistake: in the order in which they were made.
RemoveTargetFirst(i) ==
  /\ phase[i] = "cleaning" /\ "file" \in linked[i]
  /\ file' = [file EXCEPT ![target[i]] = None]
  /\ linked' = [linked EXCEPT ![i] = @ \ {"file"}]
  /\ UNCHANGED <<live, mani, phase, args, copy, lineage>>

\* Mistake: whatever is at the target is taken for one's own.
RemoveAnyTarget(i) ==
  /\ phase[i] = "cleaning" /\ "manifest" \notin linked[i]
  /\ copy[i] # None /\ file[target[i]] # None
  /\ file' = [file EXCEPT ![target[i]] = None]
  /\ linked' = [linked EXCEPT ![i] = @ \ {"file"}]
  /\ UNCHANGED <<live, mani, phase, args, copy, lineage>>

RemoveTarget(i) ==
  /\ phase[i] = "cleaning" /\ linked[i] = {"file"}
  /\ file' = [file EXCEPT ![target[i]] = None]
  /\ linked' = [linked EXCEPT ![i] = {}]
  /\ UNCHANGED <<live, mani, phase, args, copy, lineage>>

\* Mistake: the links of a failed invocation stay.
GiveUpAtOnce(i) ==
  /\ Goto(i, "cleaning", "failed")
  /\ UNCHANGED <<live, file, mani, args, copy, linked, lineage>>

\* ... then the temporary files, and the command reports its error.
GiveUp(i) ==
  /\ Goto(i, "cleaning", "failed")
  /\ linked[i] = {}
  /\ UNCHANGED <<live, file, mani, args, copy, linked, lineage>>

\* The process is killed: what is linked stays.
Kill(i) ==
  /\ phase[i] \in Running \cup {"cleaning"}
  /\ phase' = [phase EXCEPT ![i] = "killed"]
  /\ UNCHANGED <<live, file, mani, args, copy, linked, lineage>>

\* The application writes to the live database.
Write ==
  /\ live < MaxVersion
  /\ live' = live + 1
  /\ UNCHANGED <<file, mani, phase, args, copy, linked, lineage>>
-----------------------------------------------------------------------------
Init ==
  /\ live = 0
  /\ file = [t \in Paths |-> None]
  /\ mani = [t \in Paths |-> None]
  /\ phase = [i \in Jobs |-> "new"]
  /\ kind = [i \in Jobs |-> "backup"]
  /\ source = [i \in Jobs |-> None] /\ target = [i \in Jobs |-> None]
  /\ copy = [i \in Jobs |-> None]
  /\ linked = [i \in Jobs |-> {}]
  /\ lineage = [i \in Jobs |-> {}]

Step(i) ==
  \/ \E k \in {"backup", "restore"}, s \in Paths \cup {Live}, t \in Paths : Begin(i, k, s, t)
  \/ Verify(i) \/ Copy(i) \/ LinkTarget(i) \/ LinkManifest(i) \/ Finish(i)
  \/ Fail(i) \/ RemoveManifest(i) \/ RemoveTarget(i) \/ GiveUp(i) \/ Kill(i)

Next == (\E i \in Jobs : Step(i)) \/ Write

Spec == Init /\ [][Next]_vars
-----------------------------------------------------------------------------
(* Properties.                                                             *)

\* Every variable keeps its type; an invocation that started has its arguments,
\* one that copied has its copy, and no links outlive its cleaning.
TypeOK ==
  /\ live \in 0 .. MaxVersion
  /\ file \in [Paths -> Entry \cup {None}]
  /\ mani \in [Paths -> Entry \cup {None}]
  /\ phase \in [Jobs -> Phases]
  /\ kind \in [Jobs -> {"backup", "restore"}]
  /\ source \in [Jobs -> Paths \cup {Live, None}]
  /\ target \in [Jobs -> Paths \cup {None}]
  /\ copy \in [Jobs -> Contents \cup {None}]
  /\ linked \in [Jobs -> SUBSET {"file", "manifest"}]
  /\ lineage \in [Jobs -> SUBSET Jobs]
  /\ \A i \in Jobs : phase[i] # "new" => target[i] \in Paths
  /\ \A i \in Jobs : phase[i] \in {"copied", "target", "complete", "done"} => copy[i] # None
  /\ \A i \in Jobs : linked[i] # {}
       => phase[i] \in {"target", "complete", "done", "cleaning", "killed"}

\* A manifest never lies: the file it vouches for is there and is what the same
\* invocation linked, after crashes and failures of any number of invocations
\* that race for the same path.
ManifestTellsTruth ==
  \A t \in Paths : mani[t] # None => file[t] # None /\ mani[t] = file[t]

\* A command that reports an error leaves nothing of its own behind, one that
\* reports success leaves its file and its manifest.
OutcomeIsHonest ==
  \A i \in Jobs :
    /\ phase[i] = "failed" => \A t \in Paths : \A e \in {file[t], mani[t]} : e # None => e.by # i
    /\ phase[i] = "done" => LET mine == [by |-> i, content |-> copy[i]]
                            IN  file[target[i]] = mine /\ mani[target[i]] = mine

\* A step of invocation i that takes away its link, while i is failing.
Withdraws(i, link) == phase[i] = "cleaning" /\ link \in linked[i] /\ link \notin linked'[i]

\* No step replaces a file or a manifest, and the step that removes one is the
\* failing invocation's own that linked it.
OthersAreUntouched ==
  [][\A t \in Paths :
       /\ file[t] # None /\ file'[t] # file[t]
            => file'[t] = None /\ Withdraws(file[t].by, "file")
       /\ mani[t] # None /\ mani'[t] # mani[t]
            => mani'[t] = None /\ Withdraws(mani[t].by, "manifest")]_vars

\* Quarantine is hereditary: through any chain of commands that copied from each
\* other, and whatever became of the files in between, a published file has the
\* recovery guard exactly if one command of the chain was a restore.
QuarantineIsInherited ==
  \A t \in Paths : \A e \in {file[t], mani[t]} :
    e # None => (e.content.guard <=> \E j \in lineage[e.by] : kind[j] = "restore")

\* What a reader trusts at each path, and the promise about it.
Shelf == INSTANCE BackupShelf WITH
           Nothing <- None,
           shelf   <- [t \in Paths |-> IF Vouched(t) THEN file[t].content ELSE None]

ShelfSpec == Shelf!Spec
=============================================================================
