----------------------------- MODULE BackupProofs -----------------------------
(***************************************************************************)
(* Proofs about the backup commands: what TLC checks for three invocations *)
(* and two paths holds for any number of them.                             *)
(***************************************************************************)
EXTENDS Backup, TLAPS

\* What i links is what it copied.
Own(i) == [by |-> i, content |-> copy[i]]

\* Each invocation knows its links, ...
KnowsItsLinks(i) ==
  /\ "file" \in linked[i] => copy[i] # None /\ file[target[i]] = Own(i)
  /\ "manifest" \in linked[i] => "file" \in linked[i] /\ mani[target[i]] = Own(i)
  /\ phase[i] = "target" => linked[i] = {"file"}
  /\ phase[i] \in {"complete", "done"} => linked[i] = {"file", "manifest"}

\* ... and each link has its invocation.
LinksAreKnown(t) ==
  /\ file[t] # None => "file" \in linked[file[t].by] /\ target[file[t].by] = t
  /\ mani[t] # None => "manifest" \in linked[mani[t].by] /\ target[mani[t].by] = t

\* What a copy has passed through has been copied, and says whether it is marked.
LineageTells(i) ==
  /\ phase[i] = "new" => copy[i] = None
  /\ \A j \in lineage[i] : copy[j] # None
  /\ copy[i] # None => (copy[i].guard <=> \E j \in lineage[i] : kind[j] = "restore")

IInv ==
  /\ TypeOK
  /\ \A i \in Jobs : KnowsItsLinks(i)
  /\ \A t \in Paths : LinksAreKnown(t)
  /\ \A i \in Jobs : LineageTells(i)
-----------------------------------------------------------------------------
(* The steps, one lemma each.                                              *)

\* A step that only moves phase i from one place to another keeps everything
\* but what the phases say of the links.
LEMMA MovesKeep ==
  ASSUME BackupAssumption, NoneAssumption, IInv,
         NEW i \in Jobs, NEW to \in Phases,
         phase' = [phase EXCEPT ![i] = to],
         to \notin {"new", "copied", "target", "complete"},
         to = "done" => phase[i] = "complete",
         phase[i] # "new",
         linked[i] = {} \/ to \in {"done", "cleaning", "killed"},
         UNCHANGED <<live, file, mani, args, copy, linked, lineage>>
  PROVE  IInv'
<1>1. TypeOK'
  BY DEF IInv, TypeOK, args, KnowsItsLinks
<1>2. ASSUME NEW k \in Jobs PROVE KnowsItsLinks(k)'
  BY DEF IInv, TypeOK, args, KnowsItsLinks, Own
<1>3. ASSUME NEW t \in Paths PROVE LinksAreKnown(t)'
  BY DEF IInv, TypeOK, args, LinksAreKnown
<1>4. ASSUME NEW k \in Jobs PROVE LineageTells(k)'
  BY DEF IInv, TypeOK, args, LineageTells
<1>. QED BY <1>1, <1>2, <1>3, <1>4 DEF IInv

LEMMA BeginKeeps ==
  ASSUME BackupAssumption, NoneAssumption, IInv, NEW i \in Jobs,
         NEW k \in {"backup", "restore"}, NEW s \in Paths \cup {Live}, NEW t \in Paths,
         Begin(i, k, s, t)
  PROVE  IInv'
<1>1. TypeOK'
  BY DEF IInv, TypeOK, Begin, Goto, Phases
<1>2. ASSUME NEW j \in Jobs PROVE KnowsItsLinks(j)'
  BY DEF IInv, TypeOK, Begin, Goto, KnowsItsLinks, Own
<1>3. ASSUME NEW u \in Paths PROVE LinksAreKnown(u)'
  <2>1. linked[i] = {}
    BY DEF IInv, TypeOK, Begin, Goto
  <2>. QED BY <2>1 DEF IInv, TypeOK, Begin, Goto, LinksAreKnown, Entry
<1>4. ASSUME NEW j \in Jobs PROVE LineageTells(j)'
  <2>1. copy[i] = None
    BY DEF IInv, Begin, Goto, LineageTells
  <2>2. lineage[j] \in SUBSET Jobs /\ i \notin lineage[j]
    BY <2>1 DEF IInv, TypeOK, LineageTells
  <2>. QED BY <2>1, <2>2 DEF IInv, TypeOK, Begin, Goto, LineageTells
<1>. QED BY <1>1, <1>2, <1>3, <1>4 DEF IInv

LEMMA VerifyKeeps ==
  ASSUME BackupAssumption, NoneAssumption, IInv, NEW i \in Jobs, Verify(i)
  PROVE  IInv'
<1>1. linked[i] = {}
  BY DEF IInv, TypeOK, Verify, Goto
<1>. QED BY <1>1, MovesKeep DEF Verify, Goto, Phases

LEMMA MarkedIsContents ==
  ASSUME NEW c \in Contents, NEW k
  PROVE  Marked(c, k) \in Contents
BY DEF Marked, Contents

\* What a source holds, and where it came from.
LEMMA SourceTells ==
  ASSUME NoneAssumption, IInv, NEW s \in Paths \cup {Live}, Readable(s)
  PROVE  /\ ContentOf(s) \in Contents
         /\ Ancestry(s) \in SUBSET Jobs
         /\ \A j \in Ancestry(s) : copy[j] # None
         /\ ContentOf(s).guard <=> \E j \in Ancestry(s) : kind[j] = "restore"
<1>1. CASE s = Live
  BY <1>1 DEF IInv, TypeOK, ContentOf, Ancestry, Contents
<1>2. CASE s # Live
  <2>1. s \in Paths /\ file[s] \in Entry /\ file[s] # None
    BY <1>2 DEF IInv, TypeOK, Readable
  <2>2. PICK k \in Jobs : k = file[s].by
    BY <2>1 DEF Entry
  <2>3. copy[k] # None /\ file[s] = Own(k) /\ copy[k] \in Contents
    BY <2>1, <2>2 DEF IInv, TypeOK, LinksAreKnown, KnowsItsLinks
  <2>4. ContentOf(s) = copy[k] /\ Ancestry(s) = lineage[k]
    BY <1>2, <2>2, <2>3 DEF ContentOf, Ancestry, Own
  <2>. QED BY <2>3, <2>4 DEF IInv, TypeOK, LineageTells
<1>. QED BY <1>1, <1>2

LEMMA CopyKeeps ==
  ASSUME BackupAssumption, NoneAssumption, IInv, NEW i \in Jobs, Copy(i)
  PROVE  IInv'
<1>1. linked[i] = {}
  BY DEF IInv, TypeOK, Copy, Goto
<1>2. PICK c \in Contents, l \in SUBSET Jobs :
        /\ c = ContentOf(source[i]) /\ l = Ancestry(source[i])
        /\ \A j \in l : copy[j] # None
        /\ c.guard <=> \E j \in l : kind[j] = "restore"
  <2>1. source[i] \in Paths \cup {Live} /\ Readable(source[i])
    BY DEF IInv, TypeOK, Copy, Readable
  <2>. QED BY <2>1, SourceTells
<1>3. PICK d \in Contents : d = Marked(c, kind[i])
  BY MarkedIsContents
<1>4. /\ copy' = [copy EXCEPT ![i] = d]
      /\ lineage' = [lineage EXCEPT ![i] = {i} \cup l]
      /\ UNCHANGED <<live, file, mani, kind, source, target, linked>>
      /\ phase' = [phase EXCEPT ![i] = "copied"] /\ d # None
  BY <1>2, <1>3 DEF Copy, Goto, args, NoneAssumption
<1>5. TypeOK'
  <2>1. {i} \cup l \in SUBSET Jobs /\ phase[i] = "verified" /\ "copied" \in Phases
    BY DEF Copy, Goto, Phases
  <2>2. /\ lineage' \in [Jobs -> SUBSET Jobs] /\ copy' \in [Jobs -> Contents \cup {None}]
        /\ phase' \in [Jobs -> Phases]
    BY <1>4, <2>1 DEF IInv, TypeOK
  <2>3. \A j \in Jobs : j # i => phase'[j] = phase[j] /\ copy'[j] = copy[j]
    BY <1>4
  <2>4. target[i] \in Paths /\ copy'[i] # None
    BY <1>4, <2>1 DEF IInv, TypeOK
  <2>. QED BY <1>1, <1>4, <2>2, <2>3, <2>4 DEF IInv, TypeOK
<1>6. ASSUME NEW j \in Jobs PROVE KnowsItsLinks(j)'
  BY <1>1, <1>4 DEF IInv, TypeOK, KnowsItsLinks, Own
<1>7. ASSUME NEW t \in Paths PROVE LinksAreKnown(t)'
  BY <1>4 DEF IInv, LinksAreKnown
<1>8. d.guard <=> \E j \in {i} \cup l : kind[j] = "restore"
  <2>1. d.guard <=> (c.guard \/ kind[i] = "restore")
    BY <1>3 DEF Marked, Contents
  <2>. QED BY <1>2, <2>1
<1>9. ASSUME NEW j \in Jobs PROVE LineageTells(j)'
  <2>1. CASE j = i
    BY <1>2, <1>4, <1>8, <2>1 DEF IInv, TypeOK, LineageTells
  <2>2. CASE j # i
    BY <1>4, <2>2 DEF IInv, TypeOK, LineageTells
  <2>. QED BY <2>1, <2>2
<1>. QED BY <1>5, <1>6, <1>7, <1>9 DEF IInv

LEMMA LinkTargetKeeps ==
  ASSUME BackupAssumption, NoneAssumption, IInv, NEW i \in Jobs, LinkTarget(i)
  PROVE  IInv'
<1>1. /\ linked[i] = {} /\ copy[i] \in Contents /\ target[i] \in Paths
      /\ linked'[i] = {"file"}
  BY DEF IInv, TypeOK, LinkTarget, Goto
<1>2. Own(i) \in Entry /\ Own(i) # None
  BY <1>1 DEF Own, Entry, NoneAssumption
<1>3. TypeOK'
  BY <1>1, <1>2 DEF IInv, TypeOK, LinkTarget, Goto, Phases, args, Own
<1>4. ASSUME NEW j \in Jobs PROVE KnowsItsLinks(j)'
  BY <1>1, <1>2 DEF IInv, TypeOK, LinkTarget, Goto, KnowsItsLinks, Own, args, NoneAssumption
<1>5. ASSUME NEW t \in Paths PROVE LinksAreKnown(t)'
  BY <1>1, <1>2 DEF IInv, TypeOK, LinkTarget, Goto, LinksAreKnown, Own, args, Entry
<1>6. ASSUME NEW j \in Jobs PROVE LineageTells(j)'
  BY DEF IInv, TypeOK, LinkTarget, Goto, LineageTells, args
<1>. QED BY <1>3, <1>4, <1>5, <1>6 DEF IInv

LEMMA LinkManifestKeeps ==
  ASSUME BackupAssumption, NoneAssumption, IInv, NEW i \in Jobs, LinkManifest(i)
  PROVE  IInv'
<1>1. /\ linked[i] = {"file"} /\ copy[i] \in Contents /\ target[i] \in Paths
      /\ linked'[i] = {"file", "manifest"}
  BY DEF IInv, TypeOK, LinkManifest, Goto, KnowsItsLinks
<1>2. Own(i) \in Entry /\ Own(i) # None
  BY <1>1 DEF Own, Entry, NoneAssumption
<1>3. TypeOK'
  BY <1>1, <1>2 DEF IInv, TypeOK, LinkManifest, Goto, Phases, args, Own
<1>4. ASSUME NEW j \in Jobs PROVE KnowsItsLinks(j)'
  BY <1>1, <1>2 DEF IInv, TypeOK, LinkManifest, Goto, KnowsItsLinks, Own, args, NoneAssumption
<1>5. ASSUME NEW t \in Paths PROVE LinksAreKnown(t)'
  BY <1>1, <1>2 DEF IInv, TypeOK, LinkManifest, Goto, LinksAreKnown, Own, args, Entry
<1>6. ASSUME NEW j \in Jobs PROVE LineageTells(j)'
  BY DEF IInv, TypeOK, LinkManifest, Goto, LineageTells, args
<1>. QED BY <1>3, <1>4, <1>5, <1>6 DEF IInv

LEMMA RemoveManifestKeeps ==
  ASSUME BackupAssumption, NoneAssumption, IInv, NEW i \in Jobs, RemoveManifest(i)
  PROVE  IInv'
<1>1. /\ "file" \in linked[i] /\ mani[target[i]] = Own(i) /\ target[i] \in Paths
      /\ file[target[i]] = Own(i) /\ Own(i).by = i
  BY DEF IInv, TypeOK, RemoveManifest, KnowsItsLinks, Own
<1>3. TypeOK'
  BY <1>1 DEF IInv, TypeOK, RemoveManifest, args
<1>4. ASSUME NEW j \in Jobs PROVE KnowsItsLinks(j)'
  BY <1>1 DEF IInv, TypeOK, RemoveManifest, KnowsItsLinks, Own, args
<1>5. ASSUME NEW t \in Paths PROVE LinksAreKnown(t)'
  BY <1>1 DEF IInv, TypeOK, RemoveManifest, LinksAreKnown, args, Entry
<1>6. ASSUME NEW j \in Jobs PROVE LineageTells(j)'
  BY DEF IInv, TypeOK, RemoveManifest, LineageTells, args
<1>. QED BY <1>3, <1>4, <1>5, <1>6 DEF IInv

LEMMA RemoveTargetKeeps ==
  ASSUME BackupAssumption, NoneAssumption, IInv, NEW i \in Jobs, RemoveTarget(i)
  PROVE  IInv'
<1>1. target[i] \in Paths /\ file[target[i]] = Own(i) /\ Own(i).by = i
  BY DEF IInv, TypeOK, RemoveTarget, KnowsItsLinks, Own
<1>3. TypeOK'
  BY <1>1 DEF IInv, TypeOK, RemoveTarget, args
<1>4. ASSUME NEW j \in Jobs PROVE KnowsItsLinks(j)'
  BY <1>1 DEF IInv, TypeOK, RemoveTarget, KnowsItsLinks, Own, args
<1>5. ASSUME NEW t \in Paths PROVE LinksAreKnown(t)'
  BY <1>1 DEF IInv, TypeOK, RemoveTarget, LinksAreKnown, args, Entry
<1>6. ASSUME NEW j \in Jobs PROVE LineageTells(j)'
  BY DEF IInv, TypeOK, RemoveTarget, LineageTells, args
<1>. QED BY <1>3, <1>4, <1>5, <1>6 DEF IInv

LEMMA WriteKeeps ==
  ASSUME BackupAssumption, IInv, Write
  PROVE  IInv'
<1>1. TypeOK'
  BY DEF IInv, TypeOK, Write, args, BackupAssumption
<1>2. ASSUME NEW j \in Jobs PROVE KnowsItsLinks(j)'
  BY DEF IInv, Write, KnowsItsLinks, Own, args
<1>3. ASSUME NEW t \in Paths PROVE LinksAreKnown(t)'
  BY DEF IInv, Write, LinksAreKnown, args
<1>4. ASSUME NEW j \in Jobs PROVE LineageTells(j)'
  BY DEF IInv, Write, LineageTells, args
<1>. QED BY <1>1, <1>2, <1>3, <1>4 DEF IInv

LEMMA StutteringKeeps ==
  ASSUME IInv, UNCHANGED vars
  PROVE  IInv'
BY DEF IInv, TypeOK, KnowsItsLinks, LinksAreKnown, LineageTells, Own, vars, args

LEMMA StepKeeps ==
  ASSUME BackupAssumption, NoneAssumption, IInv, NEW i \in Jobs, Step(i)
  PROVE  IInv'
<1>1. CASE \E k \in {"backup", "restore"}, s \in Paths \cup {Live}, t \in Paths :
             Begin(i, k, s, t)
  BY <1>1, BeginKeeps
<1>2. CASE Verify(i)
  BY <1>2, VerifyKeeps
<1>3. CASE Copy(i)
  BY <1>3, CopyKeeps
<1>4. CASE LinkTarget(i)
  BY <1>4, LinkTargetKeeps
<1>5. CASE LinkManifest(i)
  BY <1>5, LinkManifestKeeps
<1>6. CASE Finish(i)
  BY <1>6, MovesKeep DEF Finish, Goto, Phases
<1>7. CASE Fail(i)
  BY <1>7, MovesKeep DEF Fail, Running, Phases
<1>8. CASE RemoveManifest(i)
  BY <1>8, RemoveManifestKeeps
<1>9. CASE RemoveTarget(i)
  BY <1>9, RemoveTargetKeeps
<1>10. CASE GiveUp(i)
  BY <1>10, MovesKeep DEF GiveUp, Goto, Phases
<1>11. CASE Kill(i)
  BY <1>11, MovesKeep DEF Kill, Running, Phases
<1>. QED BY <1>1, <1>2, <1>3, <1>4, <1>5, <1>6, <1>7, <1>8, <1>9, <1>10, <1>11 DEF Step

LEMMA InitHolds ==
  ASSUME BackupAssumption, NoneAssumption, Init
  PROVE  IInv
<1>1. TypeOK
  BY DEF Init, TypeOK, Phases, BackupAssumption
<1>2. ASSUME NEW j \in Jobs PROVE KnowsItsLinks(j)
  BY DEF Init, KnowsItsLinks
<1>3. ASSUME NEW t \in Paths PROVE LinksAreKnown(t)
  BY DEF Init, LinksAreKnown
<1>4. ASSUME NEW j \in Jobs PROVE LineageTells(j)
  BY DEF Init, LineageTells
<1>. QED BY <1>1, <1>2, <1>3, <1>4 DEF IInv

\* The inductive invariant: each invocation knows its links, each link has its
\* invocation, and a copy's lineage tells whether it is marked.
THEOREM LinksAreAccountedFor == Spec => []IInv
<1>. USE BackupAssumption, NoneAssumption
<1>1. Init => IInv
  BY InitHolds
<1>2. IInv /\ [Next]_vars => IInv'
  BY StepKeeps, WriteKeeps, StutteringKeeps DEF Next
<1>. QED BY <1>1, <1>2, PTL DEF Spec
-----------------------------------------------------------------------------
(* What follows from the invariant.                                        *)

\* Every variable of the backup commands keeps its type.
THEOREM TypeCorrect == Spec => []TypeOK
BY LinksAreAccountedFor, PTL DEF IInv

LEMMA KnownLinksTellTruth ==
  ASSUME NoneAssumption, IInv
  PROVE  ManifestTellsTruth
<1>. SUFFICES ASSUME NEW t \in Paths, mani[t] # None
              PROVE  file[t] # None /\ mani[t] = file[t]
  BY DEF ManifestTellsTruth
<1>. DEFINE i == mani[t].by
<1>1. i \in Jobs /\ mani[t] \in Entry
  BY DEF IInv, TypeOK, Entry
<1>2. "manifest" \in linked[i] /\ target[i] = t
  BY DEF IInv, LinksAreKnown
<1>3. copy[i] # None /\ file[t] = Own(i) /\ mani[t] = Own(i)
  BY <1>1, <1>2 DEF IInv, KnowsItsLinks
<1>. QED BY <1>1, <1>3 DEF NoneAssumption, Entry

\* Whoever publishes, fails or is killed beside it: the file a manifest
\* vouches for is there and is the one its own invocation linked.
THEOREM ManifestsTellTheTruth == Spec => []ManifestTellsTruth
<1>1. IInv => ManifestTellsTruth
  BY KnownLinksTellTruth, NoneAssumption
<1>. QED BY <1>1, LinksAreAccountedFor, PTL

LEMMA KnownLinksAreHonest ==
  ASSUME IInv
  PROVE  OutcomeIsHonest
<1>. SUFFICES ASSUME NEW i \in Jobs
              PROVE  /\ phase[i] = "failed" => \A t \in Paths : \A e \in {file[t], mani[t]} :
                                                 e # None => e.by # i
                     /\ phase[i] = "done" => file[target[i]] = Own(i) /\ mani[target[i]] = Own(i)
  BY DEF OutcomeIsHonest, Own
<1>1. ASSUME phase[i] = "failed", NEW t \in Paths, NEW e \in {file[t], mani[t]}, e # None
      PROVE  e.by # i
  BY <1>1 DEF IInv, TypeOK, LinksAreKnown
<1>2. ASSUME phase[i] = "done"
      PROVE  file[target[i]] = Own(i) /\ mani[target[i]] = Own(i)
  BY <1>2 DEF IInv, KnowsItsLinks
<1>. QED BY <1>1, <1>2

\* A command that failed has left nothing of its own, one that succeeded has
\* left both its files.
THEOREM OutcomesAreHonest == Spec => []OutcomeIsHonest
<1>1. IInv => OutcomeIsHonest
  BY KnownLinksAreHonest
<1>. QED BY <1>1, LinksAreAccountedFor, PTL

\* Whose step removes a file from a path, ...
LEMMA StepOnFiles ==
  ASSUME NoneAssumption, IInv, NEW i \in Jobs, Step(i), NEW t \in Paths,
         file[t] # None, file'[t] # file[t]
  PROVE  file'[t] = None /\ Withdraws(file[t].by, "file")
<1>1. CASE LinkTarget(i)
  BY <1>1 DEF IInv, TypeOK, LinkTarget, Goto
<1>2. CASE RemoveTarget(i)
  <2>1. file[target[i]] = Own(i) /\ Own(i).by = i
    BY <1>2 DEF IInv, RemoveTarget, KnowsItsLinks, Own
  <2>2. t = target[i] /\ file'[t] = None /\ Withdraws(i, "file")
    BY <1>2 DEF IInv, TypeOK, RemoveTarget, Withdraws
  <2>. QED BY <2>1, <2>2
<1>. QED
  BY <1>1, <1>2 DEF Step, Begin, Verify, Copy, LinkManifest, Finish, Fail, RemoveManifest,
                    GiveUp, Kill

\* ... and a manifest.
LEMMA StepOnManifests ==
  ASSUME NoneAssumption, IInv, NEW i \in Jobs, Step(i), NEW t \in Paths,
         mani[t] # None, mani'[t] # mani[t]
  PROVE  mani'[t] = None /\ Withdraws(mani[t].by, "manifest")
<1>1. CASE LinkManifest(i)
  BY <1>1 DEF IInv, TypeOK, LinkManifest, Goto
<1>2. CASE RemoveManifest(i)
  <2>1. mani[target[i]] = Own(i) /\ Own(i).by = i
    BY <1>2 DEF IInv, RemoveManifest, KnowsItsLinks, Own
  <2>2. t = target[i] /\ mani'[t] = None /\ Withdraws(i, "manifest")
    BY <1>2 DEF IInv, TypeOK, RemoveManifest, Withdraws
  <2>. QED BY <2>1, <2>2
<1>. QED
  BY <1>1, <1>2 DEF Step, Begin, Verify, Copy, LinkTarget, Finish, Fail, RemoveTarget,
                    GiveUp, Kill

\* No step replaces a file or a manifest, and only the failing invocation that
\* linked one removes it.
THEOREM FilesOfOthersStay == Spec => OthersAreUntouched
<1>1. IInv /\ [Next]_vars
        => [\A t \in Paths :
              /\ file[t] # None /\ file'[t] # file[t]
                   => file'[t] = None /\ Withdraws(file[t].by, "file")
              /\ mani[t] # None /\ mani'[t] # mani[t]
                   => mani'[t] = None /\ Withdraws(mani[t].by, "manifest")]_vars
  BY StepOnFiles, StepOnManifests, NoneAssumption DEF Next, Write, vars
<1>. QED BY <1>1, LinksAreAccountedFor, PTL DEF Spec, OthersAreUntouched

LEMMA KnownLineagesTell ==
  ASSUME NoneAssumption, IInv
  PROVE  QuarantineIsInherited
<1>. SUFFICES ASSUME NEW t \in Paths, NEW e \in {file[t], mani[t]}, e # None
              PROVE  e.content.guard <=> \E j \in lineage[e.by] : kind[j] = "restore"
  BY DEF QuarantineIsInherited
<1>1. mani[t] # None => file[t] # None /\ mani[t] = file[t]
  BY KnownLinksTellTruth DEF ManifestTellsTruth
<1>2. e = file[t]
  BY <1>1
<1>3. PICK i \in Jobs : i = e.by
  BY <1>2 DEF IInv, TypeOK, Entry
<1>4. copy[i] # None /\ e = Own(i)
  BY <1>2, <1>3 DEF IInv, LinksAreKnown, KnowsItsLinks
<1>. QED BY <1>3, <1>4 DEF IInv, LineageTells, Own

\* Quarantine is hereditary, through any chain of any number of commands that
\* copied from each other: a published file is marked exactly if one command of
\* its chain was a restore.
THEOREM QuarantineSpreads == Spec => []QuarantineIsInherited
<1>1. IInv => QuarantineIsInherited
  BY KnownLineagesTell, NoneAssumption
<1>. QED BY <1>1, LinksAreAccountedFor, PTL
-----------------------------------------------------------------------------
(* The commands keep the promise of BackupShelf.                           *)

Trusted(t) == IF Vouched(t) THEN file[t].content ELSE None

LEMMA MappedInit ==
  ASSUME Init
  PROVE  Shelf!Init
BY DEF Init, Shelf!Init, Vouched

\* A manifest appears beside a file that has the same content, ...
LEMMA LinkManifestPublishes ==
  ASSUME NoneAssumption, IInv, NEW i \in Jobs, LinkManifest(i),
         NEW t \in Paths, t = target[i]
  PROVE  Shelf!Next
<1>1. copy[i] \in Contents /\ file[t] = Own(i) /\ Own(i) # None
  BY DEF IInv, TypeOK, LinkManifest, Goto, KnowsItsLinks, Own, Entry, NoneAssumption
<1>2. ~Vouched(t) /\ mani[t] = None
  BY DEF LinkManifest, Vouched
<1>3. file' = file /\ mani' = [mani EXCEPT ![t] = Own(i)] /\ mani \in [Paths -> Entry \cup {None}]
  BY DEF IInv, TypeOK, LinkManifest, Own
<1>4. Vouched(t)' /\ file'[t].content = copy[i]
  BY <1>1, <1>3 DEF Vouched, Own
<1>6. [u \in Paths |-> IF Vouched(u) THEN file[u].content ELSE None]'
        = [[u \in Paths |-> IF Vouched(u) THEN file[u].content ELSE None] EXCEPT ![t] = copy[i]]
  BY <1>1, <1>3, <1>4 DEF Vouched
<1>. QED BY <1>1, <1>2, <1>6 DEF Shelf!Next, Shelf!Publish

\* ... it is withdrawn while its file is still there, ...
LEMMA RemoveManifestWithdraws ==
  ASSUME NoneAssumption, IInv, NEW i \in Jobs, RemoveManifest(i),
         NEW t \in Paths, t = target[i]
  PROVE  Shelf!Next
<1>1. /\ copy[i] \in Contents /\ Own(i) # None
      /\ file[t] = Own(i) /\ mani[t] = Own(i)
  <2>1. copy[i] \in Contents /\ file[t] = Own(i) /\ mani[t] = Own(i)
    BY DEF IInv, TypeOK, RemoveManifest, KnowsItsLinks
  <2>2. Own(i) \in [by : Jobs, content : Contents]
    BY <2>1 DEF Own
  <2>. QED BY <2>1, <2>2 DEF NoneAssumption
<1>2. Vouched(t) /\ file[t].content = copy[i] /\ copy[i] # None
  BY <1>1 DEF Vouched, Own, NoneAssumption
<1>3. file' = file /\ mani' = [mani EXCEPT ![t] = None] /\ mani \in [Paths -> Entry \cup {None}]
  BY DEF IInv, TypeOK, RemoveManifest
<1>4. ~Vouched(t)'
  BY <1>1, <1>3 DEF Vouched
<1>6. [u \in Paths |-> IF Vouched(u) THEN file[u].content ELSE None]'
        = [[u \in Paths |-> IF Vouched(u) THEN file[u].content ELSE None] EXCEPT ![t] = None]
  BY <1>1, <1>3, <1>4 DEF Vouched
<1>. QED BY <1>1, <1>2, <1>6 DEF Shelf!Next, Shelf!Withdraw

\* ... and nothing else shows.
LEMMA OthersDoNotShow ==
  ASSUME NoneAssumption, IInv, [Next]_vars,
         \A i \in Jobs : ~LinkManifest(i) /\ ~RemoveManifest(i)
  PROVE  \A t \in Paths : Trusted(t)' = Trusted(t)
<1>. SUFFICES ASSUME NEW t \in Paths PROVE Trusted(t)' = Trusted(t)
  OBVIOUS
<1>1. ASSUME NEW i \in Jobs, LinkTarget(i) PROVE Trusted(t)' = Trusted(t)
  <2>1. CASE t = target[i]
    <3>1. file[t] = None /\ mani[t] = None /\ mani' = mani
      BY <1>1, <2>1, KnownLinksTellTruth DEF LinkTarget, ManifestTellsTruth
    <3>. QED BY <3>1 DEF Trusted, Vouched
  <2>2. CASE t # target[i]
    BY <1>1, <2>2 DEF IInv, TypeOK, LinkTarget, Trusted, Vouched
  <2>. QED BY <2>1, <2>2
<1>2. ASSUME NEW i \in Jobs, RemoveTarget(i) PROVE Trusted(t)' = Trusted(t)
  <2>1. CASE t = target[i]
    <3>1. linked[i] = {"file"} /\ file[t] = Own(i) /\ Own(i).by = i /\ mani' = mani
      BY <1>2, <2>1 DEF IInv, RemoveTarget, KnowsItsLinks, Own
    <3>2. mani[t] # None => mani[t] = file[t] /\ "manifest" \in linked[mani[t].by]
      BY KnownLinksTellTruth DEF IInv, ManifestTellsTruth, LinksAreKnown
    <3>3. mani[t] = None
      BY <3>1, <3>2
    <3>. QED BY <3>1, <3>3 DEF Trusted, Vouched
  <2>2. CASE t # target[i]
    BY <1>2, <2>2 DEF IInv, TypeOK, RemoveTarget, Trusted, Vouched
  <2>. QED BY <2>1, <2>2
<1>3. CASE UNCHANGED <<file, mani>>
  BY <1>3 DEF Trusted, Vouched
<1>4. \/ \E i \in Jobs : LinkTarget(i) \/ RemoveTarget(i)
      \/ UNCHANGED <<file, mani>>
  BY DEF Next, Step, Begin, Verify, Copy, Finish, Fail, GiveUp, Kill, Write, vars
<1>. QED BY <1>1, <1>2, <1>3, <1>4

LEMMA MappedNext ==
  ASSUME NoneAssumption, IInv, [Next]_vars
  PROVE  \/ Shelf!Next
         \/ UNCHANGED [t \in Paths |-> IF Vouched(t) THEN file[t].content ELSE None]
<1>1. CASE \E i \in Jobs : LinkManifest(i)
  BY <1>1, LinkManifestPublishes DEF IInv, TypeOK, LinkManifest, Goto
<1>2. CASE \E i \in Jobs : RemoveManifest(i)
  BY <1>2, RemoveManifestWithdraws DEF IInv, TypeOK, RemoveManifest
<1>3. CASE \A i \in Jobs : ~LinkManifest(i) /\ ~RemoveManifest(i)
  BY <1>3, OthersDoNotShow DEF Trusted
<1>. QED BY <1>1, <1>2, <1>3

\* What a reader trusts at a path appears in one step, is never replaced, and
\* only disappears: the backup commands implement BackupShelf.
THEOREM ImplementsShelf == Spec => ShelfSpec
<1>1. Init => Shelf!Init
  BY MappedInit
<1>2. IInv /\ [Next]_vars
        => [Shelf!Next]_([t \in Paths |-> IF Vouched(t) THEN file[t].content ELSE None])
  BY MappedNext, NoneAssumption
<1>. QED BY <1>1, <1>2, LinksAreAccountedFor, PTL DEF Spec, ShelfSpec, Shelf!Spec
=============================================================================
