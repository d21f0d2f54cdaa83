---------------------------- MODULE TargetProofs ----------------------------
(***************************************************************************)
(* What TargetBuild guarantees for every set of sources, headers, options  *)
(* and include lists and any number of edits and builds: what is linked is *)
(* current, the units linked together saw the same shared headers, and a   *)
(* build after a quiet one has nothing to do.                              *)
(***************************************************************************)
EXTENDS TargetBuild, TLAPS, FiniteSetTheorems

\* When an entry that survives a newer object still describes it: nothing comes
\* between the two, or no edit adds an include and the options are fixed.
EntriesKeepUp ==
    \/ Faults = {}
    \/ /\ \A a, b \in Flags : a = b
       /\ \A s \in Sources, v, w \in 1 .. MaxVersion :
             v <= w => Includes(s, w) \subseteq Includes(s, v)

\* What the compiler of s may have read by now.
ReadOK(s, read) ==
    /\ s \in DOMAIN read
    /\ DOMAIN read = {s} \cup Includes(s, read[s])
    /\ \A f \in DOMAIN read : read[f] \in 1 .. ver[f]

\* An object of s: what was read was there when it was written.
ObjectOK(s, o) ==
    /\ ReadOK(s, o.read)
    /\ o.flags \in Flags
    /\ DOMAIN o.at = {s} \cup Headers
    /\ \A f \in DOMAIN o.at : o.at[f] \in 1 .. ver[f]
    /\ \A f \in DOMAIN o.read : o.read[f] <= o.at[f]

VersionInv ==
    /\ ver \in [Files -> 1 .. MaxVersion]
    /\ flags \in Flags
    /\ DOMAIN obj = Sources /\ DOMAIN cache = Sources /\ DOMAIN reading = Sources
    /\ newer \subseteq Sources

WaveTypes ==
    /\ phase \in Phases
    /\ status \in [Sources -> States]
    /\ DOMAIN table = Headers
    /\ \A h \in Headers : table[h].count \in Nat
    /\ force \in BOOLEAN /\ stop \in BOOLEAN /\ quiet \in BOOLEAN
    /\ outcome \in {"none", "ok", "error"}

\* Compilers run in two phases only, and a wave that is linked is complete.
PhaseInv ==
    /\ phase \in {"idle", "inspect"} =>
          \A s \in Sources : status[s] \notin {"compiling", "written", "compiled"}
    /\ phase = "link" => \A s \in Sources : status[s] \in {"hit", "compiled"}
    /\ phase \in {"inspect", "execute"} => Sharing
    /\ phase = "direct" => ~Sharing

ArtifactInv ==
    \A s \in Sources :
        /\ obj[s] # None => ObjectOK(s, obj[s])
        /\ cache[s] # None => cache[s].deps \subseteq Headers /\ cache[s].flags \in Flags
        /\ status[s] \in {"compiling", "written"} =>
              ReadOK(s, reading[s].read) /\ reading[s].flags \in Flags
        /\ status[s] \in {"hit", "written", "compiled"} => obj[s] # None
        /\ status[s] = "written" =>
              obj[s].read = reading[s].read /\ obj[s].flags = reading[s].flags

TypeInv == VersionInv /\ WaveTypes /\ PhaseInv /\ ArtifactInv

\* An entry describes the object beside it.
Vouches(s) ==
    cache[s].flags = obj[s].flags /\ DOMAIN obj[s].read \subseteq {s} \cup cache[s].deps

\* Every entry does, but between an object and its entry when that interval is safe;
\* otherwise it names whatever a compiler reads now.
EntryInv ==
    \A s \in Sources : cache[s] # None =>
        /\ obj[s] # None => (Faults = {} /\ status[s] = "written") \/ Vouches(s)
        /\ Faults # {} =>
              /\ Includes(s, ver[s]) \subseteq cache[s].deps
              /\ status[s] \in {"compiling", "written"} =>
                    DOMAIN reading[s].read \subseteq {s} \cup cache[s].deps

\* These versions are the ones on disk.
Latest(s, read, with) ==
    /\ with = flags
    /\ DOMAIN read = {s} \cup Includes(s, ver[s])
    /\ \A f \in DOMAIN read : read[f] = ver[f]

\* While nothing is edited a build sees and makes what is current.
QuietInv ==
    quiet =>
        /\ \A h \in Headers : table[h].count > 0 => table[h].seen = ver[h]
        /\ \A s \in Sources :
              /\ status[s] = "hit" => Reusable(s, ver)
              /\ status[s] \in {"compiling", "written"} =>
                    Latest(s, reading[s].read, reading[s].flags)
              /\ status[s] = "compiled" => Latest(s, obj[s].read, obj[s].flags)

\* The target is made of the objects that are not newer than it.
TargetInv ==
    exe # None => \A s \in Sources : s \in newer \/ obj[s] = None \/ exe.objects[s] = obj[s]

\* What a quiet build leaves.
DoneInv ==
    (phase = "idle" /\ outcome = "ok" /\ quiet) =>
        /\ exe # None /\ newer = {}
        /\ \A s \in Sources :
              /\ obj[s] # None /\ exe.objects[s] = obj[s]
              /\ Latest(s, obj[s].read, obj[s].flags) \/ Reusable(s, ver)

\* Nothing a unit of a shared wave was made from, or is reused for, is older than
\* what the table saw.
WindowInv ==
    phase \in {"inspect", "execute"} =>
        /\ \A h \in Headers : table[h].count > 0 => table[h].seen \in 1 .. ver[h]
        /\ \A s \in Sources :
              /\ status[s] = "hit" =>
                    /\ cache[s] # None
                    /\ \A h \in cache[s].deps :
                          table[h].count > 0 /\ table[h].seen <= obj[s].at[h]
              /\ status[s] \in {"compiling", "written"} =>
                    \A h \in DOMAIN reading[s].read \ {s} :
                        table[h].count > 0 => table[h].seen <= reading[s].read[h]
              /\ status[s] = "compiled" =>
                    \A h \in DOMAIN obj[s].read \ {s} :
                        table[h].count > 0 => table[h].seen <= obj[s].read[h]

\* Once the barrier has accepted the window, units agree with the table.
BarrierInv ==
    (phase = "link" /\ Sharing) =>
        \A s \in Sources, h \in Headers :
            (table[h].count > 1 /\ h \in DOMAIN obj[s].read /\ ~Raced(obj[s]))
                => obj[s].read[h] = table[h].seen
-----------------------------------------------------------------------------
\* Every step keeps the versions and the domains.
LEMMA VersionStep ==
    ASSUME VersionInv, [Next]_vars
    PROVE  VersionInv'
<1> USE TargetAssumption
    DEF VersionInv, Files, diskVars, artifactVars, waveVars, End, StartWave
<1>1. ASSUME NEW f \in Files, Edit(f) PROVE VersionInv'
  BY <1>1 DEF Edit
<1>2. CASE Reconfigure
  BY <1>2 DEF Reconfigure
<1>3. CASE RequestStop
  BY <1>3 DEF RequestStop
<1>4. ASSUME NEW forced \in BOOLEAN, StartBuild(forced) PROVE VersionInv'
  BY <1>4 DEF StartBuild
<1>5. ASSUME NEW s \in Sources, Inspect(s) PROVE VersionInv'
  BY <1>5 DEF Inspect
<1>6. ASSUME NEW s \in Sources, InspectFails(s) PROVE VersionInv'
  BY <1>6 DEF InspectFails
<1>7. ASSUME NEW s \in Sources, BeginCompile(s) PROVE VersionInv'
  BY <1>7 DEF BeginCompile
<1>8. ASSUME NEW s \in Sources, WriteObject(s) PROVE VersionInv'
  BY <1>8 DEF WriteObject
<1>9. ASSUME NEW s \in Sources, CompileFails(s) PROVE VersionInv'
  BY <1>9 DEF CompileFails
<1>10. ASSUME NEW s \in Sources, SealFails(s) PROVE VersionInv'
  BY <1>10 DEF SealFails
<1>11. ASSUME NEW s \in Sources, SaveEntry(s) PROVE VersionInv'
  BY <1>11 DEF SaveEntry
<1>12. CASE EndInspection
  BY <1>12 DEF EndInspection
<1>13. CASE EndWave
  BY <1>13 DEF EndWave
<1>14. CASE ReuseLink
  BY <1>14 DEF ReuseLink
<1>15. CASE Link
  BY <1>15 DEF Link
<1>16. CASE LinkFails
  BY <1>16 DEF LinkFails
<1>17. CASE CrashInWave
  BY <1>17 DEF CrashInWave
<1>18. CASE CrashInLink
  BY <1>18 DEF CrashInLink
<1>19. CASE UNCHANGED vars
  BY <1>19 DEF vars
<1> QED
  BY <1>1, <1>2, <1>3, <1>4, <1>5, <1>6, <1>7, <1>8, <1>9, <1>10, <1>11, <1>12,
     <1>13, <1>14, <1>15, <1>16, <1>17, <1>18, <1>19 DEF Next

\* Every step keeps the ranges of what a wave works with.
LEMMA WaveTypesStep ==
    ASSUME VersionInv, WaveTypes, [Next]_vars
    PROVE  WaveTypes'
<1> USE TargetAssumption
    DEF WaveTypes, Phases, States, NoTable, diskVars, artifactVars, waveVars, End,
        StartWave
<1>1. ASSUME NEW f \in Files, Edit(f) PROVE WaveTypes'
  BY <1>1 DEF Edit
<1>2. CASE Reconfigure
  BY <1>2 DEF Reconfigure
<1>3. CASE RequestStop
  BY <1>3 DEF RequestStop
<1>4. ASSUME NEW forced \in BOOLEAN, StartBuild(forced) PROVE WaveTypes'
  BY <1>4 DEF StartBuild
<1>5. ASSUME NEW s \in Sources, Inspect(s) PROVE WaveTypes'
  BY <1>5 DEF Inspect, Observe
<1>6. ASSUME NEW s \in Sources, InspectFails(s) PROVE WaveTypes'
  BY <1>6 DEF InspectFails
<1>7. ASSUME NEW s \in Sources, BeginCompile(s) PROVE WaveTypes'
  BY <1>7 DEF BeginCompile
<1>8. ASSUME NEW s \in Sources, WriteObject(s) PROVE WaveTypes'
  BY <1>8 DEF WriteObject
<1>9. ASSUME NEW s \in Sources, CompileFails(s) PROVE WaveTypes'
  BY <1>9 DEF CompileFails
<1>10. ASSUME NEW s \in Sources, SealFails(s) PROVE WaveTypes'
  BY <1>10 DEF SealFails
<1>11. ASSUME NEW s \in Sources, SaveEntry(s) PROVE WaveTypes'
  BY <1>11 DEF SaveEntry
<1>12. CASE EndInspection
  <2>1. CASE End("error") /\ UNCHANGED <<diskVars, artifactVars, quiet>>
    BY <2>1
  <2>2. CASE phase' = "execute" /\ UNCHANGED <<diskVars, artifactVars, force, status, reading,
                                             table, stop, outcome, quiet>>
    BY <2>2
  <2> QED
    BY <1>12, <2>1, <2>2 DEF EndInspection
<1>13. CASE EndWave
  <2>1. CASE End("error") /\ UNCHANGED <<diskVars, artifactVars, quiet>>
    BY <2>1
  <2>2. CASE StartWave(TRUE) /\ UNCHANGED <<diskVars, artifactVars, stop, outcome, quiet>>
    BY <2>2
  <2>3. CASE phase' = "link" /\ UNCHANGED <<diskVars, artifactVars, force, status, reading,
                                          table, stop, outcome, quiet>>
    BY <2>3
  <2> QED
    BY <1>13, <2>1, <2>2, <2>3 DEF EndWave
<1>14. CASE ReuseLink
  BY <1>14 DEF ReuseLink
<1>15. CASE Link
  BY <1>15 DEF Link
<1>16. CASE LinkFails
  BY <1>16 DEF LinkFails
<1>17. CASE CrashInWave
  BY <1>17 DEF CrashInWave
<1>18. CASE CrashInLink
  BY <1>18 DEF CrashInLink
<1>19. CASE UNCHANGED vars
  BY <1>19 DEF vars
<1> QED
  BY <1>1, <1>2, <1>3, <1>4, <1>5, <1>6, <1>7, <1>8, <1>9, <1>10, <1>11, <1>12,
     <1>13, <1>14, <1>15, <1>16, <1>17, <1>18, <1>19 DEF Next

\* A phase is left only when its compilers are done.
LEMMA PhaseStep ==
    ASSUME WaveTypes, PhaseInv, [Next]_vars
    PROVE  PhaseInv'
<1> USE TargetAssumption
    DEF WaveTypes, Phases, States, PhaseInv, Sharing, diskVars, artifactVars, waveVars,
        End, StartWave
<1>1. ASSUME NEW f \in Files, Edit(f) PROVE PhaseInv'
  BY <1>1 DEF Edit
<1>2. CASE Reconfigure
  BY <1>2 DEF Reconfigure
<1>3. CASE RequestStop
  BY <1>3 DEF RequestStop
<1>4. ASSUME NEW forced \in BOOLEAN, StartBuild(forced) PROVE PhaseInv'
  BY <1>4 DEF StartBuild
<1>5. ASSUME NEW s \in Sources, Inspect(s) PROVE PhaseInv'
  BY <1>5 DEF Inspect
<1>6. ASSUME NEW s \in Sources, InspectFails(s) PROVE PhaseInv'
  BY <1>6 DEF InspectFails
<1>7. ASSUME NEW s \in Sources, BeginCompile(s) PROVE PhaseInv'
  BY <1>7 DEF BeginCompile
<1>8. ASSUME NEW s \in Sources, WriteObject(s) PROVE PhaseInv'
  BY <1>8 DEF WriteObject
<1>9. ASSUME NEW s \in Sources, CompileFails(s) PROVE PhaseInv'
  BY <1>9 DEF CompileFails
<1>10. ASSUME NEW s \in Sources, SealFails(s) PROVE PhaseInv'
  BY <1>10 DEF SealFails
<1>11. ASSUME NEW s \in Sources, SaveEntry(s) PROVE PhaseInv'
  BY <1>11 DEF SaveEntry
<1>12. CASE EndInspection
  BY <1>12 DEF EndInspection, Admitting, Failed, Active
<1>13. CASE EndWave
  BY <1>13 DEF EndWave, WaveDrained, Admitting, Failed, Active
<1>14. CASE ReuseLink
  BY <1>14 DEF ReuseLink
<1>15. CASE Link
  BY <1>15 DEF Link
<1>16. CASE LinkFails
  BY <1>16 DEF LinkFails
<1>17. CASE CrashInWave
  BY <1>17 DEF CrashInWave
<1>18. CASE CrashInLink
  BY <1>18 DEF CrashInLink
<1>19. CASE UNCHANGED vars
  BY <1>19 DEF vars
<1> QED
  BY <1>1, <1>2, <1>3, <1>4, <1>5, <1>6, <1>7, <1>8, <1>9, <1>10, <1>11, <1>12,
     <1>13, <1>14, <1>15, <1>16, <1>17, <1>18, <1>19 DEF Next

\* An object and an entry are something.
LEMMA SomethingWritten ==
    ASSUME NEW s PROVE Written(s) # None
BY DEF Written, None

\* So is an entry that was saved.
LEMMA SomethingSaved ==
    ASSUME NEW deps, NEW with PROVE [deps |-> deps, flags |-> with] # None
BY DEF None

\* Versions never go back, so that what was read stays a version there was.
LEMMA ArtifactStep ==
    ASSUME TypeInv, [Next]_vars
    PROVE  ArtifactInv'
<1> USE TargetAssumption
    DEF TypeInv, VersionInv, WaveTypes, ArtifactInv, ObjectOK, ReadOK, States, Files,
        diskVars, artifactVars, waveVars, End, StartWave
<1>1. ASSUME NEW f \in Files, Edit(f) PROVE ArtifactInv'
  BY <1>1 DEF Edit
<1>2. CASE Reconfigure
  BY <1>2 DEF Reconfigure
<1>3. CASE RequestStop
  BY <1>3 DEF RequestStop
<1>4. ASSUME NEW forced \in BOOLEAN, StartBuild(forced) PROVE ArtifactInv'
  BY <1>4 DEF StartBuild
<1>5. ASSUME NEW s \in Sources, Inspect(s) PROVE ArtifactInv'
  BY <1>5 DEF Inspect, Reusable
<1>6. ASSUME NEW s \in Sources, InspectFails(s) PROVE ArtifactInv'
  BY <1>6 DEF InspectFails
<1>7. ASSUME NEW s \in Sources, BeginCompile(s) PROVE ArtifactInv'
  BY <1>7 DEF BeginCompile
<1>8. ASSUME NEW s \in Sources, WriteObject(s) PROVE ArtifactInv'
  BY <1>8, SomethingWritten DEF WriteObject, Written
<1>9. ASSUME NEW s \in Sources, CompileFails(s) PROVE ArtifactInv'
  BY <1>9 DEF CompileFails
<1>10. ASSUME NEW s \in Sources, SealFails(s) PROVE ArtifactInv'
  BY <1>10 DEF SealFails
<1>11. ASSUME NEW s \in Sources, SaveEntry(s) PROVE ArtifactInv'
  BY <1>11, SomethingSaved DEF SaveEntry
<1>12. CASE EndInspection
  <2>1. CASE End("error") /\ UNCHANGED <<diskVars, artifactVars, quiet>>
    BY <2>1
  <2>2. CASE phase' = "execute" /\ UNCHANGED <<diskVars, artifactVars, force, status, reading,
                                             table, stop, outcome, quiet>>
    BY <2>2
  <2> QED
    BY <1>12, <2>1, <2>2 DEF EndInspection
<1>13. CASE EndWave
  <2>1. CASE End("error") /\ UNCHANGED <<diskVars, artifactVars, quiet>>
    BY <2>1
  <2>2. CASE StartWave(TRUE) /\ UNCHANGED <<diskVars, artifactVars, stop, outcome, quiet>>
    BY <2>2
  <2>3. CASE phase' = "link" /\ UNCHANGED <<diskVars, artifactVars, force, status, reading,
                                          table, stop, outcome, quiet>>
    BY <2>3
  <2> QED
    BY <1>13, <2>1, <2>2, <2>3 DEF EndWave
<1>14. CASE ReuseLink
  BY <1>14 DEF ReuseLink
<1>15. CASE Link
  BY <1>15 DEF Link
<1>16. CASE LinkFails
  BY <1>16 DEF LinkFails
<1>17. CASE CrashInWave
  BY <1>17, SomethingWritten DEF CrashInWave, Written
<1>18. CASE CrashInLink
  BY <1>18 DEF CrashInLink
<1>19. CASE UNCHANGED vars
  BY <1>19 DEF vars
<1> QED
  BY <1>1, <1>2, <1>3, <1>4, <1>5, <1>6, <1>7, <1>8, <1>9, <1>10, <1>11, <1>12,
     <1>13, <1>14, <1>15, <1>16, <1>17, <1>18, <1>19 DEF Next
-----------------------------------------------------------------------------
(* Entries and objects *)

\* Every step keeps entries and objects together, as far as faults and edits allow.
LEMMA EntryStep ==
    ASSUME EntriesKeepUp, TypeInv, EntryInv, [Next]_vars
    PROVE  EntryInv'
<1> USE TargetAssumption
    DEF TypeInv, VersionInv, WaveTypes, PhaseInv, ArtifactInv, EntryInv, Vouches, ReadOK,
        States, Files, EntriesKeepUp, diskVars, artifactVars, waveVars, End, StartWave
<1>1. ASSUME NEW f \in Files, Edit(f) PROVE EntryInv'
  BY <1>1 DEF Edit
<1>2. CASE Reconfigure
  BY <1>2 DEF Reconfigure
<1>3. CASE RequestStop
  BY <1>3 DEF RequestStop
<1>4. ASSUME NEW forced \in BOOLEAN, StartBuild(forced) PROVE EntryInv'
  BY <1>4 DEF StartBuild
<1>5. ASSUME NEW s \in Sources, Inspect(s) PROVE EntryInv'
  BY <1>5 DEF Inspect
<1>6. ASSUME NEW s \in Sources, InspectFails(s) PROVE EntryInv'
  BY <1>6 DEF InspectFails
<1>7. ASSUME NEW s \in Sources, BeginCompile(s) PROVE EntryInv'
  BY <1>7 DEF BeginCompile
<1>8. ASSUME NEW s \in Sources, WriteObject(s) PROVE EntryInv'
  BY <1>8 DEF WriteObject, Written, ObjectOK
<1>9. ASSUME NEW s \in Sources, CompileFails(s) PROVE EntryInv'
  BY <1>9 DEF CompileFails
<1>10. ASSUME NEW s \in Sources, SealFails(s) PROVE EntryInv'
  BY <1>10 DEF SealFails
<1>11. ASSUME NEW s \in Sources, SaveEntry(s) PROVE EntryInv'
  BY <1>11, SomethingSaved DEF SaveEntry
<1>12. CASE EndInspection
  <2>a. \A s \in Sources : status[s] # "written"
    BY <1>12 DEF EndInspection, PhaseInv
  <2>1. CASE End("error") /\ UNCHANGED <<diskVars, artifactVars, quiet>>
    BY <2>1, <2>a
  <2>2. CASE phase' = "execute" /\ UNCHANGED <<diskVars, artifactVars, force, status, reading,
                                             table, stop, outcome, quiet>>
    BY <2>2, <2>a
  <2> QED
    BY <1>12, <2>1, <2>2 DEF EndInspection
<1>13. CASE EndWave
  <2>a. \A s \in Sources : status[s] # "written"
    BY <1>13 DEF EndWave, WaveDrained, Active
  <2>1. CASE End("error") /\ UNCHANGED <<diskVars, artifactVars, quiet>>
    BY <2>1, <2>a
  <2>2. CASE StartWave(TRUE) /\ UNCHANGED <<diskVars, artifactVars, stop, outcome, quiet>>
    BY <2>2, <2>a
  <2>3. CASE phase' = "link" /\ UNCHANGED <<diskVars, artifactVars, force, status, reading,
                                          table, stop, outcome, quiet>>
    BY <2>3
  <2> QED
    BY <1>13, <2>1, <2>2, <2>3 DEF EndWave
<1>14. CASE ReuseLink
  BY <1>14 DEF ReuseLink
<1>15. CASE Link
  BY <1>15 DEF Link
<1>16. CASE LinkFails
  BY <1>16 DEF LinkFails
<1>17. CASE CrashInWave
  BY <1>17 DEF CrashInWave, Written, ObjectOK
<1>18. CASE CrashInLink
  BY <1>18 DEF CrashInLink
<1>19. CASE UNCHANGED vars
  BY <1>19 DEF vars
<1> QED
  BY <1>1, <1>2, <1>3, <1>4, <1>5, <1>6, <1>7, <1>8, <1>9, <1>10, <1>11, <1>12,
     <1>13, <1>14, <1>15, <1>16, <1>17, <1>18, <1>19 DEF Next

\* Whatever writes an object makes it newer than the target.
LEMMA TargetStep ==
    ASSUME TypeInv, TargetInv, [Next]_vars
    PROVE  TargetInv'
<1> USE TargetAssumption
    DEF TypeInv, VersionInv, PhaseInv, TargetInv, diskVars, artifactVars, waveVars, End,
        StartWave
<1>1. ASSUME NEW f \in Files, Edit(f) PROVE TargetInv'
  BY <1>1 DEF Edit
<1>2. CASE Reconfigure
  BY <1>2 DEF Reconfigure
<1>3. CASE RequestStop
  BY <1>3 DEF RequestStop
<1>4. ASSUME NEW forced \in BOOLEAN, StartBuild(forced) PROVE TargetInv'
  BY <1>4 DEF StartBuild
<1>5. ASSUME NEW s \in Sources, Inspect(s) PROVE TargetInv'
  BY <1>5 DEF Inspect
<1>6. ASSUME NEW s \in Sources, InspectFails(s) PROVE TargetInv'
  BY <1>6 DEF InspectFails
<1>7. ASSUME NEW s \in Sources, BeginCompile(s) PROVE TargetInv'
  BY <1>7 DEF BeginCompile
<1>8. ASSUME NEW s \in Sources, WriteObject(s) PROVE TargetInv'
  BY <1>8 DEF WriteObject
<1>9. ASSUME NEW s \in Sources, CompileFails(s) PROVE TargetInv'
  BY <1>9 DEF CompileFails
<1>10. ASSUME NEW s \in Sources, SealFails(s) PROVE TargetInv'
  BY <1>10 DEF SealFails
<1>11. ASSUME NEW s \in Sources, SaveEntry(s) PROVE TargetInv'
  BY <1>11 DEF SaveEntry
<1>12. CASE EndInspection
  <2>1. CASE End("error") /\ UNCHANGED <<diskVars, artifactVars, quiet>>
    BY <2>1
  <2>2. CASE phase' = "execute" /\ UNCHANGED <<diskVars, artifactVars, force, status, reading,
                                             table, stop, outcome, quiet>>
    BY <2>2
  <2> QED
    BY <1>12, <2>1, <2>2 DEF EndInspection
<1>13. CASE EndWave
  <2>1. CASE End("error") /\ UNCHANGED <<diskVars, artifactVars, quiet>>
    BY <2>1
  <2>2. CASE StartWave(TRUE) /\ UNCHANGED <<diskVars, artifactVars, stop, outcome, quiet>>
    BY <2>2
  <2>3. CASE phase' = "link" /\ UNCHANGED <<diskVars, artifactVars, force, status, reading,
                                          table, stop, outcome, quiet>>
    BY <2>3
  <2> QED
    BY <1>13, <2>1, <2>2, <2>3 DEF EndWave
<1>14. CASE ReuseLink
  BY <1>14 DEF ReuseLink
<1>15. CASE Link
  BY <1>15 DEF Link
<1>16. CASE LinkFails
  BY <1>16 DEF LinkFails
<1>17. CASE CrashInWave
  BY <1>17 DEF CrashInWave
<1>18. CASE CrashInLink
  <2>1. CASE UNCHANGED <<exe, newer>>
    BY <1>18, <2>1 DEF CrashInLink
  <2>2. CASE exe' = [objects |-> obj]
    BY <1>18, <2>2 DEF CrashInLink
  <2> QED
    BY <1>18, <2>1, <2>2 DEF CrashInLink
<1>19. CASE UNCHANGED vars
  BY <1>19 DEF vars
<1> QED
  BY <1>1, <1>2, <1>3, <1>4, <1>5, <1>6, <1>7, <1>8, <1>9, <1>10, <1>11, <1>12,
     <1>13, <1>14, <1>15, <1>16, <1>17, <1>18, <1>19 DEF Next
-----------------------------------------------------------------------------
(* An undisturbed build *)

\* While nothing is edited, what was found reusable stays so and what is read stays
\* the latest.
LEMMA QuietStep ==
    ASSUME TypeInv, QuietInv, [Next]_vars
    PROVE  QuietInv'
<1> USE TargetAssumption
    DEF TypeInv, VersionInv, WaveTypes, PhaseInv, ArtifactInv, ObjectOK, ReadOK, QuietInv,
        Latest, Reusable, NoTable, States, Files, diskVars, artifactVars, waveVars, End,
        StartWave
<1>1. ASSUME NEW f \in Files, Edit(f) PROVE QuietInv'
  BY <1>1 DEF Edit
<1>2. CASE Reconfigure
  BY <1>2 DEF Reconfigure
<1>3. CASE RequestStop
  BY <1>3 DEF RequestStop
<1>4. ASSUME NEW forced \in BOOLEAN, StartBuild(forced) PROVE QuietInv'
  BY <1>4 DEF StartBuild
<1>5. ASSUME NEW s \in Sources, Inspect(s) PROVE QuietInv'
  <2> DEFINE deps == IF force \/ cache[s] = None THEN {} ELSE cache[s].deps
             observed == IF Sharing THEN Observe(deps) ELSE table
             seen == [h \in Headers |-> IF Sharing THEN observed[h].seen ELSE ver[h]]
  <2>1. /\ phase \in {"inspect", "direct"}
        /\ table' = observed
        /\ status' = [status EXCEPT ![s] = IF ~force /\ Reusable(s, seen) THEN "hit" ELSE "miss"]
        /\ UNCHANGED <<diskVars, artifactVars, phase, force, reading, stop, outcome, quiet>>
    BY <1>5 DEF Inspect
  <2>2. ASSUME quiet, NEW h \in Headers
        PROVE  observed[h].count > 0 => observed[h].seen = ver[h]
    BY <2>2 DEF Observe
  <2>3. ASSUME quiet, ~force, Reusable(s, seen)
        PROVE  Reusable(s, ver)
    <3>1. deps = cache[s].deps /\ deps \subseteq Headers
      BY <2>3 DEF Reusable
    <3>2. \A h \in deps : seen[h] = ver[h]
      <4> TAKE h \in deps
      <4>1. CASE Sharing
        <5>1. observed[h].count > 0
          BY <3>1, <4>1 DEF Observe
        <5> QED
          BY <2>2, <2>3, <3>1, <4>1, <5>1
      <4>2. CASE ~Sharing
        BY <3>1, <4>2
      <4> QED
        BY <4>1, <4>2
    <3> QED
      BY <2>3, <3>1, <3>2 DEF Reusable
  <2> HIDE DEF observed, seen
  <2> QED
    BY <2>1, <2>2, <2>3
<1>6. ASSUME NEW s \in Sources, InspectFails(s) PROVE QuietInv'
  BY <1>6 DEF InspectFails
<1>7. ASSUME NEW s \in Sources, BeginCompile(s) PROVE QuietInv'
  BY <1>7 DEF BeginCompile
<1>8. ASSUME NEW s \in Sources, WriteObject(s) PROVE QuietInv'
  BY <1>8 DEF WriteObject, Written
<1>9. ASSUME NEW s \in Sources, CompileFails(s) PROVE QuietInv'
  BY <1>9 DEF CompileFails
<1>10. ASSUME NEW s \in Sources, SealFails(s) PROVE QuietInv'
  BY <1>10 DEF SealFails
<1>11. ASSUME NEW s \in Sources, SaveEntry(s) PROVE QuietInv'
  BY <1>11 DEF SaveEntry
<1>12. CASE EndInspection
  <2>1. CASE End("error") /\ UNCHANGED <<diskVars, artifactVars, quiet>>
    BY <2>1
  <2>2. CASE phase' = "execute" /\ UNCHANGED <<diskVars, artifactVars, force, status, reading,
                                             table, stop, outcome, quiet>>
    BY <2>2
  <2> QED
    BY <1>12, <2>1, <2>2 DEF EndInspection
<1>13. CASE EndWave
  <2>1. CASE End("error") /\ UNCHANGED <<diskVars, artifactVars, quiet>>
    BY <2>1
  <2>2. CASE StartWave(TRUE) /\ UNCHANGED <<diskVars, artifactVars, stop, outcome, quiet>>
    BY <2>2
  <2>3. CASE phase' = "link" /\ UNCHANGED <<diskVars, artifactVars, force, status, reading,
                                          table, stop, outcome, quiet>>
    BY <2>3
  <2> QED
    BY <1>13, <2>1, <2>2, <2>3 DEF EndWave
<1>14. CASE ReuseLink
  BY <1>14 DEF ReuseLink
<1>15. CASE Link
  BY <1>15 DEF Link
<1>16. CASE LinkFails
  BY <1>16 DEF LinkFails
<1>17. CASE CrashInWave
  BY <1>17 DEF CrashInWave, Written
<1>18. CASE CrashInLink
  BY <1>18 DEF CrashInLink
<1>19. CASE UNCHANGED vars
  BY <1>19 DEF vars
<1> QED
  BY <1>1, <1>2, <1>3, <1>4, <1>5, <1>6, <1>7, <1>8, <1>9, <1>10, <1>11, <1>12,
     <1>13, <1>14, <1>15, <1>16, <1>17, <1>18, <1>19 DEF Next

\* A successful link leaves the target of the objects its wave found or made.
LEMMA DoneStep ==
    ASSUME TypeInv, QuietInv, TargetInv, DoneInv, [Next]_vars
    PROVE  DoneInv'
<1> USE TargetAssumption
    DEF TypeInv, VersionInv, WaveTypes, PhaseInv, ArtifactInv, QuietInv, TargetInv,
        DoneInv, Latest, Reusable, Files, diskVars, artifactVars, waveVars, End, StartWave
<1>1. ASSUME NEW f \in Files, Edit(f) PROVE DoneInv'
  BY <1>1 DEF Edit
<1>2. CASE Reconfigure
  BY <1>2 DEF Reconfigure
<1>3. CASE RequestStop
  BY <1>3 DEF RequestStop
<1>4. ASSUME NEW forced \in BOOLEAN, StartBuild(forced) PROVE DoneInv'
  BY <1>4 DEF StartBuild
<1>5. ASSUME NEW s \in Sources, Inspect(s) PROVE DoneInv'
  BY <1>5 DEF Inspect
<1>6. ASSUME NEW s \in Sources, InspectFails(s) PROVE DoneInv'
  BY <1>6 DEF InspectFails
<1>7. ASSUME NEW s \in Sources, BeginCompile(s) PROVE DoneInv'
  BY <1>7 DEF BeginCompile
<1>8. ASSUME NEW s \in Sources, WriteObject(s) PROVE DoneInv'
  BY <1>8 DEF WriteObject
<1>9. ASSUME NEW s \in Sources, CompileFails(s) PROVE DoneInv'
  BY <1>9 DEF CompileFails
<1>10. ASSUME NEW s \in Sources, SealFails(s) PROVE DoneInv'
  BY <1>10 DEF SealFails
<1>11. ASSUME NEW s \in Sources, SaveEntry(s) PROVE DoneInv'
  BY <1>11 DEF SaveEntry
<1>12. CASE EndInspection
  <2>1. CASE End("error") /\ UNCHANGED <<diskVars, artifactVars, quiet>>
    BY <2>1
  <2>2. CASE phase' = "execute" /\ UNCHANGED <<diskVars, artifactVars, force, status, reading,
                                             table, stop, outcome, quiet>>
    BY <2>2
  <2> QED
    BY <1>12, <2>1, <2>2 DEF EndInspection
<1>13. CASE EndWave
  <2>1. CASE End("error") /\ UNCHANGED <<diskVars, artifactVars, quiet>>
    BY <2>1
  <2>2. CASE StartWave(TRUE) /\ UNCHANGED <<diskVars, artifactVars, stop, outcome, quiet>>
    BY <2>2
  <2>3. CASE phase' = "link" /\ UNCHANGED <<diskVars, artifactVars, force, status, reading,
                                          table, stop, outcome, quiet>>
    BY <2>3
  <2> QED
    BY <1>13, <2>1, <2>2, <2>3 DEF EndWave
<1>14. CASE ReuseLink
  BY <1>14 DEF ReuseLink, LinkReusable, Active
<1>15. CASE Link
  <2>1. /\ exe' = [objects |-> obj] /\ newer' = {} /\ obj' = obj
        /\ UNCHANGED <<ver, flags, cache, quiet>>
    BY <1>15 DEF Link
  <2>2. \A s \in Sources : status[s] \in {"hit", "compiled"}
    BY <1>15 DEF Link
  <2>3. exe' # None
    BY <2>1 DEF None
  <2> QED
    BY <2>1, <2>2, <2>3
<1>16. CASE LinkFails
  BY <1>16 DEF LinkFails
<1>17. CASE CrashInWave
  BY <1>17 DEF CrashInWave
<1>18. CASE CrashInLink
  <2>1. CASE UNCHANGED <<exe, newer>>
    BY <1>18, <2>1 DEF CrashInLink
  <2>2. CASE exe' = [objects |-> obj]
    BY <1>18, <2>2 DEF CrashInLink
  <2> QED
    BY <1>18, <2>1, <2>2 DEF CrashInLink
<1>19. CASE UNCHANGED vars
  BY <1>19 DEF vars
<1> QED
  BY <1>1, <1>2, <1>3, <1>4, <1>5, <1>6, <1>7, <1>8, <1>9, <1>10, <1>11, <1>12,
     <1>13, <1>14, <1>15, <1>16, <1>17, <1>18, <1>19 DEF Next
-----------------------------------------------------------------------------
(* The shared window *)

\* The table observes a file before anything in the wave is compiled from it.
LEMMA WindowStep ==
    ASSUME TypeInv, WindowInv, [Next]_vars
    PROVE  WindowInv'
<1> USE TargetAssumption
    DEF TypeInv, VersionInv, WaveTypes, PhaseInv, ArtifactInv, ObjectOK, ReadOK,
        WindowInv, NoTable, States, Files, diskVars, artifactVars, waveVars, End,
        StartWave
<1>1. ASSUME NEW f \in Files, Edit(f) PROVE WindowInv'
  BY <1>1 DEF Edit
<1>2. CASE Reconfigure
  BY <1>2 DEF Reconfigure
<1>3. CASE RequestStop
  BY <1>3 DEF RequestStop
<1>4. ASSUME NEW forced \in BOOLEAN, StartBuild(forced) PROVE WindowInv'
  BY <1>4 DEF StartBuild
<1>5. ASSUME NEW s \in Sources, Inspect(s) PROVE WindowInv'
  <2> DEFINE deps == IF force \/ cache[s] = None THEN {} ELSE cache[s].deps
             observed == IF Sharing THEN Observe(deps) ELSE table
             seen == [h \in Headers |-> IF Sharing THEN observed[h].seen ELSE ver[h]]
  <2>1. /\ phase \in {"inspect", "direct"}
        /\ table' = observed
        /\ status' = [status EXCEPT ![s] = IF ~force /\ Reusable(s, seen) THEN "hit" ELSE "miss"]
        /\ UNCHANGED <<diskVars, artifactVars, phase, force, reading, stop, outcome, quiet>>
    BY <1>5 DEF Inspect
  <2>2. CASE phase = "inspect"
    <3>1. Sharing
      BY <2>2
    <3>2. ASSUME NEW h \in Headers
          PROVE  /\ observed[h].count > 0 => observed[h].seen \in 1 .. ver[h]
                 /\ table[h].count > 0 => observed[h].count > 0 /\ observed[h].seen = table[h].seen
                 /\ h \in deps => observed[h].count > 0
      BY <2>2, <3>1 DEF Observe
    <3>3. ASSUME ~force, Reusable(s, seen)
          PROVE  /\ cache[s] # None
                 /\ \A h \in cache[s].deps :
                       observed[h].count > 0 /\ observed[h].seen <= obj[s].at[h]
      <4>1. cache[s] # None /\ deps = cache[s].deps /\ deps \subseteq Headers
        BY <3>3 DEF Reusable
      <4>2. \A h \in deps : seen[h] = observed[h].seen
        BY <3>1, <4>1
      <4> QED
        BY <3>2, <3>3, <4>1, <4>2 DEF Reusable
    <3>4. /\ phase' = "inspect"
          /\ \A u \in Sources : status[u] \notin {"compiling", "written", "compiled"}
      BY <2>1, <2>2
    <3> HIDE DEF observed, seen
    <3>5. ASSUME NEW u \in Sources, status'[u] = "hit"
          PROVE  /\ cache[u] # None
                 /\ \A h \in cache[u].deps :
                       observed[h].count > 0 /\ observed[h].seen <= obj[u].at[h]
      <4>1. CASE u = s
        BY <2>1, <3>3, <3>5, <4>1
      <4>2. CASE u # s
        <5>1. status[u] = "hit"
          BY <2>1, <3>5, <4>2
        <5>2. cache[u] # None /\ cache[u].deps \subseteq Headers
          BY <2>2, <5>1
        <5> QED
          BY <2>2, <3>2, <5>1, <5>2
      <4> QED
        BY <4>1, <4>2
    <3> QED
      BY <2>1, <3>2, <3>4, <3>5
  <2>3. CASE phase = "direct"
    BY <2>1, <2>3
  <2> QED
    BY <2>1, <2>2, <2>3
<1>6. ASSUME NEW s \in Sources, InspectFails(s) PROVE WindowInv'
  BY <1>6 DEF InspectFails
<1>7. ASSUME NEW s \in Sources, BeginCompile(s) PROVE WindowInv'
  BY <1>7 DEF BeginCompile
<1>8. ASSUME NEW s \in Sources, WriteObject(s) PROVE WindowInv'
  BY <1>8 DEF WriteObject, Written
<1>9. ASSUME NEW s \in Sources, CompileFails(s) PROVE WindowInv'
  BY <1>9 DEF CompileFails
<1>10. ASSUME NEW s \in Sources, SealFails(s) PROVE WindowInv'
  BY <1>10 DEF SealFails
<1>11. ASSUME NEW s \in Sources, SaveEntry(s) PROVE WindowInv'
  BY <1>11 DEF SaveEntry
<1>12. CASE EndInspection
  <2>1. CASE End("error") /\ UNCHANGED <<diskVars, artifactVars, quiet>>
    BY <2>1
  <2>2. CASE phase' = "execute" /\ UNCHANGED <<diskVars, artifactVars, force, status, reading,
                                             table, stop, outcome, quiet>>
    <3>1. phase = "inspect"
      BY <1>12 DEF EndInspection
    <3> QED
      BY <2>2, <3>1
  <2> QED
    BY <1>12, <2>1, <2>2 DEF EndInspection
<1>13. CASE EndWave
  <2>1. CASE End("error") /\ UNCHANGED <<diskVars, artifactVars, quiet>>
    BY <2>1
  <2>2. CASE StartWave(TRUE) /\ UNCHANGED <<diskVars, artifactVars, stop, outcome, quiet>>
    BY <2>2
  <2>3. CASE phase' = "link" /\ UNCHANGED <<diskVars, artifactVars, force, status, reading,
                                          table, stop, outcome, quiet>>
    BY <2>3
  <2> QED
    BY <1>13, <2>1, <2>2, <2>3 DEF EndWave
<1>14. CASE ReuseLink
  BY <1>14 DEF ReuseLink
<1>15. CASE Link
  BY <1>15 DEF Link
<1>16. CASE LinkFails
  BY <1>16 DEF LinkFails
<1>17. CASE CrashInWave
  BY <1>17 DEF CrashInWave, Written
<1>18. CASE CrashInLink
  BY <1>18 DEF CrashInLink
<1>19. CASE UNCHANGED vars
  BY <1>19 DEF vars
<1> QED
  BY <1>1, <1>2, <1>3, <1>4, <1>5, <1>6, <1>7, <1>8, <1>9, <1>10, <1>11, <1>12,
     <1>13, <1>14, <1>15, <1>16, <1>17, <1>18, <1>19 DEF Next

\* At the barrier a header somebody shared is as the table saw it, so that no unit
\* was made from, or is reused for, another version of it.
LEMMA BarrierAgrees ==
    ASSUME TypeInv, EntryInv, WindowInv, phase = "execute", Revalidated,
           NEW s \in Sources, status[s] \in {"hit", "compiled"},
           NEW h \in Headers, table[h].count > 1, h \in DOMAIN obj[s].read, ~Raced(obj[s])
    PROVE  obj[s].read[h] = table[h].seen
<1>1. table[h].seen = ver[h] /\ table[h].count > 0
  BY DEF Revalidated, TypeInv, WaveTypes
<1>2. obj[s] # None /\ ObjectOK(s, obj[s]) /\ h # s
  BY TargetAssumption DEF TypeInv, ArtifactInv
<1>3. obj[s].read[h] \in 1 .. ver[h] /\ obj[s].read[h] = obj[s].at[h] /\ ver[h] \in Nat
  BY <1>2 DEF ObjectOK, ReadOK, Raced, TypeInv, VersionInv, Files
<1>4. table[h].seen <= obj[s].read[h]
  <2>1. CASE status[s] = "compiled"
    BY <1>1, <1>2, <2>1 DEF WindowInv
  <2>2. CASE status[s] = "hit"
    <3>1. cache[s] # None /\ table[h].count > 0
      BY <1>1, <2>2 DEF WindowInv
    <3>2. h \in cache[s].deps
      BY <1>2, <2>2, <3>1 DEF EntryInv, Vouches
    <3> QED
      BY <1>3, <2>2, <3>2 DEF WindowInv
  <2> QED
    BY <2>1, <2>2
<1> QED
  BY <1>1, <1>3, <1>4

\* After the barrier neither the table nor an object changes before the link.
LEMMA BarrierStep ==
    ASSUME TypeInv, EntryInv, WindowInv, BarrierInv, [Next]_vars
    PROVE  BarrierInv'
<1> USE TargetAssumption
    DEF TypeInv, VersionInv, WaveTypes, PhaseInv, ArtifactInv, ObjectOK, ReadOK,
        BarrierInv, Raced, Sharing, NoTable, States, Files, diskVars, artifactVars,
        waveVars, End, StartWave
<1>1. ASSUME NEW f \in Files, Edit(f) PROVE BarrierInv'
  BY <1>1 DEF Edit
<1>2. CASE Reconfigure
  BY <1>2 DEF Reconfigure
<1>3. CASE RequestStop
  BY <1>3 DEF RequestStop
<1>4. ASSUME NEW forced \in BOOLEAN, StartBuild(forced) PROVE BarrierInv'
  BY <1>4 DEF StartBuild
<1>5. ASSUME NEW s \in Sources, Inspect(s) PROVE BarrierInv'
  BY <1>5 DEF Inspect
<1>6. ASSUME NEW s \in Sources, InspectFails(s) PROVE BarrierInv'
  BY <1>6 DEF InspectFails
<1>7. ASSUME NEW s \in Sources, BeginCompile(s) PROVE BarrierInv'
  BY <1>7 DEF BeginCompile
<1>8. ASSUME NEW s \in Sources, WriteObject(s) PROVE BarrierInv'
  BY <1>8 DEF WriteObject, Written
<1>9. ASSUME NEW s \in Sources, CompileFails(s) PROVE BarrierInv'
  BY <1>9 DEF CompileFails
<1>10. ASSUME NEW s \in Sources, SealFails(s) PROVE BarrierInv'
  BY <1>10 DEF SealFails
<1>11. ASSUME NEW s \in Sources, SaveEntry(s) PROVE BarrierInv'
  BY <1>11 DEF SaveEntry
<1>12. CASE EndInspection
  <2>1. CASE End("error") /\ UNCHANGED <<diskVars, artifactVars, quiet>>
    BY <2>1
  <2>2. CASE phase' = "execute" /\ UNCHANGED <<diskVars, artifactVars, force, status, reading,
                                             table, stop, outcome, quiet>>
    BY <2>2
  <2> QED
    BY <1>12, <2>1, <2>2 DEF EndInspection
<1>13. CASE EndWave
  <2>1. CASE End("error") /\ UNCHANGED <<diskVars, artifactVars, quiet>>
    BY <2>1
  <2>2. CASE StartWave(TRUE) /\ UNCHANGED <<diskVars, artifactVars, stop, outcome, quiet>>
    BY <2>2
  <2>3. CASE phase' = "link" /\ UNCHANGED <<diskVars, artifactVars, force, status, reading,
                                          table, stop, outcome, quiet>>
    <3>1. CASE ~Sharing
      BY <2>3, <3>1
    <3>2. CASE Sharing
      <4>1. phase = "execute" /\ Revalidated /\ \A s \in Sources : status[s] \in {"hit", "compiled"}
        <5>1. ~Failed /\ ~stop /\ Revalidated /\ WaveDrained
          BY <1>13, <2>3, <3>2 DEF EndWave
        <5> QED
          BY <3>2, <5>1 DEF WaveDrained, Failed, Active, Admitting
      <4> QED
        BY <2>3, <4>1, BarrierAgrees
    <3> QED
      BY <3>1, <3>2
  <2> QED
    BY <1>13, <2>1, <2>2, <2>3 DEF EndWave
<1>14. CASE ReuseLink
  BY <1>14 DEF ReuseLink
<1>15. CASE Link
  BY <1>15 DEF Link
<1>16. CASE LinkFails
  BY <1>16 DEF LinkFails
<1>17. CASE CrashInWave
  BY <1>17 DEF CrashInWave, Written
<1>18. CASE CrashInLink
  BY <1>18 DEF CrashInLink
<1>19. CASE UNCHANGED vars
  BY <1>19 DEF vars
<1> QED
  BY <1>1, <1>2, <1>3, <1>4, <1>5, <1>6, <1>7, <1>8, <1>9, <1>10, <1>11, <1>12,
     <1>13, <1>14, <1>15, <1>16, <1>17, <1>18, <1>19 DEF Next
-----------------------------------------------------------------------------
(* The invariants *)

\* Nothing has been built yet.
LEMMA TargetStart ==
    ASSUME Init
    PROVE  TypeInv /\ EntryInv /\ QuietInv /\ TargetInv /\ DoneInv /\ WindowInv /\ BarrierInv
<1> USE TargetAssumption DEF Init
<1>1. VersionInv
  BY DEF VersionInv
<1>2. WaveTypes /\ PhaseInv
  BY DEF WaveTypes, PhaseInv, Phases, States, NoTable
<1>3. ArtifactInv /\ EntryInv
  BY DEF ArtifactInv, EntryInv
<1>4. QuietInv
  BY DEF QuietInv, NoTable
<1>5. TargetInv /\ DoneInv /\ WindowInv /\ BarrierInv
  BY DEF TargetInv, DoneInv, WindowInv, BarrierInv
<1> QED
  BY <1>1, <1>2, <1>3, <1>4, <1>5 DEF TypeInv

\* Versions, phases and artifacts keep their shape.
THEOREM TargetInvariant == Spec => []TypeInv
<1>1. TypeInv /\ [Next]_vars => TypeInv'
  BY VersionStep, WaveTypesStep, PhaseStep, ArtifactStep DEF TypeInv
<1> QED
  BY <1>1, TargetStart, PTL DEF Spec

\* What an undisturbed build knows holds to its end and beyond, until the next edit.
THEOREM QuietInvariant == Spec => [](QuietInv /\ TargetInv /\ DoneInv)
<1>1. ASSUME TypeInv, QuietInv, TargetInv, DoneInv, [Next]_vars
      PROVE  QuietInv' /\ TargetInv' /\ DoneInv'
  BY <1>1, QuietStep, TargetStep, DoneStep
<1> QED
  BY <1>1, TargetStart, TargetInvariant, PTL DEF Spec

\* Entries describe their objects, and an accepted window binds the units to it.
THEOREM WindowInvariant ==
    ASSUME EntriesKeepUp PROVE Spec => [](EntryInv /\ WindowInv /\ BarrierInv)
<1>1. ASSUME TypeInv, EntryInv, WindowInv, BarrierInv, [Next]_vars
      PROVE  EntryInv' /\ WindowInv' /\ BarrierInv'
  BY <1>1, EntryStep, WindowStep, BarrierStep
<1> QED
  BY <1>1, TargetStart, TargetInvariant, PTL DEF Spec
-----------------------------------------------------------------------------
\* The link stage is entered only from a wave every unit of which is reused or
\* compiled, with no stop pending (MsvcIncrementalTargetCoordinator::run_impl).
THEOREM CompleteWaves == Spec => OnlyCompleteWavesLink
<1>1. ASSUME TypeInv, [Next]_vars, phase # "link", phase' = "link"
      PROVE  ~stop /\ \A s \in Sources : status[s] \in {"hit", "compiled"}
  <2>1. EndWave
    BY <1>1 DEF Next, vars, waveVars, artifactVars, End, StartWave, Edit, Reconfigure, RequestStop,
       StartBuild, Inspect, InspectFails, BeginCompile, WriteObject, CompileFails, SealFails,
       SaveEntry, EndInspection, ReuseLink, Link, LinkFails, CrashInWave, CrashInLink
  <2>2. ~Failed /\ ~stop /\ WaveDrained
    BY <1>1, <2>1 DEF EndWave, End, StartWave
  <2> QED
    BY <1>1, <2>2 DEF WaveDrained, Failed, Active, Admitting, TypeInv, WaveTypes, States
<1> QED
  BY <1>1, TargetInvariant, PTL DEF Spec, OnlyCompleteWavesLink

\* A unit that may be reused is raced, or the compiler would read what it read.
LEMMA ReusedIsLatest ==
    ASSUME TypeInv, EntryInv, NEW s \in Sources, status[s] # "written", Reusable(s, ver)
    PROVE  Raced(obj[s]) \/ Latest(s, obj[s].read, obj[s].flags)
<1> SUFFICES ASSUME ~Raced(obj[s]) PROVE Latest(s, obj[s].read, obj[s].flags)
  OBVIOUS
<1>1. /\ cache[s] # None /\ obj[s] # None /\ cache[s].flags = flags
      /\ ver[s] <= obj[s].at[s] /\ \A h \in cache[s].deps : ver[h] <= obj[s].at[h]
  BY DEF Reusable
<1>2. ObjectOK(s, obj[s]) /\ Vouches(s)
  BY <1>1 DEF TypeInv, ArtifactInv, EntryInv
<1>3. \A f \in DOMAIN obj[s].read : obj[s].read[f] = ver[f]
  <2> TAKE f \in DOMAIN obj[s].read
  <2>1. f \in Files /\ f \in DOMAIN obj[s].at
    BY <1>2, TargetAssumption DEF ObjectOK, ReadOK, Files, TypeInv, VersionInv
  <2>2. ver[f] \in Nat /\ obj[s].at[f] \in 1 .. ver[f] /\ obj[s].read[f] = obj[s].at[f]
    BY <1>2, <2>1 DEF ObjectOK, Raced, TypeInv, VersionInv
  <2>3. ver[f] <= obj[s].at[f]
    BY <1>1, <1>2 DEF Vouches
  <2> QED
    BY <2>2, <2>3
<1> QED
  BY <1>1, <1>2, <1>3 DEF Latest, Vouches, ObjectOK, ReadOK

\* A successful build that no edit disturbed leaves a target of the current sources,
\* headers and options, unless an object raced with an edit of its inputs: for every
\* history of edits, failures, kills and lost saves that EntriesKeepUp admits.
THEOREM QuietBuilds == ASSUME EntriesKeepUp PROVE Spec => []QuietBuildCurrent
<1>1. ASSUME TypeInv, EntryInv, DoneInv PROVE QuietBuildCurrent
  <2> SUFFICES ASSUME phase = "idle", outcome = "ok", quiet, NEW s \in Sources
               PROVE  Raced(exe.objects[s]) \/ Current(s)
    BY DEF QuietBuildCurrent
  <2>1. exe.objects[s] = obj[s] /\ (Latest(s, obj[s].read, obj[s].flags) \/ Reusable(s, ver))
    BY <1>1 DEF DoneInv
  <2>2. Raced(obj[s]) \/ Latest(s, obj[s].read, obj[s].flags)
    BY <1>1, <2>1, ReusedIsLatest DEF TypeInv, PhaseInv
  <2> QED
    BY <2>1, <2>2 DEF Current, Latest
<1> QED
  BY <1>1, TargetInvariant, QuietInvariant, WindowInvariant, PTL

\* Units linked together agree on every header whose observation they shared, however
\* it is edited during the build (the revalidation of FilesystemEvidenceTable).
THEOREM SharedWindow == ASSUME EntriesKeepUp PROVE Spec => []AcceptedWindowConsistent
<1>1. BarrierInv => AcceptedWindowConsistent
  BY DEF BarrierInv, AcceptedWindowConsistent
<1> QED
  BY <1>1, WindowInvariant, PTL

\* After an undisturbed build whose entries were all saved the next one finds every
\* unit reusable and nothing newer than the target, whatever faults came before.
THEOREM WarmBuilds == Spec => []WarmBuildReuses
<1>1. ASSUME TypeInv, DoneInv PROVE WarmBuildReuses
  <2> SUFFICES ASSUME phase = "idle", outcome = "ok", quiet,
                      \A s \in Sources : cache[s] # None /\ cache[s].flags = obj[s].flags
                                            /\ cache[s].deps = DOMAIN obj[s].read \ {s}
               PROVE  newer = {} /\ \A s \in Sources : Reusable(s, ver)
    BY DEF WarmBuildReuses
  <2>1. ASSUME NEW s \in Sources, Latest(s, obj[s].read, obj[s].flags)
        PROVE  Reusable(s, ver)
    <3>1. obj[s] # None /\ ObjectOK(s, obj[s])
      BY <1>1 DEF DoneInv, TypeInv, ArtifactInv
    <3>2. \A f \in DOMAIN obj[s].read : ver[f] <= obj[s].at[f]
      BY <2>1, <3>1 DEF Latest, ObjectOK
    <3>3. s \in DOMAIN obj[s].read
      BY <3>1 DEF ObjectOK, ReadOK
    <3> QED
      BY <2>1, <3>1, <3>2, <3>3 DEF Reusable, Latest
  <2> QED
    BY <1>1, <2>1 DEF DoneInv
<1> QED
  BY <1>1, TargetInvariant, QuietInvariant, PTL
-----------------------------------------------------------------------------
\* A table entry has no more observers than units were inspected.
Seen == {s \in Sources : status[s] # "todo"}
CountInv == \A h \in Headers : table[h].count <= Cardinality(Seen)

\* Units seen are finitely many.
LEMMA SeenBound ==
    /\ IsFiniteSet(Seen) /\ Cardinality(Seen) \in Nat
    /\ Cardinality(Seen) <= Cardinality(Sources) /\ Cardinality(Sources) \in Nat
<1>1. Seen \subseteq Sources
  BY DEF Seen
<1> QED
  BY <1>1, TargetAssumption, FS_Subset, FS_CardinalityType

\* A step that clears the table, or clears neither it nor what was seen.
LEMMA CountKept ==
    ASSUME WaveTypes, CountInv, table' = NoTable \/ (table' = table /\ Seen' = Seen)
    PROVE  CountInv'
<1>1. CASE table' = NoTable
  <2>1. Cardinality(Seen)' \in Nat
    <3>1. Seen' \subseteq Sources
      BY DEF Seen
    <3> QED
      BY <3>1, TargetAssumption, FS_Subset, FS_CardinalityType
  <2> QED
    BY <1>1, <2>1 DEF CountInv, NoTable
<1>2. CASE table' = table /\ Seen' = Seen
  BY <1>2 DEF CountInv
<1> QED
  BY <1>1, <1>2

\* One more unit was seen, with or without a look at the table.
LEMMA CountGrows ==
    ASSUME WaveTypes, CountInv, NEW s \in Sources, status[s] = "todo",
           NEW done \in States \ {"todo"}, status' = [status EXCEPT ![s] = done],
           \A h \in Headers : table'[h].count \in {table[h].count, table[h].count + 1, 1}
    PROVE  CountInv'
<1>1. Seen' = Seen \cup {s} /\ s \notin Seen
  BY DEF Seen, WaveTypes
<1>2. Cardinality(Seen)' = Cardinality(Seen) + 1
  BY <1>1, SeenBound, FS_AddElement
<1> QED
  BY <1>2, SeenBound DEF CountInv, WaveTypes

\* The table counts an observer only when it sees the unit.
LEMMA CountStep == ASSUME TypeInv, CountInv, [Next]_vars PROVE CountInv'
<1> USE DEF TypeInv, WaveTypes, States
<1>1. ASSUME NEW s \in Sources, Inspect(s) PROVE CountInv'
  <2>1. \A h \in Headers : table'[h].count \in {table[h].count, table[h].count + 1, 1}
    BY <1>1 DEF Inspect, Observe
  <2>2. /\ status[s] = "todo"
        /\ \E done \in {"hit", "miss"} : status' = [status EXCEPT ![s] = done]
    BY <1>1 DEF Inspect
  <2> QED
    BY <2>1, <2>2, CountGrows
<1>2. ASSUME NEW s \in Sources, InspectFails(s) PROVE CountInv'
  <2>1. status[s] = "todo" /\ status' = [status EXCEPT ![s] = "failed"] /\ table' = table
    BY <1>2 DEF InspectFails
  <2> QED
    BY <2>1, CountGrows
<1>3. CASE \/ \E f \in Files : Edit(f)
           \/ Reconfigure \/ RequestStop \/ EndInspection \/ EndWave
           \/ \E forced \in BOOLEAN : StartBuild(forced)
           \/ UNCHANGED vars
  <2>1. table' = NoTable \/ (table' = table /\ status' = status)
    BY <1>3 DEF Edit, Reconfigure, RequestStop, EndInspection, EndWave, StartBuild, StartWave,
       End, waveVars, vars
  <2> QED
    BY <2>1, CountKept DEF Seen
<1>4. ASSUME NEW s \in Sources,
             \/ BeginCompile(s) \/ WriteObject(s) \/ CompileFails(s) \/ SealFails(s) \/ SaveEntry(s)
      PROVE  CountInv'
  <2>1. /\ status[s] # "todo" /\ table' = table
        /\ \E done \in States \ {"todo"} : status' = [status EXCEPT ![s] = done]
    BY <1>4 DEF BeginCompile, WriteObject, CompileFails, SealFails, SaveEntry
  <2> QED
    BY <2>1, CountKept DEF Seen
<1>5. CASE ReuseLink \/ Link \/ LinkFails \/ CrashInWave \/ CrashInLink
  <2>1. table' = NoTable
    BY <1>5 DEF ReuseLink, Link, LinkFails, CrashInWave, CrashInLink, End
  <2> QED
    BY <2>1, CountKept
<1> QED
  BY <1>1, <1>2, <1>3, <1>4, <1>5 DEF Next

\* The type invariant of the runs.
THEOREM TargetTypes == Spec => []TypeOK
<1>1. Init => CountInv
  <2> SUFFICES ASSUME Init PROVE CountInv
    OBVIOUS
  <2> QED
    BY SeenBound DEF Init, CountInv, NoTable
<1>2. ASSUME TypeInv, CountInv PROVE TypeOK
  <2>1. \A h \in Headers : table[h].count \in 0 .. Cardinality(Sources)
    BY <1>2, SeenBound DEF CountInv, TypeInv, WaveTypes
  <2>2. \A s \in Sources : obj[s] # None =>
            \A f \in DOMAIN obj[s].read : obj[s].read[f] <= obj[s].at[f]
    BY <1>2 DEF TypeInv, ArtifactInv, ObjectOK
  <2> QED
    BY <1>2, <2>1, <2>2 DEF TypeOK, TypeInv, VersionInv, WaveTypes
<1> QED
  BY <1>1, <1>2, CountStep, TargetInvariant, PTL DEF Spec
=============================================================================
