---------------------------- MODULE StaticProofs ----------------------------
(***************************************************************************)
(* Three facts about StaticTarget for every set of units, headers, options *)
(* and any number of edits: its types; that every archive is of one piece, *)
(* its members compiled against the header archived with them; and that    *)
(* an undisturbed build leaves an archive made of what is there now.       *)
(***************************************************************************)
EXTENDS StaticTarget, WellFoundedInduction, TLAPS

Calls == [todo : SUBSET Units, forced : BOOLEAN, any : BOOLEAN, failed : BOOLEAN]

\* The part of TypeOK that the argument uses.
ShapeInv == call \in Calls /\ DOMAIN obj = Units /\ DOMAIN entry = Units

Made(u) == obj[u].pch = pch
Uniform == \A u \in Units : lib.members[u].pch = lib.pch

\* A unit's entry names the precompiled header among what the unit depends on.
EntryInv == \A u \in Units : entry[u] # Nothing => <<"pch">> \in entry[u].deps

\* An object that is not older than the precompiled header was made with it.
AgeInv == \A u \in Units :
    (obj[u] # Nothing /\ pch # Nothing /\ <<"pch">> \notin newer[u]) => Made(u)

\* What a wave has done so far, unless a unit failed, was made with the header.
WaveInv ==
    /\ (phase = "wave" /\ ~call.failed) => \A u \in Units \ call.todo : Made(u)
    /\ phase = "archive" => \A u \in Units : Made(u)

ArchiveInv == (lib # Nothing \/ phase = "sealing") => Uniform

PchInv == ShapeInv /\ EntryInv /\ AgeInv /\ WaveInv /\ ArchiveInv
-----------------------------------------------------------------------------
(* How a step may look to the objects of a target *)

\* A step that changes neither the header, the objects nor their entries, and lets no
\* output look younger, keeps what is known of their age.
LEMMA AgeKept ==
    ASSUME EntryInv, AgeInv, UNCHANGED <<pch, obj, entry>>,
           \A u \in Units : newer[u] \subseteq newer'[u]
    PROVE  EntryInv' /\ AgeInv'
BY DEF EntryInv, AgeInv, Made

\* What the user changes is newer than every object.
LEMMA ChangedGrows ==
    ASSUME NEW things, Changed(things)
    PROVE  \A u \in Units : newer'[u] = newer[u] \cup things
BY DEF Changed, Outputs

\* So is an output that the program writes, than every other one.
LEMMA WroteGrows ==
    ASSUME NEW o, NEW things, Wrote(o, things)
    PROVE  \A u \in Units : u # o => newer'[u] = newer[u] \cup things
BY DEF Wrote, Outputs

\* The names of the three kinds of output differ.
LEMMA PchIsNoUnit == \A u \in Units : u # "pch" /\ u # "lib"
BY UnitsAssumption

\* A new header makes every object older than it.
LEMMA HeaderWritten ==
    ASSUME EntryInv, UNCHANGED <<obj, entry>>, NEW things,
           Wrote("pch", {<<"pch">>} \cup things)
    PROVE  EntryInv' /\ AgeInv'
<1>1. \A u \in Units : <<"pch">> \in newer'[u]
  BY WroteGrows, PchIsNoUnit
<1> QED BY <1>1 DEF EntryInv, AgeInv

\* The call is over or has just begun.
LEMMA NothingDone ==
    ASSUME WaveInv, phase' = "idle" \/ (phase' = "wave" /\ call'.todo = Units)
    PROVE  WaveInv'
BY DEF WaveInv

\* A step of the user or of an idle mqb.
LEMMA WaveKept ==
    ASSUME WaveInv, UNCHANGED <<pch, obj, phase, call>>
    PROVE  WaveInv'
BY DEF WaveInv, Made

\* An archive that is left alone stays of one piece.
LEMMA ArchiveKept ==
    ASSUME ArchiveInv, lib' = lib, phase' = "sealing" => phase = "sealing"
    PROVE  ArchiveInv'
BY DEF ArchiveInv, Uniform
-----------------------------------------------------------------------------
\* Nothing is built yet, or the header an older MQB left.
LEMMA PchInvStart == Init => PchInv
<1> SUFFICES ASSUME Init PROVE PchInv
  OBVIOUS
<1>1. ShapeInv
  BY DEF Init, ShapeInv, NoCall, Calls
<1>2. EntryInv /\ AgeInv
  BY DEF Init, EntryInv, AgeInv
<1>3. WaveInv /\ ArchiveInv
  BY DEF Init, WaveInv, ArchiveInv
<1> QED BY <1>1, <1>2, <1>3 DEF PchInv

\* A call is one record all along, and every unit has its object and its entry.
LEMMA ShapeStep == ShapeInv /\ [Next]_vars => ShapeInv'
<1> SUFFICES ASSUME ShapeInv, [Next]_vars PROVE ShapeInv'
  OBVIOUS
<1> USE DEF ShapeInv
<1>a. NoCall \in Calls
  BY DEF NoCall, Calls
<1>b. \A c \in Calls :
        /\ [c EXCEPT !.todo = Units] \in Calls
        /\ [c EXCEPT !.todo = Units, !.forced = TRUE] \in Calls
        /\ \A u \in Units : /\ [c EXCEPT !.todo = @ \ {u}] \in Calls
                           /\ [c EXCEPT !.todo = @ \ {u}, !.any = TRUE] \in Calls
                           /\ [c EXCEPT !.todo = @ \ {u}, !.failed = TRUE] \in Calls
  BY DEF Calls
<1>1. CASE UNCHANGED vars
  BY <1>1 DEF vars, unitVars, callVars
<1>2. CASE \E p \in EditedPaths : PutHeader(p) \/ RemoveHeader(p)
  BY <1>2 DEF PutHeader, RemoveHeader, unitVars, callVars
<1>3. CASE \E u \in Units : EditSource(u) \/ ReuseUnit(u) \/ CompileUnit(u) \/ UnitFails(u)
  <2> PICK u \in Units : EditSource(u) \/ ReuseUnit(u) \/ CompileUnit(u) \/ UnitFails(u)
    BY <1>3
  <2>1. CASE EditSource(u) \/ ReuseUnit(u)
    BY <2>1, <1>b DEF EditSource, ReuseUnit, unitVars, callVars
  <2>2. CASE CompileUnit(u)
    <3>1. call' \in Calls /\ DOMAIN obj' = Units
      BY <2>2, <1>b DEF CompileUnit
    <3>2. DOMAIN entry' = Units
      BY <2>2 DEF CompileUnit
    <3> QED BY <3>1, <3>2
  <2>3. CASE UnitFails(u)
    BY <2>3, <1>b DEF UnitFails
  <2> QED BY <2>1, <2>2, <2>3
<1>4. CASE Reconfigure \/ Tamper
  <2>1. CASE Reconfigure
    BY <2>1 DEF Reconfigure, unitVars, callVars
  <2>2. CASE Tamper
    BY <2>2 DEF Tamper, callVars
  <2> QED BY <1>4, <2>1, <2>2
<1>5. CASE HeaderMissing \/ ReusePch \/ CompilePch \/ PchFails
  <2>1. UNCHANGED <<obj, entry>>
    BY <1>5 DEF HeaderMissing, ReusePch, CompilePch, PchFails, unitVars
  <2>2. call' \in Calls
    BY <1>5, <1>a, <1>b DEF HeaderMissing, ReusePch, CompilePch, PchFails, End
  <2> QED BY <2>1, <2>2
<1>6. CASE WaveFails \/ RetryWave \/ EndWave
  <2>1. UNCHANGED <<obj, entry>>
    BY <1>6 DEF WaveFails, RetryWave, EndWave, unitVars
  <2>2. call' \in Calls
    BY <1>6, <1>a, <1>b DEF WaveFails, RetryWave, EndWave, End
  <2> QED BY <2>1, <2>2
<1>7. CASE ArchiveRejected \/ ReuseArchive \/ Archive \/ ArchiveFails
  <2>1. UNCHANGED <<obj, entry>>
    BY <1>7 DEF ArchiveRejected, ReuseArchive, Archive, ArchiveFails, unitVars
  <2>2. call' \in Calls
    BY <1>7, <1>a, <1>b DEF ArchiveRejected, ReuseArchive, Archive, ArchiveFails, End
  <2> QED BY <2>1, <2>2
<1>8. CASE SaveArchiveEntry \/ SaveArchiveEntryFails \/ Crash
  <2>1. UNCHANGED <<obj, entry>>
    BY <1>8 DEF SaveArchiveEntry, SaveArchiveEntryFails, Crash, unitVars
  <2>2. call' \in Calls
    BY <1>8, <1>a, <1>b DEF SaveArchiveEntry, SaveArchiveEntryFails, Crash, End
  <2> QED BY <2>1, <2>2
<1> QED BY <1>1, <1>2, <1>3, <1>4, <1>5, <1>6, <1>7, <1>8 DEF Next
-----------------------------------------------------------------------------
(* The steps that make or judge an object *)

\* A reused object is not older than the header its entry names.
LEMMA ReuseUnitStep ==
    ASSUME PchInv, NEW u \in Units, ReuseUnit(u)
    PROVE  EntryInv' /\ AgeInv' /\ WaveInv' /\ ArchiveInv'
<1> USE DEF PchInv
<1>1. UNCHANGED <<pch, obj, entry, lib, newer, phase>>
  BY DEF ReuseUnit, pchVars, unitVars, libVars
<1>2. Made(u)
  <2>1. /\ entry[u] # Nothing /\ obj[u] # Nothing /\ pch # Nothing
        /\ newer[u] \cap (entry[u].deps \cup {<<"src", u>>}) = {}
    BY DEF ReuseUnit, UnitReusable, UpToDate
  <2>2. <<"pch">> \in entry[u].deps
    BY <2>1 DEF EntryInv
  <2> QED BY <2>1, <2>2 DEF AgeInv
<1>3. EntryInv' /\ AgeInv'
  BY <1>1, AgeKept
<1>4. WaveInv'
  <2>1. phase = "wave" /\ call'.todo = call.todo \ {u} /\ call'.failed = call.failed
    BY DEF ReuseUnit, ShapeInv, Calls
  <2> QED BY <1>1, <1>2, <2>1 DEF WaveInv, Made
<1>5. ArchiveInv'
  BY <1>1, ArchiveKept
<1> QED BY <1>3, <1>4, <1>5

\* A unit is compiled with the header that is there.
LEMMA CompileUnitStep ==
    ASSUME PchInv, NEW u \in Units, CompileUnit(u)
    PROVE  EntryInv' /\ AgeInv' /\ WaveInv' /\ ArchiveInv'
<1> USE DEF PchInv
<1>1. UNCHANGED <<pch, lib, phase>>
  BY DEF CompileUnit, pchVars, libVars
<1>2. Made(u)' /\ \A v \in Units \ {u} : obj'[v] = obj[v]
  BY <1>1 DEF CompileUnit, UnitNow, Made, ShapeInv
<1>3. EntryInv'
  <2>1. \A v \in Units \ {u} : entry'[v] = entry[v]
    BY DEF CompileUnit, ShapeInv
  <2>2. entry'[u] \in {EntryFor(UnitDependencies(u)), entry[u], Nothing}
    BY DEF CompileUnit, ShapeInv, Kept
  <2>3. <<"pch">> \in EntryFor(UnitDependencies(u)).deps
    BY DEF EntryFor, UnitDependencies
  <2> QED BY <2>1, <2>2, <2>3 DEF EntryInv
<1>4. AgeInv'
  <2>1. \A v \in Units \ {u} : newer[v] \subseteq newer'[v]
    BY WroteGrows DEF CompileUnit
  <2> QED BY <1>1, <1>2, <2>1 DEF AgeInv, Made
<1>5. WaveInv'
  <2>1. phase = "wave" /\ call'.todo = call.todo \ {u} /\ call'.failed = call.failed
    BY DEF CompileUnit, ShapeInv, Calls
  <2> QED BY <1>1, <1>2, <2>1 DEF WaveInv, Made
<1>6. ArchiveInv'
  BY <1>1, ArchiveKept
<1> QED BY <1>3, <1>4, <1>5, <1>6

\* A unit that fails leaves no object and a wave that counts as failed.
LEMMA UnitFailsStep ==
    ASSUME PchInv, NEW u \in Units, UnitFails(u)
    PROVE  EntryInv' /\ AgeInv' /\ WaveInv' /\ ArchiveInv'
<1> USE DEF PchInv
<1>1. UNCHANGED <<pch, entry, lib, newer, phase>> /\ phase = "wave" /\ call'.failed
  BY DEF UnitFails, pchVars, libVars, ShapeInv, Calls
<1>2. obj'[u] = Nothing /\ \A v \in Units \ {u} : obj'[v] = obj[v]
  BY DEF UnitFails, ShapeInv
<1>3. EntryInv' /\ AgeInv'
  BY <1>1, <1>2 DEF EntryInv, AgeInv, Made
<1>4. WaveInv' /\ ArchiveInv'
  BY <1>1, ArchiveKept DEF WaveInv
<1> QED BY <1>3, <1>4

\* An artifact that is gone says nothing.
LEMMA TamperStep ==
    ASSUME PchInv, Tamper
    PROVE  EntryInv' /\ AgeInv' /\ WaveInv' /\ ArchiveInv'
<1> USE DEF PchInv
<1>1. UNCHANGED <<entry, newer, phase, call>> /\ phase = "idle"
  BY DEF Tamper, callVars
<1>2. /\ pch' = pch \/ pch' = Nothing
      /\ lib' = lib \/ lib' = Nothing
      /\ \A u \in Units : obj'[u] = obj[u] \/ obj'[u] = Nothing
  BY DEF Tamper, ShapeInv
<1>3. EntryInv' /\ AgeInv'
  BY <1>1, <1>2 DEF EntryInv, AgeInv, Made
<1>4. WaveInv'
  BY <1>1, NothingDone
<1>5. ArchiveInv'
  BY <1>1, <1>2 DEF ArchiveInv, Uniform
<1> QED BY <1>3, <1>4, <1>5
-----------------------------------------------------------------------------
(* The other steps *)

\* What the user does leaves the artifacts as they are.
LEMMA UserStep ==
    ASSUME PchInv, NEW things, Changed(things) \/ UNCHANGED newer,
           UNCHANGED <<pchVars, unitVars, libVars, phase, call>>
    PROVE  EntryInv' /\ AgeInv' /\ WaveInv' /\ ArchiveInv'
<1> USE DEF PchInv
<1>1. UNCHANGED <<pch, obj, entry, lib>>
  BY DEF pchVars, unitVars, libVars
<1>2. \A u \in Units : newer[u] \subseteq newer'[u]
  BY ChangedGrows
<1> QED BY <1>1, <1>2, AgeKept, WaveKept, ArchiveKept

\* The header is compiled, reused or given up before any unit is looked at.
LEMMA PchStep ==
    ASSUME PchInv, HeaderMissing \/ ReusePch \/ CompilePch \/ PchFails
    PROVE  EntryInv' /\ AgeInv' /\ WaveInv' /\ ArchiveInv'
<1> USE DEF PchInv
<1>1. UNCHANGED <<obj, entry, lib>>
  BY DEF HeaderMissing, ReusePch, CompilePch, PchFails, unitVars, libVars
<1>2. phase' = "idle" \/ (phase' = "wave" /\ call'.todo = Units)
  BY DEF HeaderMissing, ReusePch, CompilePch, PchFails, End, NoCall
<1>3. EntryInv' /\ AgeInv'
  <2>1. CASE HeaderMissing \/ ReusePch
    BY <1>1, <2>1, AgeKept DEF HeaderMissing, ReusePch, pchVars
  <2>2. CASE CompilePch
    BY <1>1, <2>2, HeaderWritten DEF CompilePch
  <2>3. CASE PchFails
    <3>1. CASE \E things : Wrote("pch", {<<"pch">>} \cup things)
      BY <1>1, <3>1, HeaderWritten
    <3>2. CASE /\ pch' \in Kept(pch)
               /\ Changed(IF creator # "good" THEN {<<"creator">>} ELSE {})
      <4>1. \A u \in Units : newer[u] \subseteq newer'[u]
        BY <3>2, ChangedGrows
      <4> QED BY <1>1, <3>2, <4>1 DEF EntryInv, AgeInv, Made, Kept
    <3> QED BY <2>3, <3>1, <3>2 DEF PchFails
  <2> QED BY <2>1, <2>2, <2>3
<1>4. WaveInv' /\ ArchiveInv'
  BY <1>1, <1>2, NothingDone, ArchiveKept
<1> QED BY <1>3, <1>4

\* The end of a wave: it failed, is run again, or hands its objects to the archive.
LEMMA WaveStep ==
    ASSUME PchInv, WaveFails \/ RetryWave \/ EndWave
    PROVE  EntryInv' /\ AgeInv' /\ WaveInv' /\ ArchiveInv'
<1> USE DEF PchInv
<1>1. UNCHANGED <<pch, obj, entry, lib, newer>> /\ phase' # "sealing"
  BY DEF WaveFails, RetryWave, EndWave, WaveDone, End, pchVars, unitVars, libVars
<1>2. WaveInv'
  <2>1. CASE WaveFails \/ RetryWave
    BY <2>1, NothingDone DEF WaveFails, RetryWave, WaveDone, End, ShapeInv, Calls
  <2>2. CASE EndWave
    <3>1. \A u \in Units : Made(u)
      BY <2>2 DEF EndWave, WaveDone, WaveInv
    <3> QED BY <1>1, <2>2, <3>1 DEF EndWave, WaveInv, Made
  <2> QED BY <2>1, <2>2
<1> QED BY <1>1, <1>2, AgeKept, ArchiveKept

\* LIB takes the objects that the wave left.
LEMMA ArchiveStep ==
    ASSUME PchInv,
           \/ ArchiveRejected \/ ReuseArchive \/ Archive \/ ArchiveFails
           \/ SaveArchiveEntry \/ SaveArchiveEntryFails \/ Crash
    PROVE  EntryInv' /\ AgeInv' /\ WaveInv' /\ ArchiveInv'
<1> USE DEF PchInv
<1>1. CASE Archive
  <2>1. UNCHANGED <<pch, obj, entry, call>> /\ phase = "archive" /\ phase' = "sealing"
    BY <1>1 DEF Archive, pchVars, unitVars
  <2>2. \A u \in Units : newer[u] \subseteq newer'[u]
    BY <1>1, WroteGrows, PchIsNoUnit DEF Archive
  <2>3. Uniform'
    <3>1. lib' = [pch |-> pch, members |-> obj, recipe |-> Recipe]
      BY <1>1 DEF Archive
    <3>2. \A u \in Units : Made(u)
      BY <2>1 DEF WaveInv
    <3> QED BY <3>1, <3>2 DEF Uniform, Made
  <2> QED BY <2>1, <2>2, <2>3, AgeKept DEF WaveInv, ArchiveInv
<1>2. CASE \/ ArchiveRejected \/ ReuseArchive \/ ArchiveFails
           \/ SaveArchiveEntry \/ SaveArchiveEntryFails \/ Crash
  <2>1. UNCHANGED <<pch, obj, entry, newer>> /\ phase' = "idle"
    BY <1>2 DEF ArchiveRejected, ReuseArchive, ArchiveFails, SaveArchiveEntry,
                SaveArchiveEntryFails, Crash, End, pchVars, unitVars
  <2>2. lib' = lib \/ lib' = Nothing
    BY <1>2 DEF ArchiveRejected, ReuseArchive, ArchiveFails, SaveArchiveEntry,
                SaveArchiveEntryFails, Crash, Kept, libVars
  <2> QED BY <2>1, <2>2, AgeKept, NothingDone DEF ArchiveInv, Uniform
<1> QED BY <1>1, <1>2

\* The steps together.
LEMMA PchInvStep == PchInv /\ [Next]_vars => PchInv'
<1> SUFFICES ASSUME PchInv, [Next]_vars PROVE EntryInv' /\ AgeInv' /\ WaveInv' /\ ArchiveInv'
  BY ShapeStep DEF PchInv
<1>1. CASE UNCHANGED vars
  BY <1>1, UserStep DEF vars, callVars
<1>2. CASE \E p \in EditedPaths : PutHeader(p) \/ RemoveHeader(p)
  BY <1>2, UserStep DEF PutHeader, RemoveHeader, callVars
<1>3. CASE \E u \in Units : EditSource(u) \/ ReuseUnit(u) \/ CompileUnit(u) \/ UnitFails(u)
  <2> PICK u \in Units : EditSource(u) \/ ReuseUnit(u) \/ CompileUnit(u) \/ UnitFails(u)
    BY <1>3
  <2>1. CASE EditSource(u)
    BY <2>1, UserStep DEF EditSource, callVars
  <2> QED BY <2>1, ReuseUnitStep, CompileUnitStep, UnitFailsStep
<1>4. CASE Reconfigure
  BY <1>4, UserStep DEF Reconfigure, callVars
<1>5. CASE Tamper
  BY <1>5, TamperStep
<1>6. CASE HeaderMissing \/ ReusePch \/ CompilePch \/ PchFails
  BY <1>6, PchStep
<1>7. CASE WaveFails \/ RetryWave \/ EndWave
  BY <1>7, WaveStep
<1>8. CASE \/ ArchiveRejected \/ ReuseArchive \/ Archive \/ ArchiveFails
           \/ SaveArchiveEntry \/ SaveArchiveEntryFails \/ Crash
  BY <1>8, ArchiveStep
<1> QED BY <1>1, <1>2, <1>3, <1>4, <1>5, <1>6, <1>7, <1>8 DEF Next

\* The inductive invariant holds in every reachable state.
THEOREM PchInvariant == Spec => []PchInv
BY PchInvStart, PchInvStep, PTL DEF Spec

\* The objects of a library were all compiled against the precompiled header whose
\* object is archived with them (MsvcIncrementalStaticTargetCoordinator).
THEOREM OneHeader == Spec => []OnePch
<1>1. PchInv => OnePch
  BY DEF PchInv, ArchiveInv, Uniform, OnePch
<1> QED BY <1>1, PchInvariant, PTL
-----------------------------------------------------------------------------
(* Types *)

TypeInv == TypeOK /\ ShapeInv /\ edits \in 0 .. StaticEdits

\* What a step adds to what is newer than an output is tracked.
LEMMA ChangedTyped ==
    ASSUME newer \in [Outputs -> SUBSET Tracked], NEW things \in SUBSET Tracked,
           Changed(things)
    PROVE  newer' \in [Outputs -> SUBSET Tracked]
BY DEF Changed

\* The same of an output the program writes.
LEMMA WroteTyped ==
    ASSUME newer \in [Outputs -> SUBSET Tracked], NEW o, NEW things \in SUBSET Tracked,
           Wrote(o, things)
    PROVE  newer' \in [Outputs -> SUBSET Tracked]
BY DEF Wrote

\* The bound on the edits is the bound on every version.
LEMMA UserTyped ==
    ASSUME TypeInv, Changing
    PROVE  edits' \in 0 .. StaticEdits /\ edits + 2 \in 1 .. StaticEdits + 1
BY EditsAssumption DEF TypeInv, Changing

\* The types hold at the start,
LEMMA TypeStart == Init => TypeInv
<1> SUFFICES ASSUME Init PROVE TypeInv
  OBVIOUS
<1>1. place \in [HeaderPaths -> 0 .. StaticEdits + 1] /\ source \in [Units -> 1 .. StaticEdits + 1]
  BY EditsAssumption DEF Init
<1>2. ShapeInv
  BY PchInvStart DEF PchInv
<1> QED BY <1>1, <1>2, EditsAssumption DEF Init, TypeInv, TypeOK, NoCall, Upgraded

\* when a header appears, changes or goes,
LEMMA HeaderTyped ==
    ASSUME TypeInv, NEW p \in EditedPaths, PutHeader(p) \/ RemoveHeader(p)
    PROVE  TypeOK' /\ edits' \in 0 .. StaticEdits
<1> USE DEF TypeInv, TypeOK
<1>1. <<"file", p>> \in Tracked /\ <<"dir", p[1]>> \in Tracked
  <2>1. p \in HeaderPaths
    BY PathsAssumption
  <2>2. p[1] \in {0} \cup Roots
    <3>1. CASE p = PchHeader
      BY <3>1 DEF PchHeader
    <3>2. CASE p \in ({0} \cup Roots) \X HeaderNames
      BY <3>2
    <3> QED BY <2>1, <3>1, <3>2 DEF HeaderPaths
  <2> QED BY <2>1, <2>2 DEF Tracked
<1>2. newer' \in [Outputs -> SUBSET Tracked]
  BY <1>1, ChangedTyped DEF PutHeader, RemoveHeader
<1>3. place' \in [HeaderPaths -> 0 .. StaticEdits + 1]
  BY UserTyped, EditsAssumption DEF PutHeader, RemoveHeader
<1> QED BY <1>2, <1>3, UserTyped DEF PutHeader, RemoveHeader, pchVars, libVars, callVars

\* when a source is edited,
LEMMA SourceTyped ==
    ASSUME TypeInv, NEW u \in Units, EditSource(u)
    PROVE  TypeOK' /\ edits' \in 0 .. StaticEdits
<1> USE DEF TypeInv, TypeOK
<1>1. newer' \in [Outputs -> SUBSET Tracked]
  BY ChangedTyped DEF EditSource, Tracked
<1>2. source' \in [Units -> 1 .. StaticEdits + 1]
  BY UserTyped DEF EditSource
<1> QED BY <1>1, <1>2, UserTyped DEF EditSource, pchVars, libVars, callVars

\* when the precompiled header is compiled,
LEMMA HeaderCompileTyped ==
    ASSUME TypeInv, HeaderMissing \/ ReusePch \/ CompilePch \/ PchFails
    PROVE  TypeOK'
<1> USE DEF TypeInv, TypeOK
<1>1. newer' \in [Outputs -> SUBSET Tracked]
  <2>1. {<<"pch">>, <<"creator">>} \subseteq Tracked
    BY DEF Tracked, ArchiveInputs
  <2>2. CASE HeaderMissing \/ ReusePch
    BY <2>2 DEF HeaderMissing, ReusePch
  <2>3. CASE CompilePch
    BY <2>1, <2>3, WroteTyped DEF CompilePch
  <2>4. CASE PchFails
    BY <2>1, <2>4, WroteTyped, ChangedTyped DEF PchFails
  <2> QED BY <2>2, <2>3, <2>4
<1>2. UNCHANGED <<regime, place, source, options>> /\ creator' \in {"absent", "good", "bad"}
  BY DEF HeaderMissing, ReusePch, CompilePch, PchFails, userVars, pchVars
<1>3. \/ phase' = "idle" /\ call' = NoCall /\ outcome' = "error"
      \/ phase' = "wave" /\ call'.todo = Units /\ outcome' = "none"
  BY DEF HeaderMissing, ReusePch, CompilePch, PchFails, End, NoCall
<1> QED BY <1>1, <1>2, <1>3 DEF NoCall

\* when a unit is,
LEMMA UnitTyped ==
    ASSUME TypeInv, NEW u \in Units, ReuseUnit(u) \/ CompileUnit(u) \/ UnitFails(u)
    PROVE  TypeOK'
<1> USE DEF TypeInv, TypeOK
<1>1. newer' \in [Outputs -> SUBSET Tracked]
  BY WroteTyped DEF ReuseUnit, CompileUnit, UnitFails, Tracked, ArchiveInputs
<1>2. call'.todo \subseteq Units
  BY DEF ReuseUnit, CompileUnit, UnitFails, ShapeInv, Calls
<1>3. phase = "wave" /\ UNCHANGED <<regime, place, source, options, creator, phase, outcome>>
  BY DEF ReuseUnit, CompileUnit, UnitFails, userVars, pchVars
<1> QED BY <1>1, <1>2, <1>3

\* at the end of a wave,
LEMMA WaveTyped ==
    ASSUME TypeInv, WaveFails \/ RetryWave \/ EndWave
    PROVE  TypeOK'
<1> USE DEF TypeInv, TypeOK
<1>1. UNCHANGED <<regime, place, source, options, creator, newer>>
  BY DEF WaveFails, RetryWave, EndWave, userVars, pchVars
<1>2. \/ phase' = "idle" /\ call' = NoCall /\ outcome' = "error"
      \/ phase' = "wave" /\ call'.todo = Units /\ outcome' = outcome
      \/ phase' = "archive" /\ call' = call /\ call.todo = {} /\ ~call.failed /\ outcome' = outcome
  BY DEF WaveFails, RetryWave, EndWave, WaveDone, End, ShapeInv, Calls
<1> QED BY <1>1, <1>2 DEF NoCall

\* in the archive stage,
LEMMA ArchiveTyped ==
    ASSUME TypeInv,
           \/ ArchiveRejected \/ ReuseArchive \/ Archive \/ ArchiveFails
           \/ SaveArchiveEntry \/ SaveArchiveEntryFails \/ Crash
    PROVE  TypeOK'
<1> USE DEF TypeInv, TypeOK
<1>1. CASE Archive
  <2>1. newer' \in [Outputs -> SUBSET Tracked]
    BY <1>1, WroteTyped DEF Archive
  <2>2. lib' # Nothing
    <3>1. DOMAIN lib' = {"pch", "members", "recipe"}
      BY <1>1 DEF Archive
    <3>2. DOMAIN Nothing = {"kind"}
      BY DEF Nothing
    <3> QED BY <3>1, <3>2
  <2> QED BY <1>1, <2>1, <2>2 DEF Archive, userVars, pchVars
<1>2. CASE \/ ArchiveRejected \/ ReuseArchive \/ ArchiveFails
           \/ SaveArchiveEntry \/ SaveArchiveEntryFails \/ Crash
  <2>1. UNCHANGED <<regime, place, source, options, creator, newer>>
    BY <1>2 DEF ArchiveRejected, ReuseArchive, ArchiveFails, SaveArchiveEntry,
                SaveArchiveEntryFails, Crash, userVars, pchVars
  <2>2. phase' = "idle" /\ call' = NoCall /\ outcome' \in {"ok", "error"}
    BY <1>2 DEF ArchiveRejected, ReuseArchive, ArchiveFails, SaveArchiveEntry,
                SaveArchiveEntryFails, Crash, End
  <2> QED BY <2>1, <2>2 DEF NoCall
<1> QED BY <1>1, <1>2

\* and so in every step.
LEMMA TypeStep == TypeInv /\ [Next]_vars => TypeInv'
<1> SUFFICES ASSUME TypeInv, [Next]_vars PROVE TypeOK' /\ edits' \in 0 .. StaticEdits
  BY ShapeStep DEF TypeInv
<1>1. CASE UNCHANGED vars
  BY <1>1 DEF vars, userVars, pchVars, libVars, callVars, TypeInv, TypeOK
<1>2. CASE \E p \in EditedPaths : PutHeader(p) \/ RemoveHeader(p)
  BY <1>2, HeaderTyped
<1>3. CASE \E u \in Units : EditSource(u)
  BY <1>3, SourceTyped
<1>4. CASE Reconfigure \/ Tamper
  <2>1. UNCHANGED <<regime, place, source, newer, phase, call, outcome>> /\ phase = "idle"
    BY <1>4 DEF Reconfigure, Tamper, callVars
  <2>2. options' \in TargetOptions /\ creator' \in {"absent", "good", "bad"}
    BY <1>4 DEF Reconfigure, Tamper, pchVars, TypeInv, TypeOK
  <2>3. edits' \in 0 .. StaticEdits
    BY <1>4, UserTyped DEF Reconfigure, Tamper
  <2> QED BY <2>1, <2>2, <2>3 DEF TypeInv, TypeOK
<1>5. CASE /\ \/ HeaderMissing \/ ReusePch \/ CompilePch \/ PchFails
              \/ \E u \in Units : ReuseUnit(u) \/ CompileUnit(u) \/ UnitFails(u)
              \/ WaveFails \/ RetryWave \/ EndWave
              \/ ArchiveRejected \/ ReuseArchive \/ Archive \/ ArchiveFails
              \/ SaveArchiveEntry \/ SaveArchiveEntryFails \/ Crash
  <2>1. TypeOK'
    BY <1>5, HeaderCompileTyped, UnitTyped, WaveTyped, ArchiveTyped
  <2>2. edits' = edits
    BY <1>5 DEF HeaderMissing, ReusePch, CompilePch, PchFails, ReuseUnit, CompileUnit, UnitFails,
                WaveFails, RetryWave, EndWave, ArchiveRejected, ReuseArchive, Archive,
                ArchiveFails, SaveArchiveEntry, SaveArchiveEntryFails, Crash, userVars
  <2> QED BY <2>1, <2>2 DEF TypeInv
<1> QED BY <1>1, <1>2, <1>3, <1>4, <1>5 DEF Next

\* The variables of the static target keep their types, and only a finished wave is
\* archived (MsvcIncrementalStaticTargetCoordinator).
THEOREM StaticTypes == Spec => []TypeOK
<1>1. TypeInv => TypeOK
  BY DEF TypeInv
<1> QED BY <1>1, TypeStart, TypeStep, PTL DEF Spec
-----------------------------------------------------------------------------
(* An undisturbed build leaves a current archive *)

\* include_search_roots' order and its hits for given roots, such as an entry's.
OrderIn(roots, n) == (IF n \in QuotedNames THEN <<0>> ELSE <<>>) \o roots
HitsIn(roots, n) == {i \in DOMAIN OrderIn(roots, n) : place[<<OrderIn(roots, n)[i], n>>] # 0}
FoundIn(roots, names) ==
    {<<OrderIn(roots, n)[Min(HitsIn(roots, n))], n>> : n \in {m \in names : HitsIn(roots, m) # {}}}
DirsIn(roots, names) == ToSet(roots) \cup (IF LooksBesideItself(names) THEN {0} ELSE {})
ReadIn(roots, names) == [p \in FoundIn(roots, names) |-> place[p]]

\* An entry watches every directory where its names are looked up.
Watches(e, names) ==
    /\ e.roots \in Seq(Roots)
    /\ names # {} => \A d \in DirsIn(e.roots, names) : <<"dir", d>> \in e.deps

UnitShape == \A u \in Units : obj[u] # Nothing =>
    obj[u] = [source |-> obj[u].source, reads |-> obj[u].reads, pch |-> obj[u].pch,
              cl |-> obj[u].cl]

\* What an object was made from is there still, when nothing its entry names is newer.
UnitHeld(u) ==
    /\ obj[u].cl = entry[u].cl
    /\ \A p \in DOMAIN obj[u].reads : <<"file", p>> \in entry[u].deps
    /\ newer[u] \cap (entry[u].deps \cup {<<"src", u>>}) = {} =>
         obj[u].source = source[u] /\ obj[u].reads = ReadIn(entry[u].roots, Includes(u))
UnitInv == \A u \in Units :
    /\ entry[u] # Nothing => Watches(entry[u], Includes(u))
    /\ (obj[u] # Nothing /\ entry[u] # Nothing) => UnitHeld(u)

PchShape == pch # Nothing =>
    pch = [header |-> pch.header, reads |-> pch.reads, creator |-> pch.creator, cl |-> pch.cl]

\* The same of the precompiled header and of its synthetic source.
PchHeld ==
    /\ pch.cl = pchEntry.cl
    /\ \A p \in DOMAIN pch.reads : <<"file", p>> \in pchEntry.deps
    /\ newer["pch"] \cap pchEntry.deps = {} =>
         place[PchHeader] \in {pch.header, 0} /\ pch.reads = ReadIn(pchEntry.roots, PchNames)
CreatorInv ==
    (pch # Nothing /\ creator = "good" /\ <<"creator">> \notin newer["pch"]) =>
        pch.creator = "good"
PchEntryInv ==
    /\ pchEntry # Nothing =>
         Watches(pchEntry, PchNames) /\ <<"file", PchHeader>> \in pchEntry.deps
    /\ (pch # Nothing /\ pchEntry # Nothing) => PchHeld

\* Faults come without a change of what is found where: an entry kept through one fits.
FaultInv == regime = "faults" =>
    /\ pchEntry # Nothing => pchEntry = EntryFor(PchDependencies)
    /\ \A u \in Units : entry[u] # Nothing => entry[u] = EntryFor(UnitDependencies(u))
    /\ lib # Nothing => lib.recipe = Recipe

\* The archive holds the objects there are, unless one is newer.
HoldsInv ==
    (lib # Nothing /\ pch # Nothing /\ (\A u \in Units : obj[u] # Nothing)
         /\ newer["lib"] \cap ArchiveInputs = {}) =>
        lib.pch = pch /\ \A u \in Units : lib.members[u] = obj[u]
RecipeInv ==
    /\ (lib # Nothing /\ regime = "edits" /\ phase # "sealing") => libEntry = lib.recipe
    /\ phase = "sealing" => lib # Nothing /\ lib.recipe = Recipe

LibCurrent ==
    /\ lib # Nothing /\ lib.recipe = Recipe
    /\ lib.pch = PchNow("good")
    /\ \A u \in Units : lib.members[u] =
         [source |-> source[u], reads |-> ReadBy(Includes(u)), pch |-> lib.pch,
          cl |-> options.cl]

\* An undisturbed call has made all it has passed from what is there now.
CallInv == quiet =>
    /\ phase \in {"wave", "archive", "sealing"} => pch = PchNow("good")
    /\ (phase = "wave" /\ ~call.failed) => \A u \in Units \ call.todo : obj[u] = UnitNow(u)
    /\ phase = "archive" => \A u \in Units : obj[u] = UnitNow(u)
    /\ phase = "sealing" \/ (phase = "idle" /\ outcome = "ok") => LibCurrent

HeldInv == UnitShape /\ UnitInv /\ PchShape /\ CreatorInv /\ PchEntryInv
RestInv == FaultInv /\ HoldsInv /\ RecipeInv /\ CallInv
CurrentInv == TypeInv /\ PchInv /\ HeldInv /\ RestInv
-----------------------------------------------------------------------------
(* Include search *)

\* The first place where a header is found is one where it is.
LEMMA FirstHit ==
    ASSUME NEW roots \in Seq(Roots), NEW n, HitsIn(roots, n) # {}
    PROVE  Min(HitsIn(roots, n)) \in HitsIn(roots, n)
<1>1. OrderIn(roots, n) \in Seq({0} \cup Roots)
  <2>1. roots \in Seq({0} \cup Roots) /\ <<>> \in Seq({0} \cup Roots) /\ <<0>> \in Seq({0} \cup Roots)
    OBVIOUS
  <2>2. (IF n \in QuotedNames THEN <<0>> ELSE <<>>) \in Seq({0} \cup Roots)
    BY <2>1
  <2> QED BY <2>1, <2>2 DEF OrderIn
<1>2. HitsIn(roots, n) \subseteq Nat
  BY <1>1 DEF HitsIn
<1>3. \E i \in HitsIn(roots, n) : \A j \in HitsIn(roots, n) : i <= j
  <2>1. PICK i \in HitsIn(roots, n) :
               \A j \in HitsIn(roots, n) : ~(<<j, i>> \in OpToRel(<, Nat))
    BY <1>2, NatLessThanWellFounded, WFMin
  <2>2. ASSUME NEW j \in HitsIn(roots, n) PROVE i <= j
    <3>1. <<j, i>> \in Nat \X Nat /\ i \in Nat /\ j \in Nat
      BY <1>2
    <3>2. j < i => <<j, i>> \in OpToRel(<, Nat)
      BY <3>1, SMT DEF OpToRel
    <3>3. ~(j < i)
      BY <2>1, <3>2, Zenon
    <3> QED BY <3>1, <3>3
  <2> QED BY <2>2
<1> QED BY <1>3 DEF Min

\* The order goes through the roots and, for a quoted name, the project's directory.
LEMMA OrderDirs ==
    ASSUME NEW roots \in Seq(Roots), NEW n, NEW i \in DOMAIN OrderIn(roots, n)
    PROVE  \/ OrderIn(roots, n)[i] \in ToSet(roots)
           \/ n \in QuotedNames /\ OrderIn(roots, n)[i] = 0
<1>1. CASE n \in QuotedNames
  BY <1>1 DEF OrderIn, ToSet
<1>2. CASE n \notin QuotedNames
  BY <1>2 DEF OrderIn, ToSet
<1> QED BY <1>1, <1>2

\* Lookups stay within the roots and the directory of the including file.
LEMMA RootsInside ==
    ASSUME NEW roots \in Seq(Roots), NEW names
    PROVE  DirsIn(roots, names) \subseteq {0} \cup Roots
BY DEF DirsIn, ToSet

\* A header is found in a directory where it was looked up.
LEMMA FoundDirs ==
    ASSUME NEW roots \in Seq(Roots), NEW names \in SUBSET HeaderNames, NEW q \in FoundIn(roots, names)
    PROVE  /\ q[1] \in DirsIn(roots, names) /\ names # {}
           /\ q \in HeaderPaths /\ place[q] # 0
<1>1. PICK n \in names : /\ HitsIn(roots, n) # {}
                         /\ q = <<OrderIn(roots, n)[Min(HitsIn(roots, n))], n>>
  BY DEF FoundIn
<1>2. Min(HitsIn(roots, n)) \in HitsIn(roots, n)
  BY <1>1, FirstHit
<1>3. place[q] # 0 /\ Min(HitsIn(roots, n)) \in DOMAIN OrderIn(roots, n)
  BY <1>1, <1>2 DEF HitsIn
<1>4. q[1] \in DirsIn(roots, names)
  BY <1>1, <1>3, OrderDirs DEF DirsIn, LooksBesideItself
<1>5. q \in HeaderPaths
  BY <1>1, <1>4, RootsInside DEF HeaderPaths
<1> QED BY <1>1, <1>3, <1>4, <1>5

\* What is found depends on nothing but what is there in the directories looked at.
LEMMA FoundSame ==
    ASSUME NEW roots \in Seq(Roots), NEW names,
           \A d \in DirsIn(roots, names), n \in names : place'[<<d, n>>] = 0 <=> place[<<d, n>>] = 0
    PROVE  FoundIn(roots, names)' = FoundIn(roots, names)
<1>1. ASSUME NEW n \in names PROVE HitsIn(roots, n)' = HitsIn(roots, n)
  <2>1. \A i \in DOMAIN OrderIn(roots, n) : OrderIn(roots, n)[i] \in DirsIn(roots, names)
    BY OrderDirs DEF DirsIn, LooksBesideItself
  <2> QED BY <2>1 DEF HitsIn, OrderIn
<1> QED BY <1>1 DEF FoundIn, OrderIn

\* A header that is not read comes, goes or changes where nothing is looked up, or
\* changes only: what is read stays the same.
LEMMA ReadSame ==
    ASSUME NEW roots \in Seq(Roots), NEW names \in SUBSET HeaderNames,
           NEW p \in HeaderPaths, NEW v, DOMAIN place = HeaderPaths,
           place' = [place EXCEPT ![p] = v],
           \/ place[p] # 0 /\ v # 0
           \/ names = {}
           \/ p[1] \notin DirsIn(roots, names),
           p \notin FoundIn(roots, names)
    PROVE  ReadIn(roots, names)' = ReadIn(roots, names)
<1>1. ASSUME NEW d \in DirsIn(roots, names), NEW n \in names
      PROVE  place'[<<d, n>>] = 0 <=> place[<<d, n>>] = 0
  <2>1. <<d, n>> \in HeaderPaths
    BY RootsInside DEF HeaderPaths
  <2>2. CASE <<d, n>> = p
    BY <2>2
  <2>3. CASE <<d, n>> # p
    BY <2>1, <2>3
  <2> QED BY <2>2, <2>3
<1>2. FoundIn(roots, names)' = FoundIn(roots, names)
  BY <1>1, FoundSame
<1>3. \A q \in FoundIn(roots, names) : place'[q] = place[q]
  BY FoundDirs
<1> QED BY <1>2, <1>3 DEF ReadIn

\* What is read depends on the headers only.
LEMMA ReadUnchanged ==
    ASSUME place' = place, NEW roots \in Seq(Roots), NEW names
    PROVE  ReadIn(roots, names)' = ReadIn(roots, names)
BY FoundSame DEF ReadIn

\* The search of the model is the one for the roots of the options.
LEMMA SearchNow ==
    ASSUME TypeOK
    PROVE  /\ SearchRoots \in Seq(Roots)
           /\ \A names : /\ Resolved(names) = FoundIn(SearchRoots, names)
                         /\ ReadBy(names) = ReadIn(SearchRoots, names)
                         /\ \A files : names # {} => Watched(names, files) = DirsIn(SearchRoots, names)
<1>1. SearchRoots \in Seq(Roots)
  <2>1. options.roots \in Seq(Roots) /\ IncludeDirectories(options.cl) \in Seq(Roots)
    BY SearchAssumption DEF TypeOK
  <2>2. (IF Has(options.cl, "X") THEN <<>> ELSE EnvRoots) \in Seq(Roots)
    BY SearchAssumption
  <2> QED BY <2>1, <2>2 DEF SearchRoots
<1>2. ASSUME NEW names PROVE Resolved(names) = FoundIn(SearchRoots, names)
  BY DEF Resolved, Hits, SearchOrder, FoundIn, HitsIn, OrderIn
<1>3. ASSUME NEW names PROVE ReadBy(names) = ReadIn(SearchRoots, names)
  BY <1>2 DEF ReadBy, ReadIn
<1>4. ASSUME NEW names, NEW files, names # {} PROVE Watched(names, files) = DirsIn(SearchRoots, names)
  BY <1>4 DEF Watched, DirsIn
<1> QED BY <1>1, <1>2, <1>3, <1>4
-----------------------------------------------------------------------------
(* What objects and the precompiled header were made from *)

\* The dependencies of a compilation name what it read and watch where it looked.
LEMMA DependenciesWatch ==
    ASSUME TypeOK, NEW names, NEW own
    PROVE  /\ \A p \in own \cup FoundIn(SearchRoots, names) : <<"file", p>> \in DependenciesOf(names, own)
           /\ names # {} =>
                \A d \in DirsIn(SearchRoots, names) : <<"dir", d>> \in DependenciesOf(names, own)
<1>1. \A p \in own \cup Resolved(names) : <<"file", p>> \in DependenciesOf(names, own)
  BY DEF DependenciesOf
<1>2. ASSUME names # {}, NEW d \in DirsIn(SearchRoots, names)
      PROVE  <<"dir", d>> \in DependenciesOf(names, own)
  <2>1. d \in Watched(names, Resolved(names) \cup own)
    BY <1>2, SearchNow
  <2> QED BY <2>1 DEF DependenciesOf
<1> QED BY <1>1, <1>2, SearchNow

\* A unit's entry depends on what the unit read and on where its headers were looked up,
LEMMA UnitEntryWatches ==
    ASSUME TypeOK, NEW u \in Units, NEW e, e = EntryFor(UnitDependencies(u))
    PROVE  /\ Watches(e, Includes(u)) /\ e.cl = options.cl /\ e.roots = SearchRoots
           /\ \A p \in FoundIn(e.roots, Includes(u)) : <<"file", p>> \in e.deps
<1>1. e.cl = options.cl /\ e.roots = SearchRoots /\ e.deps = UnitDependencies(u)
  BY DEF EntryFor
<1>2. \A d \in DependenciesOf(Includes(u), {}) : d \in e.deps
  BY <1>1 DEF UnitDependencies
<1> QED BY <1>1, <1>2, DependenciesWatch, SearchNow DEF Watches

\* and so does the entry of the precompiled header, which depends on its own text too.
LEMMA PchEntryWatches ==
    ASSUME TypeOK, NEW e, e = EntryFor(PchDependencies)
    PROVE  /\ Watches(e, PchNames) /\ e.cl = options.cl /\ e.roots = SearchRoots
           /\ <<"file", PchHeader>> \in e.deps
           /\ \A p \in FoundIn(e.roots, PchNames) : <<"file", p>> \in e.deps
<1>1. e.cl = options.cl /\ e.roots = SearchRoots /\ e.deps = DependenciesOf(PchNames, {PchHeader})
  BY DEF EntryFor, PchDependencies
<1> QED BY <1>1, DependenciesWatch, SearchNow DEF Watches

\* A step that takes objects away at most, and lets nothing look younger.
LEMMA UnitsKept ==
    ASSUME UnitShape, UnitInv, UNCHANGED <<place, source, entry>>,
           \A u \in Units : obj'[u] = obj[u] \/ obj'[u] = Nothing,
           \A u \in Units : newer[u] \subseteq newer'[u]
    PROVE  UnitShape' /\ UnitInv'
<1>1. UnitShape'
  BY DEF UnitShape
<1>2. ASSUME NEW u \in Units, entry'[u] # Nothing PROVE Watches(entry[u], Includes(u))'
  BY <1>2 DEF UnitInv, Watches, DirsIn
<1>3. ASSUME NEW u \in Units, entry'[u] # Nothing, obj'[u] # Nothing PROVE UnitHeld(u)'
  <2>1. UnitHeld(u) /\ obj'[u] = obj[u] /\ entry[u].roots \in Seq(Roots)
    BY <1>3 DEF UnitInv, Watches
  <2>2. ReadIn(entry[u].roots, Includes(u))' = ReadIn(entry[u].roots, Includes(u))
    BY <2>1, ReadUnchanged
  <2> QED BY <2>1, <2>2 DEF UnitHeld
<1> QED BY <1>1, <1>2, <1>3 DEF UnitInv

\* Steps that leave the precompiled header and its entry alone, or lose it, keep what is
\* known of them.
LEMMA HeaderKept ==
    ASSUME PchShape, CreatorInv, PchEntryInv, UNCHANGED <<place, pchEntry>>,
           pch' = pch \/ pch' = Nothing, newer["pch"] \subseteq newer'["pch"],
           creator' = "good" => creator = "good" \/ <<"creator">> \in newer'["pch"]
    PROVE  PchShape' /\ CreatorInv' /\ PchEntryInv'
<1>1. PchShape' /\ CreatorInv'
  BY DEF PchShape, CreatorInv
<1>2. ASSUME pchEntry' # Nothing
      PROVE  Watches(pchEntry, PchNames)' /\ <<"file", PchHeader>> \in pchEntry'.deps
  BY <1>2 DEF PchEntryInv, Watches, DirsIn
<1>3. ASSUME pchEntry' # Nothing, pch' # Nothing PROVE PchHeld'
  <2>1. PchHeld /\ pch' = pch /\ pchEntry.roots \in Seq(Roots)
    BY <1>3 DEF PchEntryInv, Watches
  <2>2. ReadIn(pchEntry.roots, PchNames)' = ReadIn(pchEntry.roots, PchNames)
    BY <2>1, ReadUnchanged
  <2> QED BY <2>1, <2>2 DEF PchHeld
<1> QED BY <1>1, <1>2, <1>3 DEF PchEntryInv

\* A header comes, changes or goes.
LEMMA HeaderPut ==
    ASSUME TypeInv, HeldInv, NEW p \in EditedPaths, PutHeader(p) \/ RemoveHeader(p)
    PROVE  HeldInv'
<1> USE DEF HeldInv
<1>1. PICK v : place' = [place EXCEPT ![p] = v]
               /\ (~(place[p] # 0 /\ v # 0) => \A o \in Outputs : <<"dir", p[1]>> \in newer'[o])
               /\ (v # 0 => \A o \in Outputs : <<"file", p>> \in newer'[o])
  <2>1. CASE PutHeader(p)
    <3>1. edits + 2 \in Nat /\ edits + 2 # 0
      BY <2>1, UserTyped DEF PutHeader
    <3> QED BY <2>1, <3>1 DEF PutHeader, Changed
  <2>2. CASE RemoveHeader(p)
    BY <2>2 DEF RemoveHeader, Changed
  <2> QED BY <2>1, <2>2
<1>2. /\ UNCHANGED <<source, pchVars, unitVars>> /\ p \in HeaderPaths /\ DOMAIN place = HeaderPaths
      /\ \A o \in Outputs : newer[o] \subseteq newer'[o]
  BY PathsAssumption DEF PutHeader, RemoveHeader, Changed, TypeInv, TypeOK
<1>3. UNCHANGED <<pch, creator, pchEntry, obj, entry>> /\ "pch" \in Outputs /\ Units \subseteq Outputs
  BY <1>2 DEF pchVars, unitVars, Outputs
<1>4. ASSUME NEW roots \in Seq(Roots), NEW names \in SUBSET HeaderNames, NEW o \in Outputs,
             NEW deps, newer'[o] \cap deps = {},
             \A q \in FoundIn(roots, names) : <<"file", q>> \in deps,
             names # {} => \A d \in DirsIn(roots, names) : <<"dir", d>> \in deps
      PROVE  ReadIn(roots, names)' = ReadIn(roots, names)
  <2>1. (place[p] # 0 /\ v # 0) \/ names = {} \/ p[1] \notin DirsIn(roots, names)
    BY <1>1, <1>4
  <2>2. p \notin FoundIn(roots, names)
    BY <1>1, <1>4, <2>1, FoundDirs
  <2> QED BY <1>1, <1>2, <2>1, <2>2, ReadSame
<1>5. ASSUME NEW u \in Units, entry'[u] # Nothing
      PROVE  Watches(entry[u], Includes(u))' /\ (obj'[u] # Nothing => UnitHeld(u)')
  <2>1. Watches(entry[u], Includes(u)) /\ (obj[u] # Nothing => UnitHeld(u))
    BY <1>3, <1>5 DEF UnitInv
  <2>2. Watches(entry[u], Includes(u))'
    BY <1>3, <2>1 DEF Watches, DirsIn
  <2>3. ASSUME obj[u] # Nothing, newer'[u] \cap (entry[u].deps \cup {<<"src", u>>}) = {}
        PROVE  obj[u].source = source[u] /\ obj[u].reads = ReadIn(entry[u].roots, Includes(u))'
    <3>1. /\ obj[u].source = source[u] /\ obj[u].reads = ReadIn(entry[u].roots, Includes(u))
          /\ \A q \in DOMAIN obj[u].reads : <<"file", q>> \in entry[u].deps
      BY <1>2, <1>3, <2>1, <2>3 DEF UnitHeld
    <3>2. \A q \in FoundIn(entry[u].roots, Includes(u)) : <<"file", q>> \in entry[u].deps
      BY <3>1 DEF ReadIn
    <3>3. Includes(u) \in SUBSET HeaderNames
      BY SearchAssumption
    <3>4. ReadIn(entry[u].roots, Includes(u))' = ReadIn(entry[u].roots, Includes(u))
      BY <1>3, <1>4, <2>1, <2>3, <3>2, <3>3 DEF Watches
    <3> QED BY <3>1, <3>4
  <2> QED BY <1>2, <1>3, <2>1, <2>2, <2>3 DEF UnitHeld
<1>6. ASSUME pchEntry' # Nothing
      PROVE  /\ Watches(pchEntry, PchNames)' /\ <<"file", PchHeader>> \in pchEntry'.deps
             /\ pch' # Nothing => PchHeld'
  <2>1. /\ Watches(pchEntry, PchNames) /\ (pch # Nothing => PchHeld)
        /\ <<"file", PchHeader>> \in pchEntry.deps
    BY <1>3, <1>6 DEF PchEntryInv
  <2>2. Watches(pchEntry, PchNames)'
    BY <1>3, <2>1 DEF Watches, DirsIn
  <2>3. ASSUME pch # Nothing, newer'["pch"] \cap pchEntry.deps = {}
        PROVE  /\ place'[PchHeader] \in {pch.header, 0}
               /\ pch.reads = ReadIn(pchEntry.roots, PchNames)'
    <3>1. /\ place[PchHeader] \in {pch.header, 0} /\ pch.reads = ReadIn(pchEntry.roots, PchNames)
          /\ \A q \in DOMAIN pch.reads : <<"file", q>> \in pchEntry.deps
      BY <1>2, <1>3, <2>1, <2>3 DEF PchHeld
    <3>2. \A q \in FoundIn(pchEntry.roots, PchNames) : <<"file", q>> \in pchEntry.deps
      BY <3>1 DEF ReadIn
    <3>3. PchNames \in SUBSET HeaderNames
      BY SearchAssumption DEF PchNames
    <3>4. ReadIn(pchEntry.roots, PchNames)' = ReadIn(pchEntry.roots, PchNames)
      BY <1>3, <1>4, <2>1, <2>3, <3>2, <3>3 DEF Watches
    <3>5. place'[PchHeader] \in {place[PchHeader], 0}
      <4>1. p = PchHeader => v = 0
        BY <1>1, <1>3, <2>1, <2>3
      <4>2. PchHeader \in HeaderPaths
        BY DEF HeaderPaths
      <4> QED BY <1>1, <1>2, <4>1, <4>2
    <3> QED BY <3>1, <3>4, <3>5
  <2> QED BY <1>3, <2>1, <2>2, <2>3 DEF PchHeld
<1>7. UnitShape' /\ PchShape'
  BY <1>3 DEF UnitShape, PchShape
<1>8. CreatorInv'
  BY <1>2, <1>3 DEF CreatorInv
<1> QED BY <1>5, <1>6, <1>7, <1>8 DEF UnitInv, PchEntryInv

\* An edited source is newer than its object.
LEMMA SourceEdited ==
    ASSUME TypeOK, HeldInv, NEW u \in Units, EditSource(u)
    PROVE  HeldInv'
<1> USE DEF HeldInv
<1>1. /\ UNCHANGED <<place, pchVars, unitVars>> /\ \A v \in Units \ {u} : source'[v] = source[v]
      /\ \A o \in Outputs : newer'[o] = newer[o] \cup {<<"src", u>>}
  BY DEF EditSource, Changed, TypeOK
<1>2. /\ UNCHANGED <<pch, creator, pchEntry, obj, entry>> /\ "pch" \in Outputs /\ Units \subseteq Outputs
  BY <1>1 DEF pchVars, unitVars, Outputs
<1>3. PchShape' /\ CreatorInv' /\ PchEntryInv'
  BY <1>1, <1>2, HeaderKept
<1>4. ASSUME NEW v \in Units, entry'[v] # Nothing
      PROVE  Watches(entry[v], Includes(v))' /\ (obj'[v] # Nothing => UnitHeld(v)')
  <2>1. Watches(entry[v], Includes(v)) /\ (obj[v] # Nothing => UnitHeld(v))
    BY <1>2, <1>4 DEF UnitInv
  <2>2. Watches(entry[v], Includes(v))'
    BY <1>2, <2>1 DEF Watches, DirsIn
  <2>3. ReadIn(entry[v].roots, Includes(v))' = ReadIn(entry[v].roots, Includes(v))
    <3>1. entry[v].roots \in Seq(Roots) /\ place' = place /\ entry' = entry
      BY <1>1, <1>2, <2>1 DEF Watches
    <3> QED BY <3>1, ReadUnchanged
  <2>4. CASE v = u
    BY <1>1, <1>2, <2>1, <2>2, <2>3, <2>4 DEF UnitHeld
  <2>5. CASE v # u
    BY <1>1, <1>2, <2>1, <2>2, <2>3, <2>5 DEF UnitHeld
  <2> QED BY <2>4, <2>5
<1> QED BY <1>2, <1>3, <1>4 DEF UnitInv, UnitShape

\* An object and a precompiled header are something.
LEMMA NothingIsNoRecord ==
    /\ \A a, b, c, d : [source |-> a, reads |-> b, pch |-> c, cl |-> d] # Nothing
    /\ \A a, b, c, d : [header |-> a, reads |-> b, creator |-> c, cl |-> d] # Nothing
<1>1. DOMAIN Nothing = {"kind"}
  BY DEF Nothing
<1>2. ASSUME NEW a, NEW b, NEW c, NEW d PROVE [source |-> a, reads |-> b, pch |-> c, cl |-> d] # Nothing
  <2>1. "source" \in DOMAIN [source |-> a, reads |-> b, pch |-> c, cl |-> d]
    OBVIOUS
  <2> QED BY <1>1, <2>1
<1>3. ASSUME NEW a, NEW b, NEW c, NEW d
      PROVE [header |-> a, reads |-> b, creator |-> c, cl |-> d] # Nothing
  <2>1. "header" \in DOMAIN [header |-> a, reads |-> b, creator |-> c, cl |-> d]
    OBVIOUS
  <2> QED BY <1>1, <2>1
<1> QED BY <1>2, <1>3

\* An object is made, and its entry is the one that fits, whatever became of the save.
LEMMA UnitMade ==
    ASSUME TypeInv, HeldInv, FaultInv, NEW u \in Units, CompileUnit(u)
    PROVE  HeldInv'
<1> USE DEF HeldInv
<1>1. UNCHANGED <<place, source, options, pch, creator, pchEntry>>
  BY DEF CompileUnit, userVars, pchVars
<1>2. /\ obj'[u] = UnitNow(u) /\ newer'[u] = {}
      /\ \A v \in Units \ {u} : /\ obj'[v] = obj[v] /\ entry'[v] = entry[v]
                                /\ newer[v] \subseteq newer'[v]
      /\ newer["pch"] \subseteq newer'["pch"]
  BY PchIsNoUnit DEF CompileUnit, Wrote, Outputs, TypeInv, ShapeInv, TypeOK
<1>3. entry'[u] # Nothing => entry'[u] = EntryFor(UnitDependencies(u))
  BY DEF CompileUnit, TypeInv, ShapeInv, Kept, FaultInv
<1>4. PchShape' /\ CreatorInv' /\ PchEntryInv'
  BY <1>1, <1>2, HeaderKept
<1>5. UnitShape'
  BY <1>2 DEF UnitShape, UnitNow
<1>6. ASSUME entry'[u] # Nothing PROVE Watches(entry[u], Includes(u))' /\ UnitHeld(u)'
  <2>0. PICK e : e = entry'[u]
    OBVIOUS
  <2>1. Includes(u) \in SUBSET HeaderNames /\ TypeOK
    BY SearchAssumption DEF TypeInv
  <2>2. e = EntryFor(UnitDependencies(u))
    BY <1>3, <1>6, <2>0
  <2>3. /\ Watches(e, Includes(u)) /\ e.cl = options.cl /\ e.roots = SearchRoots
        /\ \A p \in FoundIn(e.roots, Includes(u)) : <<"file", p>> \in e.deps
    BY <2>1, <2>2, UnitEntryWatches
  <2>4. ReadBy(Includes(u)) = ReadIn(e.roots, Includes(u))
    BY <2>1, <2>3, SearchNow
  <2>5. ReadIn(e.roots, Includes(u))' = ReadIn(e.roots, Includes(u))
    <3>1. e.roots \in Seq(Roots) /\ place' = place
      BY <1>1, <2>3 DEF Watches
    <3> QED BY <3>1, ReadUnchanged
  <2>6. /\ obj'[u].source = source[u] /\ obj'[u].cl = options.cl
        /\ obj'[u].reads = ReadIn(e.roots, Includes(u))
    BY <1>2, <2>4 DEF UnitNow
  <2>7. DOMAIN obj'[u].reads = FoundIn(e.roots, Includes(u))
    BY <2>6 DEF ReadIn
  <2>8. Watches(entry[u], Includes(u))'
    BY <2>0, <2>3 DEF Watches, DirsIn
  <2>9. UnitHeld(u)'
    BY <1>1, <2>0, <2>3, <2>5, <2>6, <2>7 DEF UnitHeld
  <2> QED BY <2>8, <2>9
<1>7. ASSUME NEW v \in Units \ {u}, entry'[v] # Nothing
      PROVE  Watches(entry[v], Includes(v))' /\ (obj'[v] # Nothing => UnitHeld(v)')
  <2>1. Watches(entry[v], Includes(v)) /\ (obj[v] # Nothing => UnitHeld(v))
    BY <1>2, <1>7 DEF UnitInv
  <2>2. ReadIn(entry[v].roots, Includes(v))' = ReadIn(entry[v].roots, Includes(v))
    <3>1. entry[v].roots \in Seq(Roots) /\ place' = place /\ entry'[v] = entry[v]
      BY <1>1, <1>2, <2>1 DEF Watches
    <3> QED BY <3>1, ReadUnchanged
  <2> QED BY <1>1, <1>2, <2>1, <2>2 DEF UnitHeld, Watches, DirsIn
<1> QED BY <1>4, <1>5, <1>6, <1>7 DEF UnitInv

\* The header is made from what is there, with the good synthetic source.
LEMMA HeaderMade ==
    ASSUME TypeInv, HeldInv, FaultInv, UNCHANGED <<userVars, unitVars>>,
           NEW things, Wrote("pch", things), pch' = PchNow("good"), creator' = "good",
           pchEntry' # Nothing => pchEntry' = EntryFor(PchDependencies)
    PROVE  HeldInv'
<1> USE DEF HeldInv
<1>1. UNCHANGED <<place, source, options, obj, entry>>
  BY DEF userVars, unitVars
<1>2. newer'["pch"] = {} /\ \A u \in Units : newer[u] \subseteq newer'[u]
  BY PchIsNoUnit DEF Wrote, Outputs
<1>3. UnitShape' /\ UnitInv'
  BY <1>1, <1>2, UnitsKept
<1>4. PchShape' /\ CreatorInv'
  BY DEF PchShape, CreatorInv, PchNow
<1>5. ASSUME pchEntry' # Nothing
      PROVE  /\ Watches(pchEntry, PchNames)' /\ <<"file", PchHeader>> \in pchEntry'.deps
             /\ PchHeld'
  <2>0. PICK e : e = pchEntry'
    OBVIOUS
  <2>1. PchNames \in SUBSET HeaderNames /\ TypeOK
    BY SearchAssumption DEF PchNames, TypeInv
  <2>2. e = EntryFor(PchDependencies)
    BY <1>5, <2>0
  <2>3. /\ Watches(e, PchNames) /\ e.cl = options.cl /\ e.roots = SearchRoots
        /\ \A p \in FoundIn(e.roots, PchNames) : <<"file", p>> \in e.deps
        /\ <<"file", PchHeader>> \in e.deps
    BY <2>1, <2>2, PchEntryWatches
  <2>4. ReadBy(PchNames) = ReadIn(e.roots, PchNames)
    BY <2>1, <2>3, SearchNow
  <2>5. ReadIn(e.roots, PchNames)' = ReadIn(e.roots, PchNames)
    <3>1. e.roots \in Seq(Roots) /\ place' = place
      BY <1>1, <2>3 DEF Watches
    <3> QED BY <3>1, ReadUnchanged
  <2>6. /\ pch'.header = place[PchHeader] /\ pch'.cl = options.cl
        /\ pch'.reads = ReadIn(e.roots, PchNames)
    BY <2>4 DEF PchNow
  <2>7. DOMAIN pch'.reads = FoundIn(e.roots, PchNames)
    BY <2>6 DEF ReadIn
  <2>8. Watches(pchEntry, PchNames)'
    BY <2>0, <2>3 DEF Watches, DirsIn
  <2>9. PchHeld'
    BY <1>1, <2>0, <2>3, <2>5, <2>6, <2>7 DEF PchHeld
  <2> QED BY <2>0, <2>3, <2>8, <2>9
<1> QED BY <1>3, <1>4, <1>5 DEF PchEntryInv
-----------------------------------------------------------------------------
(* What is made now *)

\* What a compile would make now depends on the headers and the options,
LEMMA NowSame ==
    ASSUME UNCHANGED <<place, options>>
    PROVE  /\ \A names : ReadBy(names)' = ReadBy(names)
           /\ PchNow("good")' = PchNow("good") /\ Recipe' = Recipe
           /\ EntryFor(PchDependencies)' = EntryFor(PchDependencies)
           /\ \A u \in Units : EntryFor(UnitDependencies(u))' = EntryFor(UnitDependencies(u))
<1>1. SearchRoots' = SearchRoots
  BY DEF SearchRoots
<1>2. ASSUME NEW names PROVE Resolved(names)' = Resolved(names)
  BY <1>1 DEF Resolved, Hits, SearchOrder
<1>3. ASSUME NEW names, NEW own PROVE DependenciesOf(names, own)' = DependenciesOf(names, own)
  BY <1>1, <1>2 DEF DependenciesOf, Watched
<1>4. ASSUME NEW names PROVE ReadBy(names)' = ReadBy(names)
  BY <1>2 DEF ReadBy
<1>5. PchNow("good")' = PchNow("good") /\ Recipe' = Recipe
  BY <1>4 DEF PchNow, Recipe, PchNames
<1>6. EntryFor(PchDependencies)' = EntryFor(PchDependencies)
  BY <1>1, <1>3 DEF EntryFor, PchDependencies, PchNames
<1>7. ASSUME NEW u \in Units PROVE EntryFor(UnitDependencies(u))' = EntryFor(UnitDependencies(u))
  BY <1>1, <1>3 DEF EntryFor, UnitDependencies
<1> QED BY <1>4, <1>5, <1>6, <1>7

\* of a unit on its source and the precompiled header too,
LEMMA UnitNowSame ==
    ASSUME UNCHANGED <<place, options, source, pch>>, NEW u \in Units
    PROVE  UnitNow(u)' = UnitNow(u)
BY NowSame DEF UnitNow

\* and so an archive stays current while these stay.
LEMMA LibSame ==
    ASSUME LibCurrent, UNCHANGED <<place, options, source, lib>>
    PROVE  LibCurrent'
BY NowSame DEF LibCurrent

\* A header that changes but neither comes nor goes leaves every entry fitting.
LEMMA EntriesFit ==
    ASSUME TypeInv, NEW p \in EditedPaths, PutHeader(p), place[p] # 0
    PROVE  /\ EntryFor(PchDependencies)' = EntryFor(PchDependencies)
           /\ \A u \in Units : EntryFor(UnitDependencies(u))' = EntryFor(UnitDependencies(u))
           /\ Recipe' = Recipe
<1>1. /\ place' = [place EXCEPT ![p] = edits + 2] /\ edits + 2 # 0 /\ options' = options
      /\ DOMAIN place = HeaderPaths /\ p \in HeaderPaths
  BY UserTyped, PathsAssumption DEF PutHeader, TypeInv, TypeOK
<1>2. SearchRoots' = SearchRoots /\ SearchRoots \in Seq(Roots) /\ TypeOK
  BY <1>1, SearchNow DEF SearchRoots, TypeInv
<1>3. ASSUME NEW names \in SUBSET HeaderNames PROVE Resolved(names)' = Resolved(names)
  <2>1. \A d \in DirsIn(SearchRoots, names), n \in names : <<d, n>> \in HeaderPaths
    BY <1>2, RootsInside DEF HeaderPaths
  <2>2. \A d \in DirsIn(SearchRoots, names), n \in names : place'[<<d, n>>] = 0 <=> place[<<d, n>>] = 0
    BY <1>1, <2>1
  <2>3. PICK roots \in Seq(Roots) : roots = SearchRoots
    BY <1>2
  <2>4. FoundIn(roots, names)' = FoundIn(roots, names)
    BY <2>2, <2>3, FoundSame
  <2>5. Resolved(names)' = FoundIn(roots, names)'
    BY <1>2, <2>3 DEF Resolved, Hits, SearchOrder, FoundIn, HitsIn, OrderIn
  <2>6. Resolved(names) = FoundIn(roots, names)
    BY <1>2, <2>3, SearchNow
  <2> QED BY <2>4, <2>5, <2>6
<1>4. ASSUME NEW names \in SUBSET HeaderNames, NEW own
      PROVE  DependenciesOf(names, own)' = DependenciesOf(names, own)
  BY <1>2, <1>3 DEF DependenciesOf, Watched
<1>5. EntryFor(PchDependencies)' = EntryFor(PchDependencies)
  BY <1>1, <1>2, <1>4, SearchAssumption DEF EntryFor, PchDependencies, PchNames
<1>6. ASSUME NEW u \in Units PROVE EntryFor(UnitDependencies(u))' = EntryFor(UnitDependencies(u))
  BY <1>1, <1>2, <1>4, SearchAssumption DEF EntryFor, UnitDependencies
<1>7. Recipe' = Recipe
  BY <1>1 DEF Recipe
<1> QED BY <1>5, <1>6, <1>7
-----------------------------------------------------------------------------
(* What the archive holds *)

\* Losing an artifact, or making the archive look older, says nothing new of the archive.
LEMMA HoldsKept ==
    ASSUME HoldsInv, lib' = lib \/ lib' = Nothing, pch' = pch \/ pch' = Nothing,
           \A u \in Units : obj'[u] = obj[u] \/ obj'[u] = Nothing,
           newer["lib"] \subseteq newer'["lib"]
    PROVE  HoldsInv'
<1> SUFFICES ASSUME lib' # Nothing, pch' # Nothing, \A u \in Units : obj'[u] # Nothing,
                    newer'["lib"] \cap ArchiveInputs = {}
             PROVE  lib'.pch = pch' /\ \A u \in Units : lib'.members[u] = obj'[u]
  BY DEF HoldsInv, ArchiveInputs
<1> QED BY DEF HoldsInv

\* An archive older than an input need not hold it.
LEMMA HoldsVoid ==
    ASSUME NEW x \in ArchiveInputs, x \in newer'["lib"] PROVE HoldsInv'
BY DEF HoldsInv, ArchiveInputs

\* A step that writes neither archive nor archive entry keeps the two of one recipe.
LEMMA RecipeKept ==
    ASSUME RecipeInv, regime' = regime, lib' = lib \/ lib' = Nothing, libEntry' = libEntry,
           phase' = "sealing" => phase = "sealing" /\ lib' = lib /\ options' = options,
           phase = "sealing" => phase' = "sealing" \/ regime = "faults"
    PROVE  RecipeInv'
BY DEF RecipeInv, Recipe

\* A step that makes no entry that does not fit.
LEMMA FaultKept ==
    ASSUME FaultInv, UNCHANGED <<regime, place, options>>,
           pchEntry' \in {pchEntry, Nothing, EntryFor(PchDependencies)},
           \A u \in Units : entry'[u] \in {entry[u], Nothing, EntryFor(UnitDependencies(u))},
           lib' \in {lib, Nothing} \/ lib'.recipe = Recipe
    PROVE  FaultInv'
BY NowSame DEF FaultInv
-----------------------------------------------------------------------------
(* The steps of the user *)

\* A change of the user's ends what is known of the running call.
LEMMA UserRest ==
    ASSUME TypeInv, RestInv,
           \/ \E p \in EditedPaths : PutHeader(p) \/ RemoveHeader(p)
           \/ \E u \in Units : EditSource(u)
           \/ Reconfigure \/ Tamper
    PROVE  RestInv'
<1> USE DEF RestInv
<1>1. CallInv'
  BY DEF PutHeader, RemoveHeader, EditSource, Reconfigure, Tamper, Changing, CallInv
<1>2. newer["lib"] \subseteq newer'["lib"]
  BY DEF PutHeader, RemoveHeader, EditSource, Reconfigure, Tamper, Changed, Outputs
<1>3. /\ lib' = lib \/ lib' = Nothing
      /\ pch' = pch \/ pch' = Nothing
      /\ \A u \in Units : obj'[u] = obj[u] \/ obj'[u] = Nothing
      /\ UNCHANGED <<regime, libEntry, pchEntry, entry, phase>>
      /\ phase = "sealing" => lib' = lib /\ options' = options
  <2>1. CASE Tamper
    BY <2>1 DEF Tamper, TypeInv, ShapeInv, callVars
  <2>2. CASE \/ \E p \in EditedPaths : PutHeader(p) \/ RemoveHeader(p)
             \/ \E u \in Units : EditSource(u)
             \/ Reconfigure
    BY <2>2 DEF PutHeader, RemoveHeader, EditSource, Reconfigure, pchVars, unitVars, libVars,
                callVars
  <2> QED BY <2>1, <2>2
<1>4. HoldsInv' /\ RecipeInv'
  BY <1>2, <1>3, HoldsKept, RecipeKept
<1>5. FaultInv'
  <2>1. CASE regime # "faults"
    BY <1>3, <2>1 DEF FaultInv
  <2>2. CASE regime = "faults"
    <3>1. ASSUME NEW p \in EditedPaths, PutHeader(p) PROVE FaultInv'
      <4>1. place[p] # 0 /\ lib' = lib /\ regime' = regime /\ UNCHANGED <<pchEntry, entry>>
        BY <2>2, <3>1 DEF PutHeader, libVars, pchVars, unitVars
      <4> QED BY <3>1, <4>1, EntriesFit DEF FaultInv
    <3>2. CASE \E u \in Units : EditSource(u)
      <4>1. UNCHANGED <<regime, place, options, pchEntry, entry, lib>>
        BY <3>2 DEF EditSource, pchVars, unitVars, libVars
      <4> QED BY <4>1, FaultKept
    <3> QED BY <2>2, <3>1, <3>2 DEF RemoveHeader, Reconfigure, Tamper
  <2> QED BY <2>1, <2>2
<1> QED BY <1>1, <1>4, <1>5

\* The entries and what they tell of stay through a change of the user's.
LEMMA UserHeld ==
    ASSUME TypeInv, HeldInv,
           \/ \E p \in EditedPaths : PutHeader(p) \/ RemoveHeader(p)
           \/ \E u \in Units : EditSource(u)
           \/ Reconfigure \/ Tamper
    PROVE  HeldInv'
<1>1. CASE Reconfigure \/ Tamper
  <2>1. /\ UNCHANGED <<place, source, entry, pchEntry, newer>>
        /\ pch' = pch \/ pch' = Nothing
        /\ \A u \in Units : obj'[u] = obj[u] \/ obj'[u] = Nothing
        /\ creator' = "good" => creator = "good"
    BY <1>1 DEF Reconfigure, Tamper, pchVars, unitVars, TypeInv, ShapeInv
  <2> QED BY <2>1, UnitsKept, HeaderKept DEF HeldInv
<1>2. CASE \E p \in EditedPaths : PutHeader(p) \/ RemoveHeader(p)
  BY <1>2, HeaderPut
<1>3. CASE \E u \in Units : EditSource(u)
  BY <1>3, SourceEdited DEF TypeInv
<1> QED BY <1>1, <1>2, <1>3
-----------------------------------------------------------------------------
(* The steps of the build *)

\* A step that makes neither an object nor a header.
LEMMA NothingMade ==
    ASSUME HeldInv, UNCHANGED <<place, source, pchVars, unitVars>>,
           \A o \in Outputs \ {"lib"} : newer[o] \subseteq newer'[o]
    PROVE  HeldInv'
<1>1. UNCHANGED <<entry, pchEntry, creator, pch, obj>>
  BY DEF pchVars, unitVars
<1>2. newer["pch"] \subseteq newer'["pch"] /\ \A u \in Units : newer[u] \subseteq newer'[u]
  BY PchIsNoUnit DEF Outputs
<1> QED BY <1>1, <1>2, UnitsKept, HeaderKept DEF HeldInv

\* A header found up to date is what a compilation of it would make now.
LEMMA ReusablePch ==
    ASSUME CurrentInv, PchReusable, place[PchHeader] # 0
    PROVE  pch = PchNow("good")
<1>1. /\ creator = "good" /\ pchEntry # Nothing /\ pch # Nothing
      /\ pchEntry.cl = options.cl /\ pchEntry.roots = SearchRoots
      /\ newer["pch"] \cap pchEntry.deps = {} /\ <<"creator">> \notin newer["pch"]
  BY DEF PchReusable, UpToDate
<1>2. PchHeld /\ pch.creator = "good"
  BY <1>1 DEF CurrentInv, HeldInv, PchEntryInv, CreatorInv
<1>3. pch.header = place[PchHeader] /\ pch.cl = options.cl /\ pch.reads = ReadBy(PchNames)
  BY <1>1, <1>2, SearchNow DEF PchHeld, CurrentInv, TypeInv
<1>4. pch = [header |-> pch.header, reads |-> pch.reads, creator |-> pch.creator, cl |-> pch.cl]
  BY <1>1 DEF CurrentInv, HeldInv, PchShape
<1> QED BY <1>2, <1>3, <1>4 DEF PchNow

\* An object found up to date is what a compilation of its source would make now.
LEMMA ReusableUnit ==
    ASSUME CurrentInv, NEW u \in Units, UnitReusable(u)
    PROVE  obj[u] = UnitNow(u)
<1>1. /\ entry[u] # Nothing /\ obj[u] # Nothing /\ pch # Nothing
      /\ entry[u].cl = options.cl /\ entry[u].roots = SearchRoots
      /\ newer[u] \cap (entry[u].deps \cup {<<"src", u>>}) = {}
  BY DEF UnitReusable, UpToDate
<1>2. UnitHeld(u)
  BY <1>1 DEF CurrentInv, HeldInv, UnitInv
<1>3. obj[u].source = source[u] /\ obj[u].cl = options.cl /\ obj[u].reads = ReadBy(Includes(u))
  BY <1>1, <1>2, SearchNow DEF UnitHeld, CurrentInv, TypeInv
<1>4. obj[u].pch = pch
  BY <1>1 DEF CurrentInv, PchInv, EntryInv, AgeInv, Made
<1>5. obj[u] = [source |-> obj[u].source, reads |-> obj[u].reads, pch |-> obj[u].pch,
                cl |-> obj[u].cl]
  BY <1>1 DEF CurrentInv, HeldInv, UnitShape
<1> QED BY <1>3, <1>4, <1>5 DEF UnitNow

\* The stage of the precompiled header: what it leaves is made of what is there now.
LEMMA PchCurrent ==
    ASSUME CurrentInv, HeaderMissing \/ ReusePch \/ CompilePch \/ PchFails
    PROVE  HeldInv' /\ RestInv'
<1> USE DEF CurrentInv, RestInv
<1>1. /\ UNCHANGED <<regime, place, source, options, obj, entry, lib, libEntry>>
      /\ UNCHANGED <<userVars, unitVars>> /\ phase = "idle" /\ phase' # "sealing"
  BY DEF HeaderMissing, ReusePch, CompilePch, PchFails, End, userVars, unitVars, libVars
<1>2. RecipeInv'
  BY <1>1, RecipeKept
<1>3. CASE HeaderMissing \/ ReusePch
  <2>1. UNCHANGED <<pchVars, newer, pch, creator, pchEntry>>
    BY <1>3 DEF HeaderMissing, ReusePch, pchVars
  <2>2. HeldInv' /\ HoldsInv' /\ FaultInv'
    BY <1>1, <2>1, NothingMade, HoldsKept, FaultKept
  <2>3. CallInv'
    <3>1. CASE HeaderMissing
      BY <3>1 DEF HeaderMissing, End, CallInv
    <3>2. CASE ReusePch
      <4>1. pch' = PchNow("good")'
        BY <1>1, <2>1, <3>2, ReusablePch, NowSame DEF ReusePch
      <4>2. phase' = "wave" /\ call'.todo = Units
        BY <3>2 DEF ReusePch, NoCall
      <4> QED BY <4>1, <4>2 DEF CallInv
    <3> QED BY <1>3, <3>1, <3>2
  <2> QED BY <1>2, <2>2, <2>3
<1>4. ASSUME NEW things, Wrote("pch", {<<"pch">>} \cup things), pch' = PchNow("good"),
             creator' = "good", pchEntry' \in {pchEntry, Nothing, EntryFor(PchDependencies)},
             regime = "edits" => pchEntry' = EntryFor(PchDependencies)
      PROVE  HeldInv' /\ HoldsInv' /\ FaultInv'
  <2>1. pchEntry' # Nothing => pchEntry' = EntryFor(PchDependencies)
    BY <1>4, RegimesAssumption DEF FaultInv, TypeInv, TypeOK
  <2>2. HeldInv'
    BY <1>1, <1>4, <2>1, HeaderMade
  <2>3. <<"pch">> \in newer'["lib"]
    BY <1>4 DEF Wrote, Outputs
  <2> QED BY <1>1, <1>4, <2>2, <2>3, HoldsVoid, FaultKept DEF ArchiveInputs
<1>5. CASE CompilePch
  <2>1. HeldInv' /\ HoldsInv' /\ FaultInv'
    <3>1. /\ pchEntry' \in {pchEntry, Nothing, EntryFor(PchDependencies)}
          /\ regime = "edits" => pchEntry' = EntryFor(PchDependencies)
      BY <1>5 DEF CompilePch, Kept
    <3> QED BY <1>4, <1>5, <3>1 DEF CompilePch
  <2>2. pch' = PchNow("good")' /\ phase' = "wave" /\ call'.todo = Units
    BY <1>1, <1>5, NowSame DEF CompilePch, NoCall
  <2>3. CallInv'
    BY <2>2 DEF CallInv
  <2> QED BY <1>2, <2>1, <2>3
<1>6. CASE PchFails
  <2>1. CallInv' /\ pchEntry' = pchEntry /\ creator' = "good"
    BY <1>6 DEF PchFails, End, CallInv
  <2>2. CASE /\ pch' \in Kept(pch)
             /\ Changed(IF creator # "good" THEN {<<"creator">>} ELSE {})
    <3>1. /\ \A o \in Outputs : newer[o] \subseteq newer'[o]
          /\ creator = "good" \/ <<"creator">> \in newer'["pch"]
      BY <2>2 DEF Changed, Outputs
    <3>2. /\ newer["pch"] \subseteq newer'["pch"] /\ newer["lib"] \subseteq newer'["lib"]
          /\ \A u \in Units : newer[u] \subseteq newer'[u]
      BY <3>1 DEF Outputs
    <3>3. HeldInv'
      BY <1>1, <2>1, <2>2, <3>1, <3>2, UnitsKept, HeaderKept DEF HeldInv, Kept
    <3>4. HoldsInv' /\ FaultInv'
      BY <1>1, <2>1, <2>2, <3>2, HoldsKept, FaultKept DEF Kept
    <3> QED BY <1>2, <2>1, <3>3, <3>4
  <2>3. CASE /\ regime = "faults" /\ pch' = PchNow("good")
             /\ Wrote("pch", {<<"pch">>} \cup (IF creator # "good" THEN {<<"creator">>} ELSE {}))
    BY <1>2, <1>4, <2>1, <2>3
  <2> QED BY <1>6, <2>2, <2>3 DEF PchFails
<1> QED BY <1>3, <1>5, <1>6

\* A unit is found up to date, compiled or given up.
LEMMA UnitCurrent ==
    ASSUME CurrentInv, NEW u \in Units, ReuseUnit(u) \/ CompileUnit(u) \/ UnitFails(u)
    PROVE  HeldInv' /\ RestInv'
<1> USE DEF CurrentInv, RestInv
<1>1. /\ UNCHANGED <<regime, place, source, options, pch, creator, pchEntry, lib, libEntry, quiet>>
      /\ UNCHANGED <<pchVars, phase>> /\ phase = "wave" /\ call.todo \subseteq Units
  BY DEF ReuseUnit, CompileUnit, UnitFails, userVars, pchVars, libVars, TypeInv, TypeOK
<1>2. RecipeInv'
  BY <1>1, RecipeKept
<1>3. \A v \in Units : UnitNow(v)' = UnitNow(v)
  BY <1>1, UnitNowSame
<1>4. PchNow("good")' = PchNow("good")
  BY <1>1, NowSame
<1>5. CASE ReuseUnit(u)
  <2>1. UNCHANGED <<unitVars, newer, obj, entry>>
    BY <1>5 DEF ReuseUnit, unitVars
  <2>2. HeldInv' /\ HoldsInv' /\ FaultInv'
    BY <1>1, <2>1, NothingMade, HoldsKept, FaultKept
  <2>3. obj[u] = UnitNow(u)
    BY <1>5, ReusableUnit DEF ReuseUnit
  <2>4. call'.todo = call.todo \ {u} /\ call'.failed = call.failed
    BY <1>5 DEF ReuseUnit, TypeInv, ShapeInv, Calls
  <2>5. CallInv'
    BY <1>1, <1>3, <1>4, <2>1, <2>3, <2>4 DEF CallInv
  <2> QED BY <1>2, <2>2, <2>5
<1>6. CASE CompileUnit(u)
  <2>1. HeldInv'
    BY <1>6, UnitMade
  <2>2. \A v \in Units : entry'[v] \in {entry[v], Nothing, EntryFor(UnitDependencies(v))}
    BY <1>6 DEF CompileUnit, Kept, TypeInv, ShapeInv
  <2>3. FaultInv'
    BY <1>1, <2>2, FaultKept
  <2>4. <<"obj", u>> \in newer'["lib"] /\ <<"obj", u>> \in ArchiveInputs
    BY <1>6, PchIsNoUnit DEF CompileUnit, Wrote, Outputs, ArchiveInputs
  <2>5. HoldsInv'
    BY <2>4, HoldsVoid
  <2>6. obj'[u] = UnitNow(u) /\ \A v \in Units \ {u} : obj'[v] = obj[v]
    BY <1>6 DEF CompileUnit, TypeInv, ShapeInv
  <2>7. call'.todo = call.todo \ {u} /\ call'.failed = call.failed
    BY <1>6 DEF CompileUnit, TypeInv, ShapeInv, Calls
  <2>8. CallInv'
    BY <1>1, <1>3, <1>4, <2>6, <2>7 DEF CallInv
  <2> QED BY <1>2, <2>1, <2>3, <2>5, <2>8
<1>7. CASE UnitFails(u)
  <2>1. /\ UNCHANGED <<entry, newer>> /\ call'.failed
        /\ \A v \in Units : obj'[v] = obj[v] \/ obj'[v] = Nothing
    BY <1>7 DEF UnitFails, TypeInv, ShapeInv, Calls
  <2>2. UnitShape' /\ UnitInv'
    BY <1>1, <2>1, UnitsKept DEF HeldInv
  <2>3. PchShape' /\ CreatorInv' /\ PchEntryInv'
    BY <1>1, <2>1, HeaderKept DEF HeldInv
  <2>4. HoldsInv' /\ FaultInv'
    BY <1>1, <2>1, HoldsKept, FaultKept
  <2>5. CallInv'
    BY <1>1, <1>4, <2>1 DEF CallInv
  <2> QED BY <1>2, <2>2, <2>3, <2>4, <2>5 DEF HeldInv
<1> QED BY <1>5, <1>6, <1>7

\* The end of a wave makes nothing.
LEMMA WaveCurrent ==
    ASSUME CurrentInv, WaveFails \/ RetryWave \/ EndWave
    PROVE  HeldInv' /\ RestInv'
<1> USE DEF CurrentInv, RestInv
<1>1. /\ UNCHANGED <<regime, place, source, options, pch, pchEntry, obj, entry, lib, libEntry, newer>>
      /\ UNCHANGED <<pchVars, unitVars, quiet>> /\ phase = "wave" /\ phase' # "sealing"
  BY DEF WaveFails, RetryWave, EndWave, WaveDone, End, userVars, pchVars, unitVars, libVars
<1>2. HeldInv' /\ HoldsInv' /\ FaultInv' /\ RecipeInv'
  BY <1>1, NothingMade, HoldsKept, FaultKept, RecipeKept
<1>3. CallInv'
  <2>1. CASE WaveFails
    BY <2>1 DEF WaveFails, End, CallInv
  <2>2. CASE RetryWave
    BY <1>1, <2>2 DEF RetryWave, CallInv
  <2>3. CASE EndWave
    <3>1. phase' = "archive" /\ call.todo = {} /\ ~call.failed
      BY <2>3 DEF EndWave, WaveDone
    <3>2. PchNow("good")' = PchNow("good") /\ \A u \in Units : UnitNow(u)' = UnitNow(u)
      BY <1>1, NowSame, UnitNowSame
    <3> QED BY <1>1, <3>1, <3>2 DEF CallInv
  <2> QED BY <2>1, <2>2, <2>3
<1> QED BY <1>2, <1>3

\* An archive found up to date holds the objects there are, under the recipe there is.
LEMMA ReusableArchive ==
    ASSUME CurrentInv, quiet, phase = "archive", ArchiveReusable
    PROVE  LibCurrent
<1> USE DEF CurrentInv, RestInv
<1>1. /\ libEntry = Recipe /\ lib # Nothing /\ pch # Nothing /\ \A u \in Units : obj[u] # Nothing
      /\ newer["lib"] \cap ArchiveInputs = {}
  BY DEF ArchiveReusable
<1>2. lib.recipe = Recipe
  BY <1>1, RegimesAssumption DEF RecipeInv, FaultInv, TypeInv, TypeOK
<1>3. lib.pch = pch /\ \A u \in Units : lib.members[u] = obj[u]
  BY <1>1 DEF HoldsInv
<1>4. pch = PchNow("good") /\ \A u \in Units : obj[u] = UnitNow(u)
  BY DEF CallInv
<1> QED BY <1>1, <1>2, <1>3, <1>4 DEF LibCurrent, UnitNow

\* The archive stage: what is archived are the current objects.
LEMMA ArchiveCurrent ==
    ASSUME CurrentInv,
           \/ ArchiveRejected \/ ReuseArchive \/ Archive \/ ArchiveFails
           \/ SaveArchiveEntry \/ SaveArchiveEntryFails \/ Crash
    PROVE  HeldInv' /\ RestInv'
<1> USE DEF CurrentInv, RestInv
<1>1. /\ UNCHANGED <<regime, place, source, options, pch, pchEntry, obj, entry, quiet>>
      /\ UNCHANGED <<pchVars, unitVars>>
      /\ \A o \in Outputs \ {"lib"} : newer[o] \subseteq newer'[o]
  BY DEF ArchiveRejected, ReuseArchive, Archive, ArchiveFails, SaveArchiveEntry,
         SaveArchiveEntryFails, Crash, userVars, pchVars, unitVars, Wrote
<1>2. HeldInv'
  BY <1>1, NothingMade
<1>3. CASE Archive
  <2>1. lib' = [pch |-> pch, members |-> obj, recipe |-> Recipe] /\ phase = "archive"
        /\ phase' = "sealing"
    BY <1>3 DEF Archive
  <2>2. lib' # Nothing
    <3>1. DOMAIN lib' = {"pch", "members", "recipe"} /\ DOMAIN Nothing = {"kind"}
      BY <2>1 DEF Nothing
    <3> QED BY <3>1
  <2>3. lib'.pch = pch /\ lib'.members = obj /\ lib'.recipe = Recipe
    BY <2>1
  <2>4. Recipe' = Recipe /\ PchNow("good")' = PchNow("good")
        /\ \A names : ReadBy(names)' = ReadBy(names)
    BY <1>1, NowSame
  <2>5. HoldsInv'
    BY <1>1, <2>3 DEF HoldsInv
  <2>6. RecipeInv'
    BY <2>1, <2>2, <2>3, <2>4 DEF RecipeInv
  <2>7. FaultInv'
    BY <1>1, <2>3, FaultKept
  <2>8. ASSUME quiet PROVE LibCurrent'
    <3>1. pch = PchNow("good") /\ \A u \in Units : obj[u] = UnitNow(u)
      BY <2>1, <2>8 DEF CallInv
    <3> QED BY <1>1, <2>2, <2>3, <2>4, <3>1 DEF LibCurrent, UnitNow
  <2>9. CallInv'
    <3>1. quiet => pch = PchNow("good")
      BY <2>1 DEF CallInv
    <3> QED BY <1>1, <2>1, <2>4, <2>8, <3>1 DEF CallInv
  <2> QED BY <1>2, <2>5, <2>6, <2>7, <2>9
<1>4. CASE \/ ArchiveRejected \/ ReuseArchive \/ ArchiveFails
           \/ SaveArchiveEntry \/ SaveArchiveEntryFails \/ Crash
  <2>1. newer' = newer /\ phase' = "idle" /\ (lib' = lib \/ lib' = Nothing)
    BY <1>4 DEF ArchiveRejected, ReuseArchive, ArchiveFails, SaveArchiveEntry,
                SaveArchiveEntryFails, Crash, End, Kept, libVars
  <2>2. HoldsInv' /\ FaultInv'
    BY <1>1, <2>1, HoldsKept, FaultKept
  <2>3. RecipeInv'
    <3>1. CASE ArchiveRejected \/ ReuseArchive \/ ArchiveFails
      <4>1. libEntry' = libEntry /\ phase = "archive"
        BY <3>1 DEF ArchiveRejected, ReuseArchive, ArchiveFails, libVars
      <4> QED BY <1>1, <2>1, <4>1, RecipeKept
    <3>2. CASE SaveArchiveEntry
      BY <1>1, <2>1, <3>2 DEF SaveArchiveEntry, RecipeInv
    <3>3. CASE SaveArchiveEntryFails \/ Crash
      BY <1>1, <2>1, <3>3 DEF SaveArchiveEntryFails, Crash, RecipeInv
    <3> QED BY <1>4, <3>1, <3>2, <3>3
  <2>4. CallInv'
    <3>1. CASE ArchiveRejected \/ ArchiveFails \/ Crash
      BY <2>1, <3>1 DEF ArchiveRejected, ArchiveFails, Crash, End, CallInv
    <3>2. CASE ReuseArchive
      <4>1. quiet => LibCurrent
        BY <3>2, ReusableArchive DEF ReuseArchive
      <4>2. lib' = lib
        BY <3>2 DEF ReuseArchive, libVars
      <4> QED BY <1>1, <2>1, <4>1, <4>2, LibSame DEF CallInv
    <3>3. CASE SaveArchiveEntry \/ SaveArchiveEntryFails
      <4>1. lib' = lib /\ phase = "sealing"
        BY <3>3 DEF SaveArchiveEntry, SaveArchiveEntryFails
      <4>2. quiet => LibCurrent
        BY <4>1 DEF CallInv
      <4> QED BY <1>1, <2>1, <4>1, <4>2, LibSame DEF CallInv
    <3> QED BY <1>4, <3>1, <3>2, <3>3
  <2> QED BY <1>2, <2>2, <2>3, <2>4
<1> QED BY <1>3, <1>4
-----------------------------------------------------------------------------
\* At the start there is at most the header of an older MQB, with its entry.
LEMMA CurrentStart == Init => CurrentInv
<1> SUFFICES ASSUME Init PROVE CurrentInv
  OBVIOUS
<1>1. TypeInv /\ PchInv
  BY TypeStart, PchInvStart
<1>2. RestInv
  <2>1. FaultInv
    BY DEF Init, FaultInv, Upgraded
  <2> QED BY <2>1 DEF Init, RestInv, HoldsInv, RecipeInv, CallInv
<1>3. UnitShape /\ UnitInv
  BY DEF Init, UnitShape, UnitInv
<1>4. CASE pchEntry = Nothing
  BY <1>1, <1>2, <1>3, <1>4
     DEF Init, Upgraded, EntryFor, Nothing, HeldInv, PchShape, CreatorInv, PchEntryInv, CurrentInv
<1>5. CASE Upgraded
  <2>1. pch = PchNow("bad") /\ pchEntry = EntryFor(PchDependencies) /\ creator = "bad"
    BY <1>5 DEF Upgraded
  <2>2. PchShape /\ CreatorInv
    BY <2>1 DEF PchShape, CreatorInv, PchNow
  <2>3. TypeOK
    BY <1>1 DEF TypeInv
  <2>4. PICK e : e = pchEntry
    OBVIOUS
  <2>5. /\ Watches(e, PchNames) /\ e.cl = options.cl /\ e.roots = SearchRoots
        /\ <<"file", PchHeader>> \in e.deps
        /\ \A p \in FoundIn(e.roots, PchNames) : <<"file", p>> \in e.deps
    BY <2>1, <2>3, <2>4, PchEntryWatches
  <2>6. /\ pch.cl = options.cl /\ pch.header = place[PchHeader]
        /\ pch.reads = ReadIn(e.roots, PchNames)
    BY <2>1, <2>3, <2>5, SearchNow DEF PchNow
  <2>7. DOMAIN pch.reads = FoundIn(e.roots, PchNames)
    BY <2>6 DEF ReadIn
  <2>8. PchEntryInv
    BY <2>4, <2>5, <2>6, <2>7 DEF PchEntryInv, PchHeld
  <2> QED BY <1>1, <1>2, <1>3, <2>2, <2>8 DEF HeldInv, CurrentInv
<1> QED BY <1>4, <1>5 DEF Init

\* Every step keeps the invariant.
LEMMA CurrentStep == CurrentInv /\ [Next]_vars => CurrentInv'
<1> SUFFICES ASSUME CurrentInv, [Next]_vars PROVE HeldInv' /\ RestInv'
  BY TypeStep, PchInvStep DEF CurrentInv
<1>1. CASE \/ \E p \in EditedPaths : PutHeader(p) \/ RemoveHeader(p)
           \/ \E u \in Units : EditSource(u)
           \/ Reconfigure \/ Tamper
  BY <1>1, UserHeld, UserRest DEF CurrentInv
<1>2. CASE \E u \in Units : ReuseUnit(u) \/ CompileUnit(u) \/ UnitFails(u)
  BY <1>2, UnitCurrent
<1>3. CASE HeaderMissing \/ ReusePch \/ CompilePch \/ PchFails
  BY <1>3, PchCurrent
<1>4. CASE WaveFails \/ RetryWave \/ EndWave
  BY <1>4, WaveCurrent
<1>5. CASE \/ ArchiveRejected \/ ReuseArchive \/ Archive \/ ArchiveFails
           \/ SaveArchiveEntry \/ SaveArchiveEntryFails \/ Crash
  BY <1>5, ArchiveCurrent
<1>6. CASE UNCHANGED vars
  <2>1. /\ UNCHANGED <<regime, place, source, options, pch, pchEntry, obj, entry, lib, libEntry, newer>>
        /\ UNCHANGED <<pchVars, unitVars, phase, call, outcome, quiet>>
    BY <1>6 DEF vars, userVars, pchVars, unitVars, libVars, callVars
  <2>2. HeldInv'
    BY <2>1, NothingMade DEF CurrentInv
  <2>3. HoldsInv' /\ RecipeInv' /\ FaultInv'
    BY <2>1, HoldsKept, RecipeKept, FaultKept DEF CurrentInv, RestInv
  <2>4. CallInv'
    <3>1. PchNow("good")' = PchNow("good") /\ \A u \in Units : UnitNow(u)' = UnitNow(u)
      BY <2>1, NowSame, UnitNowSame
    <3>2. LibCurrent => LibCurrent'
      BY <2>1, LibSame
    <3> QED BY <2>1, <3>1, <3>2 DEF CallInv, CurrentInv, RestInv
  <2> QED BY <2>2, <2>3, <2>4 DEF RestInv
<1> QED BY <1>1, <1>2, <1>3, <1>4, <1>5, <1>6 DEF Next

\* Every reachable state satisfies what the build relies on: entries that watch where
\* they looked, outputs that are what their entries say, and a call that has made all
\* it has passed from what is there.
THEOREM CurrentInvariant == Spec => []CurrentInv
BY CurrentStart, CurrentStep, PTL DEF Spec

\* An undisturbed successful build leaves an archive of the current sources, headers
\* and options, whatever a file that appeared on the search path, a deleted artifact, a
\* failure or a kill left before (Application::build, the freshness checks of the pch,
\* compile and archive coordinators).
THEOREM QuietArchive == Spec => []QuietArchiveCurrent
<1>1. CurrentInv => QuietArchiveCurrent
  BY DEF CurrentInv, RestInv, CallInv, LibCurrent, QuietArchiveCurrent
<1> QED BY <1>1, CurrentInvariant, PTL
=============================================================================
