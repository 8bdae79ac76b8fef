-------------------------- MODULE CommitFileProofs --------------------------
(***************************************************************************)
(* Theorems about CommitFile, for any readers and any number of writes and *)
(* interruptions: what the marker stands for, that one interruption never  *)
(* loses the configuration, that a reader brings back nothing older than   *)
(* what was in force when it began, and that the three files implement the *)
(* register of ConfigRegister.                                             *)
(***************************************************************************)
EXTENDS CommitFile, TLAPS

\* What each step of a write leaves behind it.
WriteProgress ==
    /\ wpc \in {"openMarker", "fillMarker", "openMain", "fillMain", "dropMarker", "dropTmp"} =>
          disk["tmp"] = text
    /\ wpc \in {"openTmp", "fillTmp", "openMarker", "dropTmp"} => disk["commit"] = Absent
    /\ wpc \in {"fillMarker", "openMain", "fillMain", "dropMarker"} => disk["commit"] # Absent
    /\ wpc \in {"dropMarker", "dropTmp"} => disk["main"] = text

\* Where a torn file can come from.
TornMain ==
    disk["main"] = Torn =>
        /\ interruptions = 0 => wpc = "fillMain"
        /\ disk["commit"] = Absent =>
              \/ interruptions >= 2
              \/ interruptions = 1 /\ wpc \in {"openTmp", "fillTmp", "openMarker"}

\* Without an interruption no write finds a marker.
NoStaleMarker ==
    interruptions = 0 /\ wpc \in {"idle", "clearMarker"} => disk["commit"] = Absent

\* The temporary file is complete while the marker exists.
MarkedIsComplete == disk["commit"] # Absent => disk["tmp"] \in Nat

\* The inductive invariant about the files.
IInv == TypeOK /\ WriteProgress /\ TornMain /\ NoStaleMarker /\ MarkedIsComplete

\* Texts are numbered in the order of their writes: no file holds one that has not begun, and none
\* was in force when a reader listed the files.
NothingFromTheFuture ==
    /\ \A f \in Files : disk[f] \in Nat => disk[f] <= text
    /\ \A r \in Readers : floor[r] <= text

\* Without an interruption a reader that has chosen a file finds there no complete text that is
\* older than what was in force then, however many writes and deletions come between.
ChosenIsCurrent ==
    interruptions = 0 =>
        \A r \in Readers :
            rpc[r] = "open" /\ disk[chosen[r]] \in Nat => disk[chosen[r]] >= floor[r]

\* The inductive invariant about the readers; it rests on IInv.
ReadersInv == NothingFromTheFuture /\ ChosenIsCurrent /\ ReadIsCurrent

\* What a reader gets is a content.
LEMMA ResolvedContent == TypeOK => Resolved \in Content /\ \A f \in Files : Read(f) \in Content
BY DEF TypeOK, Resolved, Read, Files, Content

\* The inductive invariant holds before the first write.
LEMMA InitIInv == Init => IInv
<1> SUFFICES ASSUME Init PROVE IInv
    OBVIOUS
<1>1. disk \in [Files -> Content] /\ disk["commit"] = Absent /\ disk["main"] # Torn
  BY DEF Init, Files, Content, Absent, Torn, Blank
<1>2. TypeOK
  BY <1>1 DEF Init, TypeOK, Content
<1> QED
  BY <1>1, <1>2
     DEF Init, IInv, WriteProgress, TornMain, NoStaleMarker, MarkedIsComplete

\* Every step preserves it.
LEMMA NextIInv == IInv /\ [Next]_vars => IInv'
<1> SUFFICES ASSUME IInv, [Next]_vars PROVE IInv'
    OBVIOUS
<1> USE DEF IInv, TypeOK, WriteProgress, TornMain, NoStaleMarker, MarkedIsComplete,
        Exists, Files, Content, Absent, Torn, Blank, writerVars, readerVars
<1>1. CASE BeginWrite
  BY <1>1 DEF BeginWrite, WriterStep
<1>2. CASE ClearStaleMarker
  BY <1>2 DEF ClearStaleMarker, WriterStep
<1>3. CASE OpenTemp
  BY <1>3 DEF OpenTemp, Open, WriterStep
<1>4. CASE FillTemp
  BY <1>4 DEF FillTemp, Fill, WriterStep
<1>5. CASE OpenMarker
  BY <1>5 DEF OpenMarker, Open, WriterStep
<1>6. CASE FillMarker
  BY <1>6 DEF FillMarker, Fill, WriterStep
<1>7. CASE OpenMain
  BY <1>7 DEF OpenMain, Open, WriterStep
<1>8. CASE FillMain
  BY <1>8 DEF FillMain, Fill, WriterStep
<1>9. CASE DropMarker
  BY <1>9 DEF DropMarker, WriterStep
<1>10. CASE DropTemp
  BY <1>10 DEF DropTemp, WriterStep
<1>11. CASE InterruptWrite
  BY <1>11 DEF InterruptWrite
<1>12. CASE DeleteFile
  BY <1>12 DEF DeleteFile, WriterStep
<1>13. ASSUME NEW r \in Readers, ListFiles(r) PROVE IInv'
  <2>1. floor' \in [Readers -> Content]
    BY <1>13, ResolvedContent DEF ListFiles
  <2>2. CASE Marked
    BY <1>13, <2>1, <2>2 DEF ListFiles
  <2>3. CASE ~Marked
    <3>1. /\ chosen' \in [Readers -> {"main", "tmp"}]
          /\ rpc' \in [Readers -> {"idle", "open"}]
          /\ got' \in [Readers -> Content]
      BY <1>13, <2>3 DEF ListFiles
    <3> QED
      BY <1>13, <2>1, <3>1 DEF ListFiles
  <2> QED
    BY <2>2, <2>3
<1>14. ASSUME NEW r \in Readers, OpenAndRead(r) PROVE IInv'
  <2>1. chosen[r] \in {"main", "tmp"}
    OBVIOUS
  <2>2. /\ got' \in [Readers -> Content]
        /\ rpc' \in [Readers -> {"idle", "open"}]
        /\ bypassed' \subseteq Readers
    <3>1. Read(chosen[r]) \in Content
      BY <2>1, ResolvedContent
    <3> QED
      BY <1>14, <3>1 DEF OpenAndRead
  <2>3. CASE disk' = disk
    BY <1>14, <2>2, <2>3 DEF OpenAndRead
  <2>4. CASE disk' # disk
    <3>1. /\ disk[chosen[r]] = Absent
          /\ disk' = [disk EXCEPT ![chosen[r]] = Blank]
      BY <1>14, <2>4 DEF OpenAndRead
    <3>2. CASE chosen[r] = "main"
      BY <1>14, <2>2, <3>1, <3>2 DEF OpenAndRead
    <3>3. CASE chosen[r] = "tmp"
      BY <1>14, <2>2, <3>1, <3>3 DEF OpenAndRead
    <3> QED
      BY <2>1, <3>2, <3>3
  <2> QED
    BY <2>3, <2>4
<1>15. CASE UNCHANGED vars
  BY <1>15 DEF vars
<1> QED
  BY <1>1, <1>2, <1>3, <1>4, <1>5, <1>6, <1>7, <1>8, <1>9, <1>10, <1>11, <1>12, <1>13,
     <1>14, <1>15 DEF Next, Writer

\* Contents are numbers; a text is at least any content that is no text.
LEMMA ContentIsInteger ==
    /\ Content \subseteq Int
    /\ \A c \in Content, n \in Nat : c \in Nat \/ c <= n
  BY DEF Content, Blank, Absent, Torn

\* Nobody has read anything before the first write.
LEMMA InitReaders == Init => ReadersInv
<1> SUFFICES ASSUME Init PROVE ReadersInv
    OBVIOUS
<1> USE DEF Absent, Blank, Torn
<1>1. NothingFromTheFuture
  BY DEF Init, NothingFromTheFuture, Files
<1>2. ChosenIsCurrent /\ ReadIsCurrent
  BY DEF Init, ChosenIsCurrent, ReadIsCurrent
<1> QED
  BY <1>1, <1>2 DEF ReadersInv

\* What the steps of the writer do to the files: one of them gets the text in progress, or something
\* that is no text.
LEMMA WriterWritesText ==
    ASSUME IInv, Writer
    PROVE  /\ text' \in Nat /\ text' >= text
           /\ interruptions' = 0 => interruptions = 0
           /\ UNCHANGED <<rpc, chosen, got, floor>>
           /\ \A f \in Files : disk'[f] = disk[f] \/ disk'[f] = text \/ disk'[f] \notin Nat
<1> USE DEF IInv, TypeOK, Files, readerVars, Absent, Torn
<1>1. CASE BeginWrite
  BY <1>1 DEF BeginWrite, WriterStep
<1>2. CASE ClearStaleMarker \/ DropMarker \/ DropTemp \/ DeleteFile
  BY <1>2 DEF ClearStaleMarker, DropMarker, DropTemp, DeleteFile, WriterStep
<1>3. CASE OpenTemp \/ OpenMarker \/ OpenMain
  BY <1>3 DEF OpenTemp, OpenMarker, OpenMain, Open, WriterStep
<1>4. CASE FillTemp \/ FillMarker \/ FillMain
  BY <1>4 DEF FillTemp, FillMarker, FillMain, Fill, WriterStep
<1>5. CASE InterruptWrite
  BY <1>5 DEF InterruptWrite
<1> QED
  BY <1>1, <1>2, <1>3, <1>4, <1>5 DEF Writer

\* A step of the writer keeps what readers rely on: whatever it writes is not older than anything
\* that was ever in force.
LEMMA WriterKeepsReaders ==
    ASSUME IInv, ReadersInv, Writer
    PROVE  ReadersInv'
<1> USE DEF ReadersInv
<1>1. /\ text \in Nat /\ text' \in Nat /\ text' >= text
      /\ interruptions' = 0 => interruptions = 0
      /\ UNCHANGED <<rpc, chosen, got, floor>>
      /\ \A f \in Files : disk'[f] = disk[f] \/ disk'[f] = text \/ disk'[f] \notin Nat
  BY WriterWritesText DEF IInv, TypeOK
<1>2. \A r \in Readers : floor[r] \in Int /\ chosen[r] \in Files
  BY ContentIsInteger DEF IInv, TypeOK, Files
<1>3. NothingFromTheFuture'
  BY <1>1, <1>2 DEF NothingFromTheFuture
<1>4. ChosenIsCurrent'
  BY <1>1, <1>2 DEF ChosenIsCurrent, NothingFromTheFuture
<1>5. ReadIsCurrent'
  BY <1>1 DEF ReadIsCurrent
<1> QED
  BY <1>3, <1>4, <1>5

\* A reader that lists the files chooses the one that is in force, and notes what it holds.
LEMMA ListFilesKeepsReaders ==
    ASSUME IInv, ReadersInv, NEW r \in Readers, ListFiles(r)
    PROVE  ReadersInv'
<1> USE DEF ReadersInv
<1>1. UNCHANGED <<disk, text, interruptions>> /\ floor' = [floor EXCEPT ![r] = Resolved]
  BY DEF ListFiles, writerVars
<1>2. /\ floor'[r] = Resolved /\ \A x \in Readers \ {r} : floor'[x] = floor[x]
      /\ text \in Nat /\ Resolved \in Int
  BY <1>1, ResolvedContent, ContentIsInteger DEF IInv, TypeOK
<1>3. Resolved <= text
  <2>1. disk["tmp"] \in Content /\ disk["main"] \in Content
    BY DEF IInv, TypeOK, Files
  <2>2. disk["tmp"] <= text /\ disk["main"] <= text
    BY <1>2, <2>1, ContentIsInteger DEF NothingFromTheFuture, Files
  <2> QED
    BY <1>2, <2>2 DEF Resolved, Read, Absent
<1>4. /\ \A x \in Readers \ {r} : rpc'[x] = rpc[x] /\ chosen'[x] = chosen[x] /\ got'[x] = got[x]
      /\ rpc'[r] = "open" => chosen'[r] = IF Marked THEN "tmp" ELSE "main"
      /\ rpc'[r] = "idle" => got'[r] = Absent
  BY DEF ListFiles, IInv, TypeOK
<1>5. NothingFromTheFuture'
  BY <1>1, <1>2, <1>3 DEF NothingFromTheFuture
<1>6. ChosenIsCurrent'
  <2>1. rpc'[r] = "open" /\ disk[chosen'[r]] \in Nat => disk[chosen'[r]] = Resolved
    BY <1>4 DEF Resolved, Read, Blank
  <2> QED
    BY <1>1, <1>2, <1>4, <2>1 DEF ChosenIsCurrent
<1>7. ReadIsCurrent'
  BY <1>1, <1>2, <1>4 DEF ReadIsCurrent, Absent
<1> QED
  BY <1>5, <1>6, <1>7

\* A reader that opens the file gets what it holds now; if the file is gone, nothing.
LEMMA OpenAndReadKeepsReaders ==
    ASSUME IInv, ReadersInv, NEW r \in Readers, OpenAndRead(r)
    PROVE  ReadersInv'
<1> USE DEF ReadersInv
<1>1. /\ UNCHANGED <<text, interruptions, chosen, floor>>
      /\ \A f \in Files : disk'[f] = disk[f] \/ disk'[f] = Blank
      /\ rpc[r] = "open" /\ rpc'[r] = "idle" /\ got'[r] = Read(chosen[r])
      /\ \A x \in Readers \ {r} : rpc'[x] = rpc[x] /\ got'[x] = got[x]
  <2>1. chosen[r] \in Files
    BY DEF IInv, TypeOK, Files
  <2> QED
    BY <2>1 DEF OpenAndRead, IInv, TypeOK
<1>2. \A f \in Files : disk'[f] \in Nat => disk'[f] = disk[f]
  BY <1>1 DEF Blank
<1>3. \A x \in Readers : chosen[x] \in Files
  BY DEF IInv, TypeOK, Files
<1>4. NothingFromTheFuture'
  BY <1>1, <1>2 DEF NothingFromTheFuture
<1>5. ChosenIsCurrent'
  BY <1>1, <1>2, <1>3 DEF ChosenIsCurrent
<1>6. ReadIsCurrent'
  <2>1. got'[r] \in Nat => got'[r] = disk[chosen[r]]
    BY <1>1 DEF Read, Absent
  <2> QED
    BY <1>1, <2>1 DEF ReadIsCurrent, ChosenIsCurrent
<1> QED
  BY <1>4, <1>5, <1>6

\* Every step preserves what readers rely on.
LEMMA NextReaders == IInv /\ ReadersInv /\ [Next]_vars => ReadersInv'
<1>1. ReadersInv /\ UNCHANGED vars => ReadersInv'
  BY DEF ReadersInv, NothingFromTheFuture, ChosenIsCurrent, ReadIsCurrent, vars, writerVars,
         readerVars
<1> QED
  BY <1>1, WriterKeepsReaders, ListFilesKeepsReaders, OpenAndReadKeepsReaders DEF Next

\* The inductive invariant holds in every behaviour.
LEMMA Invariant == Spec => []IInv
  BY InitIInv, NextIInv, PTL DEF Spec

\* It always holds.
LEMMA ReadersInvariant == Spec => []ReadersInv
  BY Invariant, InitReaders, NextReaders, PTL DEF Spec

\* The state of the writer, of the files and of the readers stays well formed
\* (HookPrefs.writeTextToFile, deleteConfigFile and readAllTextFromFile).
THEOREM TypeCorrect == Spec => []TypeOK
<1>1. IInv => TypeOK
  BY DEF IInv
<1> QED
  BY Invariant, <1>1, PTL

\* The commit marker only ever stands beside a complete temporary file, and
\* without interruptions it is gone when no write runs (the order of the steps
\* of writeTextToFile).
THEOREM MarkerMeansComplete == Spec => []MarkerDiscipline
<1>1. IInv => MarkerDiscipline
  BY DEF IInv, MarkerDiscipline, MarkedIsComplete, NoStaleMarker, Exists
<1> QED
  BY Invariant, <1>1, PTL

\* One interrupted write never leaves a torn configuration to be read
\* (writeTextToFile together with the choice made by readAllTextFromFile).
THEOREM SafeAfterOneInterruption == Spec => []OneInterruptionIsSafe
<1>1. IInv => OneInterruptionIsSafe
  <2> SUFFICES ASSUME IInv, Resolved = Torn
               PROVE  interruptions >= 2 \/ (interruptions = 1 /\ wpc # "idle")
    BY DEF OneInterruptionIsSafe
  <2> USE DEF Absent, Torn, Blank
  <2>1. ~Marked
    BY DEF IInv, MarkedIsComplete, Marked, Exists, Resolved, Read
  <2>2. disk["main"] = Torn
    BY <2>1 DEF Resolved, Read
  <2>3. disk["commit"] = Absent
    BY <2>1 DEF IInv, MarkedIsComplete, Marked, Exists
  <2> QED
    BY <2>2, <2>3 DEF IInv, TornMain
<1> QED
  BY Invariant, <1>1, PTL

\* As long as no write is cut short, a reader that lists the files, waits and then opens one never
\* brings back a text older than the one in force when it listed them: every later write and every
\* deletion replaces what it has chosen by something newer or by nothing (readAllTextFromFile,
\* writeTextToFile).
THEOREM ReadsAreCurrent == Spec => []ReadIsCurrent
<1>1. ReadersInv => ReadIsCurrent
  BY DEF ReadersInv
<1> QED
  BY ReadersInvariant, <1>1, PTL

\* Every step of the file protocol is a step of the register or a stutter.
LEMMA StepImplementsRegister ==
    IInv /\ IInv' /\ [Next]_vars => [Register!Next]_(Register!vars)
<1> SUFFICES ASSUME IInv, IInv', [Next]_vars
             PROVE  [Register!Next]_(Register!vars)
    OBVIOUS
<1> USE DEF IInv, TypeOK, WriteProgress, NoStaleMarker, MarkedIsComplete, Exists, Marked,
        Resolved, Read, Absent, Torn, Blank, Register!Absent, Register!vars, readerVars
<1>1. CASE BeginWrite
  <2>1. Register!Begin
    BY <1>1 DEF BeginWrite, WriterStep, Register!Begin
  <2> QED
    BY <2>1 DEF Register!Next
<1>2. CASE ClearStaleMarker
  <2>1. CASE interruptions = 0
    BY <1>2, <2>1 DEF ClearStaleMarker, WriterStep, Files
  <2>2. CASE interruptions > 0
    <3>1. Resolved' \in Register!Content
      BY <1>2, ResolvedContent DEF ClearStaleMarker, WriterStep, Register!Content,
         Register!Torn, Content, Files
    <3>2. Register!Expose
      BY <1>2, <2>2, <3>1 DEF ClearStaleMarker, WriterStep, Register!Expose
    <3> QED
      BY <3>2 DEF Register!Next
  <2> QED
    BY <2>1, <2>2
<1>3. CASE OpenTemp
  BY <1>3 DEF OpenTemp, Open, WriterStep, Files
<1>4. CASE FillTemp
  BY <1>4 DEF FillTemp, Fill, WriterStep, Files
<1>5. CASE OpenMarker
  <2>1. Register!Commit
    BY <1>5 DEF OpenMarker, Open, WriterStep, Files, Register!Commit
  <2> QED
    BY <2>1 DEF Register!Next
<1>6. CASE FillMarker
  BY <1>6 DEF FillMarker, Fill, WriterStep, Files
<1>7. CASE OpenMain
  BY <1>7 DEF OpenMain, Open, WriterStep, Files
<1>8. CASE FillMain
  BY <1>8 DEF FillMain, Fill, WriterStep, Files
<1>9. CASE DropMarker
  BY <1>9 DEF DropMarker, WriterStep, Files
<1>10. CASE DropTemp
  <2>1. Register!End
    BY <1>10 DEF DropTemp, WriterStep, Files, Register!End
  <2> QED
    BY <2>1 DEF Register!Next
<1>11. CASE InterruptWrite
  <2>1. Register!Interrupt
    BY <1>11 DEF InterruptWrite, Register!Interrupt
  <2> QED
    BY <2>1 DEF Register!Next
<1>12. CASE DeleteFile
  <2>1. Register!Erase \/ UNCHANGED Register!vars
    BY <1>12 DEF DeleteFile, WriterStep, Files, Register!Erase
  <2> QED
    BY <2>1 DEF Register!Next
<1>13. ASSUME NEW r \in Readers, ListFiles(r) PROVE UNCHANGED Register!vars
  BY <1>13 DEF ListFiles, writerVars
<1>14. ASSUME NEW r \in Readers, OpenAndRead(r) PROVE UNCHANGED Register!vars
  <2>1. CASE disk' = disk
    BY <1>14, <2>1 DEF OpenAndRead
  <2>2. CASE disk' # disk
    <3>1. /\ disk[chosen[r]] = Absent
          /\ disk' = [disk EXCEPT ![chosen[r]] = Blank]
          /\ chosen[r] \in {"main", "tmp"}
      BY <1>14, <2>2 DEF OpenAndRead
    <3> QED
      BY <1>14, <3>1 DEF OpenAndRead, Files
  <2> QED
    BY <2>1, <2>2
<1>15. CASE UNCHANGED vars
  BY <1>15 DEF vars, writerVars
<1> QED
  BY <1>1, <1>2, <1>3, <1>4, <1>5, <1>6, <1>7, <1>8, <1>9, <1>10, <1>11, <1>12, <1>13,
     <1>14, <1>15 DEF Next, Writer

\* The file, its temporary copy and its marker implement the register of
\* ConfigRegister: a write takes effect in one step.
THEOREM ImplementsRegister == Spec => RegisterSpec
<1>1. Init => Register!Init
  BY DEF Init, Register!Init, Resolved, Read, Marked, Exists, Files, Absent, Blank,
     Register!Absent
<1> QED
  BY Invariant, <1>1, StepImplementsRegister, PTL DEF Spec, RegisterSpec, Register!Spec
=============================================================================
