----------------------------- MODULE CommitFile -----------------------------
(***************************************************************************)
(* One configuration file of the module's remote file store, as HookPrefs  *)
(* writes, deletes and reads it: a text is written to "<file>.tmp", then a *)
(* marker "<file>.commit" is created, then "<file>" itself is rewritten in *)
(* place, then the marker and the temporary file are removed.  All writes  *)
(* and deletions run on one thread of the manager (ioScope); readers run   *)
(* in the manager and in the hooked processes, at any time.                *)
(*                                                                         *)
(* A text is abstracted to the number of the write it belongs to.  The     *)
(* file store is external: it creates a file that is opened through the    *)
(* manager's service, and not one that is opened from a hooked process.    *)
(***************************************************************************)
EXTENDS Integers

CONSTANTS
    ManagerReaders,     \* readers in the manager process
    HookReaders,        \* readers in hooked processes
    MaxWrites,          \* bound: writes of the file
    MaxInterruptions    \* bound: writes cut short

ASSUME CommitFileAssumption ==
    /\ MaxWrites \in Nat
    /\ MaxInterruptions \in Nat
    /\ ManagerReaders \intersect HookReaders = {}

Readers == ManagerReaders \union HookReaders

Files == {"main", "tmp", "commit"}
Blank == -3             \* a file that was created and never written
Absent == -2            \* no such file
Torn == -1              \* truncated and not yet written to the end
Content == {Blank, Absent, Torn} \union Nat

VARIABLES
    disk,               \* [Files -> Content]
    wpc,                \* where the writer thread is
    text,               \* the write in progress, or the last one
    interruptions,      \* number of writes cut short
    rpc,                \* [Readers -> "idle" or "open"]
    chosen,             \* [Readers -> Files] the file the reader will open
    got,                \* [Readers -> Content] the result of the last read
    floor,              \* history: [Readers -> Content] the value when the files were listed
    bypassed            \* history: readers that opened main although the marker existed

writerVars == <<disk, wpc, text, interruptions>>
readerVars == <<rpc, chosen, got, floor, bypassed>>
vars == <<writerVars, readerVars>>

Exists(f) == disk[f] # Absent

\* A blank configuration is no configuration.
Read(f) == IF disk[f] = Blank THEN Absent ELSE disk[f]

Marked == Exists("tmp") /\ Exists("commit")

\* What a reader gets that lists, opens and reads while nothing else happens.
Resolved == IF Marked THEN Read("tmp") ELSE Read("main")

Init ==
    /\ disk \in {[f \in Files |-> IF f = "main" THEN v ELSE Absent] : v \in {Absent, 0}}
    /\ wpc = "idle"
    /\ text = 0
    /\ interruptions = 0
    /\ rpc = [r \in Readers |-> "idle"]
    /\ chosen = [r \in Readers |-> "main"]
    /\ got = [r \in Readers |-> Absent]
    /\ floor = [r \in Readers |-> Absent]
    /\ bypassed = {}

----------------------------------------------------------------------------
(* writeTextToFile, on the one thread of ioScope *)

WriterStep(from, to) ==
    /\ wpc = from
    /\ wpc' = to
    /\ UNCHANGED readerVars

BeginWrite ==
    /\ WriterStep("idle", "clearMarker")
    /\ text < MaxWrites
    /\ text' = text + 1
    /\ UNCHANGED <<disk, interruptions>>

\* Mutant: the marker of an earlier write is left where it is.
ClearStaleMarker_Skipped ==
    /\ WriterStep("clearMarker", "openTmp")
    /\ UNCHANGED <<disk, text, interruptions>>

\* A marker left by an earlier write is deleted before anything is written.
ClearStaleMarker ==
    /\ WriterStep("clearMarker", "openTmp")
    /\ disk' = [disk EXCEPT !["commit"] = Absent]
    /\ UNCHANGED <<text, interruptions>>

\* openRemoteFile and truncate(0)
Open(f, from, to) ==
    /\ WriterStep(from, to)
    /\ disk' = [disk EXCEPT ![f] = Torn]
    /\ UNCHANGED <<text, interruptions>>

\* write, flush and sync
Fill(f, from, to) ==
    /\ WriterStep(from, to)
    /\ disk' = [disk EXCEPT ![f] = text]
    /\ UNCHANGED <<text, interruptions>>

OpenTemp == Open("tmp", "openTmp", "fillTmp")
\* Mutant: no marker is created, the file is rewritten at once.
FillTemp_NoMarker == Fill("tmp", "fillTmp", "openMain")

FillTemp == Fill("tmp", "fillTmp", "openMarker")
OpenMarker == Open("commit", "openMarker", "fillMarker")
FillMarker == Fill("commit", "fillMarker", "openMain")
OpenMain == Open("main", "openMain", "fillMain")
FillMain == Fill("main", "fillMain", "dropMarker")

DropMarker ==
    /\ WriterStep("dropMarker", "dropTmp")
    /\ disk' = [disk EXCEPT !["commit"] = Absent]
    /\ UNCHANGED <<text, interruptions>>

DropTemp ==
    /\ WriterStep("dropTmp", "idle")
    /\ disk' = [disk EXCEPT !["tmp"] = Absent]
    /\ UNCHANGED <<text, interruptions>>

\* A write ends early: the stale marker cannot be deleted, a call of the
\* service throws, or the manager process dies.
InterruptWrite ==
    /\ wpc # "idle"
    /\ wpc' = "idle"
    /\ interruptions < MaxInterruptions
    /\ interruptions' = interruptions + 1
    /\ UNCHANGED <<disk, text, readerVars>>

\* deleteConfigFile: only the file itself is deleted.
DeleteFile ==
    /\ WriterStep("idle", "idle")
    /\ Exists("main")
    /\ disk' = [disk EXCEPT !["main"] = Absent]
    /\ UNCHANGED <<text, interruptions>>

----------------------------------------------------------------------------
(* readAllTextFromFile: the files are listed, then one of them is opened *)

\* Mutant: the temporary file is not looked for.
ListFiles_MainOnly(r) ==
    /\ rpc[r] = "idle"
    /\ Exists("main")
    /\ chosen' = [chosen EXCEPT ![r] = "main"]
    /\ rpc' = [rpc EXCEPT ![r] = "open"]
    /\ floor' = [floor EXCEPT ![r] = Resolved]
    /\ UNCHANGED <<writerVars, got, bypassed>>

ListFiles(r) ==
    /\ rpc[r] = "idle"
    /\ IF Marked
       THEN /\ chosen' = [chosen EXCEPT ![r] = "tmp"]
            /\ rpc' = [rpc EXCEPT ![r] = "open"]
            /\ UNCHANGED got
       ELSE /\ chosen' = [chosen EXCEPT ![r] = "main"]
            /\ rpc' = [rpc EXCEPT ![r] = IF Exists("main") THEN "open" ELSE "idle"]
            /\ got' = [got EXCEPT ![r] = IF Exists("main") THEN @ ELSE Absent]
    /\ floor' = [floor EXCEPT ![r] = Resolved]
    /\ UNCHANGED <<writerVars, bypassed>>

\* Opening a file that is gone creates an empty one in the manager, and throws
\* in a hooked process; the read comes back blank or null, Absent for short.
OpenAndRead(r) ==
    /\ rpc[r] = "open"
    /\ rpc' = [rpc EXCEPT ![r] = "idle"]
    /\ got' = [got EXCEPT ![r] = Read(chosen[r])]
    /\ disk' = IF r \in ManagerReaders /\ ~Exists(chosen[r])
               THEN [disk EXCEPT ![chosen[r]] = Blank]
               ELSE disk
    /\ bypassed' = IF chosen[r] = "main" /\ Marked THEN bypassed \union {r} ELSE bypassed
    /\ UNCHANGED <<wpc, text, interruptions, chosen, floor>>

----------------------------------------------------------------------------
Writer ==
    \/ BeginWrite \/ ClearStaleMarker
    \/ OpenTemp \/ FillTemp \/ OpenMarker \/ FillMarker \/ OpenMain \/ FillMain
    \/ DropMarker \/ DropTemp
    \/ InterruptWrite
    \/ DeleteFile

Next == Writer \/ \E r \in Readers : ListFiles(r) \/ OpenAndRead(r)

Spec == Init /\ [][Next]_vars

----------------------------------------------------------------------------
(* Properties *)

TypeOK ==
    /\ disk \in [Files -> Content]
    /\ wpc \in {"idle", "clearMarker", "openTmp", "fillTmp", "openMarker", "fillMarker",
                "openMain", "fillMain", "dropMarker", "dropTmp"}
    /\ text \in Nat
    /\ interruptions \in Nat
    /\ rpc \in [Readers -> {"idle", "open"}]
    /\ chosen \in [Readers -> {"main", "tmp"}]
    /\ got \in [Readers -> Content]
    /\ floor \in [Readers -> Content]
    /\ bypassed \subseteq Readers

\* The marker stands for a complete temporary file, and it is gone between two
\* uninterrupted operations, so that a deletion of the file deletes the
\* configuration (the order of the steps of writeTextToFile).
MarkerDiscipline ==
    /\ Exists("commit") => disk["tmp"] \in Nat
    /\ wpc = "idle" /\ interruptions = 0 => ~Exists("commit")

\* Wherever one write is cut short, the configuration left behind is a complete
\* one; it takes a second interruption, of the write that has removed the
\* marker of the first, to lose it.
OneInterruptionIsSafe ==
    Resolved = Torn => interruptions >= 2 \/ (interruptions = 1 /\ wpc # "idle")

\* A read that brings a complete text brings none older than the one in force
\* when the files were listed, as long as no write was cut short.
ReadIsCurrent ==
    \A r \in Readers :
        interruptions = 0 /\ rpc[r] = "idle" /\ got[r] \in Nat => got[r] >= floor[r]

Register == INSTANCE ConfigRegister WITH
    value <- Resolved,
    target <- IF wpc = "idle" THEN Absent ELSE text,
    interruptions <- interruptions

\* The three files together are a register that a write changes in one step.
RegisterSpec == Register!Spec

\* "Readers prefer that temp file while the marker exists" (HookPrefs.kt:359).
ReadersPreferTemp == bypassed = {}

=============================================================================
