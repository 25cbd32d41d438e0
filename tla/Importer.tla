-------------------------------- MODULE Importer --------------------------------
(***************************************************************************)
(* The commands import-json and import-chrome: from the arguments and the  *)
(* configuration to the identity table and the exit status.  A command is  *)
(* started after the one before has ended, or was killed at any point.     *)
(* What the running bridge does with the table is in Fallback.             *)
(*                                                                         *)
(* ImportChrome copies the two storages the extension may use, one after   *)
(* the other, while Chrome may go on writing to them: a copy has each      *)
(* field as it was at some time of the copying, or cannot be opened.  The  *)
(* keys that stand for one field are one key here, and the version is like *)
(* the platform.                                                           *)
(***************************************************************************)
EXTENDS Naturals, SequencesExt

CONSTANTS
  None,         \* no such key, no row, no copy
  Odd,          \* a JSON value that is not a string
  Blank,        \* white space
  MaxCommands,  \* bound: commands given
  MaxWrites     \* bound: what Chrome writes

ASSUME ImporterAssumption ==
  /\ MaxCommands \in Nat
  /\ MaxWrites \in Nat
  /\ {None, Odd, Blank} \cap Nat = {}

Fields == {"uuid", "token", "push", "platform"}
Stored == Fields \ {"platform"}
Storages == <<"settings", "local">>  \* in the order in which they are read
Value == {None, Odd, Blank} \cup 0 .. MaxWrites

\* No row is not an identity.
ASSUME NoRowAssumption == None \notin [Fields -> Value]

VARIABLES
  pc,        \* where the command is; "ended": by itself or by a kill
  status,    \* the exit status of the last command, None while it runs or if killed
  storage,   \* which of the storages it is at
  rest,      \* the fields that are still to be copied
  copy,      \* the copy in the temporary directory
  values,    \* what has been read so far
  row,       \* the identity table
  profile,   \* Chrome's: the storages
  present,   \* their directories that exist
  \* bounds and history
  commands, writes,
  seen,      \* the values each storage had since the command began
  kills,     \* commands killed
  stuck,     \* temporary directories that could not be removed
  left       \* temporary directories left behind

vars == <<pc, status, storage, rest, copy, values, row, profile, present,
          commands, writes, seen, kills, stuck, left>>
chrome == <<profile, present, writes>>
history == <<commands, seen, kills>>
leftovers == <<stuck, left>>

NoValues == [f \in Stored |-> None]
Current == [s \in ToSet(Storages) |-> [f \in Stored |-> {profile[s][f]}]]

Init ==
  /\ pc = "ended" /\ status = None
  /\ storage = 1 /\ rest = {} /\ copy = None /\ values = NoValues
  /\ row = None
  /\ present \in SUBSET ToSet(Storages)
  /\ profile \in [ToSet(Storages) -> {NoValues, [f \in Stored |-> 0]}]
  /\ \A s \in ToSet(Storages) \ present : profile[s] = NoValues
  /\ commands = 0 /\ writes = 0 /\ kills = 0 /\ stuck = 0 /\ left = 0
  /\ seen = Current

\* Nothing of the command's memory outlives it.
Forget == storage' = 1 /\ rest' = {} /\ values' = NoValues /\ copy' = None

Goto(next) == pc' = next /\ UNCHANGED <<status, leftovers>>

\* Mutant: an error leaves the copy behind.
Exit_LeavesCopy(code) ==
  /\ pc' = "ended" /\ status' = code
  /\ left' = IF copy # None THEN left + 1 ELSE left
  /\ stuck' = stuck
  /\ Forget

\* The deferred RemoveAll, whose error nobody sees.
RemoveAll ==
  \/ UNCHANGED leftovers
  \/ copy # None /\ stuck' = stuck + 1 /\ left' = left + 1

\* It runs on every way out.
Exit(code) ==
  /\ pc' = "ended" /\ status' = code
  /\ RemoveAll
  /\ Forget

-----------------------------------------------------------------------------

\* The arguments.
Start ==
  /\ pc = "ended"
  /\ commands < MaxCommands
  /\ commands' = commands + 1
  /\ seen' = Current
  /\ \/ Exit(2)
     \/ /\ pc' = "configuring" /\ status' = None
        /\ UNCHANGED <<storage, rest, copy, values, leftovers>>
  /\ UNCHANGED <<row, chrome, kills>>

LoadConfig ==
  /\ pc = "configuring"
  /\ \/ Exit(1)
     \/ \E next \in {"reading", "looking"} :
          Goto(next) /\ UNCHANGED <<storage, rest, copy, values>>
  /\ UNCHANGED <<row, chrome, history>>

\* The platform is the configuration's unless one is given.
WithDefaults(v) == [v EXCEPT !.platform = IF @ = None THEN 0 ELSE @]

Valid(i) == \A f \in {"uuid", "token", "platform"} : i[f] \notin {None, Blank}

\* Mutant: the identity is not checked.
Imported_Unchecked(v) ==
  /\ Goto("saving")
  /\ values' = WithDefaults(v)
  /\ UNCHANGED <<storage, rest, copy>>

\* Both importers end with the defaults and the check.
Imported(v) ==
  LET i == WithDefaults(v)
  IN  \/ Valid(i) /\ Goto("saving") /\ values' = i /\ UNCHANGED <<storage, rest, copy>>
      \/ ~Valid(i) /\ Exit(1)

\* A file may say anything, or not be JSON.
ImportJSON ==
  /\ pc = "reading"
  /\ \/ \E v \in [Fields -> {None, Blank, 0}] : Imported(v)
     \/ Exit(1)
  /\ UNCHANGED <<row, chrome, history>>

\* A directory that is not there is passed over.
NextStorage ==
  /\ pc = "looking"
  /\ storage <= Len(Storages)
  /\ \/ /\ Storages[storage] \in present
        /\ Goto("copying")
        /\ rest' = Stored
        /\ copy' = NoValues
        /\ UNCHANGED <<storage, values>>
     \/ /\ Storages[storage] \notin present
        /\ Goto("looking")
        /\ storage' = storage + 1
        /\ UNCHANGED <<rest, copy, values>>
     \* the profile or the extension id, or no temporary directory
     \/ Exit(1)
  /\ UNCHANGED <<row, chrome, history>>

CopyField ==
  /\ pc = "copying"
  /\ \E f \in rest :
       /\ copy' = [copy EXCEPT ![f] = profile[Storages[storage]][f]]
       /\ rest' = rest \ {f}
  /\ UNCHANGED <<pc, status, storage, values, row, chrome, history, leftovers>>

\* Mutant: what was read first wins.
Merge_FirstWins(dst, src) == [f \in Stored |-> IF dst[f] # None THEN dst[f] ELSE src[f]]

\* mergeIdentityValues.
Merge(dst, src) == [f \in Stored |-> IF src[f] # None THEN src[f] ELSE dst[f]]

\* The copy is opened and read, and removed.
ReadCopy ==
  /\ pc = "copying"
  /\ rest = {}
  /\ \A f \in Stored : copy[f] # Odd
  /\ values' = Merge(values, copy)
  /\ pc' = "looking"
  /\ storage' = storage + 1
  /\ RemoveAll /\ copy' = None
  /\ UNCHANGED <<status, rest, row, chrome, history>>

\* A file is gone or unreadable, the database cannot be opened, or a value is not a
\* string.
CopyFails ==
  /\ pc = "copying"
  /\ Exit(1)
  /\ UNCHANGED <<row, chrome, history>>

ImportChrome ==
  /\ pc = "looking"
  /\ storage > Len(Storages)
  /\ Imported([f \in Fields |-> IF f = "platform" THEN None ELSE values[f]])
  /\ UNCHANGED <<row, chrome, history>>

\* saveImportedIdentity: opened, migrated and saved, or not; an error may come after
\* the statement is done.
SaveIdentity ==
  /\ pc = "saving"
  /\ \/ Exit(0) /\ row' = values
     \/ Exit(1) /\ row' \in {row, values}
  /\ UNCHANGED <<chrome, history>>

\* No signal is caught.
Kill ==
  /\ pc # "ended"
  /\ pc' = "ended" /\ status' = None
  /\ kills' = kills + 1 /\ stuck' = stuck
  /\ left' = IF copy # None THEN left + 1 ELSE left
  /\ Forget
  /\ UNCHANGED <<row, chrome, commands, seen>>

\* Chrome writes a field, one at a time.
ChromeWrites ==
  /\ writes < MaxWrites
  /\ writes' = writes + 1
  /\ \E s \in present, f \in Stored, v \in {None, Odd, Blank, writes + 1} :
       /\ profile' = [profile EXCEPT ![s][f] = v]
       /\ seen' = [seen EXCEPT ![s][f] = @ \cup {v}]
  /\ UNCHANGED <<pc, status, storage, rest, copy, values, row, present, commands, kills,
                 leftovers>>

Next ==
  \/ Start \/ LoadConfig \/ ImportJSON
  \/ NextStorage \/ CopyField \/ ReadCopy \/ CopyFails \/ ImportChrome
  \/ SaveIdentity \/ Kill \/ ChromeWrites

Spec == Init /\ [][Next]_vars

-----------------------------------------------------------------------------
(* Properties *)

\* Whatever the profile or the file holds, and wherever a command fails or is killed,
\* the table is empty or has an identity the bridge can start with; and it is not
\* empty after a command that reported success (chrome.go:22-64, json.go:11-26,
\* main.go:84-154, app.go:171-181).
RowIsUsable ==
  /\ row = None \/ Valid(row)
  /\ status = 0 => row # None

\* A field that is saved is Local Storage's, as it was at some time since the command
\* began, or, if that storage was without it, that of the extension's settings; never
\* one from before.  So where Chrome writes nothing meanwhile the identity is the two
\* storages' as they are, merged; where it does, the fields may be of different moments,
\* which nothing in the code rules out (chrome.go:30-52, 78-118, 143-147).
ImportedIsCurrent ==
  pc = "saving" /\ storage > Len(Storages) =>
    \A f \in Stored :
      \/ values[f] # None /\ values[f] \in seen["local"][f]
      \/ None \in seen["local"][f] /\ values[f] \in seen["settings"][f]

\* A copy of the profile's storages is left behind by a kill, one at most, or where it
\* could not be removed: every error on the way removes it (chrome.go:79-118).
CopiesAreRemoved == left <= kills + stuck
=============================================================================
