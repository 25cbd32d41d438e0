---------------------------- MODULE ImporterProofs ----------------------------
(***************************************************************************)
(* What an import command leaves behind, whatever Chrome writes meanwhile, *)
(* whatever fails and wherever it is killed, for any number of commands    *)
(* and writes; and that the configurations a command accepts fit the       *)
(* packages they go to, for any numbers and any number of attempts.        *)
(*                                                                         *)
(* That the identity saved is a current one follows from what the command  *)
(* has in hand on the way: of the storage it is copying, fields the        *)
(* storage had since the command began; of the ones it has read, the       *)
(* settings' fields and then, where Local Storage had one, its own.        *)
(***************************************************************************)
EXTENDS MCImporter, WellFoundedInduction, TLAPS

Names == {"settings", "local"}

ImporterTypeOK ==
  /\ pc \in {"ended", "configuring", "reading", "looking", "copying", "saving"}
  /\ status \in {None, 0, 1, 2}
  /\ storage \in 1 .. 3
  /\ rest \subseteq Stored
  /\ pc = "copying" => storage \in 1 .. 2 /\ copy \in [Stored -> Value]
  /\ values \in IF pc = "saving" THEN [Fields -> Value] ELSE [Stored -> Value]
  /\ row \in {None} \cup [Fields -> Value]
  /\ present \subseteq Names
  /\ profile \in [Names -> [Stored -> Value]]
  /\ seen \in [Names -> [Stored -> SUBSET Value]]
  /\ writes \in 0 .. MaxWrites
  /\ commands \in 0 .. MaxCommands
  /\ kills \in Nat /\ stuck \in Nat /\ left \in Nat

\* What is about to be saved has been checked, and a command that runs has no status.
CheckedOK ==
  /\ pc = "saving" => Valid(values)
  /\ pc # "ended" => status = None

\* A storage had what it has, and one without a directory has nothing.
ProfileOK ==
  /\ \A s \in Names, f \in Stored : profile[s][f] \in seen[s][f]
  /\ \A s \in Names \ present : profile[s] = NoValues

CopyOK ==
  pc = "copying" => \A f \in Stored \ rest : copy[f] \in seen[Storages[storage]][f]

\* A value that the two storages, merged, had.
Had(f, v) ==
  \/ v # None /\ v \in seen["local"][f]
  \/ None \in seen["local"][f] /\ v \in seen["settings"][f]

ReadOK ==
  /\ pc \in {"ended", "configuring", "reading"} => storage = 1
  /\ pc # "saving" /\ storage = 1 => values = NoValues
  /\ storage = 2 => pc # "saving" /\ \A f \in Stored : values[f] \in seen["settings"][f]
  /\ storage = 3 => \A f \in Stored : Had(f, values[f])

ImporterInv ==
  /\ ImporterTypeOK /\ RowIsUsable /\ CheckedOK
  /\ ProfileOK /\ CopyOK /\ ReadOK /\ CopiesAreRemoved

-----------------------------------------------------------------------------
(* Steps *)

\* The storages in the order of Storages.
LEMMA StoragesInOrder ==
  /\ ToSet(Storages) = Names /\ Len(Storages) = 2
  /\ Storages[1] = "settings" /\ Storages[2] = "local"
BY DEF ToSet, Storages, Names

\* Nothing read is a value like any other.
LEMMA NothingIsRead ==
  /\ NoValues \in [Stored -> Value] /\ None \in Value /\ Blank \in Value /\ Odd \in Value
  /\ 0 \in Value
  /\ \A f \in Stored : NoValues[f] = None
BY ImporterAssumption DEF NoValues, Value

\* No command has run, and the profile is all there has been.
LEMMA InitImporter == Init => ImporterInv
<1> SUFFICES ASSUME Init PROVE ImporterInv
  OBVIOUS
<1>1. [f \in Stored |-> 0] \in [Stored -> Value]
  BY NothingIsRead
<1>2. profile \in [Names -> [Stored -> Value]]
  BY <1>1, NothingIsRead, StoragesInOrder DEF Init
<1>3. /\ seen \in [Names -> [Stored -> SUBSET Value]]
      /\ \A s \in Names, f \in Stored : seen[s][f] = {profile[s][f]}
  BY <1>2, StoragesInOrder DEF Init, Current
<1>4. ImporterTypeOK
  BY <1>2, <1>3, NothingIsRead, StoragesInOrder, ImporterAssumption DEF Init, ImporterTypeOK
<1>5. RowIsUsable /\ CheckedOK /\ CopyOK /\ ReadOK /\ CopiesAreRemoved
  BY ImporterAssumption
  DEF Init, RowIsUsable, CheckedOK, CopyOK, ReadOK, CopiesAreRemoved
<1>6. ProfileOK
  BY <1>3, StoragesInOrder DEF Init, ProfileOK
<1>7. QED
  BY <1>4, <1>5, <1>6 DEF ImporterInv

\* A command ends, by itself or by a kill, or ends at once.
LEMMA CommandEnds ==
  ASSUME ImporterInv, Forget, pc' = "ended", UNCHANGED chrome,
         status' \in {None, 0, 1, 2},
         row' = row \/ (pc = "saving" /\ row' = values),
         status' = 0 => pc = "saving" /\ row' = values,
         seen' \in {seen, Current}, commands' \in 0 .. MaxCommands,
         kills' \in Nat, stuck' \in Nat, left' \in Nat, left' <= kills' + stuck'
  PROVE  ImporterInv'
<1>1. seen' \in [Names -> [Stored -> SUBSET Value]]
      /\ \A s \in Names, f \in Stored : profile[s][f] \in seen'[s][f]
  <2>1. CASE seen' = seen
    BY <2>1 DEF ImporterInv, ImporterTypeOK, ProfileOK
  <2>2. CASE seen' = Current
    BY <2>2, StoragesInOrder DEF ImporterInv, ImporterTypeOK, Current
  <2>3. QED
    BY <2>1, <2>2
<1>2. ImporterTypeOK'
  BY <1>1, NothingIsRead DEF ImporterInv, ImporterTypeOK, Forget, chrome
<1>3. ProfileOK'
  BY <1>1 DEF ImporterInv, ProfileOK, chrome
<1>4. RowIsUsable'
  <2>1. pc = "saving" => Valid(values) /\ values \in [Fields -> Value] /\ values # None
    BY NoRowAssumption DEF ImporterInv, ImporterTypeOK, CheckedOK
  <2>2. QED
    BY <2>1 DEF ImporterInv, RowIsUsable
<1>5. CheckedOK' /\ CopyOK' /\ ReadOK'
  BY DEF CheckedOK, CopyOK, ReadOK, Forget
<1>6. CopiesAreRemoved'
  BY DEF CopiesAreRemoved
<1>7. QED
  BY <1>2, <1>3, <1>4, <1>5, <1>6 DEF ImporterInv

\* A removal leaves nothing behind or counts what it could not remove.
LEMMA Removals ==
  ASSUME ImporterInv, RemoveAll, kills' = kills
  PROVE  stuck' \in Nat /\ left' \in Nat /\ left' <= kills' + stuck'
<1>1. kills \in Nat /\ stuck \in Nat /\ left \in Nat /\ left <= kills + stuck
  BY DEF ImporterInv, ImporterTypeOK, CopiesAreRemoved
<1>2. CASE UNCHANGED leftovers
  BY <1>1, <1>2 DEF leftovers
<1>3. CASE stuck' = stuck + 1 /\ left' = left + 1
  BY <1>1, <1>3
<1>4. QED
  BY <1>2, <1>3 DEF RemoveAll

\* Exit, which every action but a kill ends with.
LEMMA Exits ==
  ASSUME ImporterInv, NEW code \in {0, 1, 2}, Exit(code), UNCHANGED <<chrome, history>>,
         row' = row \/ (pc = "saving" /\ row' = values),
         code = 0 => pc = "saving" /\ row' = values
  PROVE  ImporterInv'
<1>1. /\ status' = code /\ kills' = kills /\ seen' = seen
      /\ commands' = commands /\ pc' = "ended" /\ Forget
  BY DEF Exit, history
<1>2. /\ stuck' \in Nat /\ left' \in Nat /\ left' <= kills' + stuck'
  BY <1>1, Removals DEF Exit
<1>3. kills \in Nat /\ commands \in 0 .. MaxCommands
  BY DEF ImporterInv, ImporterTypeOK
<1>4. QED
  BY <1>1, <1>2, <1>3, CommandEnds

\* Whatever was read is checked before it is saved.
LEMMA ImportedChecks ==
  ASSUME ImporterInv, NEW v \in [Fields -> Value], Imported(v),
         pc # "ended", storage # 2,
         storage = 3 => \A f \in Stored : v[f] = values[f],
         UNCHANGED <<row, chrome, history>>
  PROVE  ImporterInv'
<1>1. CASE ~Valid(WithDefaults(v)) /\ Exit(1)
  BY <1>1, Exits
<1>2. CASE /\ Valid(WithDefaults(v)) /\ Goto("saving") /\ values' = WithDefaults(v)
           /\ UNCHANGED <<storage, rest, copy>>
  <2>1. /\ WithDefaults(v) \in [Fields -> Value]
        /\ \A f \in Stored : WithDefaults(v)[f] = v[f]
    BY NothingIsRead DEF WithDefaults, Stored, Fields
  <2>2. /\ pc' = "saving" /\ UNCHANGED <<status, stuck, left, storage, rest, copy, row,
                                         profile, present, writes, commands, seen, kills>>
    BY <1>2 DEF Goto, chrome, history, leftovers
  <2>3. ImporterTypeOK'
    BY <1>2, <2>1, <2>2 DEF ImporterInv, ImporterTypeOK
  <2>4. ReadOK'
    BY <1>2, <2>1, <2>2 DEF ImporterInv, ImporterTypeOK, ReadOK, Had
  <2>5. CheckedOK'
    BY <1>2, <2>2 DEF ImporterInv, CheckedOK
  <2>6. RowIsUsable' /\ ProfileOK' /\ CopyOK' /\ CopiesAreRemoved'
    BY <2>2 DEF ImporterInv, RowIsUsable, ProfileOK, CopyOK, CopiesAreRemoved
  <2>7. QED
    BY <2>3, <2>4, <2>5, <2>6 DEF ImporterInv
<1>3. QED
  BY <1>1, <1>2 DEF Imported

\* Phases that go on, with something copied or read.
LEMMA CommandGoesOn ==
  ASSUME ImporterInv,
         pc # "ended", pc' \in {"configuring", "reading", "looking", "copying"},
         storage' \in 1 .. 3, rest' \subseteq Stored,
         pc' = "copying" => storage' \in 1 .. 2 /\ copy' \in [Stored -> Value],
         values' \in [Stored -> Value],
         CopyOK', ReadOK', RemoveAll, UNCHANGED <<status, row, chrome, history>>
  PROVE  ImporterInv'
<1>1. UNCHANGED <<status, row, profile, present, writes, commands, seen, kills>>
  BY DEF chrome, history
<1>2. stuck' \in Nat /\ left' \in Nat /\ left' <= kills' + stuck'
  BY <1>1, Removals
<1>3. ImporterTypeOK'
  BY <1>1, <1>2 DEF ImporterInv, ImporterTypeOK
<1>4. RowIsUsable' /\ CheckedOK' /\ ProfileOK' /\ CopiesAreRemoved'
  BY <1>1, <1>2 DEF ImporterInv, RowIsUsable, CheckedOK, ProfileOK, CopiesAreRemoved
<1>5. QED
  BY <1>3, <1>4 DEF ImporterInv

\* The arguments are wrong, or the configuration is next; and from there.
LEMMA StartChecks == ImporterInv /\ (Start \/ LoadConfig) => ImporterInv'
<1> SUFFICES ASSUME ImporterInv, Start \/ LoadConfig PROVE ImporterInv'
  OBVIOUS
<1>1. CASE Start
  <2>1. /\ commands' \in 0 .. MaxCommands /\ seen' = Current /\ kills' = kills
        /\ row' = row /\ UNCHANGED chrome /\ pc = "ended"
        /\ kills \in Nat
    BY <1>1, ImporterAssumption DEF Start, ImporterInv, ImporterTypeOK
  <2>2. CASE Exit(2)
    BY <2>1, <2>2, Removals, CommandEnds DEF Exit
  <2>3. CASE /\ pc' = "configuring" /\ status' = None
             /\ UNCHANGED <<storage, rest, copy, values, leftovers>>
    <3>1. /\ seen' \in [Names -> [Stored -> SUBSET Value]]
          /\ \A s \in Names, f \in Stored : profile[s][f] \in seen'[s][f]
      BY <2>1, StoragesInOrder DEF ImporterInv, ImporterTypeOK, Current
    <3>2. ImporterTypeOK'
      BY <2>1, <2>3, <3>1 DEF ImporterInv, ImporterTypeOK, chrome, leftovers
    <3>3. ProfileOK'
      BY <2>1, <3>1 DEF ImporterInv, ProfileOK, chrome
    <3>4. ReadOK'
      BY <2>1, <2>3 DEF ImporterInv, ReadOK
    <3>5. CheckedOK' /\ CopyOK' /\ CopiesAreRemoved'
      BY <2>1, <2>3 DEF ImporterInv, CheckedOK, CopyOK, CopiesAreRemoved, leftovers
    <3>6. RowIsUsable'
      <4>1. status' # 0
        BY <2>3, ImporterAssumption
      <4>2. QED
        BY <2>1, <4>1 DEF ImporterInv, RowIsUsable
    <3>7. QED
      BY <3>2, <3>3, <3>4, <3>5, <3>6 DEF ImporterInv
  <2>4. QED
    BY <1>1, <2>2, <2>3 DEF Start
<1>2. CASE LoadConfig
  <2>1. CASE Exit(1)
    BY <1>2, <2>1, Exits DEF LoadConfig
  <2>2. CASE \E next \in {"reading", "looking"} :
               Goto(next) /\ UNCHANGED <<storage, rest, copy, values>>
    <3>1. /\ pc = "configuring" /\ pc' \in {"reading", "looking"}
          /\ UNCHANGED <<status, storage, rest, copy, values, row, chrome, history>>
          /\ RemoveAll
      BY <1>2, <2>2 DEF LoadConfig, Goto, RemoveAll
    <3>2. CopyOK' /\ ReadOK'
      BY <3>1 DEF ImporterInv, CopyOK, ReadOK
    <3>3. storage \in 1 .. 3 /\ rest \subseteq Stored /\ values \in [Stored -> Value]
      BY <3>1 DEF ImporterInv, ImporterTypeOK
    <3>4. QED
      BY <3>1, <3>2, <3>3, CommandGoesOn
  <2>3. QED
    BY <1>2, <2>1, <2>2 DEF LoadConfig
<1>3. QED
  BY <1>1, <1>2

\* A file is checked like a profile.
LEMMA FileImports == ImporterInv /\ ImportJSON => ImporterInv'
<1> SUFFICES ASSUME ImporterInv, ImportJSON PROVE ImporterInv'
  OBVIOUS
<1>1. pc = "reading" /\ storage = 1 /\ UNCHANGED <<row, chrome, history>>
  BY DEF ImportJSON, ImporterInv, ReadOK
<1>2. ASSUME NEW v \in [Fields -> {None, Blank, 0}], Imported(v)
      PROVE  ImporterInv'
  BY <1>1, <1>2, NothingIsRead, ImportedChecks
<1>3. CASE Exit(1)
  BY <1>1, <1>3, Exits
<1>4. QED
  BY <1>2, <1>3 DEF ImportJSON

\* The command looks for the next storage.
LEMMA StorageLooked == ImporterInv /\ NextStorage => ImporterInv'
<1> SUFFICES ASSUME ImporterInv, NextStorage PROVE ImporterInv'
  OBVIOUS
<1>1. /\ pc = "looking" /\ storage \in 1 .. 2 /\ UNCHANGED <<row, chrome, history>>
      /\ rest \subseteq Stored /\ values \in [Stored -> Value]
  BY StoragesInOrder DEF NextStorage, ImporterInv, ImporterTypeOK
<1>2. CASE /\ Storages[storage] \in present /\ Goto("copying")
           /\ rest' = Stored /\ copy' = NoValues /\ UNCHANGED <<storage, values>>
  <2>1. pc' = "copying" /\ seen' = seen /\ RemoveAll /\ UNCHANGED status
    BY <1>1, <1>2 DEF Goto, RemoveAll, history
  <2>2. CopyOK' /\ ReadOK'
    BY <1>1, <1>2, <2>1 DEF ImporterInv, CopyOK, ReadOK, Had
  <2>3. QED
    BY <1>1, <1>2, <2>1, <2>2, NothingIsRead, CommandGoesOn
<1>3. CASE /\ Storages[storage] \notin present /\ Goto("looking") /\ storage' = storage + 1
           /\ UNCHANGED <<rest, copy, values>>
  <2>1. pc' = "looking" /\ seen' = seen /\ RemoveAll /\ UNCHANGED status
    BY <1>1, <1>3 DEF Goto, RemoveAll, history
  <2>2. \A f \in Stored : None \in seen[Storages[storage]][f]
    BY <1>1, <1>3, StoragesInOrder, NothingIsRead DEF ImporterInv, ProfileOK, Names
  <2>3. ReadOK'
    BY <1>1, <1>3, <2>1, <2>2, StoragesInOrder, NothingIsRead DEF ImporterInv, ReadOK, Had
  <2>4. QED
    BY <1>1, <1>3, <2>1, <2>3, CommandGoesOn DEF CopyOK
<1>4. CASE Exit(1)
  BY <1>1, <1>4, Exits
<1>5. QED
  BY <1>2, <1>3, <1>4 DEF NextStorage

\* A field of the copy is one the storage has.
LEMMA FieldCopied == ImporterInv /\ CopyField => ImporterInv'
<1> SUFFICES ASSUME ImporterInv, CopyField PROVE ImporterInv'
  OBVIOUS
<1> DEFINE s == Storages[storage]
<1>1. PICK f \in rest : /\ copy' = [copy EXCEPT ![f] = profile[s][f]]
                        /\ rest' = rest \ {f}
  BY DEF CopyField
<1>2. /\ pc = "copying" /\ storage \in 1 .. 2 /\ copy \in [Stored -> Value]
      /\ rest \subseteq Stored /\ values \in [Stored -> Value]
      /\ UNCHANGED <<pc, status, storage, values, row, chrome, history>>
      /\ seen' = seen /\ RemoveAll
  BY DEF CopyField, ImporterInv, ImporterTypeOK, RemoveAll, history
<1>3. s \in Names
  BY <1>2, StoragesInOrder DEF Names
<1> HIDE DEF s
<1>4. profile[s][f] \in seen[s][f] /\ profile[s][f] \in Value
  BY <1>2, <1>3 DEF ImporterInv, ImporterTypeOK, ProfileOK
<1>5. \A g \in Stored \ rest : copy[g] \in seen[s][g]
  BY <1>2 DEF ImporterInv, CopyOK, s
<1>6. \A g \in Stored \ rest' : copy'[g] \in seen[s][g]
  BY <1>1, <1>2, <1>4, <1>5
<1>7. CopyOK'
  BY <1>2, <1>6 DEF CopyOK, s
<1>8. ReadOK'
  BY <1>2 DEF ImporterInv, ReadOK, Had
<1>9. copy' \in [Stored -> Value] /\ rest' \subseteq Stored
  BY <1>1, <1>2, <1>4
<1>10. QED
  BY <1>2, <1>7, <1>8, <1>9, CommandGoesOn

\* What the copy of a storage has goes over what the ones before had.
LEMMA CopyRead == ImporterInv /\ ReadCopy => ImporterInv'
<1> SUFFICES ASSUME ImporterInv, ReadCopy PROVE ImporterInv'
  OBVIOUS
<1>1. /\ pc = "copying" /\ pc' = "looking" /\ storage \in 1 .. 2 /\ storage' = storage + 1
      /\ copy \in [Stored -> Value] /\ rest = {} /\ rest' = rest
      /\ values \in [Stored -> Value]
      /\ seen' = seen /\ RemoveAll /\ UNCHANGED <<status, row, chrome, history>>
  BY DEF ReadCopy, ImporterInv, ImporterTypeOK, history
<1>2. /\ values' \in [Stored -> Value]
      /\ \A f \in Stored : values'[f] = IF copy[f] # None THEN copy[f] ELSE values[f]
  BY <1>1 DEF ReadCopy, Merge
<1>3. \A f \in Stored : copy[f] \in seen[Storages[storage]][f]
  BY <1>1 DEF ImporterInv, CopyOK
<1>4. ReadOK'
  <2>1. CASE storage = 1
    <3>1. \A f \in Stored : values'[f] \in seen["settings"][f]
      BY <1>1, <1>2, <1>3, <2>1, StoragesInOrder, NothingIsRead DEF ImporterInv, ReadOK
    <3>2. QED
      BY <1>1, <2>1, <3>1 DEF ReadOK
  <2>2. CASE storage = 2
    <3>1. \A f \in Stored : values[f] \in seen["settings"][f]
      BY <2>2 DEF ImporterInv, ReadOK
    <3>2. \A f \in Stored : Had(f, values'[f])
      BY <1>2, <1>3, <2>2, <3>1, StoragesInOrder DEF Had
    <3>3. QED
      BY <1>1, <2>2, <3>2 DEF ReadOK, Had
  <2>3. QED
    BY <1>1, <2>1, <2>2
<1>5. CopyOK'
  BY <1>1 DEF CopyOK
<1>6. QED
  BY <1>1, <1>2, <1>4, <1>5, CommandGoesOn

\* The profile's identity, once both storages have been read.
LEMMA ProfileImports == ImporterInv /\ ImportChrome => ImporterInv'
<1> SUFFICES ASSUME ImporterInv, ImportChrome PROVE ImporterInv'
  OBVIOUS
<1> DEFINE v == [f \in Fields |-> IF f = "platform" THEN None ELSE values[f]]
<1>1. /\ pc = "looking" /\ storage = 3 /\ values \in [Stored -> Value]
      /\ Imported(v) /\ UNCHANGED <<row, chrome, history>>
  BY StoragesInOrder DEF ImportChrome, ImporterInv, ImporterTypeOK
<1>2. v \in [Fields -> Value] /\ \A f \in Stored : v[f] = values[f]
  BY <1>1, NothingIsRead DEF Stored
<1> HIDE DEF v
<1>3. QED
  BY <1>1, <1>2, ImportedChecks

\* The identity reaches the table, or not, and the command ends.
LEMMA CommandFinishes == ImporterInv /\ (SaveIdentity \/ CopyFails \/ Kill) => ImporterInv'
<1> SUFFICES ASSUME ImporterInv, SaveIdentity \/ CopyFails \/ Kill PROVE ImporterInv'
  OBVIOUS
<1>1. CASE SaveIdentity
  BY <1>1, Exits DEF SaveIdentity
<1>2. CASE CopyFails
  BY <1>2, Exits DEF CopyFails
<1>3. CASE Kill
  <2>1. /\ kills \in Nat /\ stuck \in Nat /\ left \in Nat /\ left <= kills + stuck
        /\ commands \in 0 .. MaxCommands
    BY DEF ImporterInv, ImporterTypeOK, CopiesAreRemoved
  <2>2. kills' \in Nat /\ stuck' \in Nat /\ left' \in Nat /\ left' <= kills' + stuck'
    BY <1>3, <2>1 DEF Kill
  <2>3. /\ Forget /\ pc' = "ended" /\ UNCHANGED chrome /\ status' = None /\ row' = row
        /\ seen' = seen /\ commands' = commands /\ status' # 0
    BY <1>3, ImporterAssumption DEF Kill
  <2>4. QED
    BY <2>1, <2>2, <2>3, CommandEnds
<1>4. QED
  BY <1>1, <1>2, <1>3

\* Chrome changes what the storages have, never what they had.
LEMMA ChromeKeeps == ImporterInv /\ ChromeWrites => ImporterInv'
<1> SUFFICES ASSUME ImporterInv, ChromeWrites PROVE ImporterInv'
  OBVIOUS
<1>1. PICK s \in present, f \in Stored, v \in {None, Odd, Blank, writes + 1} :
        /\ profile' = [profile EXCEPT ![s][f] = v]
        /\ seen' = [seen EXCEPT ![s][f] = @ \cup {v}]
  BY DEF ChromeWrites
<1>2. /\ writes' \in 0 .. MaxWrites /\ v \in Value /\ s \in Names
      /\ UNCHANGED <<pc, status, storage, rest, copy, values, row, present, commands, kills,
                     stuck, left>>
  BY ImporterAssumption DEF ChromeWrites, ImporterInv, ImporterTypeOK, Value, leftovers
<1>3. /\ profile \in [Names -> [Stored -> Value]]
      /\ seen \in [Names -> [Stored -> SUBSET Value]]
      /\ present \subseteq Names
  BY DEF ImporterInv, ImporterTypeOK
<1>4. /\ profile' \in [Names -> [Stored -> Value]]
      /\ seen' \in [Names -> [Stored -> SUBSET Value]]
  BY <1>1, <1>2, <1>3
<1>5. \A t \in Names, g \in Stored : /\ seen[t][g] \subseteq seen'[t][g]
                                     /\ profile'[t][g] \in {profile[t][g], v}
                                     /\ profile'[t][g] \in seen[t][g] \cup {v}
                                     /\ profile'[t][g] \in seen'[t][g]
  BY <1>1, <1>2, <1>3 DEF ImporterInv, ProfileOK
<1>6. ProfileOK'
  <2>1. \A t \in Names \ present : profile'[t] = NoValues
    BY <1>1, <1>3 DEF ImporterInv, ProfileOK
  <2>2. QED
    BY <1>2, <1>5, <2>1 DEF ProfileOK
<1>7. ImporterTypeOK'
  BY <1>2, <1>4 DEF ImporterInv, ImporterTypeOK
<1>8. CopyOK'
  <2>1. pc = "copying" => Storages[storage] \in Names
    BY StoragesInOrder DEF ImporterInv, ImporterTypeOK, Names
  <2>2. QED
    BY <1>2, <1>5, <2>1 DEF ImporterInv, CopyOK
<1>9. ReadOK'
  <2>1. \A g \in Stored : \A u : Had(g, u) => Had(g, u)'
    BY <1>5 DEF Had, Names
  <2>2. QED
    BY <1>2, <1>5, <2>1 DEF ImporterInv, ReadOK, Names
<1>10. RowIsUsable' /\ CheckedOK' /\ CopiesAreRemoved'
  BY <1>2 DEF ImporterInv, RowIsUsable, CheckedOK, CopiesAreRemoved
<1>11. QED
  BY <1>6, <1>7, <1>8, <1>9, <1>10 DEF ImporterInv

\* Every step keeps the invariant.
LEMMA NextImporter == ImporterInv /\ [Next]_vars => ImporterInv'
<1> SUFFICES ASSUME ImporterInv, [Next]_vars PROVE ImporterInv'
  OBVIOUS
<1>1. CASE UNCHANGED vars
  BY <1>1
  DEF vars, ImporterInv, ImporterTypeOK, RowIsUsable, CheckedOK, ProfileOK, CopyOK, ReadOK,
      Had, CopiesAreRemoved
<1>2. CASE Next
  BY <1>2, StartChecks, FileImports, StorageLooked, FieldCopied, CopyRead, ProfileImports,
     CommandFinishes, ChromeKeeps
  DEF Next
<1>3. QED
  BY <1>1, <1>2

\* The invariant in every reachable state.
LEMMA ImporterInvariant == Spec => []ImporterInv
BY InitImporter, NextImporter, PTL DEF Spec

-----------------------------------------------------------------------------
(* Theorems *)

\* The table is empty or has an identity that has been checked, and is not empty after
\* success.
THEOREM RowsAreUsable == Spec => []RowIsUsable
BY ImporterInvariant, PTL DEF ImporterInv

\* What is saved is Local Storage's, or where that has none the settings', as it was at
\* some time since the command began.
THEOREM ImportsAreCurrent == Spec => []ImportedIsCurrent
<1>1. ImporterInv => ImportedIsCurrent
  BY StoragesInOrder DEF ImporterInv, ImporterTypeOK, ReadOK, Had, ImportedIsCurrent
<1>2. QED
  BY <1>1, ImporterInvariant, PTL

\* A command that is not killed leaves a copy behind only if it cannot be removed.
THEOREM LeftCopiesAreCounted == Spec => []CopiesAreRemoved
BY ImporterInvariant, PTL DEF ImporterInv

-----------------------------------------------------------------------------
(* Induction, for what the operators of Backoff compute *)

\* Every set of naturals with something in it has a least element.
LEMMA LeastElement ==
  ASSUME NEW T \in SUBSET Nat, T # {}
  PROVE  \E n \in T : \A m \in T : n <= m
<1> DEFINE Less == {p \in Nat \X Nat : p[1] < p[2]}
<1>1. IsWellFoundedOn(Less, Nat)
  BY NatLessThanWellFounded DEF OpToRel
<1>2. \A n, m \in Nat : m < n => <<m, n>> \in Less
  OBVIOUS
<1> HIDE DEF Less
<1>3. PICK n \in T : \A m \in T : <<m, n>> \notin Less
  BY <1>1, WFMin
<1>4. \A m \in T : ~(m < n)
  BY <1>2, <1>3
<1>5. QED
  BY <1>4

\* Induction, with a set in the place of a predicate.
LEMMA Induction ==
  ASSUME NEW T, 0 \in T, \A n \in Nat : n \in T => n + 1 \in T
  PROVE  \A n \in Nat : n \in T
<1>1. SUFFICES ASSUME Nat \ T # {} PROVE FALSE
  OBVIOUS
<1>2. PICK n \in Nat \ T : \A m \in Nat \ T : n <= m
  BY <1>1, LeastElement
<1>3. n # 0 /\ n - 1 \in Nat /\ n - 1 \in T
  BY <1>2
<1>4. QED
  BY <1>2, <1>3

\* The same over the places of a finite sequence.
LEMMA IntervalInduction ==
  ASSUME NEW n \in Nat, NEW T, n >= 1 => 1 \in T, \A i \in 1 .. n - 1 : i \in T => i + 1 \in T
  PROVE  \A i \in 1 .. n : i \in T
<1> DEFINE U == {i \in Nat : i + 1 \in 1 .. n => i + 1 \in T}
<1>1. 0 \in U
  OBVIOUS
<1>2. \A i \in Nat : i \in U => i + 1 \in U
  OBVIOUS
<1> HIDE DEF U
<1>3. \A i \in Nat : i \in U
  BY <1>1, <1>2, Induction
<1>4. QED
  BY <1>3 DEF U

\* f is defined by recursion over these places.
Recurs(f, n, first, step) ==
  \A i \in 1 .. n : f[i] = IF i = 1 THEN first ELSE step[f[i - 1]]

\* Recursion over the places of a sequence has a solution.
LEMMA RecursionExists ==
  ASSUME NEW V, NEW first \in V, NEW step \in [V -> V]
  PROVE  \A n \in Nat : \E f \in [1 .. n -> V] : Recurs(f, n, first, step)
<1> DEFINE Solves(f, n) == Recurs(f, n, first, step)
           T == {n \in Nat : \E f \in [1 .. n -> V] : Solves(f, n)}
<1>1. 0 \in T
  <2>1. [i \in 1 .. 0 |-> first] \in [1 .. 0 -> V]
    OBVIOUS
  <2>2. Solves([i \in 1 .. 0 |-> first], 0)
    BY DEF Recurs
  <2>3. QED
    BY <2>1, <2>2
<1>2. ASSUME NEW n \in Nat, n \in T PROVE n + 1 \in T
  <2>1. PICK f \in [1 .. n -> V] : Solves(f, n)
    BY <1>2
  <2> DEFINE last == IF n = 0 THEN first ELSE step[f[n]]
             g == [i \in 1 .. n + 1 |-> IF i = n + 1 THEN last ELSE f[i]]
  <2>2. last \in V
    OBVIOUS
  <2>3. g \in [1 .. n + 1 -> V]
    BY <2>2
  <2>4. Solves(g, n + 1)
    BY <2>1 DEF Recurs
  <2> HIDE DEF g, Solves
  <2>5. QED
    BY <2>3, <2>4
<1> HIDE DEF T
<1>3. \A n \in Nat : n \in T
  BY <1>1, <1>2, Induction
<1>4. QED
  BY <1>3 DEF T

\* The powers of two.
Doubles(p, n) == \A i \in 1 .. n : p[i] = IF i = 1 THEN 1 ELSE 2 * p[i - 1]

\* The bounded exponential is made of them.
LEMMA PowerRounds ==
  ASSUME NEW n \in Nat \ {0}, NEW initial \in Nat, NEW max \in Nat
  PROVE  \E p \in [1 .. n -> Nat] :
           Doubles(p, n) /\ B!Exponential(initial, max, n) = B!Lesser(initial * p[n], max)
<1> DEFINE Rounds(f) == f = [i \in 1 .. n |-> IF i = 1 THEN 1 ELSE 2 * f[i - 1]]
           double == [x \in Nat |-> 2 * x]
           p == CHOOSE f : Rounds(f)
           T == {i \in 1 .. n : p[i] \in Nat}
<1>1. \E f : Rounds(f)
  <2>1. double \in [Nat -> Nat] /\ 1 \in Nat
    OBVIOUS
  <2>2. \A x \in Nat : double[x] = 2 * x
    OBVIOUS
  <2> HIDE DEF double
  <2>3. PICK f \in [1 .. n -> Nat] : Recurs(f, n, 1, double)
    BY <2>1, RecursionExists
  <2>4. ASSUME NEW i \in 1 .. n PROVE f[i] = IF i = 1 THEN 1 ELSE 2 * f[i - 1]
    <3>1. i # 1 => f[i - 1] \in Nat
      OBVIOUS
    <3>2. QED
      BY <2>2, <2>3, <3>1 DEF Recurs
  <2>5. Rounds(f)
    BY <2>4
  <2>6. QED
    BY <2>5
<1>2. Rounds(p)
  BY <1>1, Zenon
<1>3. B!Exponential(initial, max, n) = B!Lesser(initial * p[n], max)
  BY DEF B!Exponential
<1> HIDE DEF p
<1>4. \A i \in 1 .. n : i \in T
  <2>1. 1 \in T /\ \A i \in 1 .. n - 1 : i \in T => i + 1 \in T
    BY <1>2
  <2> HIDE DEF T
  <2>2. QED
    BY <2>1, IntervalInduction
<1>5. p \in [1 .. n -> Nat] /\ Doubles(p, n)
  BY <1>2, <1>4 DEF Doubles
<1>6. QED
  BY <1>3, <1>5

\* What a loop that doubles up to a maximum computes.
Rises(f, n, initial, max) ==
  /\ f[1] = B!Lesser(initial, max)
  /\ \A i \in 2 .. n : f[i] = B!Lesser(2 * f[i - 1], max)

\* The bounded exponential is the last term of such a loop.
LEMMA ExponentialRises ==
  ASSUME NEW n \in Nat \ {0}, NEW initial \in Nat, NEW max \in Nat
  PROVE  \E f \in [1 .. n -> Nat] :
           Rises(f, n, initial, max) /\ B!Exponential(initial, max, n) = f[n]
<1>1. PICK p \in [1 .. n -> Nat] :
        Doubles(p, n) /\ B!Exponential(initial, max, n) = B!Lesser(initial * p[n], max)
  BY PowerRounds
<1> DEFINE f == [i \in 1 .. n |-> B!Lesser(initial * p[i], max)]
<1>2. \A a, b \in Nat : a * (2 * b) = 2 * (a * b) /\ a * b \in Nat /\ a * 1 = a
  OBVIOUS
<1>3. \A i \in 1 .. n : initial * p[i] \in Nat
  BY <1>2
<1>4. f \in [1 .. n -> Nat]
  BY <1>3 DEF B!Lesser
<1>5. ASSUME NEW i \in 2 .. n
      PROVE  f[i] = B!Lesser(2 * f[i - 1], max)
  <2>1. /\ i - 1 \in 1 .. n /\ i \in 1 .. n /\ p[i - 1] \in Nat /\ i # 1
        /\ p[i] = 2 * p[i - 1]
    BY <1>1 DEF Doubles
  <2>2. initial * p[i] = 2 * (initial * p[i - 1])
    BY <1>2, <2>1
  <2>3. \A a \in Nat : B!Lesser(2 * a, max) = B!Lesser(2 * B!Lesser(a, max), max)
    BY DEF B!Lesser
  <2>4. QED
    BY <1>3, <2>1, <2>2, <2>3
<1>6. f[1] = B!Lesser(initial, max)
  BY <1>1, <1>2 DEF Doubles
<1>7. f[n] = B!Lesser(initial * p[n], max)
  OBVIOUS
<1> HIDE DEF f
<1>8. Rises(f, n, initial, max)
  BY <1>5, <1>6 DEF Rises
<1>9. QED
  BY <1>1, <1>4, <1>7, <1>8

\* Service.nextAttempt computes the bounded exponential.
LEMMA NextAttemptIsExponential ==
  ASSUME NEW n \in Nat \ {0}, NEW initial \in Nat, NEW max \in Nat
  PROVE  B!NextAttempt(initial, max, n) = B!Exponential(initial, max, n)
<1>1. PICK f \in [1 .. n -> Nat] :
        Rises(f, n, initial, max) /\ B!Exponential(initial, max, n) = f[n]
  BY ExponentialRises
<1> DEFINE Rounds(g) == g = [i \in 1 .. n |-> IF i = 1 THEN B!Lesser(initial, max)
                                             ELSE B!Lesser(2 * g[i - 1], max)]
           backoff == CHOOSE g : Rounds(g)
           T == {i \in 1 .. n : backoff[i] = f[i]}
<1>2. ASSUME NEW i \in 1 .. n
      PROVE  f[i] = IF i = 1 THEN B!Lesser(initial, max) ELSE B!Lesser(2 * f[i - 1], max)
  BY <1>1 DEF Rises
<1>3. Rounds(f)
  BY <1>2
<1>4. Rounds(backoff)
  BY <1>3, Zenon
<1>5. B!NextAttempt(initial, max, n) = backoff[n]
  BY DEF B!NextAttempt
<1> HIDE DEF backoff
<1>6. 1 \in T
  BY <1>2, <1>4
<1>7. ASSUME NEW i \in 1 .. n - 1, i \in T PROVE i + 1 \in T
  <2>1. i + 1 \in 1 .. n /\ i + 1 # 1 /\ (i + 1) - 1 = i
    OBVIOUS
  <2>2. f[i + 1] = B!Lesser(2 * f[i], max)
    BY <1>2, <2>1
  <2>3. backoff[i + 1] = B!Lesser(2 * backoff[i], max)
    BY <1>4, <2>1
  <2>4. QED
    BY <1>7, <2>1, <2>2, <2>3
<1> HIDE DEF T
<1>8. \A i \in 1 .. n : i \in T
  BY <1>6, <1>7, IntervalInduction
<1>9. QED
  BY <1>1, <1>5, <1>8 DEF T

\* So does app.Backoff, of lengths it need not replace.
LEMMA AppBackoffIsExponential ==
  ASSUME NEW n \in Nat \ {0}, NEW initial \in Nat \ {0}, NEW max \in Nat, initial <= max
  PROVE  B!AppBackoff(initial, max, n) = B!Exponential(initial, max, n)
<1>1. PICK f \in [1 .. n -> Nat] :
        Rises(f, n, initial, max) /\ B!Exponential(initial, max, n) = f[n]
  BY ExponentialRises
<1> DEFINE Step(a) == IF 2 * a >= max THEN max ELSE 2 * a
           Loop(first, bound) ==
             CHOOSE g : g = [i \in 1 .. n |->
                               IF i = 1 THEN first
                               ELSE IF 2 * g[i - 1] >= bound THEN bound ELSE 2 * g[i - 1]]
           Rounds(g) == g = [i \in 1 .. n |-> IF i = 1 THEN initial ELSE Step(g[i - 1])]
           d == CHOOSE g : Rounds(g)
           T == {i \in 1 .. n : d[i] = f[i]}
<1>2. ASSUME NEW i \in 1 .. n
      PROVE  f[i] = IF i = 1 THEN initial ELSE Step(f[i - 1])
  <2>1. CASE i = 1
    BY <1>1, <2>1 DEF Rises, B!Lesser
  <2>2. CASE i # 1
    <3>1. i \in 2 .. n /\ i - 1 \in 1 .. n
      BY <2>2
    <3>2. f[i - 1] \in Nat /\ f[i] = B!Lesser(2 * f[i - 1], max)
      BY <1>1, <3>1 DEF Rises
    <3>3. QED
      BY <2>2, <3>2 DEF B!Lesser
  <2>3. QED
    BY <2>1, <2>2
<1>3. Rounds(f)
  BY <1>2
<1>4. Rounds(d)
  BY <1>3, Zenon
<1>5. B!AppBackoff(initial, max, n) = d[n]
  <2> DEFINE first == IF initial <= 0 THEN 2 ELSE initial
             given == IF max <= 0 THEN 60 ELSE max
             bound == IF given < first THEN first ELSE given
  <2>1. B!AppBackoff(initial, max, n) = Loop(first, bound)[n]
    BY DEF B!AppBackoff
  <2>2. Loop(initial, max) = d
    OBVIOUS
  <2>3. first = initial /\ given = max
    OBVIOUS
  <2>4. bound = max
    BY <2>3
  <2> HIDE DEF Loop, first, bound, d
  <2>5. QED
    BY <2>1, <2>2, <2>3, <2>4
<1> HIDE DEF d
<1>6. 1 \in T
  BY <1>2, <1>4
<1>7. ASSUME NEW i \in 1 .. n - 1, i \in T PROVE i + 1 \in T
  <2>1. i + 1 \in 1 .. n /\ i + 1 # 1 /\ (i + 1) - 1 = i
    OBVIOUS
  <2>2. f[i + 1] = Step(f[i])
    BY <1>2, <2>1
  <2>3. d[i + 1] = Step(d[i])
    BY <1>4, <2>1
  <2>4. QED
    BY <1>7, <2>1, <2>2, <2>3
<1> HIDE DEF T
<1>8. \A i \in 1 .. n : i \in T
  BY <1>6, <1>7, IntervalInduction
<1>9. QED
  BY <1>1, <1>5, <1>8 DEF T

\* A bounded exponential is between its bounds.
LEMMA ExponentialWithin ==
  ASSUME NEW n \in Nat \ {0}, NEW initial \in Nat, NEW max \in Nat, initial <= max
  PROVE  B!Exponential(initial, max, n) \in initial .. max
<1>1. PICK f \in [1 .. n -> Nat] :
        Rises(f, n, initial, max) /\ B!Exponential(initial, max, n) = f[n]
  BY ExponentialRises
<1> DEFINE T == {i \in 1 .. n : f[i] \in initial .. max}
<1>2. 1 \in T
  BY <1>1 DEF Rises, B!Lesser
<1>3. ASSUME NEW i \in 1 .. n - 1, i \in T PROVE i + 1 \in T
  <2>1. i + 1 \in 2 .. n /\ (i + 1) - 1 = i /\ i \in 1 .. n
    OBVIOUS
  <2>2. f[i + 1] = B!Lesser(2 * f[i], max)
    BY <1>1, <2>1 DEF Rises
  <2>3. QED
    BY <1>3, <2>1, <2>2 DEF B!Lesser
<1> HIDE DEF T
<1>4. \A i \in 1 .. n : i \in T
  BY <1>2, <1>3, IntervalInduction
<1>5. QED
  BY <1>1, <1>4 DEF T

-----------------------------------------------------------------------------
(* Configurations *)

Numbers == {"ready_timeout", "timeout", "summary_max", "wecom_max_attempts",
            "enrichment_max_attempts", "initial_backoff", "max_backoff"}

\* What the decoder of the file accepts, and what Validate reads.
Typed(file) ==
  /\ DOMAIN file \subseteq C!Keys
  /\ \A k \in DOMAIN file \cap Numbers : file[k] \in Int

\* Only the webhook is looked for elsewhere.
LEMMA LoadKeeps ==
  ASSUME NEW file, NEW env, NEW k \in C!Keys, k # "webhook_url"
  PROVE  C!Load(file, env)[k] = IF k \in DOMAIN file THEN file[k] ELSE C!Default[k]
BY DEF C!Load

\* The default's numbers.
LEMMA DefaultNumbers ==
  Numbers \subseteq C!Keys /\ \A k \in Numbers : C!Default[k] \in Int
BY DEF C!Keys, C!Default, Numbers

\* A file's numbers are a configuration's numbers.
LEMMA LoadedNumbers ==
  ASSUME NEW file, NEW env, Typed(file)
  PROVE  \A k \in Numbers : C!Load(file, env)[k] \in Int
<1>1. \A k \in Numbers : k # "webhook_url"
  BY DEF Numbers
<1>2. QED
  BY <1>1, LoadKeeps, DefaultNumbers DEF Typed

\* The backoffs' lengths.
LEMMA AcceptedLengths ==
  ASSUME NEW c, \A k \in Numbers : c[k] \in Int, C!Validate(c)
  PROVE  /\ c.initial_backoff \in Nat \ {0} /\ c.max_backoff \in Nat
         /\ c.initial_backoff <= c.max_backoff
<1>1. c["initial_backoff"] >= 1 /\ c["max_backoff"] >= c["initial_backoff"]
  BY DEF C!Validate
<1>2. c["initial_backoff"] \in Int /\ c["max_backoff"] \in Int
  BY DEF Numbers
<1>3. QED
  BY <1>1, <1>2

\* Every configuration that Validate accepts is one the other packages are made for,
\* whatever the file and the environment give and for any number of attempts
\* (config.go:100-179, app.go:64-85, browser.go:112-117, dispatch.go:329-342).
THEOREM EveryAcceptedConfigFits ==
  ASSUME NEW file, NEW env, Typed(file), C!Validate(C!Load(file, env))
  PROVE  Fits(C!Load(file, env), Nat \ {0})
<1> DEFINE c == C!Load(file, env)
<1>1. \A k \in Numbers : c[k] \in Int
  BY LoadedNumbers
<1> HIDE DEF c
<1>2. C!Validate(c)
  BY DEF c
<1>3. /\ c.initial_backoff \in Nat \ {0} /\ c.max_backoff \in Nat
      /\ c.initial_backoff <= c.max_backoff
  BY <1>1, <1>2, AcceptedLengths
<1>4. ASSUME c.enabled
      PROVE  /\ c.timeout # 0 /\ c.screenshot_dir # ""
             /\ S!EffectiveSummaryLimit(c.summary_max) = c.summary_max
  <2>1. C!Given(c.screenshot_dir) /\ c.timeout >= 1 /\ c.summary_max >= 1
    BY <1>2, <1>4, Zenon DEF C!Validate
  <2>2. c.screenshot_dir # ""
    BY <2>1 DEF C!Given
  <2>3. c["timeout"] \in Int /\ c["summary_max"] \in Int
    BY <1>1 DEF Numbers
  <2>4. c["timeout"] # 0
    BY <2>1, <2>3
  <2>5. S!EffectiveSummaryLimit(c["summary_max"]) = c["summary_max"]
    BY <2>1, <2>3 DEF S!EffectiveSummaryLimit
  <2>6. QED
    BY <2>2, <2>4, <2>5
<1>5. ASSUME NEW n \in Nat \ {0}
      PROVE  /\ B!NextAttempt(c.initial_backoff, c.max_backoff, n)
                  = B!Exponential(c.initial_backoff, c.max_backoff, n)
             /\ B!AppBackoff(c.initial_backoff, c.max_backoff, n)
                  = B!Exponential(c.initial_backoff, c.max_backoff, n)
  BY <1>3, NextAttemptIsExponential, AppBackoffIsExponential
<1>6. Fits(c, Nat \ {0})
  BY <1>4, <1>5, Zenon DEF Fits
<1>7. QED
  BY <1>6 DEF c

\* With it both budgets have a first request, and every attempt is followed by a wait
\* between the two lengths that were configured: a row that has failed is not due at
\* once.  This is what Dispatch and Schedule assume of their constants
\* (config.go:149-160, dispatch.go:329-342).
THEOREM AcceptedConfigsMeetAssumptions ==
  ASSUME NEW file, NEW env, Typed(file), C!Validate(C!Load(file, env))
  PROVE  LET c == C!Load(file, env)
         IN  /\ c.wecom_max_attempts \in Nat \ {0}
             /\ c.enrichment_max_attempts \in Nat \ {0}
             /\ \A n \in Nat \ {0} :
                  B!NextAttempt(c.initial_backoff, c.max_backoff, n)
                    \in c.initial_backoff .. c.max_backoff
             /\ c.initial_backoff \in Nat \ {0}
<1> DEFINE c == C!Load(file, env)
<1>1. \A k \in Numbers : c[k] \in Int
  BY LoadedNumbers
<1>2. C!Validate(c)
  OBVIOUS
<1> HIDE DEF c
<1>3. /\ c.initial_backoff \in Nat \ {0} /\ c.max_backoff \in Nat
      /\ c.initial_backoff <= c.max_backoff
  BY <1>1, <1>2, AcceptedLengths
<1>4. ASSUME NEW n \in Nat \ {0}
      PROVE  B!NextAttempt(c.initial_backoff, c.max_backoff, n)
               \in c.initial_backoff .. c.max_backoff
  BY <1>3, NextAttemptIsExponential, ExponentialWithin
<1>5. c.wecom_max_attempts \in Nat \ {0} /\ c.enrichment_max_attempts \in Nat \ {0}
  <2>1. c["wecom_max_attempts"] >= 1 /\ c["enrichment_max_attempts"] >= 1
    BY <1>2 DEF C!Validate
  <2>2. c["wecom_max_attempts"] \in Int /\ c["enrichment_max_attempts"] \in Int
    BY <1>1 DEF Numbers
  <2>3. QED
    BY <2>1, <2>2
<1>6. QED
  BY <1>3, <1>4, <1>5 DEF c

\* The file of the quick start, with the webhook in the environment.
LEMMA QuickStartIsAccepted ==
  C!Validate(C!Load(Only("extension_id", "a-p, 32"), "text"))
<1> DEFINE file == Only("extension_id", "a-p, 32")
           c == C!Load(file, "text")
           kept == C!Keys \ {"webhook_url", "extension_id"}
           paths == {"host", "version", "platform", "sqlite_path", "cdp_url", "chrome_path",
                     "screenshot_dir"}
           counts == Numbers \cup {"mode"}
<1>1. DOMAIN file = {"extension_id"} /\ file["extension_id"] = "a-p, 32"
  BY DEF Only
<1> HIDE DEF file
<1>2. /\ \A k \in kept : c[k] = C!Default[k]
      /\ c["extension_id"] = "a-p, 32"
  <2>1. "extension_id" \in C!Keys
    BY DEF C!Keys, C!Default
  <2>2. QED
    BY <1>1, <2>1, LoadKeeps
<1>3. c["webhook_url"] = "text"
  BY <1>1 DEF C!Load, C!Keys, C!Default
<1>4. paths \subseteq kept /\ counts \subseteq kept
  BY DEF C!Keys, C!Default, Numbers
<1>5. /\ C!Default["host"] = "text" /\ C!Default["version"] = "text"
      /\ C!Default["platform"] = "text" /\ C!Default["sqlite_path"] = "text"
      /\ C!Default["cdp_url"] = "text" /\ C!Default["chrome_path"] = "text"
      /\ C!Default["screenshot_dir"] = "text"
  BY DEF C!Default
<1>6. /\ C!Default["mode"] = "chrome-cdp" /\ C!Default["ready_timeout"] = 60
      /\ C!Default["wecom_max_attempts"] = 5 /\ C!Default["enrichment_max_attempts"] = 3
      /\ C!Default["initial_backoff"] = 2 /\ C!Default["max_backoff"] = 60
      /\ C!Default["timeout"] = 20 /\ C!Default["summary_max"] = 1000
  BY DEF C!Default
<1> HIDE DEF c, kept
<1>7. /\ C!Given(c["host"]) /\ C!Given(c["version"]) /\ C!Given(c["platform"])
      /\ C!Given(c["sqlite_path"]) /\ C!Given(c["webhook_url"])
      /\ C!Given(c["cdp_url"]) /\ C!Given(c["chrome_path"])
      /\ C!Given(c["screenshot_dir"])
  <2>1. C!Given("text")
    BY DEF C!Given
  <2>2. QED
    BY <1>2, <1>3, <1>4, <1>5, <2>1
<1>8. /\ c["mode"] \in {"chrome-cdp", "go-fallback"}
      /\ c["ready_timeout"] >= 1 /\ c["timeout"] >= 1 /\ c["summary_max"] >= 1
      /\ c["wecom_max_attempts"] >= 1 /\ c["enrichment_max_attempts"] >= 1
      /\ c["initial_backoff"] >= 1 /\ c["max_backoff"] >= c["initial_backoff"]
  <2>1. \A k \in counts : c[k] = C!Default[k]
    BY <1>2, <1>4
  <2>2. QED
    BY <2>1, <1>6 DEF Numbers
<1>9. C!Validate(c)
  <2>1. \A k \in {"host", "version", "platform", "sqlite_path", "webhook_url"} : C!Given(c[k])
    BY <1>7
  <2>2. \A k \in {"wecom_max_attempts", "enrichment_max_attempts", "initial_backoff"} :
          c[k] >= 1
    BY <1>8
  <2>3. QED
    BY <1>2, <1>7, <1>8, <2>1, <2>2, Zenon DEF C!Validate
<1>10. QED
  BY <1>9 DEF c, file

\* So is every one that a command of this specification loads.
THEOREM LoadedConfigsFit == Spec => []AcceptedConfigsFit
<1>1. ASSUME NEW file \in Files PROVE Typed(file)
  <2>1. ASSUME NEW f \in One
        PROVE  DOMAIN f \subseteq C!Keys /\ \A k \in DOMAIN f \cap Numbers : f[k] \in Int
    <3>1. PICK key \in C!Keys : \E v \in ValuesOf(key) : f = Only(key, v)
      BY DEF One
    <3>2. key \in Numbers => \A v \in ValuesOf(key) : v \in Int
      BY DEF ValuesOf, Numbers
    <3>3. QED
      BY <3>1, <3>2 DEF Only
  <2>2. \A k \in {"extension_id", "mode"} : k \in C!Keys /\ k \notin Numbers
    BY DEF C!Keys, C!Default, Numbers
  <2>3. ASSUME NEW k \in {"extension_id", "mode"}, NEW v PROVE Typed(Only(k, v))
    BY <2>2 DEF Typed, Only
  <2>4. ASSUME NEW f, NEW g, Typed(f), Typed(g) PROVE Typed(Over(f, g))
    BY <2>4 DEF Typed, Over
  <2>5. \A f \in One : Typed(f)
    BY <2>1 DEF Typed
  <2>6. \A f \in Two : Typed(f)
    BY <2>4, <2>5 DEF Two
  <2>7. QED
    BY <2>3, <2>4, <2>6 DEF Files
<1>2. C!Validate(C!Load(Only("extension_id", "a-p, 32"), "text"))
  BY QuickStartIsAccepted
<1>3. ASSUME NEW file \in Files, NEW env \in C!Texts, C!Validate(C!Load(file, env))
      PROVE  Fits(C!Load(file, env), 1 .. 5)
  <2>1. Fits(C!Load(file, env), Nat \ {0})
    BY <1>1, <1>3, EveryAcceptedConfigFits
  <2>2. \A n \in 1 .. 5 : n \in Nat \ {0}
    OBVIOUS
  <2>3. QED
    BY <2>1, <2>2, Zenon DEF Fits
<1>4. AcceptedConfigsFit
  BY <1>2, <1>3 DEF AcceptedConfigsFit, ConfigsFit
<1>5. QED
  BY <1>4, PTL
===============================================================================
