-------------------------------- MODULE Admin --------------------------------
(***************************************************************************)
(* twadmin: the key files and the files they sign.  Each command is a      *)
(* sequence of steps on one file each (twadmin/twadmincl.cpp, the Execute  *)
(* of its modes), any of which can fail or be the last the process takes:  *)
(* a file that was being written is then torn.  What stdio still holds is  *)
(* written by the fclose of cFile::Close or ~cFile_i, whose result both    *)
(* ignore: a file can also be torn and the command go on.                  *)
(*                                                                         *)
(* A key file holds a key pair and the passphrase its private half is      *)
(* encrypted with; signing needs the private half and so the passphrase,   *)
(* reading only the public half.  Commands that only read are left out.    *)
(***************************************************************************)
EXTENDS Integers, Sequences, SequencesExt

CONSTANTS
  Files,        \* of "config", "policy", "database" and "report"
  Pass,         \* passphrases
  Text,         \* contents of a file
  Lists,        \* the lists of files given to --encrypt and --remove-encryption
  MaxPair,      \* bound: key pairs that are ever made
  MaxCommands,  \* bound: commands that are ever run
  Torn,         \* what is left when writing a file did not end
  Absent        \* there is no such file

ASSUME FilesAreKnown == Files \subseteq {"config", "policy", "database", "report"}
ASSUME ListsAreOfFiles == Lists \subseteq Seq(Files)
ASSUME SomethingToWrite == Pass # {} /\ Text # {}
ASSUME RoomForTheFirstKeys == MaxPair \in Nat /\ MaxPair >= 2
ASSUME CommandsAreCounted == MaxCommands \in Nat

VARIABLES
  key,      \* the key files
  keyBak,   \* their .bak files
  file,     \* the signed files
  fileBak,  \* their .bak files
  pairs,    \* pairs made so far
  cmd,      \* the command that is running
  exit,     \* how the last one ended
  runs      \* commands run so far

vars == <<key, keyBak, file, fileBak, pairs, cmd, exit, runs>>

Keys == {"site", "local"}

\* cFileManipulator::UseSiteKey
UseSiteKey(f) == f \in {"config", "policy"}
KeyOf(f)      == IF UseSiteKey(f) THEN "site" ELSE "local"

Pairs      == 1 .. MaxPair
KeyFile    == [pair : Pairs, pass : Pass]
SignedFile == [by : {0} \cup Pairs, text : Text]

ASSUME TornAndAbsentAreNoFiles ==
  Torn \notin KeyFile \cup SignedFile /\ Absent \notin KeyFile \cup SignedFile

IsWhole(x) == x \notin {Torn, Absent}
Signed(x)  == IsWhole(x) /\ x.by # 0

\* No command runs.
Idle == [op |-> "none", todo |-> << >>]

\* Before installation there is nothing; after it the keys are there, and each
\* file that was made, signed or not.
Init ==
  /\ \E installed \in BOOLEAN, signed, made \in SUBSET Files :
       LET pass == CHOOSE p \in Pass : TRUE
           text == CHOOSE t \in Text : TRUE
       IN
       /\ signed \subseteq made
       /\ made # {} => installed
       /\ key = [k \in Keys |-> IF ~installed THEN Absent
                               ELSE [pair |-> IF k = "site" THEN 1 ELSE 2, pass |-> pass]]
       /\ file = [f \in Files |->
                   CASE f \in signed -> [by |-> key[KeyOf(f)].pair, text |-> text]
                     [] f \in made \ signed -> [by |-> 0, text |-> text]
                     [] OTHER -> Absent]
       /\ pairs = IF installed THEN 2 ELSE 0
  /\ keyBak = [k \in Keys |-> Absent]
  /\ fileBak = [f \in Files |-> Absent]
  /\ cmd = Idle
  /\ exit = "none"
  /\ runs = 0

-----------------------------------------------------------------------------
\* Commands

\* `knows' are the passphrases whoever runs the command can give.
Start(op, todo, rest) ==
  /\ cmd.op = "none" /\ runs < MaxCommands
  /\ \E knows \in SUBSET Pass :
       cmd' = [op |-> op, todo |-> todo, knows |-> knows, ok |-> TRUE,
               given |-> todo, rest |-> rest, backedUp |-> FALSE, unlocked |-> {},
               good |-> << >>, unseen |-> {}]
  /\ runs' = runs + 1
  /\ UNCHANGED <<key, keyBak, file, fileBak, pairs, exit>>

KeyLists == {<<"site">>, <<"local">>, <<"site", "local">>}

\* The user has confirmed that existing key files are overwritten.
GenerateKeys == \E ks \in KeyLists, new \in Pass : Start("generate", ks, new)

ChangePassphrases ==
  \E ks \in KeyLists, new \in Pass :
    /\ \A i \in DOMAIN ks : key[ks[i]] # Absent
    /\ Start("change", ks, new)

\* `late' is LATEPROMPTING: a passphrase is asked for whenever it is needed.
RemoveEncryption == \E fs \in Lists, late \in BOOLEAN : Start("remove", fs, late)
Encrypt          == \E fs \in Lists, late \in BOOLEAN : Start("check", fs, late)

\* --create-cfgfile and --create-polfile; `plain' is --no-encryption.
Create ==
  \E f \in Files \cap {"config", "policy"}, text \in Text, plain \in BOOLEAN :
    Start("create", <<f>>, [text |-> text, plain |-> plain])

Target == Head(cmd.todo)

\* The command is over with this exit code.
Over(code) == cmd' = Idle /\ exit' = code

\* An exception reaches main, or the mode returns 1 at once.
Fail == Over("error") /\ UNCHANGED <<key, keyBak, file, fileBak, pairs, runs>>

\* The process is killed, between two steps.
Die ==
  /\ cmd.op # "none"
  /\ Over("died")
  /\ UNCHANGED <<key, keyBak, file, fileBak, pairs, runs>>

\* Mutant: that the last target was backed up holds for the next one too.
HandledNoReset(ok, unlocked) ==
  /\ cmd' = [cmd EXCEPT !.todo = Tail(@), !.ok = @ /\ ok, !.unlocked = unlocked]
  /\ exit' = exit

\* The target is done with, well or not.
Handled(ok, unlocked) ==
  /\ cmd' = [cmd EXCEPT !.todo = Tail(@), !.ok = @ /\ ok, !.unlocked = unlocked,
                        !.backedUp = FALSE]
  /\ exit' = exit

\* The last fclose of the target fails (core/file_unix.cpp): it is torn, and the
\* command takes it for done with.
TornUnseen(unlocked) ==
  /\ cmd' = [cmd EXCEPT !.todo = Tail(@), !.unlocked = unlocked, !.backedUp = FALSE,
                        !.unseen = @ \cup {Target}]
  /\ exit' = exit

\* return bResult == false
Finish ==
  /\ cmd.op \in {"generate", "change", "remove", "encrypt", "create"}
  /\ cmd.todo = << >>
  /\ Over(IF cmd.ok THEN "ok" ELSE "error")
  /\ UNCHANGED <<key, keyBak, file, fileBak, pairs, runs>>

-----------------------------------------------------------------------------
\* Key files

OnKey(op) == cmd.op = op /\ cmd.todo # << >>

\* Mutant: a file is only backed up when there is no backup yet.
BackupOnce(bak, x) == IF IsWhole(bak) \/ x = Absent THEN {bak} ELSE {x, Torn}

\* cFileUtil::BackupFile removes the backup and copies the file, which may fail
\* half-way: what a backup can be afterwards.
BackupFile(bak, x) == IF x = Absent THEN {bak} ELSE {x, Torn}

\* Copying ended, well or with a failed fclose, or it threw or the process died.
BackedUp(b) ==
  \/ cmd' = [cmd EXCEPT !.backedUp = TRUE] /\ exit' = exit
  \/ /\ b = Torn
     /\ Over("error") \/ Over("died")

\* The passphrases have been given before the key file is backed up.
BackupKey ==
  /\ OnKey("generate") \/ OnKey("change")
  /\ ~cmd.backedUp
  /\ \E b \in BackupFile(keyBak[Target], key[Target]) :
       /\ keyBak' = [keyBak EXCEPT ![Target] = b]
       /\ BackedUp(b)
  /\ UNCHANGED <<key, file, fileBak, pairs, runs>>

\* The new passphrase is not typed the same way twice in three attempts, no keys
\* can be generated, or the old passphrase is wrong or the key file not whole.
KeyCommandFails ==
  /\ OnKey("generate") \/ OnKey("change")
  /\ Fail

\* cKeyFile::WriteFile truncates the file and writes it; ~cFile_i closes it.
WriteKey(x) ==
  \/ /\ key' = [key EXCEPT ![Target] = x]
     /\ Handled(TRUE, {})
  \/ /\ key' = [key EXCEPT ![Target] = Torn]
     /\ Over("error") \/ Over("died") \/ TornUnseen({})

GenerateKey ==
  /\ OnKey("generate") /\ cmd.backedUp
  /\ pairs < MaxPair
  /\ pairs' = pairs + 1
  /\ WriteKey([pair |-> pairs + 1, pass |-> cmd.rest])
  /\ UNCHANGED <<keyBak, file, fileBak, runs>>

\* cKeyFile::GetPrivateKey finds the private key's hash with this passphrase.
Opens(k) == IsWhole(key[k]) /\ key[k].pass \in cmd.knows

ChangePassphrase ==
  /\ OnKey("change") /\ cmd.backedUp
  /\ Opens(Target)
  /\ WriteKey([key[Target] EXCEPT !.pass = cmd.rest])
  /\ UNCHANGED <<keyBak, file, fileBak, pairs, runs>>

-----------------------------------------------------------------------------
\* Signed files

OnFile(op) == cmd.op = op /\ cmd.todo # << >>
TargetKey  == KeyOf(Target)

\* Mutant: one passphrase is as good as another.
AskedForAny(k) == cmd.unlocked = {}

\* userKnowsSitePassphrase and userKnowsLocalPassphrase, or a private key that
\* is there already, save asking again.
Asked(k) == k \notin cmd.unlocked

\* CreatePrivateKey: the passphrase, within three attempts.
Unlocks(k) == IsWhole(key[k]) /\ (Asked(k) => Opens(k))
NowUnlocked(k) == IF cmd.rest = TRUE THEN cmd.unlocked ELSE cmd.unlocked \cup {k}

\* ChangeEncryption rewrites the file in place: it is called without backup.
\* Nothing is reported to its caller of a process that dies meanwhile.
Rewrite(by, failure) ==
  \/ /\ file' = [file EXCEPT ![Target].by = by]
     /\ Handled(TRUE, NowUnlocked(TargetKey))
  \/ /\ file' = [file EXCEPT ![Target] = Torn]
     /\ failure \/ Over("died") \/ TornUnseen(NowUnlocked(TargetKey))

IsMismatch(f) == key[KeyOf(f)].pair # file[f].by

\* The configuration file tells which key signed it (VerifyCfgSiteKey).
IsForeignConfig(f) == f = "config" /\ IsWhole(key["site"]) /\ IsMismatch(f)

\* Mutant: a file that is passed over is no error.
PassedOver == cmd.ok

\* bResult = false
Reported == FALSE

\* No header, no signature, or a configuration file of another key.
RemoveSkips ==
  /\ OnFile("remove")
  /\ Signed(file[Target]) => IsForeignConfig(Target)
  /\ Handled(Reported, cmd.unlocked)
  /\ UNCHANGED <<key, keyBak, file, fileBak, pairs, runs>>

\* What is left of a torn file may look signed, and asks for the passphrase.
LooksSigned(f) == Signed(file[f]) \/ file[f] = Torn

\* The key file cannot be read, or the passphrase is wrong.
RemoveFails ==
  /\ OnFile("remove") /\ LooksSigned(Target)
  /\ Signed(file[Target]) => ~IsForeignConfig(Target)
  /\ Asked(TargetKey)
  /\ Fail

\* Another key signed the file, or it is torn: it cannot be read.
RemoveCannotRead ==
  /\ OnFile("remove") /\ LooksSigned(Target) /\ Target # "config"
  /\ Unlocks(TargetKey) /\ (Signed(file[Target]) => IsMismatch(Target))
  /\ Handled(FALSE, NowUnlocked(TargetKey))
  /\ UNCHANGED <<key, keyBak, file, fileBak, pairs, runs>>

RemoveWrites ==
  /\ OnFile("remove") /\ Signed(file[Target])
  /\ Unlocks(TargetKey) /\ ~IsMismatch(Target)
  /\ Rewrite(0, Handled(FALSE, NowUnlocked(TargetKey)))
  /\ UNCHANGED <<key, keyBak, fileBak, pairs, runs>>

\* Encrypt looks at every file first, and opens the key files it will need: a
\* file without a header, which a torn one may still have, is erased from the list.
CheckFile ==
  /\ OnFile("check")
  /\ \E hasHeader \in IF file[Target] = Torn THEN BOOLEAN ELSE {IsWhole(file[Target])} :
     LET isGood == hasHeader /\ IsWhole(key[TargetKey])
     IN  cmd' = [cmd EXCEPT !.todo = Tail(@), !.ok = @ /\ isGood,
                            !.good = IF isGood THEN Append(@, Target) ELSE @]
  /\ UNCHANGED <<key, keyBak, file, fileBak, pairs, exit, runs>>

\* The second time it goes through what is left.
Checked ==
  /\ cmd.op = "check" /\ cmd.todo = << >>
  /\ cmd' = [cmd EXCEPT !.op = "encrypt", !.todo = cmd.good]
  /\ UNCHANGED <<key, keyBak, file, fileBak, pairs, exit, runs>>

EncryptSkips ==
  /\ OnFile("encrypt") /\ Signed(file[Target])
  /\ Handled(Reported, cmd.unlocked)
  /\ UNCHANGED <<key, keyBak, file, fileBak, pairs, runs>>

\* The passphrase is wrong.
EncryptFails ==
  /\ OnFile("encrypt") /\ ~Signed(file[Target])
  /\ Asked(TargetKey)
  /\ Fail

\* A torn file: its header says it is signed, or its contents cannot be read.  The
\* header of one that this command tore may be gone: eFileManip is caught, and the
\* loop continues without bResult = false.
EncryptCannotRead ==
  /\ OnFile("encrypt") /\ file[Target] = Torn
  /\ \/ Handled(Reported, cmd.unlocked)
     \/ Unlocks(TargetKey) /\ Over("error")
     \/ Target \in cmd.unseen /\ Handled(TRUE, cmd.unlocked)
  /\ UNCHANGED <<key, keyBak, file, fileBak, pairs, runs>>

EncryptWrites ==
  /\ OnFile("encrypt") /\ IsWhole(file[Target]) /\ ~Signed(file[Target])
  /\ Unlocks(TargetKey)
  /\ Rewrite(key[TargetKey].pair, Over("error"))
  /\ UNCHANGED <<key, keyBak, fileBak, pairs, runs>>

-----------------------------------------------------------------------------
\* Writing a configuration or policy from its text

\* The configuration names no site key file, or one of another pair: the error
\* is queued, and Execute returns false, which is 0.
CreateQueuesError ==
  /\ OnFile("create") /\ ~cmd.backedUp
  /\ Target = "config" /\ ~cmd.rest.plain /\ IsWhole(key["site"])
  /\ Over("queued")
  /\ UNCHANGED <<key, keyBak, file, fileBak, pairs, runs>>

\* The text is not accepted, or the key or the passphrase is missing.
CreateFails ==
  /\ OnFile("create") /\ ~cmd.backedUp
  /\ Fail

CreateBacksUp ==
  /\ OnFile("create") /\ ~cmd.backedUp
  /\ ~cmd.rest.plain => Opens("site")
  /\ \E b \in BackupFile(fileBak[Target], file[Target]) :
       /\ fileBak' = [fileBak EXCEPT ![Target] = b]
       /\ BackedUp(b)
  /\ UNCHANGED <<key, keyBak, file, pairs, runs>>

CreateWrites ==
  /\ OnFile("create") /\ cmd.backedUp
  /\ \/ /\ file' = [file EXCEPT ![Target] =
                      [by   |-> IF cmd.rest.plain THEN 0 ELSE key["site"].pair,
                       text |-> cmd.rest.text]]
        /\ Handled(TRUE, {})
     \/ /\ file' = [file EXCEPT ![Target] = Torn]
        /\ Over("error") \/ Over("died") \/ TornUnseen({})
  /\ UNCHANGED <<key, keyBak, fileBak, pairs, runs>>

Next ==
  \/ GenerateKeys \/ ChangePassphrases \/ RemoveEncryption \/ Encrypt \/ Create
  \/ BackupKey \/ KeyCommandFails \/ GenerateKey \/ ChangePassphrase
  \/ RemoveSkips \/ RemoveFails \/ RemoveCannotRead \/ RemoveWrites
  \/ CheckFile \/ Checked \/ EncryptSkips \/ EncryptFails \/ EncryptCannotRead
  \/ EncryptWrites
  \/ CreateQueuesError \/ CreateFails \/ CreateBacksUp \/ CreateWrites
  \/ Finish \/ Die

Spec == Init /\ [][Next]_vars

-----------------------------------------------------------------------------
\* The types of the variables.
TypeOK ==
  /\ \A k \in Keys : {key[k], keyBak[k]} \subseteq KeyFile \cup {Torn, Absent}
  /\ \A f \in Files : {file[f], fileBak[f]} \subseteq SignedFile \cup {Torn, Absent}
  /\ pairs \in 0 .. MaxPair
  /\ cmd.op \in {"none", "generate", "change", "remove", "check", "encrypt", "create"}
  /\ ToSet(cmd.todo) \subseteq Keys \cup Files
  /\ cmd.op # "none" => /\ cmd.unlocked \subseteq Keys
                        /\ cmd.unseen \subseteq Keys \cup Files
                        /\ cmd.backedUp => cmd.todo # << >>
  /\ exit \in {"none", "ok", "queued", "error", "died"}
  /\ runs \in 0 .. MaxCommands

IsHolder(k, pair) == Opens(k) /\ key[k].pair = pair

\* A signature is put on a file, and taken off it by --remove-encryption, only
\* for someone who gave the passphrase of the very pair it is made with: a
\* passphrase asked for once is not one for the other key, and new keys do not
\* open what the old ones signed (RemoveEncryption, Encrypt, CreatePol).
SignaturesNeedThePassphrase ==
  [][\A f \in Files : file'[f] # file[f] =>
       /\ Signed(file'[f]) => IsHolder(KeyOf(f), file'[f].by)
       /\ cmd.op = "remove" /\ IsWhole(file'[f]) => IsHolder(KeyOf(f), file[f].by)]_vars

Holds(x, pair) == IsWhole(x) /\ x.pair = pair

\* A key pair that is in a key file is, after the next step of whatever command,
\* still there or in the backup, unless the backup made of it is torn: a copy that
\* throws ends the command and leaves the key file, but one whose fclose fails
\* does not.  A backup is never touched while the key file is (BackupFile before
\* WriteFile).
OnlyBackupsForgetPairs ==
  [][\A k \in Keys, pair \in Pairs :
       /\ Holds(key[k], pair) =>
            Holds(key'[k], pair) \/ Holds(keyBak'[k], pair) \/ keyBak'[k] = Torn
       /\ Holds(keyBak[k], pair) /\ key'[k] # key[k] => Holds(keyBak'[k], pair)]_vars

\* What the command was asked to do to this file.
DoneWith(x) ==
  CASE cmd.op = "remove"  -> IsWhole(file[x]) /\ ~Signed(file[x])
    [] cmd.op = "encrypt" -> Signed(file[x]) /\ file[x].by = key[KeyOf(x)].pair
    [] cmd.op = "create"  -> IsWhole(file[x]) /\ file[x].text = cmd.rest.text
    [] OTHER              -> IsWhole(key[x]) /\ key[x].pass = cmd.rest

\* Exit code 0, with no error queued, is only for a command that did all it was
\* asked, but for what a failed fclose hides: one file that was passed over,
\* refused or known to be torn among several shows in the code (bResult).
ExitOkMeansDone ==
  [][cmd.op # "none" /\ cmd'.op = "none" /\ exit' = "ok" =>
       \A i \in DOMAIN cmd.given : DoneWith(cmd.given[i]) \/ cmd.given[i] \in cmd.unseen]_vars

\* twfiles(5) says that "to prevent the accidental deletion of important data,
\* Tripwire automatically creates backup files whenever any Tripwire file is
\* overwritten": a file that could not be written is in its backup.
ImportantDataSurvives ==
  \A f \in Files : file[f] = Torn => IsWhole(fileBak[f])
=============================================================================
