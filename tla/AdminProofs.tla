----------------------------- MODULE AdminProofs -----------------------------
(***************************************************************************)
(* Proofs about Admin for any passphrases, texts and lists of files, and   *)
(* any numbers of key pairs and commands.                                  *)
(***************************************************************************)
EXTENDS Admin, DataLemmas

\* The commands of these modes, on targets from S, with R as the rest of what
\* they are told.
Commands(modes, S, R) ==
  [op : modes, todo : Seq(S), knows : SUBSET Pass, ok : BOOLEAN, given : Seq(S),
   rest : R, backedUp : BOOLEAN, unlocked : SUBSET Keys, good : Seq(S),
   unseen : SUBSET S]

TextFiles      == Files \cap {"config", "policy"}
KeyCommands    == Commands({"generate", "change"}, Keys, Pass)
FileCommands   == Commands({"remove", "check", "encrypt"}, Files, BOOLEAN)
CreateCommands == Commands({"create"}, TextFiles, [text : Text, plain : BOOLEAN])

\* TypeOK with the functions' domains, and each command with its own targets.
Typed ==
  /\ key \in [Keys -> KeyFile \cup {Torn, Absent}]
  /\ keyBak \in [Keys -> KeyFile \cup {Torn, Absent}]
  /\ file \in [Files -> SignedFile \cup {Torn, Absent}]
  /\ fileBak \in [Files -> SignedFile \cup {Torn, Absent}]
  /\ pairs \in 0 .. MaxPair
  /\ cmd \in {Idle} \cup KeyCommands \cup FileCommands \cup CreateCommands
  /\ exit \in {"none", "ok", "queued", "error", "died"}
  /\ runs \in 0 .. MaxCommands

\* A command that has its backup is one that makes backups, has a target, and
\* the passphrase if it signs.
BackedUpIsReady ==
  cmd.op # "none" /\ cmd.backedUp =>
    /\ cmd.op \in {"generate", "change", "create"} /\ cmd.todo # << >>
    /\ cmd.op = "create" /\ ~cmd.rest.plain => Opens("site")

\* The backup of a key file that is about to be written is the key file, or is
\* torn and nobody noticed.
KeyIsBackedUp ==
  cmd.op \in {"generate", "change"} /\ cmd.backedUp =>
    (IsWhole(key[Target]) => keyBak[Target] \in {key[Target], Torn})

\* Whoever is not asked again for a passphrase has given it.
UnlockedAreOpened ==
  cmd.op # "none" => \A k \in cmd.unlocked : Opens(k)

\* What was asked for and is still to come.
Remaining ==
  ToSet(cmd.todo) \cup (IF cmd.op = "check" THEN ToSet(cmd.good) ELSE {})

\* Done with, or torn by a failed fclose.
Settled(x) == DoneWith(x) \/ x \in cmd.unseen

\* As long as nothing is known to have failed, the rest of what was asked for is
\* settled.
RestIsDone ==
  cmd.op # "none" /\ cmd.ok =>
    \A i \in DOMAIN cmd.given :
      \/ cmd.given[i] \in Remaining
      \/ cmd.op # "check" /\ Settled(cmd.given[i])

\* The target is dealt with: what Handled and TornUnseen have in common.
Passes(ok, unlocked, unseen) ==
  /\ cmd' = [cmd EXCEPT !.todo = Tail(@), !.ok = @ /\ ok, !.unlocked = unlocked,
                        !.backedUp = FALSE, !.unseen = unseen]
  /\ exit' = exit

\* The inductive invariant.
IInv ==
  /\ Typed
  /\ BackedUpIsReady
  /\ KeyIsBackedUp
  /\ UnlockedAreOpened
  /\ RestIsDone

-----------------------------------------------------------------------------

\* Which commands are of which kind.
LEMMA CommandKinds ==
  ASSUME Typed
  PROVE  /\ cmd.op \in {"generate", "change"} => cmd \in KeyCommands
         /\ cmd.op \in {"remove", "check", "encrypt"} => cmd \in FileCommands
         /\ cmd.op = "create" => cmd \in CreateCommands
         /\ cmd.op \in {"none", "generate", "change", "remove", "check", "encrypt",
                        "create"}
         /\ cmd = Idle \/ cmd.op # "none"
  BY DEF Typed, Idle, KeyCommands, FileCommands, CreateCommands, Commands

\* The invariant says little of no command.
LEMMA IdleIsFine ==
  ASSUME cmd' = Idle
  PROVE  /\ BackedUpIsReady' /\ KeyIsBackedUp' /\ UnlockedAreOpened' /\ RestIsDone'
<1>1. cmd'.op = "none"
  BY DEF Idle
<1> QED
  BY <1>1 DEF BackedUpIsReady, KeyIsBackedUp, UnlockedAreOpened, RestIsDone

\* A command that starts.
LEMMA StartKeepsInvariant ==
  ASSUME IInv, NEW op, NEW todo, NEW rest, Start(op, todo, rest), op # "none",
         [op |-> op, todo |-> todo, rest |-> rest] \in
            [op : {"generate", "change"}, todo : Seq(Keys), rest : Pass]
            \cup [op : {"remove", "check"}, todo : Seq(Files), rest : BOOLEAN]
            \cup [op : {"create"}, todo : Seq(TextFiles),
                  rest : [text : Text, plain : BOOLEAN]]
  PROVE  IInv'
<1>1. PICK knows \in SUBSET Pass :
        cmd' = [op |-> op, todo |-> todo, knows |-> knows, ok |-> TRUE,
                given |-> todo, rest |-> rest, backedUp |-> FALSE, unlocked |-> {},
                good |-> << >>, unseen |-> {}]
  BY DEF Start
<1>2. cmd' \in KeyCommands \cup FileCommands \cup CreateCommands
  BY <1>1 DEF KeyCommands, FileCommands, CreateCommands, Commands
<1>3. runs' \in 0 .. MaxCommands
  BY CommandsAreCounted DEF Start, IInv, Typed
<1>4. Typed'
  BY <1>2, <1>3 DEF Start, IInv, Typed
<1>5. BackedUpIsReady' /\ KeyIsBackedUp' /\ UnlockedAreOpened'
  BY <1>1 DEF BackedUpIsReady, KeyIsBackedUp, UnlockedAreOpened
<1>6. RestIsDone'
  <2>1. \A i \in DOMAIN todo : todo[i] \in ToSet(todo)
    BY DEF ToSet
  <2> QED
    BY <1>1, <2>1 DEF RestIsDone, Remaining
<1> QED
  BY <1>4, <1>5, <1>6 DEF IInv

\* A target that is dealt with, well or not: what is left to show is that no
\* file settled before is unsettled, and that success means that this one is.
LEMMA PassesKeepsInvariant ==
  ASSUME RestIsDone,
         NEW modes, NEW S, NEW R, cmd \in Commands(modes, S, R),
         cmd.todo # << >>, cmd.op \notin {"none", "check"},
         NEW ok \in BOOLEAN, NEW u \in SUBSET Keys, NEW unseen \in SUBSET S,
         Passes(ok, u, unseen),
         ok => \A x \in S : Settled(x) => Settled(x)',
         NEW t, t = Target, ok => Settled(t)',
         \A k \in u : Opens(k)'
  PROVE  /\ cmd' \in Commands(modes, S, R)
         /\ BackedUpIsReady' /\ KeyIsBackedUp' /\ UnlockedAreOpened' /\ RestIsDone'
<1>1. /\ cmd.todo \in Seq(S) /\ cmd.given \in Seq(S)
      /\ cmd.ok \in BOOLEAN
  BY DEF Commands
<1>2. /\ Tail(cmd.todo) \in Seq(S)
      /\ ToSet(cmd.todo) = {t} \cup ToSet(Tail(cmd.todo))
  BY <1>1, ListStep DEF Target
<1>3. /\ cmd' \in Commands(modes, S, R)
      /\ cmd'.op = cmd.op
      /\ cmd'.todo = Tail(cmd.todo)
      /\ cmd'.given = cmd.given
      /\ cmd'.ok = (cmd.ok /\ ok)
      /\ cmd'.unlocked = u
      /\ cmd'.backedUp = FALSE
  BY <1>1, <1>2 DEF Passes, Commands
<1>4. BackedUpIsReady' /\ KeyIsBackedUp' /\ UnlockedAreOpened'
  BY <1>3 DEF BackedUpIsReady, KeyIsBackedUp, UnlockedAreOpened
<1>5. RestIsDone'
  <2>1. SUFFICES ASSUME cmd.ok, ok, NEW i \in DOMAIN cmd.given
                 PROVE  \/ cmd.given[i] \in ToSet(Tail(cmd.todo))
                        \/ Settled(cmd.given[i])'
    BY <1>1, <1>3 DEF RestIsDone, Remaining
  <2>2. cmd.given[i] \in S
    BY <1>1, ElementOfSeq, LenProperties
  <2>3. cmd.given[i] \in ToSet(cmd.todo) \/ Settled(cmd.given[i])
    BY <2>1 DEF RestIsDone, Remaining
  <2>4. CASE cmd.given[i] = t
    BY <1>3, <2>1, <2>4
  <2>5. CASE cmd.given[i] \in ToSet(Tail(cmd.todo))
    BY <2>5
  <2>6. CASE Settled(cmd.given[i])
    BY <1>3, <2>1, <2>2, <2>6
  <2> QED
    BY <1>2, <2>3, <2>4, <2>5, <2>6
<1> QED
  BY <1>3, <1>4, <1>5

\* Both ways of going on are of this form.
LEMMA TargetsPass ==
  ASSUME NEW modes, NEW S, NEW R, cmd \in Commands(modes, S, R),
         cmd.todo # << >>
  PROVE  /\ Target \in S
         /\ cmd.unseen \in SUBSET S /\ cmd.unseen \cup {Target} \in SUBSET S
         /\ \A ok, u : Handled(ok, u) => Passes(ok, u, cmd.unseen)
         /\ \A u : TornUnseen(u) => Passes(TRUE, u, cmd.unseen \cup {Target})
<1>1. Target \in S /\ cmd.unseen \in SUBSET S /\ cmd.ok \in BOOLEAN
  BY ListStep DEF Target, Commands
<1>2. ASSUME NEW ok, NEW u, Handled(ok, u)
      PROVE  Passes(ok, u, cmd.unseen)
  BY <1>2 DEF Handled, Passes, Commands
<1>3. ASSUME NEW u, TornUnseen(u)
      PROVE  Passes(TRUE, u, cmd.unseen \cup {Target})
  BY <1>1, <1>3 DEF TornUnseen, Passes, Commands
<1> QED
  BY <1>1, <1>2, <1>3

\* What was settled stays so when the files it is in are left alone, and what is
\* torn unseen is settled.
LEMMA SettledStays ==
  ASSUME NEW modes, NEW S, NEW R, cmd \in Commands(modes, S, R), cmd.todo # << >>,
         NEW ok, NEW u, NEW unseen, Passes(ok, u, unseen), cmd.unseen \subseteq unseen
  PROVE  /\ cmd'.op = cmd.op /\ cmd'.rest = cmd.rest /\ cmd'.knows = cmd.knows
         /\ cmd'.unseen = unseen
         /\ \A x : /\ file'[x] = file[x] /\ key'[x] = key[x] /\ key'[KeyOf(x)] = key[KeyOf(x)]
                   /\ Settled(x)
                   => Settled(x)'
         /\ \A x \in unseen : Settled(x)'
<1>1. /\ cmd'.op = cmd.op /\ cmd'.rest = cmd.rest /\ cmd'.knows = cmd.knows
      /\ cmd'.unseen = unseen
  BY DEF Passes, Commands
<1> QED
  BY <1>1 DEF Settled, DoneWith

-----------------------------------------------------------------------------

\* The invariant holds of every installation.
LEMMA InitEstablishesInvariant ==
  ASSUME Init
  PROVE  IInv
<1>1. PICK installed \in BOOLEAN, signed \in SUBSET Files, made \in SUBSET Files :
        LET pass == CHOOSE p \in Pass : TRUE
            text == CHOOSE t \in Text : TRUE
        IN
        /\ signed \subseteq made
        /\ made # {} => installed
        /\ key = [k \in Keys |-> IF ~installed THEN Absent
                               ELSE [pair |-> IF k = "site" THEN 1 ELSE 2, pass |-> pass]]
        /\ file = [f \in Files |->
                   CASE f \in signed -> [by |-> key[KeyOf(f)].pair, text |-> text]
                     [] f \in made \ signed -> [by |-> 0, text |-> text]
                     [] OTHER -> Absent]
        /\ pairs = IF installed THEN 2 ELSE 0
  BY DEF Init
<1> DEFINE pass == CHOOSE p \in Pass : TRUE
           text == CHOOSE t \in Text : TRUE
<1>2. pass \in Pass /\ text \in Text
  BY SomethingToWrite
<1> HIDE DEF pass, text
<1>3. key \in [Keys -> KeyFile \cup {Torn, Absent}]
  BY <1>1, <1>2, RoomForTheFirstKeys DEF KeyFile, Pairs, pass
<1>4. ASSUME NEW f \in Files
      PROVE  file[f] \in SignedFile \cup {Torn, Absent}
  <2>1. CASE f \in signed
    <3>1. installed
      BY <1>1, <2>1
    <3>2. KeyOf(f) \in Keys
      BY DEF KeyOf, Keys
    <3>3. key[KeyOf(f)].pair \in Pairs
      BY <1>1, <3>1, <3>2, RoomForTheFirstKeys DEF Pairs
    <3>4. file[f] = [by |-> key[KeyOf(f)].pair, text |-> text]
      BY <1>1, <2>1 DEF text
    <3> QED
      BY <1>2, <3>3, <3>4 DEF SignedFile
  <2>2. CASE f \in made \ signed
    <3>1. file[f] = [by |-> 0, text |-> text]
      BY <1>1, <2>2 DEF text
    <3> QED
      BY <1>2, <3>1 DEF SignedFile
  <2>3. CASE f \notin made
    <3>1. file[f] = Absent
      BY <1>1, <2>3
    <3> QED
      BY <3>1
  <2> QED
    BY <2>1, <2>2, <2>3
<1>5. file \in [Files -> SignedFile \cup {Torn, Absent}]
  <2>1. file = [f \in Files |-> file[f]]
    BY <1>1
  <2> QED
    BY <1>4, <2>1
<1>6. Typed
  <2>1. pairs \in 0 .. MaxPair /\ runs \in 0 .. MaxCommands
    BY <1>1, RoomForTheFirstKeys, CommandsAreCounted DEF Init
  <2>2. /\ keyBak \in [Keys -> KeyFile \cup {Torn, Absent}]
        /\ fileBak \in [Files -> SignedFile \cup {Torn, Absent}]
        /\ cmd = Idle /\ exit = "none"
    BY DEF Init
  <2> QED
    BY <1>3, <1>5, <2>1, <2>2 DEF Typed
<1>7. cmd.op = "none"
  BY DEF Init, Idle
<1> QED
  BY <1>6, <1>7
  DEF IInv, BackedUpIsReady, KeyIsBackedUp, UnlockedAreOpened, RestIsDone

\* Steps that end a command: nothing is left to say of it.
LEMMA OverKeepsInvariant ==
  ASSUME IInv, NEW code \in {"ok", "queued", "error", "died"}, Over(code),
         key' \in [Keys -> KeyFile \cup {Torn, Absent}],
         keyBak' \in [Keys -> KeyFile \cup {Torn, Absent}],
         file' \in [Files -> SignedFile \cup {Torn, Absent}],
         fileBak' \in [Files -> SignedFile \cup {Torn, Absent}],
         pairs' \in 0 .. MaxPair,
         runs' = runs
  PROVE  IInv'
BY IdleIsFine DEF IInv, Typed, Over

\* A command that gets its backup; nothing else changes.
LEMMA BackedUpKeepsInvariant ==
  ASSUME IInv, cmd.op \in {"generate", "change", "create"}, cmd.todo # << >>,
         NEW b, BackedUp(b), runs' = runs, pairs' = pairs,
         key' = key, file' = file,
         keyBak' \in [Keys -> KeyFile \cup {Torn, Absent}],
         fileBak' \in [Files -> SignedFile \cup {Torn, Absent}],
         cmd.op # "create" /\ IsWhole(key[Target])
            => keyBak'[Target] \in {key[Target], Torn},
         cmd.op = "create" /\ ~cmd.rest.plain => Opens("site")
  PROVE  IInv'
<1>1. CASE Over("error") \/ Over("died")
  BY <1>1, OverKeepsInvariant DEF IInv, Typed
<1>2. CASE cmd' = [cmd EXCEPT !.backedUp = TRUE] /\ exit' = exit
  <2>1. cmd \in KeyCommands \cup CreateCommands
    BY CommandKinds DEF IInv
  <2>2. cmd' \in KeyCommands \cup CreateCommands
    BY <1>2, <2>1 DEF KeyCommands, CreateCommands, Commands
  <2>3. /\ cmd'.op = cmd.op /\ cmd'.todo = cmd.todo /\ cmd'.given = cmd.given
        /\ cmd'.rest = cmd.rest /\ cmd'.knows = cmd.knows /\ cmd'.ok = cmd.ok
        /\ cmd'.unlocked = cmd.unlocked /\ cmd'.good = cmd.good
        /\ cmd'.unseen = cmd.unseen
    BY <1>2, <2>1 DEF KeyCommands, CreateCommands, Commands
  <2>4. Typed'
    BY <1>2, <2>2 DEF IInv, Typed
  <2>5. BackedUpIsReady'
    BY <2>3 DEF BackedUpIsReady, Opens
  <2>6. KeyIsBackedUp'
    BY <2>3 DEF KeyIsBackedUp, Target
  <2>7. UnlockedAreOpened'
    BY <2>3 DEF IInv, UnlockedAreOpened, Opens
  <2>8. RestIsDone'
    BY <2>3 DEF IInv, RestIsDone, Remaining, Settled, DoneWith
  <2> QED
    BY <2>4, <2>5, <2>6, <2>7, <2>8 DEF IInv
<1> QED
  BY <1>1, <1>2 DEF BackedUp

\* A key file is written, or torn.
LEMMA WriteKeyKeepsInvariant ==
  ASSUME IInv, cmd.op \in {"generate", "change"}, cmd.todo # << >>,
         NEW x \in KeyFile, x.pass = cmd.rest, WriteKey(x),
         pairs' \in 0 .. MaxPair, UNCHANGED <<keyBak, file, fileBak, runs>>
  PROVE  IInv'
<1>1. /\ cmd \in Commands({"generate", "change"}, Keys, Pass) /\ cmd \in KeyCommands
      /\ cmd.todo \in Seq(Keys)
  BY CommandKinds DEF IInv, KeyCommands, Commands
<1>2. PICK t \in Keys : t = Target
  BY <1>1, ListStep DEF Target
<1>3. ASSUME NEW y \in KeyFile \cup {Torn}, NEW unseen \in SUBSET Keys,
             key' = [key EXCEPT ![t] = y], Passes(TRUE, {}, unseen),
             cmd.unseen \subseteq unseen, y = x \/ t \in unseen
      PROVE  IInv'
  <2>1. /\ key' \in [Keys -> KeyFile \cup {Torn, Absent}] /\ key'[t] = y
        /\ \A z \in Keys \ {t} : key'[z] = key[z]
    BY <1>3 DEF IInv, Typed
  <2>2. /\ cmd'.op = cmd.op /\ cmd'.rest = cmd.rest /\ cmd'.unseen = unseen
        /\ \A z \in unseen : Settled(z)'
    BY <1>1, <1>3, SettledStays
  <2>3. Settled(t)'
    <3>1. CASE t \in unseen
      BY <2>2, <3>1
    <3>2. CASE y = x
      <4>1. IsWhole(x)
        BY TornAndAbsentAreNoFiles DEF IsWhole
      <4>2. DoneWith(t)'
        BY <2>1, <2>2, <3>2, <4>1 DEF DoneWith
      <4> QED
        BY <4>2 DEF Settled
    <3> QED
      BY <1>3, <3>1, <3>2
  <2>4. ASSUME NEW z \in Keys, Settled(z)
        PROVE  Settled(z)'
    <3>1. CASE z = t
      BY <2>3, <3>1
    <3>2. CASE z # t
      <4>1. key'[z] = key[z]
        BY <2>1, <3>2
      <4> QED
        BY <1>3, <2>2, <2>4, <4>1 DEF Settled, DoneWith
    <3> QED
      BY <3>1, <3>2
  <2>5. /\ cmd' \in KeyCommands
        /\ BackedUpIsReady' /\ KeyIsBackedUp' /\ UnlockedAreOpened' /\ RestIsDone'
    <3>1. cmd.op \notin {"none", "check"} /\ TRUE \in BOOLEAN /\ {} \in SUBSET Keys
      OBVIOUS
    <3>2. RestIsDone
      BY DEF IInv
    <3>3. PICK u \in SUBSET Keys : u = {}
      OBVIOUS
    <3>4. Passes(TRUE, u, unseen) /\ \A k \in u : Opens(k)'
      BY <1>3, <3>3
    <3> QED
      BY <1>1, <1>2, <1>3, <2>3, <2>4, <3>1, <3>2, <3>4, PassesKeepsInvariant DEF KeyCommands
  <2>6. Typed'
    BY <1>3, <2>1, <2>5 DEF IInv, Typed, Passes
  <2> QED
    BY <2>5, <2>6 DEF IInv
<1>4. CASE key' = [key EXCEPT ![t] = x] /\ Handled(TRUE, {})
  BY <1>1, <1>3, <1>4, TargetsPass
<1>5. CASE key' = [key EXCEPT ![t] = Torn] /\ TornUnseen({})
  BY <1>1, <1>2, <1>3, <1>5, TargetsPass
<1>6. CASE /\ key' = [key EXCEPT ![t] = Torn]
           /\ Over("error") \/ Over("died")
  <2>1. key' \in [Keys -> KeyFile \cup {Torn, Absent}]
    BY <1>6 DEF IInv, Typed
  <2> QED
    BY <1>6, <2>1, OverKeepsInvariant DEF IInv, Typed
<1> QED
  BY <1>2, <1>4, <1>5, <1>6 DEF WriteKey

\* What is known of a file command and its target.
LEMMA FileCommandFacts ==
  ASSUME IInv, cmd.op \in {"remove", "check", "encrypt"}, cmd.todo # << >>
  PROVE  /\ cmd \in FileCommands
         /\ cmd \in Commands({"remove", "check", "encrypt"}, Files, BOOLEAN)
         /\ cmd.todo \in Seq(Files)
         /\ cmd.unlocked \in SUBSET Keys
         /\ Target \in Files
         /\ TargetKey \in Keys
         /\ \A f \in Files : KeyOf(f) \in Keys
<1>1. cmd \in FileCommands
  BY CommandKinds DEF IInv
<1>2. cmd.todo \in Seq(Files) /\ cmd.unlocked \in SUBSET Keys
  BY <1>1 DEF FileCommands, Commands
<1>3. Target \in Files
  BY <1>2, ListStep DEF Target
<1>4. TargetKey \in Keys /\ \A f \in Files : KeyOf(f) \in Keys
  BY DEF TargetKey, KeyOf, Keys
<1> QED
  BY <1>1, <1>2, <1>3, <1>4 DEF FileCommands

\* A target that is passed over, refused or could not be read or written, or that
\* was settled before.
LEMMA FailedTargetKeepsInvariant ==
  ASSUME IInv, cmd.op \in {"remove", "encrypt"}, cmd.todo # << >>,
         NEW ok \in BOOLEAN, ok => Target \in cmd.unseen /\ file' = file,
         NEW u \in SUBSET Keys, Handled(ok, u), \A k \in u : Opens(k),
         file' \in [Files -> SignedFile \cup {Torn, Absent}],
         UNCHANGED <<key, keyBak, fileBak, pairs, runs>>
  PROVE  IInv'
<1>1. cmd \in Commands({"remove", "check", "encrypt"}, Files, BOOLEAN)
  BY FileCommandFacts
<1>2. PICK t : t = Target
  OBVIOUS
<1>3. /\ Passes(ok, u, cmd.unseen) /\ cmd.unseen \in SUBSET Files
      /\ cmd.unseen \subseteq cmd.unseen
  BY <1>1, TargetsPass
<1>4. cmd'.knows = cmd.knows
  BY <1>1, <1>3, SettledStays
<1>5. \A k \in u : Opens(k)'
  BY <1>4 DEF Opens
<1>6. ok => Settled(t)' /\ \A x \in Files : Settled(x) => Settled(x)'
  BY <1>1, <1>2, <1>3, SettledStays
<1>7. RestIsDone /\ cmd.op \notin {"none", "check"}
  BY DEF IInv
<1>8. /\ cmd' \in FileCommands
      /\ BackedUpIsReady' /\ KeyIsBackedUp' /\ UnlockedAreOpened' /\ RestIsDone'
  BY <1>1, <1>2, <1>3, <1>5, <1>6, <1>7, PassesKeepsInvariant DEF FileCommands
<1>9. Typed'
  BY <1>8 DEF IInv, Typed, Handled
<1> QED
  BY <1>8, <1>9 DEF IInv

\* A passphrase asked for, or remembered, opens the key file.
LEMMA UnlockOpens ==
  ASSUME IInv, cmd.op # "none", NEW k \in Keys, Unlocks(k), cmd.unlocked \in SUBSET Keys
  PROVE  /\ Opens(k)
         /\ NowUnlocked(k) \in SUBSET Keys
         /\ \A l \in NowUnlocked(k) : Opens(l)
BY DEF IInv, UnlockedAreOpened, Unlocks, Asked, NowUnlocked

\* A file is rewritten in place, or torn.
LEMMA RewriteKeepsInvariant ==
  ASSUME IInv, cmd.op \in {"remove", "encrypt"}, cmd.todo # << >>,
         Unlocks(TargetKey), file[Target] \in SignedFile,
         NEW by \in {0} \cup Pairs, NEW failure,
         Rewrite(by, failure),
         failure => Over("error") \/ (cmd.op = "remove"
                                        /\ Handled(FALSE, NowUnlocked(TargetKey))),
         cmd.op = "remove" => by = 0,
         cmd.op = "encrypt" => by # 0 /\ by = key[TargetKey].pair,
         UNCHANGED <<key, keyBak, fileBak, pairs, runs>>
  PROVE  IInv'
<1>1. PICK t \in Files : t = Target
  BY FileCommandFacts
<1>2. PICK u \in SUBSET Keys : u = NowUnlocked(TargetKey) /\ \A k \in u : Opens(k)
  BY FileCommandFacts, UnlockOpens
<1>3. cmd \in Commands({"remove", "check", "encrypt"}, Files, BOOLEAN)
  BY FileCommandFacts
<1>4. file \in [Files -> SignedFile \cup {Torn, Absent}]
  BY DEF IInv, Typed
<1>5. ASSUME NEW y \in SignedFile \cup {Torn}, NEW unseen \in SUBSET Files,
             file' = [file EXCEPT ![t] = y], Passes(TRUE, u, unseen),
             cmd.unseen \subseteq unseen,
             y = [file[t] EXCEPT !.by = by] \/ t \in unseen
      PROVE  IInv'
  <2>1. /\ cmd'.op = cmd.op /\ cmd'.knows = cmd.knows /\ cmd'.unseen = unseen
        /\ \A x : /\ file'[x] = file[x] /\ key'[x] = key[x]
                  /\ key'[KeyOf(x)] = key[KeyOf(x)] /\ Settled(x)
                  => Settled(x)'
        /\ \A x \in unseen : Settled(x)'
    BY <1>3, <1>5, SettledStays
  <2>2. /\ file' \in [Files -> SignedFile \cup {Torn, Absent}]
        /\ file'[t] = y
        /\ \A x \in Files \ {t} : file'[x] = file[x]
    BY <1>4, <1>5
  <2>3. Settled(t)'
    <3>1. CASE t \in unseen
      BY <2>1, <3>1
    <3>2. CASE y = [file[t] EXCEPT !.by = by]
      <4>1. y \in SignedFile /\ y.by = by
        BY <1>1, <3>2 DEF SignedFile
      <4>2. IsWhole(file'[t]) /\ (Signed(file'[t]) <=> by # 0)
        BY <2>2, <4>1, TornAndAbsentAreNoFiles DEF IsWhole, Signed
      <4>3. DoneWith(t)'
        BY <1>1, <2>1, <2>2, <4>1, <4>2 DEF DoneWith, TargetKey
      <4> QED
        BY <4>3 DEF Settled
    <3> QED
      BY <1>5, <3>1, <3>2
  <2>4. ASSUME NEW x \in Files, Settled(x)
        PROVE  Settled(x)'
    <3>1. CASE x = t
      BY <2>3, <3>1
    <3>2. CASE x # t
      BY <2>1, <2>2, <2>4, <3>2
    <3> QED
      BY <3>1, <3>2
  <2>5. \A k \in u : Opens(k)'
    BY <1>2, <2>1 DEF Opens
  <2>6. RestIsDone /\ cmd.op \notin {"none", "check"} /\ TRUE \in BOOLEAN
    BY DEF IInv
  <2>7. /\ cmd' \in FileCommands
        /\ BackedUpIsReady' /\ KeyIsBackedUp' /\ UnlockedAreOpened' /\ RestIsDone'
    BY <1>1, <1>3, <1>5, <2>3, <2>4, <2>5, <2>6, PassesKeepsInvariant
    DEF FileCommands
  <2>8. Typed'
    BY <1>5, <2>2, <2>7 DEF IInv, Typed, Passes
  <2> QED
    BY <2>7, <2>8 DEF IInv
<1>6. CASE /\ file' = [file EXCEPT ![Target].by = by]
           /\ Handled(TRUE, NowUnlocked(TargetKey))
  <2>1. Passes(TRUE, u, cmd.unseen) /\ cmd.unseen \in SUBSET Files
    BY <1>2, <1>3, <1>6, TargetsPass
  <2>2. PICK y : y = [file[t] EXCEPT !.by = by]
    OBVIOUS
  <2>3. y \in SignedFile
    BY <1>1, <2>2 DEF SignedFile
  <2>4. file' = [file EXCEPT ![t] = y]
    BY <1>1, <1>6, <2>2
  <2> QED
    BY <1>5, <2>1, <2>2, <2>3, <2>4
<1>7. CASE /\ file' = [file EXCEPT ![Target] = Torn]
           /\ TornUnseen(NowUnlocked(TargetKey))
  <2>1. /\ Passes(TRUE, u, cmd.unseen \cup {t})
        /\ cmd.unseen \cup {t} \in SUBSET Files /\ t \in cmd.unseen \cup {t}
    BY <1>1, <1>2, <1>3, <1>7, TargetsPass
  <2>2. cmd.unseen \subseteq cmd.unseen \cup {t}
    OBVIOUS
  <2> QED
    BY <1>1, <1>5, <1>7, <2>1, <2>2
<1>8. CASE /\ file' = [file EXCEPT ![Target] = Torn]
           /\ failure \/ Over("died")
  <2>1. file' \in [Files -> SignedFile \cup {Torn, Absent}]
    BY <1>4, <1>8
  <2>2. CASE Over("error") \/ Over("died")
    BY <2>1, <2>2, OverKeepsInvariant DEF IInv, Typed
  <2>3. CASE cmd.op = "remove" /\ Handled(FALSE, NowUnlocked(TargetKey))
    BY <1>2, <2>1, <2>3, FailedTargetKeepsInvariant
  <2> QED
    BY <1>8, <2>2, <2>3
<1> QED
  BY <1>6, <1>7, <1>8 DEF Rewrite

\* --encrypt looks at a file.
LEMMA CheckFileKeepsInvariant ==
  ASSUME IInv, CheckFile
  PROVE  IInv'
<1>1. /\ cmd.op = "check" /\ cmd.todo # << >>
      /\ UNCHANGED <<key, keyBak, file, fileBak, pairs, exit, runs>>
  BY DEF CheckFile, OnFile
<1>2. /\ cmd \in Commands({"remove", "check", "encrypt"}, Files, BOOLEAN)
      /\ cmd.todo \in Seq(Files) /\ cmd.good \in Seq(Files)
  BY <1>1, FileCommandFacts DEF Commands
<1>3. PICK t \in Files : t = Target
  BY <1>1, FileCommandFacts
<1>4. /\ Tail(cmd.todo) \in Seq(Files)
      /\ ToSet(cmd.todo) = {t} \cup ToSet(Tail(cmd.todo))
  BY <1>1, <1>2, <1>3, ListStep DEF Target
<1>5. PICK isGood \in BOOLEAN :
        cmd' = [cmd EXCEPT !.todo = Tail(@), !.ok = @ /\ isGood,
                           !.good = IF isGood THEN Append(@, t) ELSE @]
  <2>1. PICK hasHeader :
          LET isGood == hasHeader /\ IsWhole(key[TargetKey])
          IN  cmd' = [cmd EXCEPT !.todo = Tail(@), !.ok = @ /\ isGood,
                                 !.good = IF isGood THEN Append(@, t) ELSE @]
    BY <1>3 DEF CheckFile
  <2> QED
    BY <2>1
<1>6. PICK good \in Seq(Files) :
        /\ good = IF isGood THEN Append(cmd.good, t) ELSE cmd.good
        /\ ToSet(good) = ToSet(cmd.good) \cup (IF isGood THEN {t} ELSE {})
  BY ZenonT(30), <1>2, <1>3, ListAppend
<1>7. /\ cmd' \in FileCommands
      /\ cmd'.op = "check" /\ cmd'.todo = Tail(cmd.todo) /\ cmd'.good = good
      /\ cmd'.ok = (cmd.ok /\ isGood) /\ cmd'.given = cmd.given
      /\ cmd'.knows = cmd.knows /\ cmd'.unlocked = cmd.unlocked
      /\ cmd'.backedUp = cmd.backedUp
  BY <1>1, <1>2, <1>4, <1>5, <1>6 DEF FileCommands, Commands
<1>8. Typed'
  BY <1>1, <1>7 DEF IInv, Typed
<1>9. BackedUpIsReady' /\ KeyIsBackedUp'
  <2>1. ~cmd.backedUp
    BY <1>1 DEF IInv, BackedUpIsReady
  <2> QED
    BY <1>7, <2>1 DEF BackedUpIsReady, KeyIsBackedUp
<1>10. UnlockedAreOpened'
  BY <1>1, <1>7 DEF IInv, UnlockedAreOpened, Opens
<1>11. RestIsDone'
  <2>1. cmd.ok /\ isGood => Remaining' = Remaining
    BY <1>1, <1>4, <1>6, <1>7 DEF Remaining
  <2> QED
    BY <1>1, <1>2, <1>7, <2>1 DEF IInv, RestIsDone, Commands
<1> QED
  BY <1>8, <1>9, <1>10, <1>11 DEF IInv

\* --encrypt has looked at every file.
LEMMA CheckedKeepsInvariant ==
  ASSUME IInv, Checked
  PROVE  IInv'
<1>1. /\ cmd.op = "check" /\ cmd.todo = << >>
      /\ cmd' = [cmd EXCEPT !.op = "encrypt", !.todo = cmd.good]
      /\ UNCHANGED <<key, keyBak, file, fileBak, pairs, exit, runs>>
  BY DEF Checked
<1>2. cmd \in FileCommands
  BY <1>1, CommandKinds DEF IInv
<1>3. /\ cmd' \in FileCommands
      /\ cmd'.op = "encrypt" /\ cmd'.todo = cmd.good
      /\ cmd'.ok = cmd.ok /\ cmd'.given = cmd.given
      /\ cmd'.knows = cmd.knows /\ cmd'.unlocked = cmd.unlocked
      /\ cmd'.backedUp = cmd.backedUp
  BY <1>1, <1>2 DEF FileCommands, Commands
<1>4. Typed'
  BY <1>1, <1>3 DEF IInv, Typed
<1>5. BackedUpIsReady' /\ KeyIsBackedUp'
  BY <1>1, <1>3 DEF IInv, BackedUpIsReady, KeyIsBackedUp
<1>6. UnlockedAreOpened'
  BY <1>1, <1>3 DEF IInv, UnlockedAreOpened, Opens
<1>7. RestIsDone'
  <2>1. Remaining = ToSet(cmd.good) /\ Remaining' = ToSet(cmd.good)
    BY <1>1, <1>3, ListEmpty DEF Remaining
  <2> QED
    BY <1>1, <1>3, <2>1 DEF IInv, RestIsDone
<1> QED
  BY <1>4, <1>5, <1>6, <1>7 DEF IInv

\* The text is written, or the file torn.
LEMMA CreateWritesKeepsInvariant ==
  ASSUME IInv, CreateWrites
  PROVE  IInv'
<1>1. /\ cmd.op = "create" /\ cmd.todo # << >> /\ cmd.backedUp
      /\ UNCHANGED <<key, keyBak, fileBak, pairs, runs>>
  BY DEF CreateWrites, OnFile
<1>2. /\ cmd \in Commands({"create"}, TextFiles, [text : Text, plain : BOOLEAN])
      /\ cmd.todo \in Seq(TextFiles) /\ cmd.rest \in [text : Text, plain : BOOLEAN]
  BY <1>1, CommandKinds DEF IInv, CreateCommands, Commands
<1>3. PICK t \in TextFiles : t = Target
  BY <1>1, <1>2, ListStep DEF Target
<1>4. PICK x \in SignedFile :
        x = [by |-> IF cmd.rest.plain THEN 0 ELSE key["site"].pair, text |-> cmd.rest.text]
  <2>1. CASE cmd.rest.plain
    BY <1>2, <2>1 DEF SignedFile
  <2>2. CASE ~cmd.rest.plain
    <3>1. IsWhole(key["site"])
      BY <1>1, <2>2 DEF IInv, BackedUpIsReady, Opens
    <3>2. key["site"].pair \in Pairs
      BY <3>1 DEF IInv, Typed, IsWhole, KeyFile, Keys
    <3> QED
      BY <1>2, <2>2, <3>2 DEF SignedFile
  <2> QED
    BY <2>1, <2>2
<1>5. ASSUME NEW y \in SignedFile \cup {Torn}, NEW unseen \in SUBSET TextFiles,
             file' = [file EXCEPT ![t] = y], Passes(TRUE, {}, unseen),
             cmd.unseen \subseteq unseen, y = x \/ t \in unseen
      PROVE  IInv'
  <2>1. /\ file' \in [Files -> SignedFile \cup {Torn, Absent}]
        /\ file'[t] = y
        /\ \A z \in TextFiles \ {t} : file'[z] = file[z]
    BY <1>3, <1>5 DEF IInv, Typed, TextFiles
  <2>2. PICK R : R = [text : Text, plain : BOOLEAN]
    OBVIOUS
  <2>3. cmd \in Commands({"create"}, TextFiles, R)
    BY <1>2, <2>2
  <2>4. /\ cmd'.op = cmd.op /\ cmd'.rest = cmd.rest /\ cmd'.unseen = unseen
        /\ \A z \in unseen : Settled(z)'
    BY <1>1, <1>5, <2>3, SettledStays
  <2>5. Settled(t)'
    <3>1. CASE t \in unseen
      BY <2>4, <3>1
    <3>2. CASE y = x
      <4>1. DoneWith(t)'
        BY <1>1, <1>4, <2>1, <2>4, <3>2, TornAndAbsentAreNoFiles DEF DoneWith, IsWhole
      <4> QED
        BY <4>1 DEF Settled
    <3> QED
      BY <1>5, <3>1, <3>2
  <2>6. ASSUME NEW z \in TextFiles, Settled(z)
        PROVE  Settled(z)'
    <3>1. CASE z = t
      BY <2>5, <3>1
    <3>2. CASE z # t
      <4>1. file'[z] = file[z]
        BY <2>1, <3>2
      <4> QED
        BY <1>1, <1>5, <2>4, <2>6, <4>1 DEF Settled, DoneWith
    <3> QED
      BY <3>1, <3>2
  <2>7. /\ RestIsDone /\ cmd.op \notin {"none", "check"}
        /\ TRUE \in BOOLEAN /\ {} \in SUBSET Keys /\ cmd.todo # << >>
    BY <1>1 DEF IInv
  <2>8. /\ cmd' \in Commands({"create"}, TextFiles, R)
        /\ BackedUpIsReady' /\ KeyIsBackedUp' /\ UnlockedAreOpened' /\ RestIsDone'
    <3>1. PICK u \in SUBSET Keys : u = {}
      OBVIOUS
    <3>2. Passes(TRUE, u, unseen) /\ \A k \in u : Opens(k)'
      BY <1>5, <3>1
    <3> QED
      BY <1>3, <2>3, <2>5, <2>6, <2>7, <3>2, PassesKeepsInvariant
  <2>9. Typed'
    BY <1>1, <1>5, <2>1, <2>2, <2>8 DEF IInv, Typed, Passes, CreateCommands
  <2> QED
    BY <2>8, <2>9 DEF IInv
<1>6. CASE file' = [file EXCEPT ![t] = x] /\ Handled(TRUE, {})
  <2>1. Passes(TRUE, {}, cmd.unseen) /\ cmd.unseen \in SUBSET TextFiles
    BY <1>1, <1>2, <1>6, TargetsPass
  <2> QED
    BY <1>5, <1>6, <2>1
<1>7. CASE file' = [file EXCEPT ![t] = Torn] /\ TornUnseen({})
  <2>1. /\ Passes(TRUE, {}, cmd.unseen \cup {t})
        /\ cmd.unseen \cup {t} \in SUBSET TextFiles
    <3>1. PICK R : R = [text : Text, plain : BOOLEAN]
      OBVIOUS
    <3>2. cmd \in Commands({"create"}, TextFiles, R)
      BY <1>2, <3>1
    <3>3. PICK u : u = {}
      OBVIOUS
    <3>4. TornUnseen(u) => Passes(TRUE, u, cmd.unseen \cup {Target})
      BY <1>1, <3>2, TargetsPass
    <3>5. cmd.unseen \cup {Target} \in SUBSET TextFiles
      BY <1>1, <3>2, TargetsPass
    <3> QED
      BY <1>3, <1>7, <3>3, <3>4, <3>5
  <2> QED
    BY <1>5, <1>7, <2>1
<1>8. CASE file' = [file EXCEPT ![t] = Torn] /\ (Over("error") \/ Over("died"))
  <2>1. file' \in [Files -> SignedFile \cup {Torn, Absent}]
    BY <1>8 DEF IInv, Typed
  <2> QED
    BY <1>1, <1>8, <2>1, OverKeepsInvariant DEF IInv, Typed
<1> QED
  BY <1>3, <1>4, <1>6, <1>7, <1>8 DEF CreateWrites

-----------------------------------------------------------------------------

\* The key files a command can be given.
LEMMA KeyListsAreOfKeys ==
  ASSUME NEW ks \in KeyLists
  PROVE  ks \in Seq(Keys)
<1>1. "site" \in Keys /\ "local" \in Keys
  BY DEF Keys
<1>2. <<"site">> \in Seq(Keys) /\ <<"local">> \in Seq(Keys) /\ <<"site", "local">> \in Seq(Keys)
  BY <1>1
<1> QED
  BY <1>2 DEF KeyLists

\* Every step keeps the invariant.
LEMMA NextKeepsInvariant ==
  ASSUME IInv, [Next]_vars
  PROVE  IInv'
<1> USE DEF IInv
<1>1. CASE GenerateKeys
  <2>1. PICK ks \in KeyLists, new \in Pass : Start("generate", ks, new)
    BY <1>1 DEF GenerateKeys
  <2>2. ks \in Seq(Keys)
    BY KeyListsAreOfKeys
  <2> QED
    BY <2>1, <2>2, StartKeepsInvariant
<1>2. CASE ChangePassphrases
  <2>1. PICK ks \in KeyLists, new \in Pass : Start("change", ks, new)
    BY <1>2 DEF ChangePassphrases
  <2>2. ks \in Seq(Keys)
    BY KeyListsAreOfKeys
  <2> QED
    BY <2>1, <2>2, StartKeepsInvariant
<1>3. CASE RemoveEncryption
  <2>1. PICK fs \in Lists, late \in BOOLEAN : Start("remove", fs, late)
    BY <1>3 DEF RemoveEncryption
  <2> QED
    BY <2>1, ListsAreOfFiles, StartKeepsInvariant
<1>4. CASE Encrypt
  <2>1. PICK fs \in Lists, late \in BOOLEAN : Start("check", fs, late)
    BY <1>4 DEF Encrypt
  <2> QED
    BY <2>1, ListsAreOfFiles, StartKeepsInvariant
<1>5. CASE Create
  <2>1. PICK f \in TextFiles, text \in Text, plain \in BOOLEAN :
          Start("create", <<f>>, [text |-> text, plain |-> plain])
    BY <1>5 DEF Create, TextFiles
  <2>2. <<f>> \in Seq(TextFiles)
    OBVIOUS
  <2> QED
    BY <2>1, <2>2, StartKeepsInvariant
<1>6. CASE BackupKey
  <2>1. /\ cmd.op \in {"generate", "change"} /\ cmd.todo # << >>
        /\ UNCHANGED <<key, file, fileBak, pairs, runs>>
    BY <1>6 DEF BackupKey, OnKey
  <2>2. PICK b \in BackupFile(keyBak[Target], key[Target]) :
          /\ keyBak' = [keyBak EXCEPT ![Target] = b]
          /\ BackedUp(b)
    BY <1>6 DEF BackupKey
  <2>3. cmd.todo \in Seq(Keys)
    BY <2>1, CommandKinds DEF KeyCommands, Commands
  <2>4. Target \in Keys
    BY <2>1, <2>3, ListStep DEF Target
  <2>5. b \in KeyFile \cup {Torn, Absent}
    BY <2>4 DEF BackupFile, Typed
  <2>6. keyBak' \in [Keys -> KeyFile \cup {Torn, Absent}] /\ keyBak'[Target] = b
    BY <2>2, <2>4, <2>5 DEF Typed
  <2>7. IsWhole(key[Target]) => b \in {key[Target], Torn}
    BY <2>2 DEF BackupFile, IsWhole
  <2> QED
    BY <2>1, <2>2, <2>6, <2>7, BackedUpKeepsInvariant DEF Typed
<1>7. CASE KeyCommandFails
  BY <1>7, OverKeepsInvariant DEF KeyCommandFails, Fail, Typed
<1>8. CASE GenerateKey
  <2>1. /\ cmd.op = "generate" /\ cmd.todo # << >>
        /\ pairs < MaxPair /\ pairs' = pairs + 1
        /\ WriteKey([pair |-> pairs + 1, pass |-> cmd.rest])
        /\ UNCHANGED <<keyBak, file, fileBak, runs>>
    BY <1>8 DEF GenerateKey, OnKey
  <2>2. cmd.rest \in Pass
    BY <2>1, CommandKinds DEF KeyCommands, Commands
  <2>3. pairs + 1 \in Pairs /\ pairs' \in 0 .. MaxPair
    BY <2>1, RoomForTheFirstKeys DEF Typed, Pairs
  <2>4. [pair |-> pairs + 1, pass |-> cmd.rest] \in KeyFile
    BY <2>2, <2>3 DEF KeyFile
  <2> QED
    BY <2>1, <2>3, <2>4, WriteKeyKeepsInvariant
<1>9. CASE ChangePassphrase
  <2>1. /\ cmd.op = "change" /\ cmd.todo # << >> /\ Opens(Target)
        /\ WriteKey([key[Target] EXCEPT !.pass = cmd.rest])
        /\ UNCHANGED <<keyBak, file, fileBak, pairs, runs>>
    BY <1>9 DEF ChangePassphrase, OnKey
  <2>2. cmd.todo \in Seq(Keys) /\ cmd.rest \in Pass
    BY <2>1, CommandKinds DEF KeyCommands, Commands
  <2>3. Target \in Keys
    BY <2>1, <2>2, ListStep DEF Target
  <2>4. key[Target] \in KeyFile
    BY <2>1, <2>3 DEF Opens, IsWhole, Typed
  <2>5. PICK x : x = [key[Target] EXCEPT !.pass = cmd.rest]
    OBVIOUS
  <2>6. x \in KeyFile /\ x.pass = cmd.rest
    BY <2>2, <2>4, <2>5 DEF KeyFile
  <2> QED
    BY <2>1, <2>5, <2>6, WriteKeyKeepsInvariant DEF Typed
<1>10. CASE RemoveSkips
  <2>1. /\ cmd.op = "remove" /\ cmd.todo # << >> /\ Handled(FALSE, cmd.unlocked)
        /\ UNCHANGED <<key, keyBak, file, fileBak, pairs, runs>>
    BY <1>10 DEF RemoveSkips, OnFile, Reported
  <2> QED
    BY <2>1, FileCommandFacts, FailedTargetKeepsInvariant DEF UnlockedAreOpened, Typed
<1>11. CASE RemoveFails
  BY <1>11, OverKeepsInvariant DEF RemoveFails, Fail, Typed
<1>12. CASE RemoveCannotRead
  <2>1. /\ cmd.op = "remove" /\ cmd.todo # << >> /\ Unlocks(TargetKey)
        /\ Handled(FALSE, NowUnlocked(TargetKey))
        /\ UNCHANGED <<key, keyBak, file, fileBak, pairs, runs>>
    BY <1>12 DEF RemoveCannotRead, OnFile
  <2>2. PICK u \in SUBSET Keys : u = NowUnlocked(TargetKey) /\ \A k \in u : Opens(k)
    BY <2>1, FileCommandFacts, UnlockOpens
  <2> QED
    BY <2>1, <2>2, FailedTargetKeepsInvariant DEF Typed
<1>13. CASE RemoveWrites
  <2>1. /\ cmd.op = "remove" /\ cmd.todo # << >> /\ Signed(file[Target])
        /\ Unlocks(TargetKey)
        /\ Rewrite(0, Handled(FALSE, NowUnlocked(TargetKey)))
        /\ UNCHANGED <<key, keyBak, fileBak, pairs, runs>>
    BY <1>13 DEF RemoveWrites, OnFile
  <2>2. file[Target] \in SignedFile
    BY <2>1, FileCommandFacts DEF Signed, IsWhole, Typed
  <2> QED
    BY <2>1, <2>2, RewriteKeepsInvariant
<1>14. CASE CheckFile
  BY <1>14, CheckFileKeepsInvariant
<1>15. CASE Checked
  BY <1>15, CheckedKeepsInvariant
<1>16. CASE EncryptSkips
  <2>1. /\ cmd.op = "encrypt" /\ cmd.todo # << >> /\ Handled(FALSE, cmd.unlocked)
        /\ UNCHANGED <<key, keyBak, file, fileBak, pairs, runs>>
    BY <1>16 DEF EncryptSkips, OnFile, Reported
  <2> QED
    BY <2>1, FileCommandFacts, FailedTargetKeepsInvariant DEF UnlockedAreOpened, Typed
<1>17. CASE EncryptFails
  BY <1>17, OverKeepsInvariant DEF EncryptFails, Fail, Typed
<1>26. CASE EncryptCannotRead
  <2>1. /\ cmd.op = "encrypt" /\ cmd.todo # << >>
        /\ UNCHANGED <<key, keyBak, file, fileBak, pairs, runs>>
    BY <1>26 DEF EncryptCannotRead, OnFile
  <2>2. CASE Over("error")
    BY <2>1, <2>2, OverKeepsInvariant DEF Typed
  <2>3. CASE Handled(FALSE, cmd.unlocked)
    BY <2>1, <2>3, FileCommandFacts, FailedTargetKeepsInvariant DEF UnlockedAreOpened, Typed
  <2>4. CASE Target \in cmd.unseen /\ Handled(TRUE, cmd.unlocked)
    BY <2>1, <2>4, FileCommandFacts, FailedTargetKeepsInvariant DEF UnlockedAreOpened, Typed
  <2> QED
    BY <1>26, <2>2, <2>3, <2>4 DEF EncryptCannotRead, Reported
<1>18. CASE EncryptWrites
  <2>1. /\ cmd.op = "encrypt" /\ cmd.todo # << >> /\ Unlocks(TargetKey)
        /\ Rewrite(key[TargetKey].pair, Over("error"))
        /\ UNCHANGED <<key, keyBak, fileBak, pairs, runs>>
    BY <1>18 DEF EncryptWrites, OnFile
  <2>3. file[Target] \in SignedFile
    BY <1>18, <2>1, FileCommandFacts DEF EncryptWrites, IsWhole, Typed
  <2>4. key[TargetKey] \in KeyFile
    BY <2>1, FileCommandFacts DEF Unlocks, IsWhole, Typed
  <2>5. key[TargetKey].pair \in Pairs /\ key[TargetKey].pair # 0
    BY <2>4 DEF KeyFile, Pairs
  <2> QED
    BY <2>1, <2>3, <2>5, RewriteKeepsInvariant
<1>19. CASE CreateQueuesError
  BY <1>19, OverKeepsInvariant DEF CreateQueuesError, Typed
<1>20. CASE CreateFails
  BY <1>20, OverKeepsInvariant DEF CreateFails, Fail, Typed
<1>21. CASE CreateBacksUp
  <2>1. /\ cmd.op = "create" /\ cmd.todo # << >>
        /\ ~cmd.rest.plain => Opens("site")
        /\ UNCHANGED <<key, keyBak, file, pairs, runs>>
    BY <1>21 DEF CreateBacksUp, OnFile
  <2>2. PICK b \in BackupFile(fileBak[Target], file[Target]) :
          /\ fileBak' = [fileBak EXCEPT ![Target] = b]
          /\ BackedUp(b)
    BY <1>21 DEF CreateBacksUp
  <2>3. cmd.todo \in Seq(TextFiles)
    BY <2>1, CommandKinds DEF CreateCommands, Commands
  <2>4. Target \in Files
    BY <2>1, <2>3, ListStep DEF Target, TextFiles
  <2>5. b \in SignedFile \cup {Torn, Absent}
    BY <2>4 DEF BackupFile, Typed
  <2>6. fileBak' \in [Files -> SignedFile \cup {Torn, Absent}]
    BY <2>2, <2>5 DEF Typed
  <2> QED
    BY <2>1, <2>2, <2>6, BackedUpKeepsInvariant DEF Typed
<1>22. CASE CreateWrites
  BY <1>22, CreateWritesKeepsInvariant
<1>23. CASE Finish
  <2>1. PICK code \in {"ok", "error"} : Over(code)
    BY <1>23 DEF Finish
  <2> QED
    BY <1>23, <2>1, OverKeepsInvariant DEF Finish, Typed
<1>24. CASE Die
  BY <1>24, OverKeepsInvariant DEF Die, Typed
<1>25. CASE UNCHANGED vars
  <2>1. /\ Opens("site")' = Opens("site") /\ Target' = Target
        /\ Remaining' = Remaining
        /\ \A k \in cmd.unlocked : Opens(k)' = Opens(k)
        /\ \A i \in DOMAIN cmd.given : Settled(cmd.given[i])' = Settled(cmd.given[i])
    BY <1>25 DEF vars, Opens, Target, Remaining, Settled, DoneWith
  <2> QED
    BY <1>25, <2>1
    DEF vars, Typed, BackedUpIsReady, KeyIsBackedUp, UnlockedAreOpened, RestIsDone
<1> QED
  BY <1>1, <1>2, <1>3, <1>4, <1>5, <1>6, <1>7, <1>8, <1>9, <1>10, <1>11, <1>12, <1>13,
     <1>14, <1>15, <1>16, <1>17, <1>18, <1>19, <1>20, <1>21, <1>22, <1>23, <1>24, <1>25, <1>26
  DEF Next

\* Each command keeps its own kind of targets, and what it still has to do is
\* as far along as the files show (the Execute functions of twadmincl.cpp).
THEOREM InductiveInvariant == Spec => []IInv
<1>1. Init => IInv
  BY InitEstablishesInvariant
<1>2. IInv /\ [Next]_vars => IInv'
  BY NextKeepsInvariant
<1> QED
  BY <1>1, <1>2, PTL DEF Spec

\* The types of the variables, which the invariant makes more precise.
LEMMA InvariantTypes ==
  ASSUME IInv
  PROVE  TypeOK
<1>1. ToSet(cmd.todo) \subseteq Keys \cup Files
  <2>1. cmd.todo \in Seq(Keys) \/ cmd.todo \in Seq(Files) \/ cmd.todo \in Seq(TextFiles)
        \/ cmd.todo = << >>
    BY CommandKinds DEF IInv, KeyCommands, FileCommands, CreateCommands, Commands, Idle
  <2>2. ASSUME NEW S, S \subseteq Keys \cup Files, cmd.todo \in Seq(S)
        PROVE  ToSet(cmd.todo) \subseteq Keys \cup Files
    BY <2>2, ElementOfSeq, LenProperties DEF ToSet
  <2>3. TextFiles \subseteq Keys \cup Files
    BY DEF TextFiles
  <2> QED
    BY <2>1, <2>2, <2>3, ListEmpty
<1>2. cmd.op # "none" => cmd.unlocked \subseteq Keys /\ cmd.unseen \subseteq Keys \cup Files
  BY CommandKinds DEF IInv, KeyCommands, FileCommands, CreateCommands, Commands, TextFiles
<1>3. cmd.op \in {"none", "generate", "change", "remove", "check", "encrypt", "create"}
  BY CommandKinds DEF IInv
<1>4. \A k \in Keys : {key[k], keyBak[k]} \subseteq KeyFile \cup {Torn, Absent}
  BY DEF IInv, Typed
<1>5. \A f \in Files : {file[f], fileBak[f]} \subseteq SignedFile \cup {Torn, Absent}
  BY DEF IInv, Typed
<1> QED
  BY <1>1, <1>2, <1>3, <1>4, <1>5 DEF IInv, Typed, BackedUpIsReady, TypeOK

\* Key files, signed files, commands and counters keep their types, and a
\* backup is only ever ready for a target that is still to be written.
THEOREM TypeCorrect == Spec => []TypeOK
<1>1. IInv => TypeOK
  BY InvariantTypes
<1> QED
  BY <1>1, InductiveInvariant, PTL

-----------------------------------------------------------------------------

\* A rewritten file is signed, or no longer signed, by a holder of its key.
LEMMA RewriteNeedsHolder ==
  ASSUME IInv, cmd.op \in {"remove", "encrypt"}, cmd.todo # << >>,
         Unlocks(TargetKey), NEW by, NEW failure, Rewrite(by, failure),
         file[Target] \in SignedFile,
         by # 0 => by = key[TargetKey].pair,
         cmd.op = "remove" => key[TargetKey].pair = file[Target].by,
         NEW f \in Files, file'[f] # file[f]
  PROVE  /\ Signed(file'[f]) => IsHolder(KeyOf(f), file'[f].by)
         /\ cmd.op = "remove" /\ IsWhole(file'[f]) => IsHolder(KeyOf(f), file[f].by)
<1>1. Target \in Files /\ TargetKey \in Keys /\ Opens(TargetKey)
  BY FileCommandFacts, UnlockOpens
<1>2. file \in [Files -> SignedFile \cup {Torn, Absent}]
  BY DEF IInv, Typed
<1>3. CASE file' = [file EXCEPT ![Target].by = by]
  <2>1. f = Target /\ file'[f] = [file[f] EXCEPT !.by = by]
    BY <1>1, <1>2, <1>3
  <2>2. file'[f].by = by
    BY <2>1 DEF SignedFile
  <2> QED
    BY <1>1, <2>1, <2>2 DEF Signed, IsHolder, TargetKey
<1>4. CASE file' = [file EXCEPT ![Target] = Torn]
  <2>1. file'[f] = Torn
    BY <1>1, <1>2, <1>4
  <2> QED
    BY <2>1 DEF Signed, IsWhole
<1> QED
  BY <1>3, <1>4 DEF Rewrite

\* Only those who gave the passphrase of the very pair sign a file or take its
\* signature off: a passphrase remembered from one file is used for another
\* only if it is the same key's, and nothing in between replaces the key file
\* (userKnowsSitePassphrase, userKnowsLocalPassphrase).
THEOREM SigningNeedsThePassphrase == Spec => SignaturesNeedThePassphrase
<1> DEFINE Signers ==
      \A f \in Files : file'[f] # file[f] =>
        /\ Signed(file'[f]) => IsHolder(KeyOf(f), file'[f].by)
        /\ cmd.op = "remove" /\ IsWhole(file'[f]) => IsHolder(KeyOf(f), file[f].by)
<1>1. ASSUME IInv, Next
      PROVE  Signers
  <2> SUFFICES ASSUME NEW f \in Files, file'[f] # file[f]
               PROVE  /\ Signed(file'[f]) => IsHolder(KeyOf(f), file'[f].by)
                      /\ cmd.op = "remove" /\ IsWhole(file'[f])
                           => IsHolder(KeyOf(f), file[f].by)
    OBVIOUS
  <2>1. CASE RemoveWrites
    <3>1. /\ cmd.op = "remove" /\ cmd.todo # << >> /\ Unlocks(TargetKey)
          /\ Signed(file[Target]) /\ key[TargetKey].pair = file[Target].by
          /\ Rewrite(0, Handled(FALSE, NowUnlocked(TargetKey)))
      BY <2>1 DEF RemoveWrites, OnFile, IsMismatch, TargetKey
    <3>2. file[Target] \in SignedFile
      BY <1>1, <3>1, FileCommandFacts DEF Signed, IsWhole, IInv, Typed
    <3> QED
      BY <1>1, <3>1, <3>2, RewriteNeedsHolder
  <2>2. CASE EncryptWrites
    <3>1. /\ cmd.op = "encrypt" /\ cmd.todo # << >> /\ Unlocks(TargetKey)
          /\ Rewrite(key[TargetKey].pair, Over("error"))
      BY <2>2 DEF EncryptWrites, OnFile
    <3>2. file[Target] \in SignedFile
      BY <1>1, <2>2, <3>1, FileCommandFacts DEF EncryptWrites, IInv, IsWhole, Typed
    <3> QED
      BY <1>1, <3>1, <3>2, RewriteNeedsHolder
  <2>3. CASE CreateWrites
    <3>1. /\ cmd.op = "create" /\ cmd.todo # << >> /\ cmd.backedUp
      BY <2>3 DEF CreateWrites, OnFile
    <3>2. cmd.todo \in Seq(TextFiles)
      BY <1>1, <3>1, CommandKinds DEF IInv, CreateCommands, Commands
    <3>3. Target \in TextFiles
      BY <3>1, <3>2, ListStep DEF Target
    <3>4. KeyOf(Target) = "site"
      BY <3>3 DEF TextFiles, KeyOf, UseSiteKey
    <3>5. CASE file' = [file EXCEPT ![Target] =
                          [by   |-> IF cmd.rest.plain THEN 0 ELSE key["site"].pair,
                           text |-> cmd.rest.text]]
      <4>1. f = Target
        BY <1>1, <3>5 DEF IInv, Typed
      <4>2. file'[f].by = IF cmd.rest.plain THEN 0 ELSE key["site"].pair
        BY <1>1, <3>5, <4>1 DEF IInv, Typed
      <4>3. Signed(file'[f]) => ~cmd.rest.plain
        BY <4>2 DEF Signed
      <4> QED
        BY <1>1, <3>1, <3>4, <4>1, <4>2, <4>3 DEF IInv, BackedUpIsReady, IsHolder
    <3>6. CASE file' = [file EXCEPT ![Target] = Torn]
      <4>1. file'[f] = Torn
        BY <1>1, <3>6 DEF IInv, Typed
      <4> QED
        BY <3>1, <4>1 DEF Signed, IsWhole
    <3> QED
      BY <2>3, <3>5, <3>6 DEF CreateWrites
  <2>4. CASE ~RemoveWrites /\ ~EncryptWrites /\ ~CreateWrites
    <3>1. file' = file
      BY <1>1, <2>4
      DEF Next, GenerateKeys, ChangePassphrases, RemoveEncryption, Encrypt, Create,
          Start, BackupKey, KeyCommandFails, GenerateKey, ChangePassphrase, RemoveSkips,
          RemoveFails, RemoveCannotRead, CheckFile, Checked, EncryptSkips, EncryptFails,
          EncryptCannotRead, CreateQueuesError, CreateFails, CreateBacksUp, Finish, Die, Fail
    <3> QED
      BY <3>1
  <2> QED
    BY <2>1, <2>2, <2>3, <2>4
<1>2. IInv /\ [Next]_vars => [Signers]_vars
  BY <1>1
<1> QED
  BY <1>2, InductiveInvariant, PTL DEF Spec, SignaturesNeedThePassphrase

\* A key pair that is in use is in the key file or its backup after every
\* step of --generate-keys and --change-passphrases, also one that is cut
\* short: what WriteFile truncates, BackupFile has copied, whole unless the
\* copy's own fclose failed.
THEOREM PairsSurvive == Spec => OnlyBackupsForgetPairs
<1> DEFINE Keeps ==
      \A k \in Keys, pair \in Pairs :
        /\ Holds(key[k], pair) =>
             Holds(key'[k], pair) \/ Holds(keyBak'[k], pair) \/ keyBak'[k] = Torn
        /\ Holds(keyBak[k], pair) /\ key'[k] # key[k] => Holds(keyBak'[k], pair)
<1>1. ASSUME IInv, Next
      PROVE  Keeps
  <2> SUFFICES ASSUME NEW k \in Keys, NEW pair \in Pairs
               PROVE  /\ Holds(key[k], pair)
                           => \/ Holds(key'[k], pair) \/ Holds(keyBak'[k], pair)
                              \/ keyBak'[k] = Torn
                      /\ Holds(keyBak[k], pair) /\ key'[k] # key[k]
                           => Holds(keyBak'[k], pair)
    OBVIOUS
  <2>1. CASE GenerateKey \/ ChangePassphrase
    <3>1. /\ cmd.op \in {"generate", "change"} /\ cmd.todo # << >> /\ cmd.backedUp
          /\ keyBak' = keyBak
      BY <2>1 DEF GenerateKey, ChangePassphrase, OnKey
    <3>2. \E x : key' = [key EXCEPT ![Target] = x]
      BY <2>1 DEF GenerateKey, ChangePassphrase, WriteKey
    <3>3. k # Target => key'[k] = key[k]
      BY <1>1, <3>2 DEF IInv, Typed
    <3>4. Holds(key[k], pair) /\ k = Target => keyBak[k] \in {key[k], Torn}
      BY <1>1, <3>1 DEF IInv, KeyIsBackedUp, Holds
    <3> QED
      BY <3>1, <3>3, <3>4
  <2>2. CASE ~GenerateKey /\ ~ChangePassphrase
    <3>1. key' = key
      BY <1>1, <2>2
      DEF Next, GenerateKeys, ChangePassphrases, RemoveEncryption, Encrypt, Create,
          Start, BackupKey, KeyCommandFails, RemoveSkips, RemoveFails, RemoveCannotRead,
          RemoveWrites, CheckFile, Checked, EncryptSkips, EncryptFails, EncryptWrites,
          EncryptCannotRead, CreateQueuesError, CreateFails, CreateBacksUp, CreateWrites, Finish, Die, Fail
    <3> QED
      BY <3>1
  <2> QED
    BY <2>1, <2>2
<1>2. IInv /\ [Next]_vars => [Keeps]_vars
  BY <1>1
<1> QED
  BY <1>2, InductiveInvariant, PTL DEF Spec, OnlyBackupsForgetPairs

\* A command on several files that ends with exit code 0 and no error queued has
\* done what it was asked to every one of them, or tore it in an fclose whose
\* failure cFile does not report (bResult in the Execute functions).
THEOREM ExitCodeIsHonest == Spec => ExitOkMeansDone
<1> DEFINE Honest ==
      cmd.op # "none" /\ cmd'.op = "none" /\ exit' = "ok" =>
        \A i \in DOMAIN cmd.given : DoneWith(cmd.given[i]) \/ cmd.given[i] \in cmd.unseen
<1>1. ASSUME IInv, Next
      PROVE  Honest
  <2> SUFFICES ASSUME cmd.op # "none", cmd'.op = "none", exit' = "ok"
               PROVE  \A i \in DOMAIN cmd.given : DoneWith(cmd.given[i]) \/ cmd.given[i] \in cmd.unseen
    OBVIOUS
  <2>1. cmd \in KeyCommands \cup FileCommands \cup CreateCommands
    BY <1>1, CommandKinds DEF IInv, Typed
  <2>2. ASSUME NEW ok, NEW u
        PROVE  ~Handled(ok, u) /\ ~TornUnseen(u)
    BY <2>1 DEF Handled, TornUnseen, KeyCommands, FileCommands, CreateCommands, Commands
  <2>3. ~Over("error") /\ ~Over("died") /\ ~Over("queued") /\ ~Fail
    BY DEF Over, Fail
  <2>4. ASSUME NEW b
        PROVE  ~BackedUp(b)
    BY <2>1, <2>3 DEF BackedUp, KeyCommands, FileCommands, CreateCommands, Commands
  <2>5. ~CheckFile /\ ~Checked
    BY <2>1
    DEF CheckFile, Checked, OnFile, KeyCommands, FileCommands, CreateCommands, Commands
  <2>6. Finish
    BY <1>1, <2>2, <2>3, <2>4, <2>5
    DEF Next, GenerateKeys, ChangePassphrases, RemoveEncryption, Encrypt, Create,
        Start, BackupKey, KeyCommandFails, GenerateKey, ChangePassphrase, RemoveSkips,
        RemoveFails, RemoveCannotRead, RemoveWrites, EncryptSkips, EncryptFails,
        EncryptCannotRead, EncryptWrites, CreateQueuesError, CreateFails, CreateBacksUp, CreateWrites,
        Finish, Die, WriteKey, Rewrite
  <2>7. cmd.todo = << >> /\ cmd.op # "check" /\ cmd.ok
    BY <2>6 DEF Finish, Over
  <2>8. Remaining = {}
    BY <2>7, ListEmpty DEF Remaining
  <2> QED
    BY <1>1, <2>7, <2>8 DEF IInv, RestIsDone, Settled
<1>2. IInv /\ [Next]_vars => [Honest]_vars
  BY <1>1
<1> QED
  BY <1>2, InductiveInvariant, PTL DEF Spec, ExitOkMeansDone

=============================================================================
