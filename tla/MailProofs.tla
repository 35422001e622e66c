------------------------------ MODULE MailProofs ------------------------------
(***************************************************************************)
(* Proofs about Mail for any addresses, lists of them and methods, and     *)
(* whatever the server and the network do.                                 *)
(***************************************************************************)
EXTENDS Mail, DataLemmas

\* The lists do not change, and name addresses.
JobIsTyped ==
  job \in [method : Methods, mailNoViolations : BOOLEAN, rules : Seq(Address),
           globals : Seq(Address), hit : SUBSET Address, any : BOOLEAN,
           hasName : BOOLEAN]

\* Who is served in a round.
Listed(round) == ToSet(IF round = "rules" THEN job.rules ELSE job.globals)

\* Who is still to be served, or being served, in this round.
PendingPairs ==
  IF Mailing THEN {<<stage, a>> : a \in ToSet(pending)} ELSE {}

\* Nobody is pending twice, and whoever is pending has not been announced yet,
\* but for the one a connection is open for.
PendingIsFresh ==
  Mailing =>
    /\ IsInjective(pending)
    /\ ToSet(pending) \subseteq Listed(stage)
    /\ \A a \in ToSet(pending) :
         <<stage, a>> \in ToSet(notified) => waiting # 0 /\ a = To

\* Nobody of GLOBALEMAIL is announced in the first round.
RoundsInOrder ==
  stage = "rules" => \A p \in ToSet(notified) : p[1] = "rules"

\* A connection is open for someone who was announced.
ServedIsAnnounced ==
  waiting # 0 => Mailing /\ pending # << >> /\ Now \in ToSet(notified)

\* Nobody is announced twice.
AnnouncedOnce == IsInjective(notified)

\* Whom the report does not concern is not announced.
OnlyConcerned ==
  ToSet(notified) \subseteq Concerned("rules") \cup Concerned("global")

\* What was taken was announced.
TakenWereAnnounced == accepted \subseteq ToSet(notified)

\* Whom the rules concern has had a try, or will.
RulesAreTried ==
  stage # "aborted" => Concerned("rules") \subseteq ToSet(notified) \cup errors \cup PendingPairs

\* As long as every answer comes when and as it should, there is one answer to
\* one command, and a good one to the text means that the message was taken.
InStep ==
  waiting # 0 /\ Undisturbed =>
    \/ sent = <<waiting>> /\ replies = << >>
    \/ /\ sent = << >> /\ Len(replies) = 1
       /\ replies[1] /\ waiting = Final => Now \in accepted

\* Without an error everyone concerned has been served, or will be.
Delivered ==
  stage # "aborted" /\ ret =>
    /\ errors = {}
    /\ Undisturbed =>
         /\ Concerned("rules") \subseteq accepted \cup PendingPairs
         /\ stage # "rules" => Concerned("global") \subseteq accepted \cup PendingPairs

\* The exit code is decided at the end, from what EmailReport returned.
ExitIsRet ==
  /\ exit # "none" <=> Ended
  /\ exit = "ok" => stage = "saved" /\ ret

\* The inductive invariant.
IInv ==
  /\ TypeOK
  /\ JobIsTyped
  /\ PendingIsFresh
  /\ RoundsInOrder
  /\ ServedIsAnnounced
  /\ AnnouncedOnce
  /\ OnlyConcerned
  /\ TakenWereAnnounced
  /\ RulesAreTried
  /\ InStep
  /\ Delivered
  /\ ExitIsRet

-----------------------------------------------------------------------------

\* vstrRecipients names everyone of a list, and nobody twice: by induction over
\* the addresses looked at.
LEMMA UniqueIsOnce ==
  ASSUME NEW s \in Seq(Address)
  PROVE  /\ Unique(s) \in Seq(Address)
         /\ IsInjective(Unique(s))
         /\ ToSet(Unique(s)) = ToSet(s)
<1> DEFINE list[n \in 0 .. Len(s)] ==
             IF n = 0 THEN << >> ELSE Added(list[n - 1], s[n])
<1>1. Unique(s) = list[Len(s)]
  BY DEF Unique
<1> HIDE DEF list
<1>2. /\ Len(s) \in Nat
      /\ DOMAIN s = 1 .. Len(s)
      /\ \A n \in 1 .. Len(s) : s[n] \in Address
      /\ << >> \in Seq(Address)
  BY LenProperties, ElementOfSeq, EmptySeq
<1>3. ASSUME NEW l \in Seq(Address), NEW a \in Address
      PROVE  /\ Added(l, a) \in Seq(Address)
             /\ IsInjective(l) => IsInjective(Added(l, a))
             /\ ToSet(Added(l, a)) = ToSet(l) \cup {a}
  <2>1. CASE a \in ToSet(l)
    <3>1. Added(l, a) = l
      BY <2>1, ListMembers DEF Added
    <3> QED
      BY <2>1, <3>1
  <2>2. CASE a \notin ToSet(l)
    <3>1. Added(l, a) = Append(l, a)
      BY <2>2, ListMembers DEF Added
    <3> QED
      BY <2>2, <3>1, ListAppend, InjectiveAppend
  <2> QED
    BY <2>1, <2>2
<1>4. PICK f \in [0 .. Len(s) -> Seq(Address)] :
        f[0] = << >> /\ \A n \in 1 .. Len(s) : f[n] = Added(f[n - 1], s[n])
  <2>1. PICK T, N, first, step :
          /\ T = Seq(Address) /\ N = Len(s) /\ first = << >>
          /\ step = [n \in 1 .. N |-> [l \in T |-> Added(l, s[n])]]
    OBVIOUS
  <2>2. N \in Nat /\ first \in T /\ step \in [1 .. N -> [T -> T]]
    BY <1>2, <1>3, <2>1
  <2>3. \E f \in [0 .. N -> T] :
          f[0] = first /\ \A n \in 1 .. N : f[n] = step[n][f[n - 1]]
    BY <2>2, IteratedFunction, Z3
  <2>4. PICK f \in [0 .. N -> T] :
          f[0] = first /\ \A n \in 1 .. N : f[n] = step[n][f[n - 1]]
    BY <2>3
  <2>5. ASSUME NEW n \in 1 .. N
        PROVE  f[n] = Added(f[n - 1], s[n])
    <3>1. f[n - 1] \in T
      BY <2>2
    <3> QED
      BY <2>1, <2>4, <3>1
  <2> QED
    BY SMTT(30), <2>1, <2>4, <2>5
<1> DEFINE Body(g, n) == IF n = 0 THEN << >> ELSE Added(g[n - 1], s[n])
<1>5. list = [n \in 0 .. Len(s) |-> Body(list, n)]
  <2>1. ASSUME NEW n \in 0 .. Len(s)
        PROVE  f[n] = Body(f, n)
    <3>1. CASE n = 0
      BY <1>4, <3>1
    <3>2. CASE n # 0
      <4>1. n \in 1 .. Len(s)
        BY <1>2, <3>2
      <4> QED
        BY <1>4, <3>2, <4>1
    <3> QED
      BY <3>1, <3>2
  <2>2. f = [n \in 0 .. Len(s) |-> f[n]]
    OBVIOUS
  <2>3. f = [n \in 0 .. Len(s) |-> Body(f, n)]
    <3> HIDE DEF Body
    <3> QED
      BY <2>1, <2>2
  <2> QED
    BY <2>3 DEF list
<1> DEFINE S == {n \in Nat : n <= Len(s) =>
                   /\ list[n] \in Seq(Address)
                   /\ IsInjective(list[n])
                   /\ ToSet(list[n]) = {s[i] : i \in 1 .. n}}
<1>6. list[0] = << >>
  BY <1>2, <1>5
<1>7. \A n \in 1 .. Len(s) : list[n] = Added(list[n - 1], s[n])
  BY <1>2, <1>5
<1>8. 0 \in S
  <2>1. IsInjective(<< >>)
    BY DEF IsInjective
  <2>2. {s[i] : i \in 1 .. 0} = {}
    OBVIOUS
  <2> QED
    BY <1>2, <1>6, <2>1, <2>2, ListEmpty
<1>9. ASSUME NEW n \in Nat, n \in S
      PROVE  n + 1 \in S
  <2> SUFFICES ASSUME n + 1 <= Len(s)
               PROVE  /\ list[n + 1] \in Seq(Address)
                      /\ IsInjective(list[n + 1])
                      /\ ToSet(list[n + 1]) = {s[i] : i \in 1 .. n + 1}
    OBVIOUS
  <2>1. n + 1 \in 1 .. Len(s) /\ n + 1 - 1 = n /\ n <= Len(s)
    BY <1>2
  <2>2. list[n + 1] = Added(list[n], s[n + 1]) /\ s[n + 1] \in Address
    BY <1>2, <1>7, <2>1
  <2>3. /\ list[n] \in Seq(Address)
        /\ IsInjective(list[n])
        /\ ToSet(list[n]) = {s[i] : i \in 1 .. n}
    BY <1>9, <2>1
  <2>4. {s[i] : i \in 1 .. n + 1} = {s[i] : i \in 1 .. n} \cup {s[n + 1]}
    <3>1. \A i : i \in 1 .. n + 1 <=> i \in 1 .. n \/ i = n + 1
      OBVIOUS
    <3> QED
      BY <3>1
  <2> QED
    BY <1>3, <2>2, <2>3, <2>4
<1>10. Len(s) \in S
  BY <1>2, <1>8, <1>9, NatSetInduction
<1>11. ToSet(list[Len(s)]) = {s[i] : i \in 1 .. Len(s)}
  BY <1>2, <1>10
<1>12. ToSet(s) = {s[i] : i \in 1 .. Len(s)}
  BY <1>2 DEF ToSet
<1> QED
  BY <1>1, <1>2, <1>10, <1>11, <1>12

-----------------------------------------------------------------------------

\* The lists of the two rounds, as what they are served from.
LEMMA RecipientLists ==
  ASSUME JobIsTyped
  PROVE  /\ GetEmailRecipients \in Seq(Address) /\ IsInjective(GetEmailRecipients)
         /\ ToSet(GetEmailRecipients) = Listed("rules")
         /\ GetGlobalEmailRecipients \in Seq(Address)
         /\ IsInjective(GetGlobalEmailRecipients)
         /\ ToSet(GetGlobalEmailRecipients) = Listed("global")
         /\ Listed("rules") \subseteq Address /\ Listed("global") \subseteq Address
<1>1. job.rules \in Seq(Address) /\ job.globals \in Seq(Address)
  BY DEF JobIsTyped
<1>2. Reverse(job.globals) \in Seq(Address)
  BY <1>1, ListMembers
<1> QED
  BY <1>1, <1>2, ListMembers, UniqueIsOnce
  DEF GetEmailRecipients, GetGlobalEmailRecipients, Listed

\* Whom a round concerns depends on the job alone.
LEMMA ConcernedIsFixed ==
  ASSUME job' = job
  PROVE  /\ \A round, a : IsWanted(round, a)' = IsWanted(round, a)
         /\ Concerned("rules")' = Concerned("rules")
         /\ Concerned("global")' = Concerned("global")
         /\ Listed("rules")' = Listed("rules")
         /\ Listed("global")' = Listed("global")
BY DEF Concerned, IsWanted, HasViolations, Listed

\* What is concerned, put the other way round.
LEMMA ConcernedMembers ==
  ASSUME NEW round, NEW p
  PROVE  p \in Concerned(round)
           <=> \E a \in Listed(round) : IsWanted(round, a) /\ p = <<round, a>>
BY DEF Concerned, Listed

\* The head of what is pending, and the rest.
LEMMA PendingStep ==
  ASSUME IInv, Mailing, pending # << >>
  PROVE  /\ To \in Address /\ Now \in Pairs /\ Tail(pending) \in Seq(Address)
         /\ ToSet(pending) = {To} \cup ToSet(Tail(pending))
         /\ To \notin ToSet(Tail(pending))
         /\ IsInjective(Tail(pending))
         /\ Now \in PendingPairs
         /\ To \in Listed(stage)
<1>1. pending \in Seq(Address) /\ IsInjective(pending) /\ ToSet(pending) \subseteq Listed(stage)
  BY DEF IInv, TypeOK, PendingIsFresh
<1>2. /\ To \in Address /\ Tail(pending) \in Seq(Address)
      /\ ToSet(pending) = {To} \cup ToSet(Tail(pending))
  BY <1>1, ListStep DEF To
<1>3. To \notin ToSet(Tail(pending)) /\ IsInjective(Tail(pending))
  BY <1>1, InjectiveStep DEF To
<1> QED
  BY <1>1, <1>2, <1>3 DEF Now, Pairs, PendingPairs, Mailing

\* EmailReportTo returns: the address is done with.  What is left to show is
\* that it was announced at most once and for a reason, that it was tried if it
\* is concerned, and that success means delivery.
LEMMA ServedKeepsInvariant ==
  ASSUME IInv, Mailing, pending # << >>,
         NEW success \in BOOLEAN, GoOn(success),
         errors' = IF success THEN errors ELSE errors \cup {Now},
         UNCHANGED <<job, stage, exit>>,
         untimely' \in BOOLEAN, untimely => untimely',
         waiting' = 0, link' = "none", session' \in 0 .. Final,
         sent' \in Seq(1 .. Final), replies' \in Seq(BOOLEAN),
         \/ notified' = notified
         \/ /\ Now \notin ToSet(notified) /\ IsWanted(stage, To)
            /\ notified' = Append(notified, Now),
         \/ accepted' = accepted
         \/ accepted' = accepted \cup {Now} /\ Now \in ToSet(notified'),
         IsWanted(stage, To) => Now \in ToSet(notified') \cup errors',
         success /\ IsWanted(stage, To) /\ Undisturbed' => Now \in accepted'
  PROVE  IInv'
<1>1. /\ To \in Address /\ Now \in Pairs /\ Tail(pending) \in Seq(Address)
      /\ ToSet(pending) = {To} \cup ToSet(Tail(pending))
      /\ To \notin ToSet(Tail(pending)) /\ IsInjective(Tail(pending))
      /\ To \in Listed(stage)
  BY PendingStep
<1>2. /\ TypeOK /\ JobIsTyped /\ PendingIsFresh /\ RoundsInOrder /\ AnnouncedOnce
      /\ OnlyConcerned /\ TakenWereAnnounced /\ RulesAreTried /\ Delivered /\ ExitIsRet
  BY DEF IInv
<1>3. /\ pending' = Tail(pending) /\ ret' = (ret /\ success) /\ Mailing' = Mailing
      /\ ret \in BOOLEAN
  BY <1>2 DEF GoOn, Mailing, TypeOK
<1>4. /\ notified' \in Seq(Pairs)
      /\ IsInjective(notified')
      /\ ToSet(notified) \subseteq ToSet(notified')
      /\ ToSet(notified') \subseteq ToSet(notified) \cup {Now}
      /\ Now \in ToSet(notified') => Now \in ToSet(notified) \/ IsWanted(stage, To)
  <2>1. notified \in Seq(Pairs) /\ IsInjective(notified)
    BY <1>2 DEF TypeOK, AnnouncedOnce
  <2>2. CASE notified' = notified
    BY <2>1, <2>2
  <2>3. CASE /\ Now \notin ToSet(notified) /\ IsWanted(stage, To)
             /\ notified' = Append(notified, Now)
    BY <1>1, <2>1, <2>3, ListAppend, InjectiveAppend
  <2> QED
    BY <2>2, <2>3
<1>5. PendingPairs = PendingPairs' \cup {Now}
  BY <1>1, <1>3 DEF PendingPairs, Mailing, Now
<1>6. TypeOK'
  <2>1. accepted' \subseteq Pairs /\ errors' \subseteq Pairs
    BY <1>1, <1>2 DEF TypeOK
  <2> QED
    BY <1>1, <1>2, <1>3, <1>4, <2>1 DEF TypeOK, Final
<1>7. JobIsTyped'
  BY <1>2 DEF JobIsTyped
<1>8. PendingIsFresh'
  <2>1. ASSUME NEW a \in ToSet(Tail(pending)), <<stage, a>> \in ToSet(notified')
        PROVE  FALSE
    <3>1. a # To
      BY <1>1
    <3>2. <<stage, a>> \in ToSet(notified)
      BY <1>4, <2>1, <3>1 DEF Now
    <3> QED
      BY <1>1, <1>2, <3>1, <3>2 DEF PendingIsFresh
  <2>2. ToSet(Tail(pending)) \subseteq Listed(stage)
    BY <1>1, <1>2 DEF PendingIsFresh
  <2>3. Listed(stage)' = Listed(stage)
    BY ConcernedIsFixed DEF Mailing
  <2> QED
    BY <1>1, <1>3, <2>1, <2>2, <2>3 DEF PendingIsFresh
<1>9. RoundsInOrder'
  BY <1>2, <1>4 DEF RoundsInOrder, Now
<1>10. ServedIsAnnounced' /\ InStep'
  BY DEF ServedIsAnnounced, InStep
<1>11. AnnouncedOnce'
  BY <1>4 DEF AnnouncedOnce
<1>12. OnlyConcerned'
  <2>1. IsWanted(stage, To) => Now \in Concerned(stage)
    BY <1>1, ConcernedMembers DEF Now
  <2>2. Now \in ToSet(notified') => Now \in Concerned("rules") \cup Concerned("global")
    BY <1>2, <1>4, <2>1 DEF OnlyConcerned, Mailing
  <2> QED
    BY <1>2, <1>4, <2>2, ConcernedIsFixed DEF OnlyConcerned
<1>13. TakenWereAnnounced'
  BY <1>2, <1>4 DEF TakenWereAnnounced
<1>14. \A round \in {"rules", "global"} :
         Now \in Concerned(round) => IsWanted(stage, To)
  BY ConcernedMembers DEF Now
<1>15. RulesAreTried'
  <2>1. ToSet(notified) \cup errors \subseteq ToSet(notified') \cup errors'
    BY <1>4
  <2>2. Concerned("rules") \subseteq ToSet(notified) \cup errors \cup PendingPairs
    BY <1>2 DEF RulesAreTried, Mailing
  <2>3. Now \in Concerned("rules") => Now \in ToSet(notified') \cup errors'
    BY <1>14
  <2>4. Concerned("rules") \subseteq ToSet(notified') \cup errors' \cup PendingPairs'
    BY <1>5, <2>1, <2>2, <2>3
  <2> QED
    BY <2>4, ConcernedIsFixed DEF RulesAreTried
<1>16. Delivered'
  <2> SUFFICES ASSUME ret, success
               PROVE  /\ errors' = {}
                      /\ Undisturbed' =>
                           /\ Concerned("rules") \subseteq accepted' \cup PendingPairs'
                           /\ stage # "rules" =>
                                Concerned("global") \subseteq accepted' \cup PendingPairs'
    BY <1>3, ConcernedIsFixed DEF Delivered
  <2>1. stage # "aborted"
    BY DEF Mailing
  <2>2. errors' = {}
    BY <1>2, <2>1 DEF Delivered
  <2>3. ASSUME Undisturbed', NEW round \in {"rules", "global"},
               Concerned(round) \subseteq accepted \cup PendingPairs
        PROVE  Concerned(round) \subseteq accepted' \cup PendingPairs'
    BY <1>5, <1>14, <2>3
  <2>4. Undisturbed' => Undisturbed
    BY DEF Undisturbed
  <2> QED
    BY <1>2, <2>1, <2>2, <2>3, <2>4 DEF Delivered
<1>17. ExitIsRet'
  <2>1. exit = "none"
    BY <1>2 DEF ExitIsRet, Ended, Mailing, TypeOK
  <2> QED
    BY <1>2, <2>1 DEF ExitIsRet, Ended
<1> QED
  BY <1>6, <1>7, <1>8, <1>9, <1>10, <1>11, <1>12, <1>13, <1>15, <1>16, <1>17 DEF IInv

\* The connection is opened, used, or the server's side of it changes, and
\* the same address is still being served.
LEMMA ConnectionKeepsInvariant ==
  ASSUME IInv, Mailing, pending # << >>,
         UNCHANGED <<job, stage, pending, ret, errors, exit>>,
         untimely' \in BOOLEAN, untimely => untimely',
         waiting' \in 1 .. Final, link' \in {"up", "closed", "reset"},
         session' \in 0 .. Final,
         sent' \in Seq(1 .. Final), replies' \in Seq(BOOLEAN),
         \/ notified' = notified /\ waiting # 0
         \/ /\ Now \notin ToSet(notified) /\ IsWanted(stage, To)
            /\ notified' = Append(notified, Now),
         accepted' = accepted \/ accepted' = accepted \cup {Now},
         InStep'
  PROVE  IInv'
<1>1. /\ To \in Address /\ Now \in Pairs /\ To \in Listed(stage)
      /\ ToSet(pending) = {To} \cup ToSet(Tail(pending))
  BY PendingStep
<1>2. /\ TypeOK /\ JobIsTyped /\ PendingIsFresh /\ RoundsInOrder /\ AnnouncedOnce
      /\ ServedIsAnnounced
      /\ OnlyConcerned /\ TakenWereAnnounced /\ RulesAreTried /\ Delivered /\ ExitIsRet
  BY DEF IInv
<1>3. Mailing' = Mailing /\ To' = To /\ Now' = Now /\ PendingPairs' = PendingPairs
  BY DEF Mailing, To, Now, PendingPairs
<1>4. /\ notified' \in Seq(Pairs)
      /\ IsInjective(notified')
      /\ ToSet(notified) \subseteq ToSet(notified')
      /\ ToSet(notified') \subseteq ToSet(notified) \cup {Now}
      /\ Now \in ToSet(notified')
      /\ Now \in ToSet(notified) \/ IsWanted(stage, To)
  <2>1. notified \in Seq(Pairs) /\ IsInjective(notified)
    BY <1>2 DEF TypeOK, AnnouncedOnce
  <2>2. CASE notified' = notified /\ waiting # 0
    BY <1>2, <2>1, <2>2 DEF ServedIsAnnounced
  <2>3. CASE /\ Now \notin ToSet(notified) /\ IsWanted(stage, To)
             /\ notified' = Append(notified, Now)
    BY <1>1, <2>1, <2>3, ListAppend, InjectiveAppend
  <2> QED
    BY <2>2, <2>3
<1>5. TypeOK'
  <2>1. accepted' \subseteq Pairs /\ errors' \subseteq Pairs
    BY <1>1, <1>2 DEF TypeOK
  <2> QED
    BY SMTT(30), <1>2, <1>4, <2>1 DEF TypeOK, Final
<1>6. JobIsTyped'
  BY <1>2 DEF JobIsTyped
<1>7. PendingIsFresh'
  <2>1. ASSUME NEW a \in ToSet(pending), <<stage, a>> \in ToSet(notified')
        PROVE  a = To
    <3>1. CASE <<stage, a>> = Now
      BY <3>1 DEF Now
    <3>2. CASE <<stage, a>> \in ToSet(notified)
      BY <1>2, <3>2 DEF PendingIsFresh
    <3> QED
      BY <1>4, <2>1, <3>1, <3>2
  <2>2. Listed(stage)' = Listed(stage)
    BY ConcernedIsFixed DEF Mailing
  <2> QED
    BY <1>2, <1>3, <2>1, <2>2 DEF PendingIsFresh
<1>8. RoundsInOrder'
  BY <1>2, <1>4 DEF RoundsInOrder, Now
<1>9. ServedIsAnnounced'
  BY <1>3, <1>4 DEF ServedIsAnnounced
<1>10. AnnouncedOnce'
  BY <1>4 DEF AnnouncedOnce
<1>11. OnlyConcerned'
  <2>1. IsWanted(stage, To) => Now \in Concerned(stage)
    BY <1>1, ConcernedMembers DEF Now
  <2>2. Now \in Concerned("rules") \cup Concerned("global")
    BY <1>2, <1>4, <2>1 DEF OnlyConcerned, Mailing
  <2> QED
    BY <1>2, <1>4, <2>2, ConcernedIsFixed DEF OnlyConcerned
<1>12. TakenWereAnnounced'
  BY <1>2, <1>4 DEF TakenWereAnnounced
<1>13. RulesAreTried'
  BY <1>2, <1>3, <1>4, ConcernedIsFixed DEF RulesAreTried
<1>14. Delivered'
  BY <1>2, <1>3, ConcernedIsFixed DEF Delivered, Undisturbed
<1>15. ExitIsRet'
  BY <1>2 DEF ExitIsRet, Ended
<1> QED
  BY <1>5, <1>6, <1>7, <1>8, <1>9, <1>10, <1>11, <1>12, <1>13, <1>14, <1>15 DEF IInv

\* Mailing ends, or its first round does: what a stage promises of the ones
\* before it is what is left to show.
LEMMA StageKeepsInvariant ==
  ASSUME IInv, waiting' = 0, link' = "none",
         UNCHANGED <<job, ret, accepted, notified, errors, untimely>>,
         session' \in 0 .. Final,
         sent' \in Seq(1 .. Final), replies' \in Seq(BOOLEAN),
         pending' \in Seq(Address),
         stage' \in {"global", "saved", "unsaved", "aborted"},
         exit' \in {"none", "ok", "error"},
         PendingIsFresh', RulesAreTried', Delivered', ExitIsRet'
  PROVE  IInv'
<1>1. TypeOK'
  BY DEF IInv, TypeOK, Final
<1>2. JobIsTyped' /\ RoundsInOrder' /\ ServedIsAnnounced' /\ AnnouncedOnce' /\ InStep'
      /\ TakenWereAnnounced'
  BY DEF IInv, JobIsTyped, RoundsInOrder, ServedIsAnnounced, AnnouncedOnce, InStep,
         TakenWereAnnounced
<1>3. OnlyConcerned'
  BY ConcernedIsFixed DEF IInv, OnlyConcerned
<1> QED
  BY <1>1, <1>2, <1>3 DEF IInv

\* Nothing is pending in a round that has ended.
LEMMA RoundEndsEmpty ==
  ASSUME IInv, RoundEnds
  PROVE  PendingPairs = {} /\ waiting = 0 /\ link = "none" /\ exit = "none"
<1>1. PendingPairs = {}
  BY ListEmpty DEF RoundEnds, PendingPairs
<1>2. waiting = 0
  BY DEF IInv, ServedIsAnnounced, RoundEnds
<1> QED
  BY <1>1, <1>2 DEF IInv, TypeOK, ExitIsRet, RoundEnds, Mailing, Ended

-----------------------------------------------------------------------------

LEMMA FinalIsSix == Final = 6
  BY DEF Final, Commands

\* What is known while an answer is awaited.
LEMMA Waiting ==
  ASSUME IInv, waiting # 0
  PROVE  /\ Mailing /\ pending # << >> /\ Now \in ToSet(notified)
         /\ waiting \in 1 .. Final /\ link \in {"up", "closed", "reset"}
         /\ session \in 0 .. Final /\ sent \in Seq(1 .. Final)
         /\ replies \in Seq(BOOLEAN) /\ untimely \in BOOLEAN
BY FinalIsSix DEF IInv, ServedIsAnnounced, TypeOK

\* Serving ends without the server having had the last word.
LEMMA ConnectionEnds ==
  ASSUME IInv, waiting # 0, NEW success \in BOOLEAN, GoOn(success), Disconnected,
         errors' = IF success THEN errors ELSE errors \cup {Now},
         UNCHANGED <<job, stage, exit, accepted, notified>>,
         untimely' \in BOOLEAN, untimely => untimely',
         success /\ Undisturbed' => Now \in accepted
  PROVE  IInv'
<1>1. Mailing /\ pending # << >> /\ Now \in ToSet(notified)
  BY Waiting
<1>2. /\ waiting' = 0 /\ link' = "none" /\ session' \in 0 .. Final
      /\ sent' \in Seq(1 .. Final) /\ replies' \in Seq(BOOLEAN)
  BY FinalIsSix, EmptySeq DEF Disconnected
<1> QED
  BY <1>1, <1>2, ServedKeepsInvariant

\* The invariant holds before the first recipient is served.
LEMMA InitEstablishesInvariant ==
  ASSUME Init
  PROVE  IInv
<1>1. JobIsTyped
  BY ListsAreOfAddresses DEF Init, JobIsTyped
<1>2. /\ pending \in Seq(Address) /\ IsInjective(pending)
      /\ ToSet(pending) = Listed("rules")
  BY <1>1, RecipientLists DEF Init
<1>3. TypeOK
  <2>1. << >> \in Seq(1 .. Final) /\ << >> \in Seq(BOOLEAN) /\ << >> \in Seq(Pairs)
    BY EmptySeq
  <2>2. waiting \in 0 .. Final /\ session \in 0 .. Final
    BY FinalIsSix DEF Init
  <2> QED
    BY <1>2, <2>1, <2>2 DEF Init, TypeOK
<1>4. ToSet(notified) = {}
  BY ListEmpty DEF Init
<1>5. PendingIsFresh
  BY <1>2, <1>4 DEF Init, PendingIsFresh
<1>6. Concerned("rules") \subseteq PendingPairs
  <2>1. PendingPairs = {<<"rules", a>> : a \in Listed("rules")}
    BY <1>2 DEF Init, PendingPairs, Mailing
  <2> QED
    BY <2>1, ConcernedMembers
<1>7. RoundsInOrder /\ OnlyConcerned /\ ServedIsAnnounced /\ TakenWereAnnounced /\ InStep
  BY <1>4
  DEF Init, RoundsInOrder, OnlyConcerned, ServedIsAnnounced, TakenWereAnnounced, InStep
<1>8. AnnouncedOnce
  BY DEF Init, AnnouncedOnce, IsInjective
<1>9. RulesAreTried /\ Delivered /\ ExitIsRet
  BY <1>6 DEF Init, RulesAreTried, Delivered, ExitIsRet, Ended
<1> QED
  BY <1>1, <1>3, <1>5, <1>7, <1>8, <1>9 DEF IInv

\* A message is announced for someone who was not, and is wanted.
LEMMA AnnouncesNew ==
  ASSUME IInv, NEW method, Announce(method)
  PROVE  /\ Mailing /\ pending # << >> /\ waiting = 0 /\ link = "none"
         /\ Now \notin ToSet(notified) /\ IsWanted(stage, To)
         /\ notified' = Append(notified, Now) /\ Now \in ToSet(notified')
<1>1. /\ Mailing /\ pending # << >> /\ waiting = 0 /\ IsWanted(stage, To)
      /\ notified' = Append(notified, Now)
  BY DEF Announce
<1>2. Now \in Pairs /\ ToSet(pending) = {To} \cup ToSet(Tail(pending))
  BY <1>1, PendingStep
<1>3. Now \notin ToSet(notified)
  BY <1>1, <1>2 DEF IInv, PendingIsFresh, Now
<1>4. Now \in ToSet(notified')
  BY <1>1, <1>2, ListAppend DEF IInv, TypeOK
<1> QED
  BY <1>1, <1>3, <1>4 DEF IInv, TypeOK

\* The next command is sent.
LEMMA NextCommandKeepsInvariant ==
  ASSUME IInv, waiting # 0, waiting < Final,
         waiting' = waiting + 1, sent' = Append(sent, waiting + 1),
         UNCHANGED <<link, session, pending, ret, errors, job, stage, accepted, notified,
                     exit>>,
         replies' \in Seq(BOOLEAN), untimely' \in BOOLEAN, untimely => untimely',
         Undisturbed' => sent = << >> /\ replies' = << >>
  PROVE  IInv'
<1>1. waiting' \in 1 .. Final /\ sent' \in Seq(1 .. Final)
  BY Waiting, FinalIsSix, AppendProperties
<1>2. InStep'
  BY <1>1 DEF InStep
<1> QED
  BY <1>1, <1>2, Waiting, ConnectionKeepsInvariant

\* An answer is read.
LEMMA GetAcknowledgementKeepsInvariant ==
  ASSUME IInv, GetAcknowledgement
  PROVE  IInv'
<1>1. /\ waiting # 0 /\ replies # << >>
      /\ UNCHANGED <<job, stage, accepted, notified, exit, untimely>>
  BY DEF GetAcknowledgement
<1>2. PICK n \in 1 .. Len(replies) :
        IF Head(replies)
        THEN /\ Proceed
             /\ ~IsLast(waiting) => replies' = SubSeq(replies, n + 1, Len(replies))
        ELSE GiveUp
  BY DEF GetAcknowledgement
<1>3. Undisturbed => sent = << >> /\ Len(replies) = 1
                    /\ (Head(replies) /\ waiting = Final => Now \in accepted)
  <2>1. Head(replies) = replies[1]
    OBVIOUS
  <2> QED
    BY <1>1, <2>1 DEF IInv, InStep
<1>9. Undisturbed => Len(replies) = 1
  BY <1>3
<1>4. CASE GiveUp
  <2>1. GoOn(FALSE) /\ errors' = errors \cup {Now} /\ Disconnected
    BY <1>4 DEF GiveUp, Fail
  <2> QED
    BY <1>1, <2>1, Waiting, ConnectionEnds
<1>5. CASE Head(replies) /\ ~IsLast(waiting)
  <2>1. replies' = SubSeq(replies, n + 1, Len(replies))
    BY <1>2, <1>5
  <2>2. replies \in Seq(BOOLEAN) /\ Len(replies) \in Nat
    BY <1>1, Waiting, LenProperties
  <2>3. \A i \in n + 1 .. Len(replies) : replies[i] \in BOOLEAN
    BY <2>2, ElementOfSeq
  <2>4. replies' \in Seq(BOOLEAN)
    BY <2>1, <2>2, <2>3, SubSeqProperties
  <2>5. Undisturbed => replies' = << >>
    <3> SUFFICES ASSUME Undisturbed
                 PROVE  SubSeq(replies, n + 1, Len(replies)) = << >>
      BY <2>1
    <3>1. n + 1 \in Int /\ Len(replies) \in Int /\ Len(replies) < n + 1
      BY <1>9, <2>2
    <3> QED
      BY <3>1, SubSeqEmpty
  <2>6. /\ waiting' = waiting + 1 /\ sent' = Append(sent, waiting + 1)
        /\ UNCHANGED <<link, session, pending, ret, errors>>
    <3>1. Proceed
      BY <1>2, <1>5
    <3> QED
      BY <1>5, <3>1 DEF Proceed
  <2>7. waiting < Final
    <3>1. waiting \in 1 .. Final /\ waiting # Final
      BY <1>1, <1>5, Waiting DEF IsLast
    <3> QED
      BY <3>1, FinalIsSix
  <2>8. Undisturbed' => Undisturbed
    BY <1>1 DEF Undisturbed
  <2> QED
    BY <1>1, <1>3, <2>4, <2>5, <2>6, <2>7, <2>8, Waiting, NextCommandKeepsInvariant
<1>6. CASE Head(replies) /\ IsLast(waiting)
  <2>1. Disconnected /\ (Succeed \/ Fail)
    <3>1. Proceed
      BY <1>2, <1>6
    <3> QED
      BY <1>6, <3>1 DEF Proceed
  <2>2. CASE Succeed
    <3>1. GoOn(TRUE) /\ errors' = errors
      BY <2>2 DEF Succeed
    <3>2. Undisturbed' => Undisturbed
      BY <1>1 DEF Undisturbed
    <3>3. Undisturbed => waiting = Final
      BY <1>6 DEF Undisturbed, IsLast
    <3> QED
      BY <1>1, <1>3, <1>6, <2>1, <3>1, <3>2, <3>3, Waiting, ConnectionEnds
  <2>3. CASE Fail
    <3>1. GoOn(FALSE) /\ errors' = errors \cup {Now}
      BY <2>3 DEF Fail
    <3> QED
      BY <1>1, <2>1, <3>1, Waiting, ConnectionEnds
  <2> QED
    BY <2>1, <2>2, <2>3
<1>7. Head(replies) \/ GiveUp
  BY <1>2
<1> QED
  BY <1>4, <1>5, <1>6, <1>7

\* The answer does not come in time.
LEMMA TimesOutKeepsInvariant ==
  ASSUME IInv, TimesOut
  PROVE  IInv'
<1>1. /\ waiting # 0 /\ replies = << >> /\ untimely' = TRUE
      /\ UNCHANGED <<job, stage, accepted, notified, exit>>
      /\ \/ Proceed /\ (~IsLast(waiting) => UNCHANGED replies)
         \/ GiveUp
  BY DEF TimesOut
<1>2. waiting \in 1 .. 6
  BY <1>1, Waiting, FinalIsSix
<1>3. CASE GiveUp
  <2>1. GoOn(FALSE) /\ errors' = errors \cup {Now} /\ Disconnected
    BY <1>3 DEF GiveUp, Fail
  <2> QED
    BY <1>1, <2>1, ConnectionEnds
<1>7. ~Undisturbed'
  BY <1>1 DEF Undisturbed
<1>4. CASE Proceed /\ ~IsLast(waiting)
  <2>1. /\ waiting' = waiting + 1 /\ sent' = Append(sent, waiting + 1)
        /\ UNCHANGED <<link, session, pending, ret, errors>>
    BY <1>4 DEF Proceed
  <2>2. replies' = << >> /\ replies' \in Seq(BOOLEAN)
    <3>1. replies' = replies \/ GiveUp
      BY <1>1, <1>4
    <3>2. GiveUp => replies' = << >>
      BY DEF GiveUp, Disconnected
    <3> QED
      BY <1>1, <3>1, <3>2, EmptySeq
  <2>3. waiting < Final
    BY <1>2, <1>4, FinalIsSix DEF IsLast
  <2> QED
    BY <1>1, <1>7, <2>1, <2>2, <2>3, NextCommandKeepsInvariant
<1>5. CASE Proceed /\ IsLast(waiting)
  <2>1. Disconnected /\ (Succeed \/ Fail)
    BY <1>5 DEF Proceed
  <2>2. CASE Succeed
    <3>1. GoOn(TRUE) /\ errors' = errors
      BY <2>2 DEF Succeed
    <3> QED
      BY <1>1, <1>7, <2>1, <3>1, ConnectionEnds
  <2>3. CASE Fail
    <3>1. GoOn(FALSE) /\ errors' = errors \cup {Now}
      BY <2>3 DEF Fail
    <3> QED
      BY <1>1, <2>1, <3>1, ConnectionEnds
  <2> QED
    BY <2>1, <2>2, <2>3
<1> QED
  BY <1>1, <1>3, <1>4, <1>5

\* The server answers a command.
LEMMA AnswerKeepsInvariant ==
  ASSUME IInv, Answer
  PROVE  IInv'
<1>1. /\ link = "up" /\ sent # << >> /\ sent' = Tail(sent)
      /\ UNCHANGED <<job, stage, pending, ret, waiting, link, notified, errors, exit>>
  BY DEF Answer
<1>2. PICK ok \in BOOLEAN, pieces \in 1 .. 2 :
        /\ replies' = replies \o [i \in 1 .. pieces |-> ok]
        /\ untimely' = (untimely \/ pieces = 2)
        /\ session' = IF ok THEN Head(sent) ELSE session
        /\ accepted' = IF ok /\ Head(sent) = Final THEN accepted \cup {Now} ELSE accepted
  BY DEF Answer
<1>3. waiting # 0
  BY <1>1 DEF IInv, TypeOK
<1>4. /\ Mailing /\ pending # << >> /\ sent \in Seq(1 .. Final)
      /\ replies \in Seq(BOOLEAN) /\ untimely \in BOOLEAN /\ session \in 0 .. Final
      /\ waiting \in 1 .. Final
  BY <1>3, Waiting
<1>5. Head(sent) \in 1 .. Final /\ Tail(sent) \in Seq(1 .. Final)
  BY <1>1, <1>4, HeadTailProperties
<1>6. PICK r \in Seq(BOOLEAN) :
        r = [i \in 1 .. pieces |-> ok] /\ Len(r) = pieces /\ r[1] = ok
  <2>1. [i \in 1 .. pieces |-> ok] \in [1 .. pieces -> BOOLEAN] /\ pieces \in Nat
    OBVIOUS
  <2>2. [i \in 1 .. pieces |-> ok] \in Seq(BOOLEAN)
    BY <2>1, SeqDef
  <2>3. PICK r : r = [i \in 1 .. pieces |-> ok]
    OBVIOUS
  <2>4. DOMAIN r = 1 .. Len(r) /\ DOMAIN r = 1 .. pieces /\ Len(r) \in Nat
    BY <2>2, <2>3, LenProperties
  <2>5. Len(r) = pieces
    <3>1. pieces \in 1 .. Len(r)
      BY <2>4
    <3>2. Len(r) \in 1 .. pieces
      BY <2>4, <3>1
    <3> QED
      BY <3>1, <3>2
  <2> QED
    BY <2>2, <2>3, <2>5
<1>7. replies' = replies \o r /\ replies' \in Seq(BOOLEAN)
  BY <1>2, <1>4, <1>6, ConcatProperties
<1>8. session' \in 0 .. Final
  BY <1>2, <1>4, <1>5, FinalIsSix
<1>9. InStep'
  <2> SUFFICES ASSUME Undisturbed'
               PROVE  /\ sent' = << >> /\ Len(replies') = 1
                      /\ replies'[1] /\ waiting = Final => Now' \in accepted'
    BY <1>1 DEF InStep
  <2>1. Undisturbed /\ pieces = 1
    <3>1. untimely' = (untimely \/ pieces = 2)
      BY <1>2
    <3>2. Undisturbed /\ pieces # 2
      BY <1>1, <3>1 DEF Undisturbed
    <3> QED
      BY <3>2
  <2>2. sent = <<waiting>> /\ replies = << >>
    BY <1>1, <1>3, <2>1 DEF IInv, InStep
  <2>3. sent' = << >> /\ Head(sent) = waiting
    BY <1>1, <2>2
  <2>4. replies' = r
    BY <1>6, <1>7, <2>2, ConcatEmptySeq
  <2>5. Now' = Now
    BY <1>1 DEF Now, To
  <2> QED
    BY <1>2, <1>6, <2>1, <2>3, <2>4, <2>5
<1>10. untimely' \in BOOLEAN /\ (untimely => untimely')
  BY <1>2, <1>4
<1>11. accepted' = accepted \/ accepted' = accepted \cup {Now}
  BY <1>2
<1> QED
  BY <1>1, <1>3, <1>4, <1>5, <1>7, <1>8, <1>9, <1>10, <1>11, ConnectionKeepsInvariant

\* The round of GLOBALEMAIL begins.
LEMMA GlobalRoundKeepsInvariant ==
  ASSUME IInv, GlobalRound
  PROVE  IInv'
<1>1. /\ RoundEnds /\ stage = "rules" /\ ret /\ stage' = "global"
      /\ pending' = GetGlobalEmailRecipients
      /\ UNCHANGED <<job, ret, waiting, link, session, sent, replies, accepted, notified,
                     errors, exit, untimely>>
  BY DEF GlobalRound, connection
<1>2. /\ PendingPairs = {} /\ waiting = 0 /\ link = "none" /\ exit = "none"
      /\ TypeOK /\ JobIsTyped
  BY <1>1, RoundEndsEmpty DEF IInv
<1>3. /\ pending' \in Seq(Address) /\ IsInjective(pending')
      /\ ToSet(pending') = Listed("global")
  BY <1>1, <1>2, RecipientLists
<1>4. PendingIsFresh'
  <2>1. \A a : <<"global", a>> \notin ToSet(notified)
    BY <1>1 DEF IInv, RoundsInOrder
  <2> QED
    BY <1>1, <1>3, <2>1, ConcernedIsFixed DEF PendingIsFresh
<1>5. RulesAreTried'
  <2>1. Concerned("rules") \subseteq ToSet(notified) \cup errors
    BY <1>1, <1>2 DEF IInv, RulesAreTried
  <2> QED
    BY <1>1, <2>1, ConcernedIsFixed DEF RulesAreTried
<1>6. Delivered'
  <2>1. errors = {} /\ (Undisturbed => Concerned("rules") \subseteq accepted)
    BY <1>1, <1>2 DEF IInv, Delivered
  <2>2. PendingPairs' = {<<"global", a>> : a \in Listed("global")}
    BY <1>1, <1>3 DEF PendingPairs, Mailing
  <2>3. Concerned("global") \subseteq PendingPairs'
    BY <2>2, ConcernedMembers
  <2> QED
    BY <1>1, <2>1, <2>3, ConcernedIsFixed DEF Delivered, Undisturbed
<1>7. ExitIsRet'
  BY <1>1, <1>2 DEF ExitIsRet, Ended
<1> QED
  BY <1>1, <1>2, <1>3, <1>4, <1>5, <1>6, <1>7, StageKeepsInvariant DEF TypeOK

\* The report is written, or cannot be.
LEMMA WriteKeepsInvariant ==
  ASSUME IInv, WriteReport \/ WriteFails
  PROVE  IInv'
<1>1. /\ RoundEnds /\ (stage = "rules" => ~ret) /\ stage' \in {"saved", "unsaved"}
      /\ exit' \in {"ok", "error"}
      /\ exit' = "ok" => stage' = "saved" /\ ret
      /\ UNCHANGED <<job, pending, ret, waiting, link, session, sent, replies, accepted,
                     notified, errors, untimely>>
  BY DEF WriteReport, WriteFails, connection
<1>2. PendingPairs = {} /\ waiting = 0 /\ link = "none" /\ TypeOK /\ Mailing
  BY <1>1, RoundEndsEmpty DEF IInv, RoundEnds
<1>3. ~Mailing' /\ stage # "aborted"
  BY <1>1, <1>2 DEF Mailing
<1>4. PendingIsFresh'
  BY <1>3 DEF PendingIsFresh
<1>5. RulesAreTried'
  <2>1. Concerned("rules") \subseteq ToSet(notified) \cup errors
    BY <1>2, <1>3 DEF IInv, RulesAreTried
  <2> QED
    BY <1>1, <2>1, ConcernedIsFixed DEF RulesAreTried
<1>6. Delivered'
  <2> SUFFICES ASSUME ret
               PROVE  /\ errors = {}
                      /\ Undisturbed => Concerned("rules") \cup Concerned("global") \subseteq accepted
    BY <1>1, ConcernedIsFixed DEF Delivered, Undisturbed
  <2> QED
    BY <1>1, <1>2, <1>3 DEF IInv, Delivered
<1>7. ExitIsRet'
  BY <1>1 DEF ExitIsRet, Ended
<1> QED
  BY <1>1, <1>2, <1>4, <1>5, <1>6, <1>7, StageKeepsInvariant DEF TypeOK

\* Every step keeps the invariant.
LEMMA NextKeepsInvariant ==
  ASSUME IInv, [Next]_vars
  PROVE  IInv'
<1> USE DEF IInv
<1>1. /\ session \in 0 .. Final /\ sent \in Seq(1 .. Final) /\ replies \in Seq(BOOLEAN)
      /\ untimely \in BOOLEAN /\ (waiting = 0 => link = "none")
  BY DEF TypeOK
<1>2. CASE PrintFails \/ NotWanted
  <2>1. /\ Mailing /\ waiting = 0 /\ pending # << >>
        /\ UNCHANGED <<job, stage, waiting, link, session, sent, replies, accepted,
                       notified, exit, untimely>>
    BY <1>2 DEF PrintFails, NotWanted, connection
  <2>2. CASE Fail
    <3>1. GoOn(FALSE) /\ errors' = errors \cup {Now}
      BY <2>2 DEF Fail
    <3> QED
      BY <1>1, <2>1, <3>1, ServedKeepsInvariant
  <2>3. CASE Succeed /\ ~IsWanted(stage, To)
    <3>1. GoOn(TRUE) /\ errors' = errors
      BY <2>3 DEF Succeed
    <3> QED
      BY <1>1, <2>1, <2>3, <3>1, ServedKeepsInvariant
  <2> QED
    BY <1>2, <2>2, <2>3 DEF PrintFails, NotWanted
<1>3. CASE PipeFails
  <2>1. /\ Announce("SENDMAIL") /\ GoOn(FALSE) /\ errors' = errors \cup {Now}
        /\ UNCHANGED <<job, stage, waiting, link, session, sent, replies, accepted, exit,
                       untimely>>
    BY <1>3 DEF PipeFails, Fail, connection
  <2> QED
    BY <1>1, <2>1, AnnouncesNew, ServedKeepsInvariant
<1>4. CASE PipeTakes
  <2>1. /\ Announce("SENDMAIL") /\ GoOn(TRUE) /\ errors' = errors
        /\ accepted' = accepted \cup {Now}
        /\ UNCHANGED <<job, stage, waiting, link, session, sent, replies, exit, untimely>>
    BY <1>4 DEF PipeTakes, Succeed, connection
  <2> QED
    BY <1>1, <2>1, AnnouncesNew, ServedKeepsInvariant
<1>5. CASE OpenConnection
  <2>1. Announce("SMTP") /\ UNCHANGED <<job, stage, accepted, exit, untimely>>
    BY <1>5 DEF OpenConnection
  <2>2. CASE /\ waiting' = 1 /\ link' = "up" /\ session' = 0
             /\ sent' = <<1>> /\ replies' = << >>
             /\ UNCHANGED <<pending, ret, errors>>
    <3>1. /\ 1 \in 1 .. Final /\ 0 \in 0 .. Final
          /\ <<1>> \in Seq(1 .. Final) /\ << >> \in Seq(BOOLEAN)
      BY FinalIsSix, EmptySeq
    <3>2. InStep'
      BY <2>2 DEF InStep
    <3> QED
      BY <1>1, <2>1, <2>2, <3>1, <3>2, AnnouncesNew, ConnectionKeepsInvariant
  <2>3. CASE Fail /\ UNCHANGED connection
    <3>1. /\ GoOn(FALSE) /\ errors' = errors \cup {Now}
          /\ UNCHANGED <<waiting, link, session, sent, replies>>
      BY <2>3 DEF Fail, connection
    <3> QED
      BY <1>1, <2>1, <3>1, AnnouncesNew, ServedKeepsInvariant
  <2> QED
    BY <1>5, <2>2, <2>3 DEF OpenConnection
<1>6. CASE GetAcknowledgement
  BY <1>6, GetAcknowledgementKeepsInvariant
<1>7. CASE TimesOut
  BY <1>7, TimesOutKeepsInvariant
<1>8. CASE EndOfStream
  <2>1. /\ waiting # 0 /\ GoOn(FALSE) /\ errors' = errors \cup {Now} /\ Disconnected
        /\ UNCHANGED <<job, stage, accepted, notified, exit, untimely>>
    BY <1>8 DEF EndOfStream, GiveUp, Fail
  <2> QED
    BY <1>1, <2>1, ConnectionEnds
<1>9. CASE ReceiveFails
  <2>1. /\ waiting # 0 /\ stage' = "aborted" /\ exit' = "error" /\ waiting' = 0
        /\ link' = "none" /\ session' = 0 /\ sent' = << >> /\ replies' = << >>
        /\ UNCHANGED <<job, pending, ret, accepted, notified, errors, untimely>>
    BY <1>9 DEF ReceiveFails, Disconnected
  <2>2. 0 \in 0 .. Final /\ << >> \in Seq(1 .. Final) /\ << >> \in Seq(BOOLEAN)
    BY FinalIsSix, EmptySeq
  <2>3. PendingIsFresh' /\ RulesAreTried' /\ Delivered' /\ ExitIsRet'
    BY <2>1 DEF PendingIsFresh, RulesAreTried, Delivered, ExitIsRet, Ended, Mailing
  <2>4. pending' \in Seq(Address)
    BY <2>1 DEF TypeOK
  <2> QED
    BY <2>1, <2>2, <2>3, <2>4, StageKeepsInvariant
<1>10. CASE GlobalRound
  BY <1>10, GlobalRoundKeepsInvariant
<1>11. CASE WriteReport \/ WriteFails
  BY <1>11, WriteKeepsInvariant
<1>12. CASE Answer
  BY <1>12, AnswerKeepsInvariant
<1>13. CASE HangUp
  <2>1. /\ link = "up" /\ link' \in {"closed", "reset"}
        /\ UNCHANGED <<job, stage, pending, ret, waiting, session, sent, replies, accepted,
                       notified, errors, exit, untimely>>
    BY <1>13 DEF HangUp
  <2>2. waiting # 0
    BY <2>1 DEF TypeOK
  <2>3. InStep'
    BY <2>1 DEF InStep, Now, To, Undisturbed
  <2> QED
    BY <1>1, <2>1, <2>2, <2>3, Waiting, ConnectionKeepsInvariant
<1>14. CASE UNCHANGED vars
  <2>1. UNCHANGED <<job, stage, pending, ret, waiting, link, session, sent, replies, accepted,
                    notified, errors, exit, untimely>>
    BY <1>14 DEF vars, connection
  <2>2. TypeOK' /\ JobIsTyped'
    BY <2>1 DEF TypeOK, JobIsTyped
  <2>3. Mailing' = Mailing /\ To' = To /\ Now' = Now /\ PendingPairs' = PendingPairs
    BY <2>1 DEF Mailing, To, Now, PendingPairs
  <2>4. Listed(stage)' = Listed(stage)
    BY <2>1 DEF Listed
  <2>5. PendingIsFresh' /\ RoundsInOrder' /\ ServedIsAnnounced' /\ AnnouncedOnce' /\ InStep'
        /\ TakenWereAnnounced' /\ ExitIsRet'
    BY <2>1, <2>3, <2>4
    DEF PendingIsFresh, RoundsInOrder, ServedIsAnnounced, AnnouncedOnce, InStep,
        TakenWereAnnounced, ExitIsRet, Ended, Undisturbed
  <2>6. OnlyConcerned' /\ RulesAreTried' /\ Delivered'
    BY <2>1, <2>3, ConcernedIsFixed DEF OnlyConcerned, RulesAreTried, Delivered, Undisturbed
  <2> QED
    BY <2>2, <2>5, <2>6
<1> QED
  BY <1>2, <1>3, <1>4, <1>5, <1>6, <1>7, <1>8, <1>9, <1>10, <1>11, <1>12, <1>13, <1>14
  DEF Next, Client, Environment

-----------------------------------------------------------------------------

\* Who is pending, announced, failed or served always adds up to the lists, and
\* the answers in a connection match what was sent (DoEmailReports, Send).
THEOREM InductiveInvariant == Spec => []IInv
<1>1. Init => IInv
  BY InitEstablishesInvariant
<1>2. IInv /\ [Next]_vars => IInv'
  BY NextKeepsInvariant
<1> QED
  BY <1>1, <1>2, PTL DEF Spec

\* The recipients, the connection and what was recorded of them keep their
\* types; a connection is open exactly while an answer is awaited.
THEOREM TypeCorrect == Spec => []TypeOK
<1>1. IInv => TypeOK
  BY DEF IInv
<1> QED
  BY <1>1, InductiveInvariant, PTL

\* Everyone the rules concern is tried exactly once, and nobody else is, for any
\* lists with any repetitions and any behaviour of the server
\* (GetEmailRecipients, DoEmailReports, EmailReportTo).
THEOREM ConcernedOnce == Spec => []ConcernedAreTriedOnce
<1>1. IInv => ConcernedAreTriedOnce
  <2> SUFFICES ASSUME IInv
               PROVE  ConcernedAreTriedOnce
    OBVIOUS
  <2>1. stage \in {"saved", "unsaved"} => PendingPairs = {}
    BY DEF PendingPairs, Mailing
  <2>2. \A p \in PendingPairs : stage = "global" => p \notin Concerned("rules")
    BY ConcernedMembers DEF PendingPairs
  <2>3. stage \in {"global", "saved", "unsaved"} =>
          Concerned("rules") \subseteq ToSet(notified) \cup errors
    BY <2>1, <2>2 DEF IInv, RulesAreTried
  <2> QED
    BY <2>3
    DEF IInv, ConcernedAreTriedOnce, AnnouncedOnce, OnlyConcerned, TakenWereAnnounced
<1> QED
  BY <1>1, InductiveInvariant, PTL

\* A check that exits without ERROR_IC has printed no mail error, has written
\* its report and, if every answer came in time and in one piece and gethostname
\* finds a name, has had a message accepted for everyone concerned
\* (cTWModeIC::Execute).
THEOREM ExitMeansDelivered == Spec => []CleanExitMeansDelivered
<1>1. IInv => CleanExitMeansDelivered
  <2> SUFFICES ASSUME IInv, exit = "ok"
               PROVE  /\ errors = {}
                      /\ stage = "saved"
                      /\ Undisturbed =>
                           Concerned("rules") \cup Concerned("global") \subseteq accepted
    BY DEF CleanExitMeansDelivered
  <2>1. stage = "saved" /\ ret
    BY DEF IInv, ExitIsRet
  <2>2. PendingPairs = {}
    BY <2>1 DEF PendingPairs, Mailing
  <2> QED
    BY <2>1, <2>2 DEF IInv, Delivered
<1> QED
  BY <1>1, InductiveInvariant, PTL

=============================================================================
