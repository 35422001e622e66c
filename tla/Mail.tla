-------------------------------- MODULE Mail --------------------------------
(***************************************************************************)
(* The end of an integrity check: the report is mailed to everyone it      *)
(* concerns (cTWCmdLineUtil::EmailReport), by SMTP (cSMTPMailMessage) or   *)
(* through a mail program (cPipedMailMessage), and only then written to    *)
(* disk (cTWModeIC::Execute).                                              *)
(*                                                                         *)
(* The SMTP server and the network are the environment: they answer late,  *)
(* never, in several pieces, refuse, hang up or reset the connection.  A   *)
(* report is known by whether it has violations, and whose rules they      *)
(* broke.  What a server still does with a connection the program gave up  *)
(* is not followed.                                                        *)
(***************************************************************************)
EXTENDS Integers, Sequences, SequencesExt

CONSTANTS
  Address,       \* mail addresses
  RuleLists,     \* the addresses of the rules in a report, as they are met
  GlobalLists,   \* values of GLOBALEMAIL
  Methods        \* values of MAILMETHOD

ASSUME MethodsAreKnown == Methods \subseteq {"SMTP", "SENDMAIL"}
ASSUME ListsAreOfAddresses == RuleLists \cup GlobalLists \subseteq Seq(Address)

VARIABLES
  job,       \* the configuration, the report and whether gethostname, which
             \* only SMTP calls, finds a name: they do not change
  stage,     \* where Execute is
  pending,   \* vstrRecipients from the one being served on
  ret,       \* no call of EmailReportTo returned false
  waiting,   \* the command whose answer the client waits for, 0 for none
  link,      \* the connection: "none", "up", "closed" or "reset"
  session,   \* the command the server accepted last
  sent,      \* commands the server has not answered yet
  replies,   \* answers not read yet, TRUE for a code from 200 to 399
  accepted,  \* messages a server or mail program took: <<stage, address>>
  notified,  \* "Emailing the report to:" lines, as <<stage, address>>
  errors,    \* the addresses a mail error was printed for, likewise
  exit,      \* the exit code: "none" yet, "ok" or "error"
  untimely   \* some answer came late or in several pieces

connection == <<waiting, link, session, sent, replies>>
vars == <<job, stage, pending, ret, connection, accepted, notified, errors,
          exit, untimely>>

-----------------------------------------------------------------------------
\* Recipients

\* vstrRecipients: an address is added when std::find does not find it.
Added(list, a) == IF Contains(list, a) THEN list ELSE Append(list, a)

Unique(addresses) ==
  LET list[n \in 0 .. Len(addresses)] ==
        IF n = 0 THEN << >> ELSE Added(list[n - 1], addresses[n])
  IN  list[Len(addresses)]

GetEmailRecipients       == Unique(job.rules)
\* splitstring's result is taken from the back.
GetGlobalEmailRecipients == Unique(Reverse(job.globals))

\* GetNumberViolations of the report as cEmailReportViewer sees it for `to'.
HasViolations(round, to) == IF round = "global" THEN job.any ELSE to \in job.hit
IsWanted(round, to) == HasViolations(round, to) \/ job.mailNoViolations

Mailing == stage \in {"rules", "global"}
To      == Head(pending)
Now     == <<stage, To>>

Init ==
  /\ job \in [method : Methods, mailNoViolations : BOOLEAN,
              rules : RuleLists, globals : GlobalLists,
              hit : SUBSET Address, any : BOOLEAN, hasName : BOOLEAN]
  /\ job.hit \subseteq ToSet(job.rules)
  /\ job.hit # {} => job.any
  /\ job.method # "SMTP" => job.hasName
  /\ stage = "rules"
  /\ pending = GetEmailRecipients
  /\ ret = TRUE
  /\ waiting = 0 /\ link = "none" /\ session = 0
  /\ sent = << >> /\ replies = << >>
  /\ accepted = {} /\ notified = << >> /\ errors = {}
  /\ exit = "none"
  /\ untimely = FALSE

-----------------------------------------------------------------------------
\* EmailReportTo returns, and DoEmailReports goes on to the next address.

\* Mutant: what was awaited of the old connection is awaited of none.
StillWaiting ==
  /\ waiting' = waiting /\ link' = "none" /\ session' = 0
  /\ sent' = << >> /\ replies' = << >>

Disconnected ==
  /\ waiting' = 0 /\ link' = "none" /\ session' = 0
  /\ sent' = << >> /\ replies' = << >>

\* Mutant: the first failure ends the round.
GoOnUnlessFailed(success) ==
  /\ pending' = IF success THEN Tail(pending) ELSE << >>
  /\ ret' = (ret /\ success)

\* Mutant: the last address decides.
GoOnWithLast(success) ==
  /\ pending' = Tail(pending)
  /\ ret' = success

GoOn(success) ==
  /\ pending' = Tail(pending)
  /\ ret' = (ret /\ success)

\* What Send returns is not looked at: a return without an exception is success,
\* also when the report could not be read into the message, or the name of this
\* host not be found and nothing was sent.
Succeed ==
  /\ GoOn(TRUE)
  /\ UNCHANGED errors

\* catch(eError&) prints the error.  The socket is not closed.
Fail ==
  /\ GoOn(FALSE)
  /\ errors' = errors \cup {Now}

\* The temporary file cannot be made or the report cannot be printed into it.
PrintFails ==
  /\ Mailing /\ waiting = 0 /\ pending # << >>
  /\ Fail
  /\ UNCHANGED <<job, stage, connection, accepted, notified, exit, untimely>>

\* There is nothing this address wants to know.
NotWanted ==
  /\ Mailing /\ waiting = 0 /\ pending # << >>
  /\ ~IsWanted(stage, To)
  /\ Succeed
  /\ UNCHANGED <<job, stage, connection, accepted, notified, exit, untimely>>

\* The message is announced and handed to the method's Send.
Announce(method) ==
  /\ Mailing /\ waiting = 0 /\ pending # << >>
  /\ IsWanted(stage, To)
  /\ job.method = method
  /\ notified' = Append(notified, Now)

-----------------------------------------------------------------------------
\* cPipedMailMessage::Send

\* mpopen, a write or the program's exit code says that it failed.
PipeFails ==
  /\ Announce("SENDMAIL")
  /\ Fail
  /\ UNCHANGED <<job, stage, connection, accepted, exit, untimely>>

PipeTakes ==
  /\ Announce("SENDMAIL")
  /\ accepted' = accepted \cup {Now}
  /\ Succeed
  /\ UNCHANGED <<job, stage, connection, exit, untimely>>

-----------------------------------------------------------------------------
\* cSMTPMailMessage::Send

\* MailMessage waits for the greeting, and then for the answer to each command.
Commands == <<"connect", "HELO", "MAIL", "RCPT", "DATA", "text">>
Final    == Len(Commands)

OpenConnection ==
  /\ Announce("SMTP")
  /\ \/ /\ waiting' = 1 /\ link' = "up" /\ session' = 0
        /\ sent' = <<1>> /\ replies' = << >>
        /\ UNCHANGED <<pending, ret, errors>>
     \/ /\ Fail
        /\ UNCHANGED connection
  /\ UNCHANGED <<job, stage, accepted, exit, untimely>>

\* The answer was good.  MailMessage ends after the message, with QUIT, and after
\* the greeting when gethostname fails: HELO cannot be sent.
IsLast(command) == command = Final \/ (command = 1 /\ ~job.hasName)

\* The next command is sent, or the connection is closed, which may fail.
Proceed ==
  \/ /\ ~IsLast(waiting)
     /\ waiting' = waiting + 1
     /\ sent' = Append(sent, waiting + 1)
     /\ UNCHANGED <<link, session, pending, ret, errors>>
  \/ /\ IsLast(waiting)
     /\ Succeed \/ Fail
     /\ Disconnected

GiveUp == Fail /\ Disconnected

\* select says there is something to read.  recv takes what has arrived, of
\* which the first line decides.
GetAcknowledgement ==
  /\ waiting # 0 /\ link # "reset" /\ replies # << >>
  /\ \E n \in 1 .. Len(replies) :
       IF Head(replies)
       THEN /\ Proceed
            /\ ~IsLast(waiting) => replies' = SubSeq(replies, n + 1, Len(replies))
       ELSE GiveUp
  /\ UNCHANGED <<job, stage, accepted, notified, exit, untimely>>

\* Mutant: the client waits until there is an answer.
NeverTimesOut == FALSE

\* select returns after sixty seconds.  The code is read from a buffer nothing
\* was written to: it may be any number.
TimesOut ==
  /\ waiting # 0 /\ link = "up" /\ replies = << >>
  /\ untimely' = TRUE
  /\ \/ Proceed /\ (~IsLast(waiting) => UNCHANGED replies)
     \/ GiveUp
  /\ UNCHANGED <<job, stage, accepted, notified, exit>>

\* The server has closed the connection: recv returns 0, the code is 0.
EndOfStream ==
  /\ waiting # 0 /\ link = "closed" /\ replies = << >>
  /\ GiveUp
  /\ UNCHANGED <<job, stage, accepted, notified, exit, untimely>>

\* recv returns -1, and a string of -1 characters is a std::length_error.  It
\* is no eError: it leaves EmailReport and Execute, up to main.
ReceiveFails ==
  /\ waiting # 0 /\ link = "reset"
  /\ stage' = "aborted"
  /\ exit' = "error"
  /\ Disconnected
  /\ UNCHANGED <<job, pending, ret, accepted, notified, errors, untimely>>

-----------------------------------------------------------------------------
\* The server and the network

\* What a server can accept: commands in their order.
IsLegal(command) == command <= 2 \/ session = command - 1

Answer ==
  /\ link = "up" /\ sent # << >>
  /\ \E ok \in BOOLEAN, pieces \in 1 .. 2 :
       LET command == Head(sent) IN
       /\ ok => IsLegal(command)
       /\ pieces = 2 => command = 1
       /\ replies' = replies \o [i \in 1 .. pieces |-> ok]
       /\ untimely' = (untimely \/ pieces = 2)
       /\ session' = IF ok THEN command ELSE session
       /\ accepted' = IF ok /\ command = Final
                      THEN accepted \cup {Now} ELSE accepted
  /\ sent' = Tail(sent)
  /\ UNCHANGED <<job, stage, pending, ret, waiting, link, notified, errors, exit>>

HangUp ==
  /\ link = "up"
  /\ link' \in {"closed", "reset"}
  /\ UNCHANGED <<job, stage, pending, ret, waiting, session, sent, replies,
                 accepted, notified, errors, exit, untimely>>

-----------------------------------------------------------------------------
\* EmailReport and the end of Execute

RoundEnds == Mailing /\ pending = << >>

\* The global list is served unless an address of the rules failed.
GlobalRound ==
  /\ RoundEnds /\ stage = "rules" /\ ret
  /\ stage' = "global"
  /\ pending' = GetGlobalEmailRecipients
  /\ UNCHANGED <<job, ret, connection, accepted, notified, errors, exit, untimely>>

\* The report is written, whatever EmailReport returned.
WriteReport ==
  /\ RoundEnds /\ (stage = "rules" => ~ret)
  /\ stage' = "saved"
  /\ exit' = IF ret THEN "ok" ELSE "error"
  /\ UNCHANGED <<job, pending, ret, connection, accepted, notified, errors, untimely>>

\* BackupFile or WriteReport throws: Execute returns 8.
WriteFails ==
  /\ RoundEnds /\ (stage = "rules" => ~ret)
  /\ stage' = "unsaved"
  /\ exit' = "error"
  /\ UNCHANGED <<job, pending, ret, connection, accepted, notified, errors, untimely>>

Client ==
  \/ PrintFails \/ NotWanted
  \/ PipeFails \/ PipeTakes
  \/ OpenConnection \/ GetAcknowledgement \/ TimesOut \/ EndOfStream \/ ReceiveFails
  \/ GlobalRound \/ WriteReport \/ WriteFails

Environment == Answer \/ HangUp

Next == Client \/ Environment

\* The client always comes to its next step: select returns after sixty
\* seconds at the latest.  Nothing is asked of the server.
Spec == Init /\ [][Next]_vars /\ WF_vars(Client)

-----------------------------------------------------------------------------
Ended == stage \in {"saved", "unsaved", "aborted"}

\* Everyone a round concerns, once.
Concerned(round) ==
  {<<round, a>> : a \in {a \in ToSet(IF round = "rules" THEN job.rules ELSE job.globals) :
                           IsWanted(round, a)}}

Pairs == {"rules", "global"} \X Address

\* The types of the variables.
TypeOK ==
  /\ stage \in {"rules", "global", "saved", "unsaved", "aborted"}
  /\ pending \in Seq(Address)
  /\ ret \in BOOLEAN
  /\ waiting \in 0 .. Final /\ session \in 0 .. Final
  /\ (waiting # 0) <=> (link # "none")
  /\ link \in {"none", "up", "closed", "reset"}
  /\ sent \in Seq(1 .. Final) /\ replies \in Seq(BOOLEAN)
  /\ accepted \subseteq Pairs /\ errors \subseteq Pairs
  /\ notified \in Seq(Pairs)
  /\ exit \in {"none", "ok", "error"}
  /\ untimely \in BOOLEAN

\* Nobody is mailed twice in a round, nobody is mailed whom the report does not
\* concern, and a failure for one address of the rules keeps no other address
\* of the rules from being tried, however the addresses repeat and the server
\* behaves (GetEmailRecipients, DoEmailReports, EmailReportTo).
ConcernedAreTriedOnce ==
  /\ IsInjective(notified)
  /\ ToSet(notified) \subseteq Concerned("rules") \cup Concerned("global")
  /\ accepted \subseteq ToSet(notified)
  /\ stage \in {"global", "saved", "unsaved"} =>
       Concerned("rules") \subseteq ToSet(notified) \cup errors

\* Every answer came in time and in one piece, and HELO can be sent.
Undisturbed == ~untimely /\ job.hasName

\* An exit code without ERROR_IC is a promise, when every answer came in time and
\* in one piece and this host has a name: a server or mail program has accepted a
\* message for everyone concerned, those of GLOBALEMAIL included (EmailReport's
\* result, GetAcknowledgement, cTWModeIC::Execute).
CleanExitMeansDelivered ==
  exit = "ok" =>
    /\ errors = {}
    /\ stage = "saved"
    /\ Undisturbed => Concerned("rules") \cup Concerned("global") \subseteq accepted

\* Mailing ends, whatever the server does or fails to do, and with it the check
\* (the timeout of GetAcknowledgement).
Ends == <>Ended

\* EmailReportTo says "we want to continue from email errors, so make them
\* non-fatal": no mail error keeps the report from being written.
MailErrorsAreNotFatal == stage # "aborted"
=============================================================================
