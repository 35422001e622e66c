------------------------------- MODULE Policy -------------------------------
(***************************************************************************)
(* Reading a policy: the actions of the grammar (parser/policy.y) and the  *)
(* lexer's start conditions (parser/tokens.l) over the parser's statics    *)
(* (twparser/parserhelper.cpp), and the rule specifications made from what *)
(* was read (cParserUtil::CreateFCOSpecs).                                 *)
(*                                                                         *)
(* One action reads one statement.  Of attributes and variables the model  *)
(* keeps those a policy can go wrong by: severity has one value and may be *)
(* given by a variable, emailto adds up, recurse decides the helper.       *)
(* Statements that are not grammatical are not read.                       *)
(***************************************************************************)
EXTENDS PolicyText

CONSTANTS
  Rule,           \* rules as written: [name, attrs]
  Stop,           \* names of stop points
  Scope,          \* attribute lists in front of a block
  Assignment,     \* variable assignments: [var, value]
  Name,           \* names of objects
  MaxStatements   \* bound on the length of a text

\* What a list of attributes may hold; Validate takes recurse for a number.
Attributes(attrs) ==
  /\ attrs = [a \in DOMAIN attrs |-> attrs[a]]
  /\ DOMAIN attrs \subseteq {"severity", "emailto", "recurse"}
  /\ "recurse" \in DOMAIN attrs => attrs.recurse \in Int

ASSUME TextIsBounded == MaxStatements \in Nat
ASSUME RulesAreWritten ==
  \A r \in Rule : /\ DOMAIN r = {"name", "attrs"}
                  /\ r.name \in Seq(Nat) /\ Attributes(r.attrs)
ASSUME StopsAreNames   == \A n \in Stop \cup Name : n \in Seq(Nat)
ASSUME ScopesAreLists  == \A attrs \in Scope : Attributes(attrs)
ASSUME VariablesAreSet ==
  \A a \in Assignment : DOMAIN a = {"var", "value"} /\ a.var \in Var

VARIABLES
  text,      \* the statements read so far
  status,    \* "reading", "refused" (an exception, or yyparse # 0) or "done"
  lexer,     \* the start condition: "initial" or "globals"
  open,      \* the parser's stack: the blocks that are not closed yet
  accept,    \* cPreprocessor::mStateStack, TRUE for STATE_ACCEPT
  ignoring,  \* cPreprocessor::mfIgnoreSection
  scopes,    \* cParserHelper::mScopedAttrs
  defined,   \* the genre has a cGenreParseInfo in mAph
  locals,    \* its mLocalVarTable
  globals,   \* cParserHelper::mGlobalVarTable
  rules,     \* its mRuleList
  stops,     \* its mStopList
  specs      \* the cFCOSpecList, with each spec's cFCOSpecAttr

lists      == <<locals, globals, rules, stops>>
blocks     == <<open, accept, scopes>>
parserVars == <<text, status, lexer, blocks, ignoring, defined, lists, specs>>

ParserInit ==
  /\ text = << >>
  /\ status = "reading"
  /\ lexer = "initial"
  /\ open = << >>
  /\ accept = <<TRUE>>
  /\ ignoring = FALSE
  /\ scopes = << >>
  /\ defined = FALSE
  /\ locals = << >> /\ globals = << >> /\ rules = << >> /\ stops = << >>
  /\ specs = << >>

\* cPreprocessor::GetState
Accepting == Last(accept) /\ ~ignoring

-----------------------------------------------------------------------------
\* Variables and attributes

\* cHashTable::Insert, of the symbol tables: a value that is there is replaced.
WithValue(table, a) ==
  [v \in DOMAIN table \cup {a.var} |-> IF v = a.var THEN a.value ELSE table[v]]

Known(v)  == v \in DOMAIN Predefined \cup DOMAIN locals \cup DOMAIN globals
Lookup(v) == CASE v \in DOMAIN Predefined -> Predefined[v]
               [] v \in DOMAIN locals \ DOMAIN Predefined -> locals[v]
               [] OTHER -> globals[v]

\* A variable in text that is ignored stands for the empty string.
Evaluated(attrs) ==
  [a \in DOMAIN attrs |->
     IF a = "severity" /\ UsesVariable(attrs)
     THEN IF Accepting THEN Lookup(attrs.severity) ELSE ""
     ELSE attrs[a]]

\* LookupVariable fails, or cParseNamedAttr::Validate does not find a number.
IsBad(attrs) ==
  /\ UsesVariable(attrs)
  /\ Accepting => ~Known(attrs.severity)

\* Mutant: addresses are attributes like others, the inner ones replace.
MergeNoAdding(inner, outer) == inner @@ outer

\* cParseNamedAttrList::MergeNoOverwrite
MergeNoOverwrite(inner, outer) ==
  [a \in DOMAIN inner \cup DOMAIN outer |->
     IF a = "emailto" /\ a \in DOMAIN inner \cap DOMAIN outer
     THEN inner[a] \cup outer[a]
     ELSE IF a \in DOMAIN inner THEN inner[a] ELSE outer[a]]

\* cParserHelper::GetGlobalAttrList: what the scopes around give a rule.
GlobalAttrs == IF scopes = << >> THEN << >> ELSE Last(scopes)

\* GetGenreInfo makes the genre's information when it is first asked for.
Uses(attrs) == Accepting /\ UsesVariable(attrs)

-----------------------------------------------------------------------------
\* Statements

Read(s) ==
  /\ status = "reading"
  /\ Len(text) < MaxStatements
  /\ text' = Append(text, s)

ReadInitial(s) == lexer = "initial" /\ Read(s)

\* An exception leaves the parser, and the program.
Refuse ==
  /\ status' = "refused"
  /\ UNCHANGED <<lexer, blocks, ignoring, defined, lists, specs>>

\* cGenreParseInfo::RulePointAlreadyDefined
PointAlreadyDefined(n) ==
  n \in Range(stops) \cup {rules[i].name : i \in DOMAIN rules}

\* Mutant: a rule is not a stop point to the rules above it.
AddRuleAlone(r) ==
  /\ stops' = stops
  /\ rules' = Append(rules, r)

AddRule(r) ==
  /\ stops' = Append(stops, r.name)
  /\ rules' = Append(rules, r)

ReadRule(r) ==
  /\ ReadInitial([op |-> "rule", name |-> r.name, attrs |-> r.attrs])
  /\ \/ /\ IsBad(r.attrs) \/ (Accepting /\ PointAlreadyDefined(r.name))
        /\ Refuse
     \/ /\ ~IsBad(r.attrs)
        /\ Accepting /\ ~PointAlreadyDefined(r.name)
        /\ AddRule([name  |-> r.name,
                    attrs |-> MergeNoOverwrite(Evaluated(r.attrs), GlobalAttrs)])
        /\ defined' = TRUE
        /\ UNCHANGED <<status, lexer, blocks, ignoring, locals, globals, specs>>
     \/ /\ ~IsBad(r.attrs)
        /\ ~Accepting
        /\ UNCHANGED <<status, lexer, blocks, ignoring, defined, lists, specs>>

ReadStop(n) ==
  /\ ReadInitial([op |-> "stop", name |-> n])
  /\ \/ /\ Accepting /\ PointAlreadyDefined(n)
        /\ Refuse
     \/ /\ Accepting /\ ~PointAlreadyDefined(n)
        /\ stops' = Append(stops, n)
        /\ defined' = TRUE
        /\ UNCHANGED <<status, lexer, blocks, ignoring, locals, globals, rules, specs>>
     \/ /\ ~Accepting
        /\ UNCHANGED <<status, lexer, blocks, ignoring, defined, lists, specs>>

Assign(a) ==
  /\ ReadInitial([op |-> "assign", var |-> a.var, value |-> a.value])
  /\ \/ /\ Accepting /\ a.var \in DOMAIN Predefined
        /\ Refuse
     \/ /\ Accepting /\ a.var \notin DOMAIN Predefined
        /\ locals' = WithValue(locals, a)
        /\ defined' = TRUE
        /\ UNCHANGED <<status, lexer, blocks, ignoring, globals, rules, stops, specs>>
     \/ /\ ~Accepting
        /\ UNCHANGED <<status, lexer, blocks, ignoring, defined, lists, specs>>

AssignGlobal(a) ==
  /\ lexer = "globals"
  /\ Read([op |-> "assign global", var |-> a.var, value |-> a.value])
  /\ globals' = IF Accepting THEN WithValue(globals, a) ELSE globals
  /\ UNCHANGED <<status, lexer, blocks, ignoring, defined, locals, rules, stops, specs>>

\* ( attributes ) {
OpenScope(attrs) ==
  /\ ReadInitial([op |-> "scope", attrs |-> attrs])
  /\ \/ /\ IsBad(attrs)
        /\ Refuse
     \/ /\ ~IsBad(attrs)
        /\ open' = Append(open, "scope")
        /\ scopes' = Append(scopes, MergeNoOverwrite(Evaluated(attrs), GlobalAttrs))
        /\ defined' = (defined \/ Uses(attrs))
        /\ UNCHANGED <<status, lexer, accept, ignoring, lists, specs>>

\* }
CloseScope ==
  /\ open # << >> /\ Last(open) = "scope"
  /\ ReadInitial([op |-> "close"])
  /\ open' = Front(open)
  /\ scopes' = Front(scopes)
  /\ UNCHANGED <<status, lexer, accept, ignoring, defined, lists, specs>>

\* What @@ifhost pushes.
StateOf(match) == Accepting /\ match

Ifhost(match) ==
  /\ ReadInitial([op |-> "ifhost", match |-> match])
  /\ open' = Append(open, "ifhost")
  /\ accept' = Append(accept, StateOf(match))
  /\ UNCHANGED <<status, lexer, scopes, ignoring, defined, lists, specs>>

\* Mutant: @@else turns the state whatever is around the directive.
Turned(states) == [states EXCEPT ![Len(states)] = ~@]

\* Mutant: the turned state is pushed on top of the old one.
TurnedAbove(states) ==
  IF states[Len(states) - 1] THEN Append(states, ~Last(states)) ELSE states

\* The @@else branch, with GetLastState the state underneath the top.
Toggled(states) ==
  IF states[Len(states) - 1] THEN [states EXCEPT ![Len(states)] = ~@] ELSE states

Else ==
  /\ open # << >> /\ Last(open) = "ifhost"
  /\ ReadInitial([op |-> "else"])
  /\ open' = Append(Front(open), "else")
  /\ accept' = Toggled(accept)
  /\ UNCHANGED <<status, lexer, scopes, ignoring, defined, lists, specs>>

Endif ==
  /\ open # << >> /\ Last(open) \in {"ifhost", "else"}
  /\ ReadInitial([op |-> "close"])
  /\ open' = Front(open)
  /\ accept' = Front(accept)
  /\ UNCHANGED <<status, lexer, scopes, ignoring, defined, lists, specs>>

\* The lexer swallows the directive; no statement is made of it.
GlobalSection ==
  /\ ReadInitial([op |-> "global section"])
  /\ lexer' = "globals"
  /\ UNCHANGED <<status, blocks, ignoring, defined, lists, specs>>

\* @@section and cParserHelper::SetSection.  GLOBAL comes here only when the
\* lexer is in the globals condition already; it is no genre.
Section(s) ==
  /\ s = "GLOBAL" => lexer = "globals"
  /\ Read([op |-> "section", section |-> s])
  /\ \/ /\ Len(accept) > 1 \/ scopes # << >> \/ (s = "FS" /\ defined)
        /\ Refuse
     \/ /\ Len(accept) = 1 /\ scopes = << >>
        /\ s = "FS" => ~defined
        /\ lexer' = "initial"
        /\ ignoring' = (s # "FS")
        /\ defined' = (defined \/ s = "FS")
        /\ UNCHANGED <<status, blocks, lists, specs>>

ErrorDirective ==
  /\ ReadInitial([op |-> "error"])
  /\ IF Accepting
     THEN Refuse
     ELSE UNCHANGED <<status, lexer, blocks, ignoring, defined, lists, specs>>

-----------------------------------------------------------------------------
\* Rule specifications

\* -1 is RECURSE_INFINITE, and what a rule without the attribute gets.
DepthOf(r) == IF "recurse" \in DOMAIN r.attrs THEN r.attrs.recurse ELSE Infinite

\* cParserUtil::CreateFCOSpecs: those of the stop points that are below the
\* start point, in the order of the file; start point and depth come after.
HelperFor(r) ==
  LET added[k \in 0 .. Len(stops)] ==
        IF k = 0 THEN StopPoints(<< >>, {}, Infinite)
        ELSE IF Below(stops[k], r.name) THEN WithStop(added[k - 1], stops[k])
        ELSE added[k - 1]
  IN IF DepthOf(r) = 0
     THEN NoChildren(r.name)
     ELSE StopPoints(r.name, added[Len(stops)].stops, DepthOf(r))

\* The end of the text, or @@end, and cParserHelper::Finit: an open block is
\* a syntax error, and so is a policy without rules an error.
Finish ==
  /\ status = "reading"
  /\ text' = Append(text, [op |-> "end"])
  /\ \/ /\ open # << >> \/ rules = << >>
        /\ Refuse
     \/ /\ open = << >> /\ rules # << >>
        /\ status' = "done"
        /\ specs' = [i \in DOMAIN rules |->
                       [helper |-> HelperFor(rules[i]), attrs |-> rules[i].attrs]]
        /\ UNCHANGED <<lexer, blocks, ignoring, defined, lists>>

ParserNext ==
  \/ \E r \in Rule : ReadRule(r)
  \/ \E n \in Stop : ReadStop(n)
  \/ \E a \in Assignment : Assign(a) \/ AssignGlobal(a)
  \/ \E attrs \in Scope : OpenScope(attrs)
  \/ CloseScope
  \/ \E match \in BOOLEAN : Ifhost(match)
  \/ Else
  \/ Endif
  \/ GlobalSection
  \/ \E s \in {"FS", "NTFS", "GLOBAL"} : Section(s)
  \/ ErrorDirective
  \/ Finish

ParserSpec == ParserInit /\ [][ParserNext]_parserVars

-----------------------------------------------------------------------------
\* The parser's stacks are as deep as the blocks that are open.
ParserTypeOK ==
  /\ status \in {"reading", "refused", "done"}
  /\ lexer \in {"initial", "globals"}
  /\ open \in Seq({"scope", "ifhost", "else"})
  /\ accept \in Seq(BOOLEAN) /\ accept # << >> /\ accept[1]
  /\ Len(accept) - 1 = Cardinality({i \in DOMAIN open : open[i] # "scope"})
  /\ Len(scopes) = Cardinality({i \in DOMAIN open : open[i] = "scope"})
  /\ ignoring \in BOOLEAN /\ defined \in BOOLEAN
  /\ rules # << >> => defined
  /\ DOMAIN locals \cup DOMAIN globals \subseteq Var

\* The rule at k is the how manieth that is for this machine.
PlaceOf(t, k) == Cardinality({j \in Live(t, {"rule"}) : j <= k})

\* The rules are the text's, in its order: those of the branches of @@ifhost
\* for this host and of the sections for this system, each with the attributes
\* of its own and of the blocks around it, a variable in them with the value
\* it had where it was written.
SpecsFollowText ==
  status = "done" =>
    /\ Len(specs) = Cardinality(Live(text, {"rule"}))
    /\ \A k \in Live(text, {"rule"}) :
         LET spec == specs[PlaceOf(text, k)]
         IN spec.helper.start = text[k].name /\ spec.attrs = AttrsAt(text, k)

\* fcospechelper.h:126-128, "all stop points are unrelated": they are the
\* topmost points below the start point, whatever the order of the lines.
StopsAreTopmost ==
  \A i \in DOMAIN specs :
    LET s     == specs[i].helper
        below == {n \in Range(stops) : Below(n, s.start)}
    IN s.kind = "stop points" =>
         s.stops = {n \in below : \A m \in below : ~Below(n, m)}

\* man/man4/twpolicy.4: "Only one rule may be associated with any given
\* object."  An object is in the specification of the nearest rule above it,
\* unless a stop point is nearer, and in no other; and a walk that asks
\* ShouldStopDescent on its way comes to just these, down to the depth.
NearestPointDecides ==
  status = "done" =>
    /\ StopsAreTopmost
    /\ \A k \in Live(text, {"rule"}), n \in Name :
         LET s      == specs[PlaceOf(text, k)].helper
             within == s.kind = "no children" => n = s.start
             mine   == BelongsTo(text, n, k) /\ within
         IN /\ ContainsFCO(s, n) <=> mine
            /\ Walked(s, n) <=> mine /\ WithinDepth(s, n)

\* A variable for a severity in text that is skipped is the empty string, a
\* bad severity, although twpolicy.4:391-397 has all such text skipped.
SkippedVariable(k) ==
  /\ text[k].op \in {"rule", "scope"} /\ ~IsLive(text, k)
  /\ UsesVariable(text[k].attrs)

\* A policy is refused at the first statement that is at fault, an open block
\* or the lack of rules at its end among them, and for no other reason.
RefusedForAFault ==
  LET fault(k) == IsFault(text, k) \/ SkippedVariable(k)
  IN /\ \A k \in DOMAIN text : fault(k) => k = Len(text) /\ status = "refused"
     /\ status = "refused" => fault(Len(text))

=============================================================================
