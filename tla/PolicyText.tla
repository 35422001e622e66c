----------------------------- MODULE PolicyText -----------------------------
(***************************************************************************)
(* What a policy text means, as man/man4/twpolicy.4 has it and without a   *)
(* parser's state: which statements this machine reads, which variable and *)
(* attribute values hold where, which rule an object belongs to.  A text   *)
(* is a sequence of statements; "close" is a } or an @@endif, "end" the    *)
(* end of the file or @@end.                                               *)
(***************************************************************************)
EXTENDS StopPointSet, FiniteSets, TLC

CONSTANTS
  Var,         \* names of variables
  Predefined   \* the values of those that are predefined

\* Severity may be written as a variable: severity = $(v).
UsesVariable(attrs) ==
  "severity" \in DOMAIN attrs /\ attrs.severity \in Var

-----------------------------------------------------------------------------
\* Blocks

Opens(t, k) == t[k].op \in {"scope", "ifhost"}

\* How many blocks are open after statement k.
Level(t, k) == Cardinality({j \in 1 .. k : Opens(t, j)})
             - Cardinality({j \in 1 .. k : t[j].op = "close"})

Encloses(t, j, k) ==
  /\ j < k
  /\ Opens(t, j)
  /\ \A m \in j + 1 .. k - 1 : Level(t, m) >= Level(t, j)

\* k is behind the @@else of the @@ifhost j that encloses it.
BehindElse(t, j, k) ==
  \E m \in j + 1 .. k - 1 : t[m].op = "else" /\ Level(t, m) = Level(t, j)

-----------------------------------------------------------------------------
\* Statements that are read

HostReads(t, k) ==
  \A j \in 1 .. k - 1 :
    Encloses(t, j, k) /\ t[j].op = "ifhost" => t[j].match # BehindElse(t, j, k)

\* Text of a section for another system is skipped.
SectionIsRead(t, k) ==
  LET before == {j \in 1 .. k - 1 : t[j].op = "section"}
  IN before # {} => t[CHOOSE j \in before : \A i \in before : i <= j].section = "FS"

IsLive(t, k) == HostReads(t, k) /\ SectionIsRead(t, k)

Live(t, ops) == {k \in DOMAIN t : t[k].op \in ops /\ IsLive(t, k)}

-----------------------------------------------------------------------------
\* Values

Latest(S) == CHOOSE k \in S : \A j \in S : j <= k

\* A variable has the value it was last given before its use; predefined
\* variables never change, the section's own go before global ones.
ValueAt(t, k, v) ==
  LET given(op) == {j \in Live(t, {op}) : j < k /\ t[j].var = v}
  IN CASE v \in DOMAIN Predefined -> Predefined[v]
       [] v \notin DOMAIN Predefined /\ given("assign") # {} ->
            t[Latest(given("assign"))].value
       [] OTHER -> t[Latest(given("assign global"))].value

IsGiven(t, k, v) ==
  \/ v \in DOMAIN Predefined
  \/ \E j \in Live(t, {"assign", "assign global"}) : j < k /\ t[j].var = v

\* The statements that give attribute a to the rule at k: itself and the
\* blocks around it.
Givers(t, k, a) ==
  {j \in 1 .. k : /\ j = k \/ (Encloses(t, j, k) /\ t[j].op = "scope")
                  /\ a \in DOMAIN t[j].attrs}

\* The innermost severity and recurse depth, everybody's addresses.
AttrAt(t, k, a) ==
  LET inner == Latest(Givers(t, k, a))
      given == t[inner].attrs
  IN CASE a = "emailto" -> UNION {t[j].attrs.emailto : j \in Givers(t, k, a)}
       [] a = "severity" /\ UsesVariable(given) -> ValueAt(t, inner, given.severity)
       [] OTHER -> given[a]

AttrsAt(t, k) ==
  [a \in {b \in {"severity", "emailto", "recurse"} : Givers(t, k, b) # {}} |->
     AttrAt(t, k, a)]

-----------------------------------------------------------------------------
\* Objects

\* Every object belongs to the nearest rule or stop point at or above it.
PointsOver(t, n) == {k \in Live(t, {"rule", "stop"}) : AtOrBelow(n, t[k].name)}
Nearest(t, n) ==
  CHOOSE k \in PointsOver(t, n) :
    \A j \in PointsOver(t, n) : Len(t[j].name) <= Len(t[k].name)

BelongsTo(t, n, k) == PointsOver(t, n) # {} /\ Nearest(t, n) = k

-----------------------------------------------------------------------------
\* Texts that are refused, and by which of their statements

\* Two rules or stop points of one name.
SecondPoint(t, k) ==
  /\ k \in Live(t, {"rule", "stop"})
  /\ \E j \in Live(t, {"rule", "stop"}) : j < k /\ t[j].name = t[k].name

UndefinedVariable(t, k) ==
  /\ k \in Live(t, {"rule", "scope"})
  /\ UsesVariable(t[k].attrs)
  /\ ~IsGiven(t, k, t[k].attrs.severity)

SectionInside(t, k) == t[k].op = "section" /\ Level(t, k) > 0

\* The section FS begins again: it was begun by its name, or by statements
\* that made something of it.
SecondSection(t, k) ==
  /\ t[k].op = "section" /\ t[k].section = "FS"
  /\ \E j \in 1 .. k - 1 :
       \/ t[j].op = "section" /\ t[j].section = "FS"
       \/ j \in Live(t, {"rule", "stop", "assign"})
       \/ j \in Live(t, {"scope"}) /\ UsesVariable(t[j].attrs)

\* The text ends within a block, or has no rules.
EndsAmiss(t, k) ==
  t[k].op = "end" /\ (Level(t, k) > 0 \/ Live(t, {"rule"}) = {})

IsFault(t, k) ==
  \/ k \in Live(t, {"assign"}) /\ t[k].var \in DOMAIN Predefined
  \/ SecondPoint(t, k)
  \/ UndefinedVariable(t, k)
  \/ SectionInside(t, k)
  \/ SecondSection(t, k)
  \/ EndsAmiss(t, k)
  \/ k \in Live(t, {"error"})
=============================================================================
