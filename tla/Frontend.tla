------------------------------ MODULE Frontend ------------------------------
(***************************************************************************)
(* `pluma format` run over and over on a file (format_command, and         *)
(* format_source_with_width under it): the file is read and parsed; one    *)
(* with an error is skipped; the others are laid out and written back when *)
(* that changes them.                                                      *)
(***************************************************************************)
EXTENDS Lexer, FiniteSets

CONSTANTS Parse(_),        \* the parser (Parser!ParseModule)
          Layout(_, _, _),  \* the formatter (Formatter!FormatText)
          Files,           \* the texts a file may begin with
          Widths,          \* line widths
          MaxRuns          \* how often the command is run

ASSUME FrontendAssumption == MaxRuns \in Nat /\ Widths \subseteq Nat

VARIABLES file, original, width, module, out, at, runs

vars == <<file, original, width, module, out, at, runs>>

NoModule == [uses |-> <<>>, defs |-> <<>>, x |-> FALSE]

Init ==
    /\ file \in Files /\ original = file
    /\ width \in Widths
    /\ module = NoModule /\ out = <<>>
    /\ at = "idle" /\ runs = 0

\* Read the file and parse it (parse_from_bytes).
ReadFile ==
    /\ at = "idle" /\ runs < MaxRuns
    /\ module' = Parse(file)
    /\ at' = "parsed"
    /\ UNCHANGED <<file, original, width, out, runs>>

\* A file with an error is skipped, not formatted.
SkipFile ==
    /\ at = "parsed" /\ module.x
    /\ at' = "skipped"
    /\ UNCHANGED <<file, original, width, module, out, runs>>

LayOut ==
    /\ at = "parsed" /\ ~module.x
    /\ out' = Layout(file, module, width)
    /\ at' = "laid out"
    /\ UNCHANGED <<file, original, width, module, runs>>

\* Written only when it changed; the next run starts over.
WriteBack ==
    /\ at = "laid out"
    /\ file' = out
    /\ at' = "idle" /\ runs' = runs + 1 /\ module' = NoModule
    /\ UNCHANGED <<original, width, out>>

Next == ReadFile \/ SkipFile \/ LayOut \/ WriteBack

Spec == Init /\ [][Next]_vars
-----------------------------------------------------------------------------
(* Properties. *)

\* A tree without what the layout may change: the lines, and groupings,
\* which the formatter drops and sets again from precedence.
RECURSIVE Bare(_)
Bare(n) == IF n.k = "group" THEN Bare(n.c[1])
           ELSE <<n.k, n.v, [k \in 1 .. Len(n.c) |-> Bare(n.c[k])]>>

\* What a module says: its definitions in order, and its imports, which the
\* formatter may reorder.
Meaning(m) ==
    <<{Bare(m.uses[k]) : k \in 1 .. Len(m.uses)}, [k \in 1 .. Len(m.defs) |-> Bare(m.defs[k])]>>

\* Formatting keeps the program: what a file says when it is parsed after
\* any number of runs is what it said when it was first written.  Dropped
\* parentheses, moved line breaks and comments never change the parse.
MeaningKept ==
    at = "parsed" /\ runs > 0 =>
        ~module.x /\ Meaning(module) = Meaning(Parse(original))

\* Formatting a formatted file changes nothing: `--check` accepts what the
\* command has just written.
FormatIsStable == at = "laid out" /\ runs > 0 => out = file

\* No comment is lost, duplicated or swallowed by another, and none swallows
\* what follows it: a comment is the last thing on its line.
CommentsKept ==
    at = "laid out" =>
        /\ LET Texts(cm) == [c \in Comments |-> Cardinality({l \in DOMAIN cm : cm[l] = c})]
           IN Texts(CommentsOf(out)) = Texts(CommentsOf(file))
        /\ \A k \in 1 .. Len(out) : out[k] \in Comments => Lexeme(out, k + 1) = "nl"

\* The paragraphs of a text: what stands between blank lines.
Paragraphs(text) ==
    LET gap(k) == Lexeme(text, k) = "nl" /\ Lexeme(text, k + 1) = "nl"
        cuts == {0, Len(text)} \cup {k \in 1 .. Len(text) : gap(k)}
    IN {SubSeq(text, i + 1, CHOOSE j \in cuts : j > i /\ \A m \in cuts : m > i => j <= m) : i \in cuts \ {Len(text)}}

\* A paragraph whose first word is a keyword.
Defines(text) == \E k \in 1 .. Len(text) : text[k] \in Keywords /\ \A j \in 1 .. k - 1 : Blank(text[j])

Balanced(text) ==
    LET Count(l) == Cardinality({k \in 1 .. Len(text) : text[k] = l}) IN Count("{") = Count("}")

\* An error costs only the definition it is in: a definition that is sound
\* on its own is in the module, whatever is wrong in the paragraphs before
\* and after it, as long as their braces balance.  The editor's features on
\* the rest of a file rely on it while one definition is being typed.
ErrorsContained ==
    at = "parsed" /\ module.x =>
        LET P == Paragraphs(file)
            found == {Bare(module.defs[k]) : k \in 1 .. Len(module.defs)}
        IN (\A p \in P : Balanced(p)) =>
              \A p \in {p \in P : Defines(p)} :
                  LET alone == Parse(p)
                  IN ~alone.x => \A k \in 1 .. Len(alone.defs) : Bare(alone.defs[k]) \in found
=============================================================================
