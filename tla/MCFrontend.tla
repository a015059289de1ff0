----------------------------- MODULE MCFrontend -----------------------------
(***************************************************************************)
(* Families of source files: every pair of an expression and a context to  *)
(* put it in, with and without parentheses around it, and statements,      *)
(* comments, patterns, types, definitions, imports and regular             *)
(* expressions.  Words are separated by blanks, except after "neg", which  *)
(* is written as a minus that touches its operand.                         *)
(***************************************************************************)
EXTENDS Frontend, Formatter, Literals

MCIdents == {"a", "b", "f", "x", "std", "pkg"}
MCDigits == {"0", "1", "2"}
MCComments == {"#1", "#2", "#3"}
MCSortNames == <<"a", "b", "f", "pkg", "std", "x">>

RECURSIVE Spaced(_)
Spaced(ws) ==
    IF ws = <<>> THEN <<>>
    ELSE (CASE ws[1] = "neg" -> <<"-">> [] ws[1] = "nl" -> <<"nl">> [] OTHER -> <<ws[1], " ">>) \o Spaced(Tail(ws))

InFun(ws) == <<"def", "f", "=", "fun", "a", "b", "{">> \o ws \o <<"}">>

Ops == {"|>", "or", "??", "and", "==", ">>", "-", "*", "**"}

Exprs ==
    {<<"a", op, "b">> : op \in Ops}
    \cup {<<"neg", "a">>, <<"!", "a">>, <<"f", "a">>, <<"a", ".", "x">>, <<"a", ".", "0">>,
          <<"a">>, <<"1", ".", "2">>, <<"{", "a", "}">>, <<"{", "...", "a", ",", "b", ":", "1", "}">>,
          <<"[", "a", ",", "...", "b", "]">>, <<"(", "a", ",", "b", ")">>, <<"(", ")">>,
          <<"fun", "x", "{", "x", "}">>, <<"if", "a", "{", "b", "}">>,
          <<"if", "a", "is", "x", "{", "b", "}", "else", "if", "b", "{", "}", "else", "{", "x", "}">>,
          <<"when", "a", "is", "x", "{", "b", "}", "else", "{", "}">>,
          <<"while", "a", "{", "b", "}">>, <<"let", "x", "=", "a">>, <<"defer", "f">>,
          <<"scope", "as", "x", "{", "a", "}">>, <<"manual", "scope", "{", "a", "}">>,
          <<"using", "std", "{", ".", "x", "}">>, <<"str", "$(", "a", ")$", "str">>,
          <<"built-in", "str">>, <<"tick", "a", "+", "tick">>}

\* What stands before and after an expression in a larger one.
Contexts ==
    {<<<<>>, <<op, "b">>>> : op \in Ops} \cup {<<<<"a", op>>, <<>>>> : op \in Ops}
    \cup {<<<<"neg">>, <<>>>>, <<<<"!">>, <<>>>>, <<<<"f">>, <<>>>>, <<<<>>, <<"a">>>>,
          <<<<"f">>, <<"b">>>>, <<<<>>, <<".", "x">>>>, <<<<>>, <<".", "1">>>>,
          <<<<"[">>, <<"]">>>>, <<<<"(", "a", ",">>, <<")">>>>, <<<<"{", "b", ":">>, <<"}">>>>,
          <<<<"{", "...">>, <<",", "b", "}">>>>, <<<<"if">>, <<"{", "a", "}">>>>,
          <<<<"if">>, <<"is", "x", "{", "a", "}">>>>, <<<<"while">>, <<"{", "a", "}">>>>,
          <<<<"when">>, <<"is", "x", "{", "a", "}">>>>, <<<<"let", "x", "=">>, <<>>>>,
          <<<<"defer">>, <<>>>>, <<<<"str", "$(">>, <<")$", "str">>>>, <<<<"fun", "{">>, <<"}">>>>,
          <<<<"try", "x", "=">>, <<"nl", "a">>>>}

Put(c, e) == c[1] \o e \o c[2]
Paren(e) == <<"(">> \o e \o <<")">>

\* Left out, because the formatter prints what the parser reads back as
\* something else: a coalescing to the left of `or`; a binding or cleanup to
\* the left of `|>` or as a condition; a loop as an argument.
Misread(c, e) ==
    \/ e = <<"a", "??", "b">> /\ c = <<<<>>, <<"or", "b">>>>
    \/ e[1] \in {"let", "defer"} /\ (c = <<<<>>, <<"|>", "b">>>> \/ c[1] \in {<<"if">>, <<"while">>})
    \/ e[1] = "while" /\ c[1] = <<"f">>

Nested ==
    {Spaced(InFun(Put(c, e))) : c \in Contexts, e \in Exprs}
    \cup UNION {{Spaced(InFun(Put(c, Paren(e)))) : e \in {e \in Exprs : ~Misread(c, e)}} : c \in Contexts}
-----------------------------------------------------------------------------
(* Comments at every place of these. *)

Bodies ==
    {<<"if", "a", "{", "nl", "b", "nl", "}", "else", "{", "nl", "x", "nl", "}">>,
     <<"try", "x", "=", "a", "nl", "nl", "try", "f", "nl", "b">>,
     <<"when", "a", "is", "x", "{", "nl", "b", "nl", "}", "else", "{", "nl", "}">>,
     <<"scope", "{", "nl", "f", "nl", "a", "nl", "}", "nl", "a", "|>", "b">>}

Collections ==
    {<<"let", "x", "=", "[", "nl", "a", ",", "nl", "b", "nl", "]", "nl", "nl", "f", "x">>,
     <<"f", "{", "a", ":", "1", ",", "nl", "b", "nl", "}", "nl", "x">>}

Modules ==
    {InFun(<<"nl">> \o b \o <<"nl">>) : b \in Bodies}
    \cup {<<"use", "std", "/", "b", "nl", "use", "std", "/", "a", "as", "b", "nl", "use", "a", "nl",
            "use", "pkg", "/", "x", "/", "a", "nl", "nl", "def", "a", "=", "1">>,
          <<"public", "enum", "a", "b", "{", "nl", "x", "b", "nl", "f", "(", "b", ",", "a", ")", "nl",
            "}", "nl", "alias", "x", "{", "a", "::", "b", "}">>,
          <<"trait", "a", "x", "{", "nl", "f", "::", "fun", "x", "->", "b", "nl", "b", "::", "x", "nl",
            "def", "f", "=", "fun", "x", "{", "nl", "b", "nl", "}", "nl", "}">>,
          <<"implement", "a", "x", "where", "(", "b", "x", ")", "{", "nl", "def", "f", "=", "1", "nl", "nl",
            "def", "a", "::", "x", "=", "f", "nl", "}", "nl", "opaque", "enum", "b", "{", "x", "}">>}

Insert(ws, k, c) == SubSeq(ws, 1, k) \o <<c, "nl">> \o SubSeq(ws, k + 1, Len(ws))

\* Two comments anywhere.  Inside a collection, only on lines of their own:
\* the formatter may print one that trails an item in the middle of a line.
Commented ==
    UNION {{Spaced(Insert(Insert(ws, j, "#1"), k, "#2")) : j \in 0 .. Len(ws), k \in 0 .. Len(ws)} : ws \in Modules}
    \cup UNION {{Spaced(InFun(<<"nl">> \o Insert(ws, k, "#1") \o <<"nl">>)) :
                    k \in {k \in 1 .. Len(ws) : ws[k] = "nl"}} : ws \in Collections}

Trailing == {Spaced(InFun(<<"[", "a", ",", "#1", "nl", "b", "nl", "]">>))}
Coalescing == {Spaced(InFun(<<"(", "a", "??", "b", ")", "or", "b">>))}
-----------------------------------------------------------------------------
(* Patterns, types and regular expressions, nested twice. *)

Patterns ==
    {<<"x">>, <<"_">>, <<"1">>, <<"1", ".", "2">>, <<"true">>, <<"str">>, <<"(", ")">>, <<"[", "]">>, <<"{", "}">>,
     <<"f", "x">>, <<"a", ".", "f">>, <<"std", ".", "a", ".", "f", "1">>, <<"(", "a", ",", "b", ")">>,
     <<"[", "a", ",", "...", "b", "]">>, <<"{", "a", ",", "b", ":", "1", "}">>, <<"[", "...", "]">>}
PatternContexts ==
    {<<<<>>, <<>>>>, <<<<"f">>, <<>>>>, <<<<"f">>, <<"_">>>>, <<<<"(">>, <<",", "nl", "x", ")">>>>,
     <<<<"[">>, <<",", "...", "]">>>>, <<<<"{", "a", ":">>, <<"nl", "b", "}">>>>, <<<<"a", ".", "f">>, <<"1">>>>}
Matched(ps) == <<"when", "a", "is">> \o ps \o <<"{", "a", "}", "else", "{", "}", "nl",
                 "if", "a", "is">> \o ps \o <<"{", "a", "}", "nl", "let">> \o ps \o <<"=", "a">>

Types ==
    {<<"a">>, <<"a", "b">>, <<"std", ".", "a">>, <<"std", ".", "a", "b", "x">>, <<"fun", "a", "->", "b">>,
     <<"fun", "->", "a">>, <<"(", ")">>, <<"(", "a", ",", "b", ")">>, <<"{", "}">>, <<"{", "x", "::", "a", "nl", "b", "::", "a", "}">>}
TypeContexts ==
    {<<<<>>, <<>>>>, <<<<"f">>, <<>>>>, <<<<"f">>, <<"a">>>>, <<<<"fun">>, <<"->", "a">>>>, <<<<"fun", "a", "->">>, <<>>>>,
     <<<<"(">>, <<",", "a", ")">>>>, <<<<"{", "x", "::">>, <<"}">>>>}

Regexes ==
    {<<"a">>, <<"str">>, <<"^">>, <<"a", "b">>, <<"a", "|", "b">>, <<"a", "*">>, <<"a", "{", "1", "}">>,
     <<"a", "{", "1", ",", "}">>, <<"a", "{", ",", "2", "}">>, <<"a", "{", "2", ",", "1", "}">>, <<"<", "x", ":", "a", ">">>}
RegexContexts ==
    {<<<<>>, <<>>>>, <<<<"str">>, <<"+">>>>, <<<<"b", "|", "nl">>, <<>>>>, <<<<"(">>, <<")", "?">>>>, <<<<"<", "x", ":">>, <<"a", ">">>>>}

Each(C, E) == {Put(c, e) : c \in C, e \in E} \cup {Put(c, Paren(e)) : c \in C, e \in E}

Forms ==
    {Spaced(InFun(Matched(ps))) : ps \in Each(PatternContexts, Patterns)}
    \cup {Spaced(<<"def", "x", "::">> \o t \o <<"=", "1", "nl", "enum", "f", "{", "x">> \o t \o <<"}", "nl", "alias", "b">> \o t) :
             t \in Each(TypeContexts, Types)}
    \cup {Spaced(InFun(<<"tick">> \o r \o <<"tick">>)) : r \in Each(RegexContexts, Regexes)}

-----------------------------------------------------------------------------
(* A definition that lacks one word, between two sound ones. *)

Definitions ==
    {<<"public", "def", "b", "::", "fun", "a", "->", "b", "where", "(", "a", "b", ")", "=", "fun", "x", "{", "nl",
       "if", "a", "is", "f", "x", "{", "nl", "b", "nl", "}", "nl", "[", "a", ",", "x", "]", "nl", "}">>,
     <<"enum", "b", "x", "{", "nl", "f", "(", "a", ",", "x", ")", "nl", "b", "nl", "}">>,
     <<"alias", "b", "{", "x", "::", "a", ",", "b", "::", "(", "a", ",", "b", ")", "}">>,
     <<"trait", "b", "x", "{", "nl", "f", "::", "fun", "x", "->", "b", "nl", "def", "f", "=", "fun", "x", "{", "b", "}", "nl", "}">>,
     <<"implement", "b", "x", "{", "nl", "def", "f", "=", "fun", "x", "{", "tick", "a", "+", "tick", "}", "nl",
       "remote", "def", "b", "=", "1", "nl", "}">>}

Without(ws, k) == SubSeq(ws, 1, k - 1) \o SubSeq(ws, k + 1, Len(ws))

Between(ws) ==
    Spaced(<<"def", "a", "=", "1", "nl", "nl">> \o ws \o <<"nl", "nl", "public", "def", "x", "=", "fun", "a", "{", "a", "}", "nl">>)

\* Every word but a brace dropped, or replaced by one that does not belong.
\* Left out: a definition that ends where its value should begin; the error is
\* then at the next definition, which recovery skips.
Broken ==
    UNION {LET ks == {k \in 1 .. Len(ws) : ws[k] \notin {"{", "}"}}
           IN {Between(Without(ws, k)) : k \in ks} \cup {Between([ws EXCEPT ![k] = w]) : k \in ks, w \in {")", "=", "is", "use"}}
           : ws \in Definitions}
Unfinished == {Between(<<"def", "b", "=">>)}
-----------------------------------------------------------------------------
(* Literals, character by character: a file of one literal is marked by its *)
(* first element.                                                           *)

RECURSIVE WordsOver(_, _)
WordsOver(S, n) == IF n = 0 THEN {<<>>} ELSE {<<>>} \cup {<<c>> \o w : c \in S, w \in WordsOver(S, n - 1)}

Quoted(ws) == {<<"quote">> \o w \o <<"quote">> : w \in ws} \cup {Triple \o w \o Triple : w \in ws}

\* Quotes and dollars behind backslashes, interpolations, nested strings.
Strings ==
    Quoted(WordsOver({"bs", "quote", "$", "(", ")", "n", "nl"}, 4))
    \cup Quoted({a \o <<"$", "(">> \o w \o <<")">> \o b : a \in {<<>>, <<"bs", "bs">>, <<"nl", "tab">>}, b \in {<<>>, <<"nl", "tab">>, <<"nl", " ">>},
                 w \in {<<"a">>, <<"quote", "a", "quote">>, Triple \o <<"a", "nl", "b">> \o Triple,
                       <<"quote", "$", "(", "a", "(", "b", ")", ")", "quote">>, <<"a", "(", "b", " ", "'", ")", "'", ")">>}})
\* Blocks: indentation, blank lines, backslashes.
Blocks ==
    {Triple \o <<"nl">> \o w \o <<"nl">> \o c \o Triple :
        w \in WordsOver({"tab", " ", "nl", "a", "bs"}, 4), c \in {<<>>, <<"tab">>, <<" ", "tab">>}}
BytesTexts == {<<"'">> \o w \o <<"'">> : w \in WordsOver({"bs", "'", "x", "0", "a", "nl"}, 4)}
Numbers ==
    WordsOver(Numerals \cap {"0", "1", "2"}, 4) \cup {<<"0", p>> \o w : p \in DOMAIN Prefixed, w \in WordsOver({"0", "1", "7", "A"}, 4)}
    \cup {<<c>> \o w : c \in {"0", "1", "9"}, w \in WordsOver({"0", "9", "s", "m", "d"}, 4)}

LiteralFiles == {<<"literal">> \o w : w \in (Strings \cup Blocks \cup BytesTexts \cup Numbers) \ {<<>>}}

ReadSource(text) ==
    LET m == IF text[1] = "literal" THEN ReadLiteral(Tail(text)) ELSE ParseModule(text) IN m
WriteSource(text, m, columns) ==
    LET written == IF text[1] = "literal" THEN <<"literal">> \o WriteLiteral(m) ELSE FormatText(text, m, columns) IN written

MCUnitSizes == <<96, 48, 24, 12, 6, 2, 1>>
MCFiles == Nested \cup Commented \cup Forms \cup Broken \cup LiteralFiles
MCWidths == {6, 40}
=============================================================================
