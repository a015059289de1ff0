----------------------------- MODULE MCTooling -----------------------------
(* The editor works on a test of Mid, Mid, and Low, which Mid imports; the *)
(* development server on a server Main, a Client and an Api they share.    *)
EXTENDS Tooling

Source(uses, gives, wants) ==
    [parses |-> TRUE, uses |-> uses, gives |-> gives, wants |-> wants, hidden |-> FALSE,
     lint |-> FALSE, remote |-> FALSE, live |-> {uses[i][2] : i \in DOMAIN uses}]

UseMid == <<"mid", "mid">>
UseLow == <<"low", "low">>

TestText == Source(<<UseMid>>, "str", "int")
MidText == [Source(<<UseLow>>, "imported", "any") EXCEPT !.hidden = TRUE]
LowText == Source(<<>>, "int", "unused")

\* Low may change its type, import Mid back, or be gone.
MCTexts(m) ==
    CASE m = "mid.test" -> {TestText}
      [] m = "mid" -> {MidText}
      [] m = "low" -> {LowText, [LowText EXCEPT !.gives = "str"],
                       Source(<<UseMid>>, "int", "unused"), NoText}
      [] OTHER -> {Source(<<>>, "int", "unused")}

MCUnsaved(m) ==
    CASE m = "mid.test" -> {TestText, [Source(<<UseMid, <<"low", "mid">>>>, "str", "int") EXCEPT !.parses = FALSE]}
      [] m = "mid" -> {MidText, [Source(<<>>, "str", "unused") EXCEPT !.lint = TRUE]}
      [] m = "low" -> {LowText, [LowText EXCEPT !.gives = "str"]}

MCDocs == {"mid.test", "mid", "low"}

\* The documents a session may open: no chain of imports leads from an open text
\* through another module to one of them.
MCSessions == {{"mid.test", "mid"}, {"mid", "low"}}

\* The test and, below the module it tests, Low.
MCSessionsAcross == {{"mid.test", "low"}}

MCTestOf == [m \in {"mid.test"} |-> "mid"]
MCStd == [m \in {"std/option", "std/sys/db", "std/web/dom", "std/web/rpc"} |-> [type |-> "str", hidden |-> FALSE]]
MCAuto == <<<<"std/option", "option">>>>
MCTier == [m \in DOMAIN MCStd \ {"std/option"} |-> IF m = "std/sys/db" THEN "sys" ELSE "web"]

UseApi == <<"api", "api">>
UseDom == <<"std/web/dom", "dom">>
UseDb == <<"std/sys/db", "db">>

\* A project that uses the database in a remote definition's body.
Good == [m \in Names |->
    CASE m = "main" -> Source(<<UseApi, UseDb>>, "int", "any")
      [] m = "client" -> Source(<<UseApi, UseDom>>, "int", "any")
      [] m = "api" -> [Source(<<UseDb>>, "int", "unused") EXCEPT !.remote = TRUE, !.live = {}]
      [] OTHER -> NoText]

MCProject(kind) ==
    CASE kind \in {"wired", "plain"} -> Good
      [] kind = "broken" -> [Good EXCEPT !["api"].parses = FALSE]
      [] kind = "leak" -> [Good EXCEPT !["api"].live = {"db"}]

(* The server's maps, read as the feedback an editor may rely on. *)
Held(d) == [diags |-> published[d], index |-> index[d]]

Editor == INSTANCE Feedback WITH
    text <- document_map,
    shown <- [d \in Docs |-> Held(d)],
    dirty <- {d \in Docs : revisions[d] \in Sleeping(d)},
    Nothing <- [diags |-> {}, index |-> NoIndex],
    Texts <- Unsaved,
    Verdict <- ColdFeedback

(* The language server implements Feedback: whatever the order of edits,   *)
(* closes, file writes and waking tasks, an analysis that reuses cached    *)
(* modules shows exactly what a compile from nothing would, a closed       *)
(* document shows nothing, and the last edit is always followed by         *)
(* feedback for it.  True of MCSessions; the code breaks it in             *)
(* MCSessionsAcross: deps_reanalyzed forgets that Low changed, since it    *)
(* was analyzed in an earlier pass, as that pass's own document.           *)
EditorFeedback == Editor!Spec
=============================================================================
