------------------------------ MODULE Tooling ------------------------------
(***************************************************************************)
(* The developer's tools: the language server of the editor and the        *)
(* development server.  They are separate processes that share only the    *)
(* compiler's code and the files on disk, so a session follows one.        *)
(***************************************************************************)
EXTENDS Lsp, Dev

VARIABLE tool    \* the tool this session follows

toolVars == <<lspVars, devVars, tool>>

ToolingInit ==
    /\ tool \in {"editor", "dev"}
    /\ LspInit
    /\ IF tool = "dev" THEN DevInit ELSE DevIdle
    /\ tool # "editor" => /\ disk = [m \in Names |-> CHOOSE t \in Texts(m) : t # NoText]
                          /\ session = CHOOSE s \in Sessions : TRUE

ToolingNext ==
    /\ \/ tool = "editor" /\ LspNext /\ UNCHANGED devVars
       \/ tool = "dev" /\ DevNext /\ UNCHANGED lspVars
    /\ UNCHANGED tool

ToolingSpec ==
    /\ ToolingInit /\ [][ToolingNext]_toolVars
    /\ LspFairness
    /\ DevFairness
=============================================================================
