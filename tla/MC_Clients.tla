----------------------------- MODULE MC_Clients -----------------------------
(***************************************************************************)
(* What the users of a server and of the shells see, checked in one run:   *)
(* the initial state chooses which part moves, the others stay as they     *)
(* began.                                                                  *)
(*                                                                         *)
(* audit: two sessions, two subscribers (one must be able to fail before   *)
(* the other) and a client that pages by one entry while three arrive.     *)
(* pipelines: command lines.  repl, terminal: the TypeScript shell.        *)
(* browser: the dashboard's files.  editor: the editor extension.          *)
(***************************************************************************)
EXTENDS AuditTrail, CommandLine, Repl, Terminal, VfsBrowser, Extension

VARIABLE part

CONSTANTS s1, s2, c1, c2

MCSymmetry == Permutations(Client) \cup Permutations(Session) \cup Permutations(File)

Do(name, args) == [name |-> name, args |-> args]
MCListing == <<Do("ls", <<>>)>>
MCPipelines ==
  {MCListing,
   <<Do("ls", <<>>), Do("filter", <<<<">", "=">>>>), Do("take", <<1>>)>>,
   <<Do("ls", <<>>), Do("filter", <<<<"!", "=">>>>), Do("first", <<>>)>>,
   <<Do("ls", <<>>), Do("skip", <<1>>), Do("uniq", <<>>)>>,
   <<Do("cat", <<"p">>), Do("tojson", <<"p">>)>>,
   <<Do("rm", <<"p">>), Do("count", <<>>)>>,
   <<Do("rm", <<"p">>), Do("grep", <<>>)>>,
   <<Do("write", <<"p">>)>>, <<Do("filter", <<>>)>>, <<Do("cd", <<"p">>)>>,
   <<Do("clear", <<>>)>>, <<Do("exit", <<>>)>>}

clientVars == <<auditVars, commandVars, replVars, terminalVars, browserVars, extensionVars>>

ClientsInit ==
  /\ part \in {"audit", "pipelines", "repl", "terminal", "browser", "editor"}
  /\ AuditInit /\ ReplInit /\ TerminalInit /\ BrowserInit
  /\ ExtensionInit /\ (part # "editor" => serving)
  /\ CommandLineInit
  /\ part # "pipelines" => pipeline = MCListing /\ shellCwd = CHOOSE d \in Folder : TRUE

ClientsNext ==
  /\ UNCHANGED part
  /\ \/ part = "audit" /\ AuditNext
        /\ UNCHANGED <<commandVars, replVars, terminalVars, browserVars, extensionVars>>
     \/ part = "pipelines" /\ PipelineNext
        /\ UNCHANGED <<auditVars, replVars, terminalVars, browserVars, extensionVars>>
     \/ part = "repl" /\ ReplNext
        /\ UNCHANGED <<auditVars, commandVars, terminalVars, browserVars, extensionVars>>
     \/ part = "terminal" /\ TerminalNext
        /\ UNCHANGED <<auditVars, commandVars, replVars, browserVars, extensionVars>>
     \/ part = "browser" /\ BrowserNext
        /\ UNCHANGED <<auditVars, commandVars, replVars, terminalVars, extensionVars>>
     \/ part = "editor" /\ ExtensionNext
        /\ UNCHANGED <<auditVars, commandVars, replVars, terminalVars, browserVars>>

ClientsSpec == ClientsInit /\ [][ClientsNext]_<<part, clientVars>>
-----------------------------------------------------------------------------
\* Every part keeps to its types.
ClientsTypeOK ==
  AuditTypeOK /\ CommandLineTypeOK /\ ReplTypeOK /\ TerminalTypeOK /\ BrowserTypeOK /\ ExtensionTypeOK

\* The shells run what was checked: a pipeline changes things with its first command
\* only, a line runs on its own verdict, the prompt's colour is about the text that is
\* shown, and what was left open by one text is not counted for the next.
ShellIsHonest ==
  /\ PipelineIsHonest /\ CwdsTogether
  /\ VerdictIsOwn /\ LatestBinding
  /\ VerdictIsOfShown /\ DepthIsOfText

\* The dashboard shows and saves the file that is selected, and the editor leaves no
\* session behind, however their requests and the user overtake each other.
ViewsKeepUp == SaveGoesHome /\ ShowsOwnSaves /\ NoSessionLeft
=============================================================================
