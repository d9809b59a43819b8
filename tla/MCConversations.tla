--------------------------- MODULE MCConversations --------------------------
(***************************************************************************)
(* One instance for TLC of the modules about threads, processes and the    *)
(* connections between them.  The components do not share state: each      *)
(* behaviour is one of the component that `world` names, the others stay   *)
(* in their initial state, and the properties are those of the components, *)
(* which the modules extended state under the names used here.             *)
(***************************************************************************)
EXTENDS LinearCache, DaemonSocket, BoardFeed, IssuePage, CardTabs, PaneWatch, ManagedLaunch,
        BoardPanes, TLC

VARIABLES
  world                                                                   \* which one moves

cacheVars == vars

\* Every pane is of one Herdr session.
OneSession == [p \in Panes |-> "a"]
\* Pane 1 is in both sessions; only the first opens more.
BornSizes == <<3, 1>>

\* Connections are alike, and so are the agents that ask for boards.
Symmetry == Permutations(Focusers) \cup Permutations(Agents)

TalkInit ==
  /\ world \in {"cache", "feed", "page", "tabs", "watch", "socket", "launch", "panes"}
  /\ Init /\ FeedInit /\ PageInit
  /\ TabInit /\ WatchInit /\ SocketInit /\ LaunchInit
  /\ PanesInit
  /\ world # "tabs" => rows = <<>>
  /\ world # "cache" => binding = CHOOSE p \in Projects : TRUE
  /\ world # "feed" => mode = "board"
  /\ world # "page" => pane = "board"
  /\ world # "launch" => plan = CHOOSE p \in Plans : TRUE

TalkNext ==
  \/ /\ world = "cache" /\ Next
     /\ UNCHANGED <<world, feedVars, pageVars, tabVars, watchVars, socketVars, launchVars,
                   paneVars>>
  \/ /\ world = "feed" /\ FeedNext
     /\ UNCHANGED <<world, cacheVars, pageVars, tabVars, watchVars, socketVars, launchVars,
                   paneVars>>
  \/ /\ world = "page" /\ PageNext
     /\ UNCHANGED <<world, cacheVars, feedVars, tabVars, watchVars, socketVars, launchVars,
                   paneVars>>
  \/ /\ world = "tabs" /\ TabNext
     /\ UNCHANGED <<world, cacheVars, feedVars, pageVars, watchVars, socketVars, launchVars,
                   paneVars>>
  \/ /\ world = "watch" /\ WatchNext
     /\ UNCHANGED <<world, cacheVars, feedVars, pageVars, tabVars, socketVars, launchVars,
                   paneVars>>
  \/ /\ world = "socket" /\ SocketNext
     /\ UNCHANGED <<world, cacheVars, feedVars, pageVars, tabVars, watchVars, launchVars,
                   paneVars>>
  \/ /\ world = "launch" /\ LaunchNext
     /\ UNCHANGED <<world, cacheVars, feedVars, pageVars, tabVars, watchVars, socketVars,
                   paneVars>>
  \/ /\ world = "panes" /\ PanesNext
     /\ UNCHANGED <<world, cacheVars, feedVars, pageVars, tabVars, watchVars, socketVars,
                   launchVars>>

TalkSpec ==
  TalkInit /\ [][TalkNext]_<<world, cacheVars, feedVars, pageVars, tabVars, watchVars,
                         socketVars, launchVars, paneVars>>

=============================================================================
