------------------------------- MODULE MCTab -------------------------------
(* One tab of one user, a part of it at a time: the pane and composer of     *)
(* two topics and two direct conversations, the encrypted messages of one    *)
(* channel, one of them the user's own, or the list, with a conversation     *)
(* with a user, one with a bot and a topic; or an administrator's tab, with  *)
(* the page of two users, the administrator one of them, or of two bots.     *)
EXTENDS ChatWindow, Bubbles, ChatList, UserConsole, BotConsole
CONSTANTS t1, t2, d1, d2, m1, m2, a1, a2, g1, x1, x2, v1, v2
VARIABLE part  \* of the tab, which this behaviour is about
MCChatLists == {{t1, t2}, {t1, d1}, {d1, d2}}

MCSearches == {{a1, a2}}
MCFilters == {{x1}, {x1, x2}}

tabVars == <<windowVars, bubbleVars, listVars, userVars, botVars, part>>

TabInit ==
  /\ part \in {"window", "bubbles", "list", "users", "bots"}
  /\ WindowInit /\ BubblesInit /\ ListInit /\ UserInit /\ BotInit
  /\ part # "window" => chats = {t1, t2}
  /\ part # "users" => DOMAIN accounts = {a1} /\ accounts[a1].role = g1
  /\ IF part = "bots" THEN x1 \in DOMAIN bots /\ \A k \in Fields : bots[x1].f[k] = v1 ELSE bots = <<>>

TabNext ==
  /\ UNCHANGED part
  /\ \/ part = "window" /\ WindowNext /\ UNCHANGED <<bubbleVars, listVars, userVars, botVars>>
     \/ part = "bubbles" /\ BubblesNext /\ UNCHANGED <<windowVars, listVars, userVars, botVars>>
     \/ part = "list" /\ ListNext /\ UNCHANGED <<windowVars, bubbleVars, userVars, botVars>>
     \/ part = "users" /\ UserNext /\ UNCHANGED <<windowVars, bubbleVars, listVars, botVars>>
     \/ part = "bots" /\ BotNext /\ UNCHANGED <<windowVars, bubbleVars, listVars, userVars>>

TabSpec == TabInit /\ [][TabNext]_tabVars
=============================================================================
