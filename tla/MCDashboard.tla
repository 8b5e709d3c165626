----------------------------- MODULE MCDashboard -----------------------------
(* Dashboard for TLC: small instances of the pages.                         *)
EXTENDS Dashboard

\* A checkout with a directory and an empty one; files are not opened, and commits
\* come one after the other.
Tree == [Paths |-> {<<"b">>, <<"d", "a">>}, FirstFiles |-> {<<"d", "a">>}, EmptyFolders |-> {<<"o">>},
         Binary |-> {<<"b">>, <<"d", "a">>}, Prompted |-> {"b"},
         MaxDepth |-> 1, MaxReads |-> 0, MaxCommits |-> 1, MaxAbandoned |-> 1]

\* A directory of two files that are edited and deleted.
Editor == [Paths |-> {<<"a">>, <<"b">>}, FirstFiles |-> {<<"a">>, <<"b">>}, EmptyFolders |-> {},
           Binary |-> {}, Prompted |-> {},
           MaxDepth |-> 0, MaxReads |-> 1, MaxCommits |-> 2, MaxAbandoned |-> 0]

\* One file, and a commit beside another that was under way when the page was left.
Left == [Paths |-> {<<"a">>, <<"b">>}, FirstFiles |-> {<<"a">>}, EmptyFolders |-> {},
         Binary |-> {<<"a">>, <<"b">>}, Prompted |-> {"b"},
         MaxDepth |-> 0, MaxReads |-> 0, MaxCommits |-> 2, MaxAbandoned |-> 1]

\* Of the log's selections one shows a part of the other.
MCShows == [s \in {"all", "stderr"} |-> IF s = "all" THEN {"out", "err"} ELSE {"err"}]

\* An error of today and one of last week, without the badge's polls;
ErrorsPage == [Sigs |-> {"today", "earlier"}, Old |-> {"earlier"},
               MaxSeen |-> 1, MaxAcks |-> 2, MaxPolls |-> 0]

\* an error that occurs again after its acknowledgement, or in the same second,
Recurring == [Sigs |-> {"today"}, Old |-> {}, MaxSeen |-> 2, MaxAcks |-> 2, MaxPolls |-> 0]

\* and the badge with acknowledgements one at a time.
Badge == [Sigs |-> {"today"}, Old |-> {}, MaxSeen |-> 1, MaxAcks |-> 1, MaxPolls |-> 2]

\* Notifications: a channel, with and without a secret, and no cooldown given;
ChannelsPage == [Channels |-> {"c"}, Rules |-> {}, Types |-> {"slack"}, Secrets |-> {TRUE, FALSE},
                 Cooldowns |-> {0}, DefaultCooldown |-> 10, MaxReloads |-> 1, MaxWrites |-> 1]

\* a channel and a rule about it;
RulesPage == [Channels |-> {"c"}, Rules |-> {"r"}, Types |-> {"slack"}, Secrets |-> {TRUE},
              Cooldowns |-> {}, DefaultCooldown |-> 10, MaxReloads |-> 1, MaxWrites |-> 1]

\* and writes and reloads that overtake each other.
SettingsPage == [Channels |-> {}, Rules |-> {}, Types |-> {}, Secrets |-> {},
                 Cooldowns |-> {20}, DefaultCooldown |-> 10, MaxReloads |-> 2, MaxWrites |-> 2]

MCCheckouts == [tree |-> Tree, editor |-> Editor, left |-> Left]
MCErrorLists == [page |-> ErrorsPage, recurring |-> Recurring, badge |-> Badge]
MCForms == [channels |-> ChannelsPage, rules |-> RulesPage, settings |-> SettingsPage]
=============================================================================
