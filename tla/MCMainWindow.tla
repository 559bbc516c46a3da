---------------------------- MODULE MCMainWindow ----------------------------
EXTENDS MainWindow

CONSTANTS g1, g2, NoBoot

\* Two games: one to run and one to choose while it runs.
MCGames == {g1, g2}

\* Enough user actions to boot, pause, stop, choose another game, change
\* the settings, join NetPlay and close, in most orders.
MCMaxActions == 6

====
