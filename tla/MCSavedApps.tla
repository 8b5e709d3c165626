---------------------------- MODULE MCSavedApps ----------------------------
\* Instances of SavedApps for TLC.
EXTENDS SavedApps, TLC

\* No step tells two savers or two apps apart; inodes are numbers and stay as
\* they are.
Symmetry == Permutations(Savers) \cup Permutations(Names)
=============================================================================
