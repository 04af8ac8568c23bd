---------------------------- MODULE MCSharedBuild ----------------------------
\* Two files and two folders: a copy can be half done, and a second
\* installation has a folder to go to.
EXTENDS SharedBuild
MCDsts == 1..2
==============================================================================
