----------------------------- MODULE MCPackSync -----------------------------
(***************************************************************************)
(* PackSync with a mod, a folder, options.txt, which a later manifest may   *)
(* name by another key, and a mod of the user's own; seven histories.       *)
(***************************************************************************)
EXTENDS PackSync, TLC

CONSTANTS jar, conf, opts, keep, jar1, jar2, conf1, conf2, conf3, opts1, mine1
CONSTANTS pJar, pConf, pOpts, pExtra

MCKey == {jar, conf, opts, keep}
MCPath == {pJar, pConf, pOpts, pExtra}
MCWhere == jar :> pJar @@ conf :> pConf @@ opts :> pOpts @@ keep :> pOpts
MCFolder == {conf}
MCMods == {pJar, pExtra}
MCUserData == {pOpts}
MCContent == {jar1, jar2, conf1, conf2, conf3, opts1}

\* Of the folders only; conf3 is conf1 without a file.
MCListing ==
  conf1 :> {<<"a", 1>>, <<"b", 1>>} @@ conf2 :> {<<"a", 2>>, <<"b", 1>>}
  @@ conf3 :> {<<"a", 1>>} @@ mine1 :> {<<"a", 3>>}
  @@ jar1 :> {} @@ jar2 :> {} @@ opts1 :> {}

File(n, c) == [at |-> n, of |-> c, gift |-> FALSE]
Gift(c) == [at |-> 1, of |-> c, gift |-> TRUE]
Case(man, touch, spared, play, asks) ==
  [man |-> man, touch |-> touch, spared |-> spared, play |-> play, goes |-> play,
   asks |-> asks]
Both == jar :> File(1, jar1) @@ conf :> File(1, conf1)

\* Mod or folder changes, and two sessions are asked for at once.
NewMod == Case(<<jar :> File(1, jar1), jar :> File(2, jar2)>>, {}, {}, FALSE, 2)
NewFolder == Case(<<conf :> File(1, conf1), conf :> File(2, conf2)>>, {}, {}, FALSE, 2)

\* Both change, with one session, and the user changes the folder or the mod.
Changed == Case(<<Both, jar :> File(2, jar2) @@ conf :> File(2, conf2)>>,
                {pConf, pJar}, {}, FALSE, 1)

\* A file of the folder is dropped.
Trimmed == Case(<<conf :> File(1, conf1), conf :> File(2, conf3)>>, {}, {}, FALSE, 1)

\* A mod is dropped; the user has one of his own, on the whitelist.
Dropped == Case(<<Both, conf :> File(1, conf1)>>, {pExtra}, {pExtra}, FALSE, 1)

\* A file, under a new key, and a folder become gifts.
ToGift == Case(<<opts :> File(1, opts1) @@ conf :> File(1, conf1),
                 keep :> Gift(opts1) @@ conf :> Gift(conf1)>>,
               {pOpts, pConf}, {}, FALSE, 1)

\* The game is started while the build may be removed.
Played == Case(<<conf :> File(1, conf1)>>, {}, {}, TRUE, 2)

TrimmedOnly == {Trimmed}
MCCases == {NewMod, NewFolder, Changed, Trimmed, Dropped, ToGift, Played}
=============================================================================
