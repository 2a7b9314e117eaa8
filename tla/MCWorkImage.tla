---------------------------- MODULE MCWorkImage -----------------------------
(***************************************************************************)
(* Scenes for WorkImage.  A complete rootfs.img is of size 2, or 4 for that *)
(* of a larger system; a part of one is of size 1, an image made of the     *)
(* smaller one of size 3.                                                   *)
(***************************************************************************)
EXTENDS WorkImage

CONSTANTS e1, e2

Scene(o, l, overlap, images, imports, kills, losses) ==
  [own |-> o, legacy |-> l, overlap |-> overlap, images |-> images,
   imports |-> imports, fails |-> 2, kills |-> kills, losses |-> losses]

Empty == File("own", 0, "holes", TRUE)
Short == File("own", 1, "holes", TRUE)
Whole == File("own", 3, "whole", TRUE)
OldShort == File("legacy", 1, "holes", TRUE)
OldWhole == File("legacy", 3, "whole", TRUE)

\* The scenes in which nothing is lost.  A machine is reopened while its
\* worker is busy, unless something is in the way that has to be removed.
MCScenes ==
  {Scene(None, None, TRUE, {2}, 0, 2, 1),
   Scene(None, None, TRUE, {2}, 2, 1, 0),
   Scene(Whole, None, TRUE, {2}, 2, 1, 0),
   Scene(Whole, OldWhole, TRUE, {2}, 1, 1, 1),
   Scene(Short, None, FALSE, {2}, 0, 2, 1)}
  \cup {Scene(o, l, FALSE, {2}, 0, 2, 1) :
          o \in {None, Empty}, l \in {OldShort, OldWhole}}

\* The scenes of the disagreements.
EmptyScenes == {Scene(Empty, None, FALSE, {2}, 0, 0, 0)}
LargerScenes == {Scene(Whole, None, FALSE, {2, 4}, 1, 0, 0)}
RaceScenes == {Scene(Short, None, TRUE, {2}, 0, 0, 0)}
ImportScenes == {Scene(Short, None, FALSE, {2}, 1, 0, 0)}
LossScenes == {Scene(None, None, FALSE, {2}, 0, 0, 1)}

\* What is proved of careful scenes is of all the first, and of none of the
\* three in which a finished image is lost or an unfinished one is ready.
ASSUME MCScenesAreCareful ==
  /\ \A s \in MCScenes : Careful(s)
  /\ \A s \in LargerScenes \cup RaceScenes \cup ImportScenes : ~Careful(s)
=============================================================================
