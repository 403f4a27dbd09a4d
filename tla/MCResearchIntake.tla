-------------------------- MODULE MCResearchIntake --------------------------
(* ResearchIntake with the manifests that meet each of its rules, for TLC. *)
EXTENDS ResearchIntake

Manifest(locator, bytes, author, sound) ==
    [locator |-> locator, bytes |-> bytes, author |-> author, sound |-> sound]

Original == Manifest("l1", "b1", "a1", TRUE)
Revised  == Manifest("l1", "b2", "a1", TRUE)    \* the locator with other bytes
Mirror   == Manifest("l2", "b1", "a2", TRUE)    \* the bytes elsewhere
Sibling  == Manifest("l3", "b3", "a1", TRUE)    \* another paper of the author
Unfit    == Manifest("l4", "b4", "a3", FALSE)   \* fails the manifest controls

AllManifests == {Original, Revised, Mirror, Sibling, Unfit}
OnlyOriginal == {Original}
WithMirror   == {Original, Mirror}
=============================================================================
