-------------------------- MODULE MCFirmwarePublish --------------------------
(* Two administrators publishing two images at once, two downloads.         *)
EXTENDS FirmwarePublish, TLC

CONSTANTS p1, p2, r1, r2, i1, i2

MCPublishers == {p1, p2}
MCReaders    == {r1, r2}
MCImages     == {i1, i2}

\* Publishers, images and readers are interchangeable in every action and property.
FirmwareSymmetry == Permutations(MCPublishers) \cup Permutations(MCImages)
                    \cup Permutations(MCReaders)
=============================================================================
