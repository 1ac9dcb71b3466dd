----------------------------- MODULE MCFirmware -----------------------------
(* Instances of FirmwareUpdate: an update with files and a later one       *)
(* without; and an update of which some parts have no checksum.            *)
EXTENDS FirmwareUpdate

CONSTANTS f, g

WithFiles == [version |-> 1, checksum |-> TRUE, files |-> <<f, g>>]
ImageOnly == [version |-> 2, checksum |-> TRUE, files |-> <<>>]
Unchecked == [version |-> 1, checksum |-> FALSE, files |-> <<f, g>>]

MCFile == {f, g}
MCMetadata == {WithFiles, ImageOnly}

MCSomeChecked == {g}
MCSomeMetadata == {Unchecked}
=============================================================================
