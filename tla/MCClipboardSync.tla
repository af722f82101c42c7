----------------------------- MODULE MCClipboardSync -----------------------------
(* Instances of ClipboardSync for TLC. *)
EXTENDS ClipboardSync

CONSTANTS v1, v2

Text(v) == [kind |-> "Text", val |-> v]
Png(v) == [kind |-> "Png", val |-> v]

TextCopies == {{Text(v1)}, {Text(v2)}}
MixedCopies == {{Text(v1)}, {Text(v1), Png(v2)}}

TextLists == {{"UnicodeText"}}
MixedLists == {{"UnicodeText", "AnsiText"}, {"UnicodeText", "Png", "Other"}, {"Dib"}, {"Other"}}
TiffLists == {{"UnicodeText", "Tiff"}}
=============================================================================
