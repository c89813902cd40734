-------------------------------- MODULE Sizes --------------------------------
(* The sizes an image is kept and asked for in.                              *)

SizeOriginal == "original"
Size100 == "100x100"
Size300 == "300x300"

ThumbnailSizes == {Size100, Size300}
AllowedSizes == {SizeOriginal} \cup ThumbnailSizes
=============================================================================
