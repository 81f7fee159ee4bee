---------------------------- MODULE MC_ContentType ----------------------------
(* Header values of up to four tokens: enough for padding on both sides of  *)
(* the media type followed by a parameter separator.                        *)
EXTENDS ContentType, TLC

CONSTANTS b1, none_header

MC_Bodies == {b1}

=============================================================================
